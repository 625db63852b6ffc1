------------------------------ MODULE UserAdmin ------------------------------
(***************************************************************************)
(* UserAdminService: the five operations administrators perform on other   *)
(* users, run by concurrent HTTP requests.  Each request is one            *)
(* transaction, and each of its SQL statements that may wait is one step:  *)
(*                                                                         *)
(*   admitted -> locking -> deciding -> writing     GRANT, REVOKE, RESUME  *)
(*   admitted -> locking -> deciding -> suspending -> revoking     SUSPEND *)
(*   admitted -> lockingAttempt -> deciding -> writing               RESET *)
(*                                                                         *)
(* A request that was refused, ran out of patience (Busy) or committed     *)
(* frees its slot, and a new request may take it.  Accounts composes these *)
(* requests with those of Sessions.                                        *)
(***************************************************************************)
EXTENDS InternalDb, Sequences

(***************************************************************************)
(* RejectionPolicy: which of the five operations is refused, and for which *)
(* reason, given the facts read about its target.                          *)
(***************************************************************************)
AdminOperation == {"GRANT_ADMIN", "REVOKE_ADMIN", "SUSPEND", "RESUME", "RESET_LOGIN_FAILURES"}

\* The order of declaration is the order of judgement.
RejectionReasons ==
  <<"USER_NOT_FOUND", "SELF_OPERATION", "TARGET_SUSPENDED", "NO_CHANGE", "LAST_ACTIVE_ADMIN">>

OperationFacts ==
  [targetExists : BOOLEAN, targetIsOperator : BOOLEAN, targetSuspended : BOOLEAN,
   targetAdmin : BOOLEAN, targetResettable : BOOLEAN, leavesNoActiveAdmin : BOOLEAN]

TargetMissing ==
  [targetExists |-> FALSE, targetIsOperator |-> FALSE, targetSuspended |-> FALSE,
   targetAdmin |-> FALSE, targetResettable |-> FALSE, leavesNoActiveAdmin |-> FALSE]

Applies(op, reason) ==
  \/ reason \in {"USER_NOT_FOUND", "NO_CHANGE"}
  \/ reason = "SELF_OPERATION" /\ op # "RESET_LOGIN_FAILURES"
  \/ reason = "TARGET_SUSPENDED" /\ op \in {"GRANT_ADMIN", "REVOKE_ADMIN"}
  \/ reason = "LAST_ACTIVE_ADMIN" /\ op \in {"REVOKE_ADMIN", "SUSPEND"}

NoChange(op, facts) ==
  \/ op = "GRANT_ADMIN" /\ facts.targetAdmin
  \/ op = "REVOKE_ADMIN" /\ ~facts.targetAdmin
  \/ op = "SUSPEND" /\ facts.targetSuspended
  \/ op = "RESUME" /\ ~facts.targetSuspended
  \/ op = "RESET_LOGIN_FAILURES" /\ ~facts.targetResettable

Holds(op, reason, facts) ==
  \/ reason = "USER_NOT_FOUND" /\ ~facts.targetExists
  \/ reason = "SELF_OPERATION" /\ facts.targetIsOperator
  \/ reason = "TARGET_SUSPENDED" /\ facts.targetSuspended
  \/ reason = "NO_CHANGE" /\ NoChange(op, facts)
  \/ reason = "LAST_ACTIVE_ADMIN" /\ facts.leavesNoActiveAdmin

\* The first reason that applies and holds, or "NONE".
Decide(op, facts) ==
  LET hits == {i \in DOMAIN RejectionReasons :
                 Applies(op, RejectionReasons[i]) /\ Holds(op, RejectionReasons[i], facts)}
  IN  IF hits = {} THEN "NONE"
      ELSE RejectionReasons[CHOOSE i \in hits : \A j \in hits : i <= j]

-----------------------------------------------------------------------------
CONSTANTS
  AdminReqs,    \* concurrent requests to the user-administration API
  Operations,   \* the operations clients send, a subset of AdminOperation
  Missing       \* ids clients may name that no row of users has

ASSUME AdminReqsAssumption == AdminReqs \subseteq Txns
ASSUME OperationsAssumption == Operations \subseteq AdminOperation
ASSUME MissingAssumption == Missing \cap Users = {}

VARIABLES
  pc,        \* where each request stands
  op,        \* its operation
  actor,     \* the administrator who sent it
  target,    \* the user it is about
  want,      \* user rows its SELECT ... FOR UPDATE has still to visit
  toRevoke,  \* token rows its bulk UPDATE has still to visit
  seen       \* history: tokens the target held active when the request began

adminVars == <<pc, op, actor, target, want, toRevoke, seen>>

\* The operations that lock the administrators' rows (adminRowsOperation).
RowsOps == {"GRANT_ADMIN", "REVOKE_ADMIN", "SUSPEND"}

PCs == {"idle", "admitted", "locking", "lockingAttempt", "deciding",
        "suspending", "revoking", "writing"}

AdminTypeOK ==
  /\ pc \in [AdminReqs -> PCs]
  /\ op \in [AdminReqs -> Operations \cup {"NONE"}]
  /\ actor \in [AdminReqs -> Users \cup {Null}]
  /\ target \in [AdminReqs -> Users \cup Missing \cup {Null}]
  /\ want \in [AdminReqs -> SUBSET Users]
  /\ toRevoke \in [AdminReqs -> SUBSET Tokens]
  /\ seen \in [AdminReqs -> SUBSET Tokens]

AdminInit ==
  /\ pc = [r \in AdminReqs |-> "idle"]
  /\ op = [r \in AdminReqs |-> "NONE"]
  /\ actor = [r \in AdminReqs |-> Null]
  /\ target = [r \in AdminReqs |-> Null]
  /\ want = [r \in AdminReqs |-> {}]
  /\ toRevoke = [r \in AdminReqs |-> {}]
  /\ seen = [r \in AdminReqs |-> {}]

-----------------------------------------------------------------------------
\* The slot of request r is free again, and nothing of it is remembered.
Forget(r) ==
  /\ pc' = [pc EXCEPT ![r] = "idle"]
  /\ op' = [op EXCEPT ![r] = "NONE"]
  /\ actor' = [actor EXCEPT ![r] = Null]
  /\ target' = [target EXCEPT ![r] = Null]
  /\ want' = [want EXCEPT ![r] = {}]
  /\ toRevoke' = [toRevoke EXCEPT ![r] = {}]
  /\ seen' = [seen EXCEPT ![r] = {}]

\* The transaction of r ends without a change: a refusal, which commits
\* nothing, and Busy, which rolls back what was written, look the same here.
EndUnchanged(r) == Forget(r) /\ ReleaseAll(r) /\ UNCHANGED <<tables, now>>

Goto(r, label) == pc' = [pc EXCEPT ![r] = label]

\* A request passes the authorization of /api/admin/**, which reads the
\* sender's row without a lock, and waits for its transaction to start.
Admit(r) ==
  /\ pc[r] = "idle"
  /\ \E o \in Operations, a \in ActiveAdmins, u \in Users \cup Missing :
       /\ op' = [op EXCEPT ![r] = o]
       /\ actor' = [actor EXCEPT ![r] = a]
       /\ target' = [target EXCEPT ![r] = u]
       /\ seen' = [seen EXCEPT ![r] = ActiveTokensOf(u)]
  /\ Goto(r, "admitted")
  /\ UNCHANGED <<dbVars, want, toRevoke>>

\* Mutant: only the target's row is locked, not the administrators' rows.
MutTargetRowOnly(r) == {target[r]} \cap Users

\* Mutant: RESUME takes no row lock at all.
MutResumeUnlocked(r) ==
  IF op[r] = "RESUME" THEN {} ELSE {u \in Users : users[u].admin \/ u = target[r]}

\* Mutant: an unknown target is locked like a known one.
MutLockMissing(r) ==
  IF op[r] = "RESUME" THEN {target[r]} ELSE {u \in Users : users[u].admin} \cup {target[r]}

\* The rows the locking query of r returns if it reads only what is committed
\* when it starts; it visits them in the order of the primary key.
RowsToLock(r) ==
  IF op[r] = "RESUME" THEN {target[r]} \cap Users
  ELSE {u \in Users : users[u].admin \/ u = target[r]}

StartLocking(r) ==
  /\ pc[r] = "admitted"
  /\ op[r] # "RESET_LOGIN_FAILURES"
  /\ want' = [want EXCEPT ![r] = RowsToLock(r)]
  /\ Goto(r, "locking")
  /\ UNCHANGED <<dbVars, op, actor, target, toRevoke, seen>>

\* Mutant: the target's row first, then the administrators' rows.
MutTargetFirst(r, u) ==
  u \in want[r] /\ (u = target[r] \/ (target[r] \notin want[r] /\ \A v \in want[r] : u <= v))

IsNext(r, u) == u \in want[r] /\ \A v \in want[r] : u <= v

\* Mutant: administrators' rows are waited for but not kept.
MutKeepTargetOnly(r) ==
  /\ pc[r] = "locking"
  /\ \E u \in want[r] :
       /\ IsNext(r, u)
       /\ userLock[u] = NoTxn
       /\ userLock' = [userLock EXCEPT ![u] = IF u = target[r] THEN r ELSE NoTxn]
       /\ want' = [want EXCEPT ![r] = @ \ {u}]
  /\ UNCHANGED <<tables, attemptLock, tokenLock, now,
                 pc, op, actor, target, toRevoke, seen>>

\* A free row is read again before it is locked: one that no longer satisfies
\* the query is passed over.
LockRow(r) ==
  /\ pc[r] = "locking"
  /\ \E u \in want[r] :
       /\ IsNext(r, u)
       /\ userLock[u] = NoTxn
       /\ userLock' = [userLock EXCEPT ![u] = IF u \in RowsToLock(r) THEN r ELSE NoTxn]
       /\ want' = [want EXCEPT ![r] = @ \ {u}]
  /\ UNCHANGED <<tables, attemptLock, tokenLock, now,
                 pc, op, actor, target, toRevoke, seen>>

Locked(r) ==
  /\ pc[r] = "locking"
  /\ want[r] = {}
  /\ Goto(r, "deciding")
  /\ UNCHANGED <<dbVars, op, actor, target, want, toRevoke, seen>>

\* A wait for a row ends after LOCK_TIMEOUT_MILLIS: Busy, and a rollback.
UserLockTimeout(r) ==
  /\ pc[r] = "locking"
  /\ \E u \in want[r] : IsNext(r, u) /\ userLock[u] # NoTxn
  /\ EndUnchanged(r)

\* resetLoginFailures reads its target without a lock, then locks the row of
\* login_attempt_states; without a target or a row there is nothing to reset.
StartReset(r) ==
  /\ pc[r] = "admitted"
  /\ op[r] = "RESET_LOGIN_FAILURES"
  /\ IF target[r] \in Users
     THEN /\ Goto(r, "lockingAttempt")
          /\ UNCHANGED <<dbVars, op, actor, target, want, toRevoke, seen>>
     ELSE EndUnchanged(r)

LockAttemptRow(r) ==
  /\ pc[r] = "lockingAttempt"
  /\ attemptLock[target[r]] = NoTxn
  /\ IF attempts[target[r]].present
     THEN /\ attemptLock' = [attemptLock EXCEPT ![target[r]] = r]
          /\ Goto(r, "deciding")
          /\ UNCHANGED <<tables, userLock, tokenLock, now,
                         op, actor, target, want, toRevoke, seen>>
     ELSE EndUnchanged(r)

AttemptLockTimeout(r) ==
  /\ pc[r] = "lockingAttempt"
  /\ attemptLock[target[r]] # NoTxn
  /\ EndUnchanged(r)

-----------------------------------------------------------------------------
\* What r knows of its target once it holds its locks.  For the operations on
\* administrators' rows the set of active administrators is read by a query of
\* its own, so it includes what others committed while r was waiting.
Facts(r) ==
  IF target[r] \in Users
  THEN [targetExists |-> TRUE,
        targetIsOperator |-> target[r] = actor[r],
        targetSuspended |-> users[target[r]].suspended,
        targetAdmin |-> users[target[r]].admin,
        targetResettable |-> op[r] = "RESET_LOGIN_FAILURES" /\ Resettable(attempts[target[r]]),
        leavesNoActiveAdmin |-> op[r] \in RowsOps /\ ActiveAdmins = {target[r]}]
  ELSE TargetMissing

\* The sender's row is read once more, without a lock of its own.
Allowed(r) == Decide(op[r], Facts(r)) = "NONE" /\ IsActiveAdmin(actor[r])

Refuse(r) ==
  /\ pc[r] = "deciding"
  /\ ~Allowed(r)
  /\ EndUnchanged(r)

Accept(r) ==
  /\ pc[r] = "deciding"
  /\ Allowed(r)
  /\ Goto(r, IF op[r] = "SUSPEND" THEN "suspending" ELSE "writing")
  /\ UNCHANGED <<dbVars, op, actor, target, want, toRevoke, seen>>

\* revokeAllActiveByUserId: one UPDATE, which visits the rows that are active
\* when it starts and waits for those another transaction has written.
StartRevoking(r) ==
  /\ pc[r] = "suspending"
  /\ toRevoke' = [toRevoke EXCEPT ![r] = ActiveTokensOf(target[r])]
  /\ Goto(r, "revoking")
  /\ UNCHANGED <<dbVars, op, actor, target, want, seen>>

\* Mutant: rows other transactions have locked are skipped (SKIP LOCKED).
MutSkipLocked(r) ==
  /\ pc[r] = "revoking"
  /\ \E t \in toRevoke[r] :
       /\ tokenLock' = [tokenLock EXCEPT ![t] = IF @ = NoTxn THEN r ELSE @]
       /\ toRevoke' = [toRevoke EXCEPT ![r] = @ \ {t}]
  /\ UNCHANGED <<tables, userLock, attemptLock, now, pc, op, actor, target, want, seen>>

\* A row that is no longer active when it is reached is passed over.
RevokeRow(r) ==
  /\ pc[r] = "revoking"
  /\ \E t \in toRevoke[r] :
       /\ tokenLock[t] = NoTxn
       /\ tokenLock' = [tokenLock EXCEPT ![t] = IF tokens[t].status = "active" THEN r ELSE NoTxn]
       /\ toRevoke' = [toRevoke EXCEPT ![r] = @ \ {t}]
  /\ UNCHANGED <<tables, userLock, attemptLock, now, pc, op, actor, target, want, seen>>

TokenLockTimeout(r) ==
  /\ pc[r] = "revoking"
  /\ \E t \in toRevoke[r] : tokenLock[t] # NoTxn
  /\ EndUnchanged(r)

\* setAdmin, setSuspended.
Written(row, o) ==
  [admin |-> o = "GRANT_ADMIN" \/ (row.admin /\ o # "REVOKE_ADMIN"),
   suspended |-> o = "SUSPEND" \/ (row.suspended /\ o # "RESUME")]

\* The transaction commits; the tokens it revoked are those it has locked.
Commit(r) ==
  /\ pc[r] = "writing" \/ (pc[r] = "revoking" /\ toRevoke[r] = {})
  /\ users' = [users EXCEPT ![target[r]] = Written(@, op[r])]
  /\ attempts' = IF op[r] = "RESET_LOGIN_FAILURES"
                 THEN [attempts EXCEPT ![target[r]] = Clear] ELSE attempts
  /\ tokens' = [t \in Tokens |-> IF tokenLock[t] = r
                                 THEN [tokens[t] EXCEPT !.status = "revoked"] ELSE tokens[t]]
  /\ misses' = IF op[r] = "RESET_LOGIN_FAILURES"
               THEN [misses EXCEPT ![target[r]] = 0] ELSE misses
  /\ UNCHANGED <<parent, now>>
  /\ ReleaseAll(r)
  /\ Forget(r)

-----------------------------------------------------------------------------
AdminStep(r) ==
  \/ StartLocking(r) \/ LockRow(r) \/ Locked(r) \/ UserLockTimeout(r)
  \/ StartReset(r) \/ LockAttemptRow(r) \/ AttemptLockTimeout(r)
  \/ Refuse(r) \/ Accept(r)
  \/ StartRevoking(r) \/ RevokeRow(r) \/ TokenLockTimeout(r)
  \/ Commit(r)

AdminNext == \E r \in AdminReqs : Admit(r) \/ AdminStep(r)

-----------------------------------------------------------------------------
(***************************************************************************)
(* Properties.                                                             *)
(***************************************************************************)

\* The last active administrator is protected: whatever administrators do to
\* each other at the same time, one who is not suspended remains
\* (adminRowsOperation counts them after taking the row locks).
ActiveAdminExists == ActiveAdmins # {}

Decided(r) == pc[r] \in {"suspending", "revoking", "writing"}

\* What an operation was allowed on is still so when it commits: between its
\* reads and its commit nobody grants, revokes, suspends or resumes its target,
\* takes away the other active administrators, resets the same failures or, for
\* the operations that lock the administrators' rows, demotes its sender.
DecisionStillHolds ==
  \A r \in AdminReqs : Decided(r) =>
    /\ Decide(op[r], Facts(r)) = "NONE"
    /\ op[r] \in RowsOps => IsActiveAdmin(actor[r])

Past(r) == pc[r] = "deciding" \/ Decided(r)

\* What the locks of a request cover.  From its locking query to its commit, an
\* operation on administrators' rows has locked, or has still to visit, every row
\* that the same query would return now: that is what makes counting the active
\* administrators afterwards safe.  A reset holds the row it is about to clear.
\* It holds as long as nobody is made an administrator.
LockDiscipline ==
  \A r \in AdminReqs :
    /\ pc[r] # "locking" => want[r] = {}
    /\ pc[r] = "locking" => op[r] # "RESET_LOGIN_FAILURES"
    /\ pc[r] = "lockingAttempt" => op[r] = "RESET_LOGIN_FAILURES" /\ target[r] \in Users
    /\ pc[r] \in {"suspending", "revoking"} => op[r] = "SUSPEND"
    /\ (pc[r] = "locking" \/ Past(r)) /\ op[r] # "RESET_LOGIN_FAILURES" =>
         \A u \in RowsToLock(r) : userLock[u] = r \/ u \in want[r]
    /\ Past(r) /\ op[r] = "RESET_LOGIN_FAILURES" =>
         /\ target[r] \in Users
         /\ attemptLock[target[r]] = r
         /\ attempts[target[r]].present

\* The transactions whose locks r is waiting for.
AdminBlockers(r) ==
  CASE pc[r] = "locking" -> {userLock[u] : u \in {v \in want[r] : IsNext(r, v)}} \ {NoTxn}
    [] pc[r] = "lockingAttempt" -> {attemptLock[target[r]]} \ {NoTxn}
    [] pc[r] = "revoking" -> {tokenLock[t] : t \in toRevoke[r]} \ {NoTxn}
    [] OTHER -> {}

\* Rows are locked in the order of their ids, so no set of requests can be
\* waiting only for one another (lockAdminRowsAndTarget).
NoLockCycle ==
  \A R \in (SUBSET AdminReqs) \ {{}} : \E r \in R : AdminBlockers(r) \cap R = {}

\* Every request is answered, be it with 409 USER_ADMIN_BUSY.
RequestsFinish == \A r \in AdminReqs : pc[r] # "idle" ~> pc[r] = "idle"
=============================================================================
