------------------------------ MODULE Accounts ------------------------------
(***************************************************************************)
(* The accounts of the application: the user-administration API (UserAdmin)*)
(* and the sessions (Sessions) over one database, the passing of time, and *)
(* crashes.  A start of the application first rescues the initial          *)
(* administrator (InitialAdminInitializer) and only then serves requests.  *)
(***************************************************************************)
EXTENDS UserAdmin, Sessions

CONSTANTS
  InitialAdmin,  \* the user mastersmith.auth.initial-admin.email names
  MaxNow         \* bound: the Clock stops there

ASSUME InitialAdminAssumption == InitialAdmin \in Users
ASSUME RequestKindsAssumption == AdminReqs \cap (LoginReqs \cup TokenReqs) = {}

VARIABLE phase   \* "starting" or "serving"

vars == <<dbVars, adminVars, sessionVars, phase>>

TypeOK == DbTypeOK /\ AdminTypeOK /\ SessionTypeOK /\ phase \in {"starting", "serving"}

Init == DbInit /\ AdminInit /\ SessionInit /\ phase = "starting"

Tick ==
  /\ now < MaxNow
  /\ now' = now + 1
  /\ UNCHANGED <<tables, locks, adminVars, sessionVars>>

\* The process dies: open transactions are rolled back, requests are gone.
Crash ==
  /\ phase = "serving"
  /\ phase' = "starting"
  /\ pc' = [r \in AdminReqs |-> "idle"]
  /\ op' = [r \in AdminReqs |-> "NONE"]
  /\ actor' = [r \in AdminReqs |-> Null]
  /\ target' = [r \in AdminReqs |-> Null]
  /\ want' = [r \in AdminReqs |-> {}]
  /\ toRevoke' = [r \in AdminReqs |-> {}]
  /\ seen' = [r \in AdminReqs |-> {}]
  /\ lpc' = [l \in LoginReqs |-> "idle"]
  /\ subject' = [l \in LoginReqs |-> Null]
  /\ matched' = [l \in LoginReqs |-> FALSE]
  /\ suspendedThen' = [l \in LoginReqs |-> FALSE]
  /\ read' = [l \in LoginReqs |-> Clear]
  /\ qpc' = [q \in TokenReqs |-> "idle"]
  /\ kind' = [q \in TokenReqs |-> "logout"]
  /\ token' = [q \in TokenReqs |-> NoToken]
  /\ since' = [q \in TokenReqs |-> 0]
  /\ userLock' = [u \in Users |-> NoTxn]
  /\ attemptLock' = [u \in Users |-> NoTxn]
  /\ tokenLock' = [t \in Tokens |-> NoTxn]
  /\ UNCHANGED <<tables, now>>

\* rescueInitialAdmin and the listener that works in its transaction, for a
\* configured password that does or does not match the stored one.
RescueNeeded(matches) ==
  users[InitialAdmin].suspended \/ ~users[InitialAdmin].admin \/ ~matches

Rescue ==
  /\ users' = [users EXCEPT ![InitialAdmin] = [admin |-> TRUE, suspended |-> FALSE]]
  /\ attempts' = [attempts EXCEPT ![InitialAdmin] = Clear]
  /\ misses' = [misses EXCEPT ![InitialAdmin] = 0]
  /\ tokens' = [t \in Tokens |-> IF t \in ActiveTokensOf(InitialAdmin)
                                 THEN [tokens[t] EXCEPT !.status = "revoked"] ELSE tokens[t]]
  /\ UNCHANGED parent

\* Without settings, or when the rescue throws and is rolled back, the start
\* goes on with the tables as they are.
Start ==
  /\ phase = "starting"
  /\ phase' = "serving"
  /\ \/ \E matches \in BOOLEAN :
          IF RescueNeeded(matches) THEN Rescue ELSE UNCHANGED tables
     \/ UNCHANGED tables
  /\ UNCHANGED <<locks, now, adminVars, sessionVars>>

Serve ==
  /\ phase = "serving"
  /\ \/ AdminNext /\ UNCHANGED sessionVars
     \/ SessionNext /\ UNCHANGED adminVars
     \/ Tick
  /\ UNCHANGED phase

Next == Start \/ Serve \/ Crash

Spec == Init /\ [][Next]_vars

\* Every request runs on a thread of its own and waits for no row longer than
\* the lock timeout; nothing is assumed of clients, of time or of the cleanup.
Fairness ==
  /\ WF_vars(Start)
  /\ \A r \in AdminReqs :
       WF_vars(phase = "serving" /\ AdminStep(r) /\ UNCHANGED <<sessionVars, phase>>)
  /\ \A l \in LoginReqs :
       WF_vars(phase = "serving" /\ LoginStep(l) /\ UNCHANGED <<adminVars, phase>>)
  /\ \A q \in TokenReqs :
       WF_vars(phase = "serving" /\ ExchangeStep(q) /\ UNCHANGED <<adminVars, phase>>)

FairSpec == Spec /\ Fairness

-----------------------------------------------------------------------------
(***************************************************************************)
(* Properties.                                                             *)
(***************************************************************************)

Suspends(u) == ~users[u].suspended /\ users'[u].suspended

\* Suspending a user ends every session that was open when the request came in:
\* even one whose token is being exchanged, logged out or deleted meanwhile
\* (UserAdminService.suspend and revokeAllRefreshTokens, in one transaction).
SuspendEndsEarlierSessions ==
  [][\A r \in AdminReqs :
       (target[r] \in Users /\ op[r] = "SUSPEND" /\ Decided(r) /\ Suspends(target[r]))
          => \A t \in seen[r] : tokens'[t].status # "active"]_vars

\* Once an account is locked, it stays locked until the lock runs out, unless an
\* administrator resets it or a start rescues it: no login that was already under
\* way when the lock was set lifts it (LockPolicy.decide on the row read under
\* its lock).
LockedStaysLocked ==
  [][\A u \in Users :
       LockedAt(attempts[u], now) =>
         \/ attempts'[u] = attempts[u]
         \/ phase = "starting" /\ u = InitialAdmin
         \/ \E r \in AdminReqs : /\ op[r] = "RESET_LOGIN_FAILURES"
                                  /\ target[r] = u
                                  /\ Decided(r)]_vars

\* users.md, line 15: suspending a user revokes all refresh tokens of that user.
\* The code does not keep it: see the README.
SuspendedHasNoLiveToken ==
  \A u \in Users : users[u].suspended => ActiveTokensOf(u) = {}

\* The transactions whose locks a request of any kind is waiting for.
Blockers(x) ==
  CASE x \in AdminReqs -> AdminBlockers(x)
    [] x \in LoginReqs -> IF lpc[x] = "verified" THEN {attemptLock[subject[x]]} \ {NoTxn} ELSE {}
    [] x \in TokenReqs -> IF qpc[x] = "found" THEN {tokenLock[token[x]]} \ {NoTxn} ELSE {}

\* Logins, exchanges, logouts and the operations of administrators never end up
\* waiting only for one another.
NoDeadlock ==
  \A X \in (SUBSET (AdminReqs \cup LoginReqs \cup TokenReqs)) \ {{}} :
    \E x \in X : Blockers(x) \cap X = {}

\* Every login, exchange and logout is answered, unless the process dies.
SessionRequestsFinish ==
  /\ \A l \in LoginReqs : lpc[l] # "idle" ~> lpc[l] = "idle"
  /\ \A q \in TokenReqs : qpc[q] # "idle" ~> qpc[q] = "idle"
=============================================================================
