--------------------------- MODULE AccountsProofs ---------------------------
(***************************************************************************)
(* Proofs about Accounts, for every set of users, tokens and requests and  *)
(* every threshold: types, the lock-out, the rotation of tokens, and the   *)
(* end of the sessions of a suspended user; then what needs the row locks: *)
(* as long as nobody is made an administrator, operations of administrators*)
(* keep what they have decided on, and an administrator who can act        *)
(* remains, and whatever the operations, no requests wait only for one     *)
(* another.                                                                *)
(***************************************************************************)
EXTENDS Accounts, FiniteSetTheorems, WellFoundedInduction, TLAPS

-----------------------------------------------------------------------------
(***************************************************************************)
(* Types.  TypeOK is inductive together with what makes the rows that      *)
(* requests look up exist.                                                 *)
(***************************************************************************)
InUse ==
  /\ \A l \in LoginReqs : lpc[l] # "idle" => subject[l] \in Users
  /\ \A q \in TokenReqs : qpc[q] # "idle" => token[q] \in Tokens

TypeInv == TypeOK /\ InUse

\* The row LoginAttemptState.initial makes is a row.
LEMMA ClearType == Clear \in AttemptRow
  BY DEF Clear, AttemptRow, Null

\* What an operation writes into users is a row.
LEMMA WrittenType ==
  ASSUME NEW row \in UserRow, NEW o
  PROVE  Written(row, o) \in UserRow
  BY DEF Written, UserRow

\* A judged row is a row.
LEMMA NextRowType ==
  ASSUME NEW row \in AttemptRow, NEW m \in BOOLEAN, NEW time \in Nat
  PROVE  /\ NextRow(row, m, time) \in AttemptRow
         /\ NextRow(row, m, time).present = row.present
  <1>1. FailuresAfter(row) \in Nat
    BY DEF FailuresAfter, AttemptRow
  <1>2. time + LockDuration \in Nat
    BY LockPolicyAssumption
  <1> QED
    BY <1>1, <1>2 DEF NextRow, AttemptRow, Null

\* A token whose status changes is a row.
LEMMA RevokedType ==
  ASSUME NEW row \in TokenRow
  PROVE  /\ [row EXCEPT !.status = "revoked"] \in TokenRow
         /\ [row EXCEPT !.status = "deleted"] \in TokenRow
         /\ [row EXCEPT !.status = "revoked"].status = "revoked"
         /\ [row EXCEPT !.status = "deleted"].status = "deleted"
  BY DEF TokenRow

\* The end of a transaction leaves a lock table, without its own locks.
LEMMA ReleasedType ==
  ASSUME NEW S, NEW lock \in [S -> Txns \cup {NoTxn}], NEW x
  PROVE  /\ Released(lock, x) \in [S -> Txns \cup {NoTxn}]
         /\ \A k \in S : Released(lock, x)[k] = IF lock[k] = x THEN NoTxn ELSE lock[k]
  BY DEF Released

\* Types and rows in use hold at a start.
LEMMA TypeInit == Init => TypeInv
  <1> SUFFICES ASSUME Init PROVE TypeInv
    OBVIOUS
  <1> USE DEF Init, Null
  <1>1. DbTypeOK
    <2>1. attempts \in [Users -> AttemptRow]
      BY DEF DbInit, AttemptRow, Clear
    <2>2. tokens \in [Tokens -> TokenRow]
      BY DEF DbInit, TokenRow, Unissued
    <2> QED
      BY <2>1, <2>2 DEF DbInit, DbTypeOK
  <1>2. AdminTypeOK
    BY DEF AdminInit, AdminTypeOK, PCs
  <1>3. SessionTypeOK
    BY ClearType DEF SessionInit, SessionTypeOK
  <1>4. InUse
    BY DEF SessionInit, InUse
  <1> QED
    BY <1>1, <1>2, <1>3, <1>4 DEF TypeInv, TypeOK

\* ... and every step of a user-administration request keeps them.
LEMMA TypeAdmin ==
  ASSUME TypeInv, UNCHANGED <<sessionVars, phase>>,
         NEW r \in AdminReqs, Admit(r) \/ AdminStep(r)
  PROVE  TypeInv'
  <1> USE AdminReqsAssumption DEF TypeInv, TypeOK, DbTypeOK, AdminTypeOK, SessionTypeOK, InUse,
        sessionVars, loginVars, exchangeVars, dbVars, tables, locks
  <1>0. /\ Released(userLock, r) \in [Users -> Txns \cup {NoTxn}]
        /\ Released(attemptLock, r) \in [Users -> Txns \cup {NoTxn}]
        /\ Released(tokenLock, r) \in [Tokens -> Txns \cup {NoTxn}]
    BY ReleasedType
  <1>1. ASSUME EndUnchanged(r) PROVE TypeInv'
    BY <1>0, <1>1 DEF EndUnchanged, Forget, ReleaseAll, ReleaseUserLocks, ReleaseAttemptLocks,
       ReleaseTokenLocks, PCs
  <1>2. CASE Admit(r)
    BY <1>2 DEF Admit, Goto, PCs, ActiveAdmins, ActiveTokensOf
  <1>3. CASE StartLocking(r)
    BY <1>3 DEF StartLocking, RowsToLock, Goto, PCs
  <1>4. CASE LockRow(r)
    BY <1>4 DEF LockRow
  <1>5. CASE Locked(r)
    BY <1>5 DEF Locked, Goto, PCs
  <1>6. CASE UserLockTimeout(r)
    BY <1>1, <1>6 DEF UserLockTimeout
  <1>7. CASE StartReset(r)
    BY <1>1, <1>7 DEF StartReset, Goto, PCs
  <1>8. CASE LockAttemptRow(r)
    BY <1>1, <1>8 DEF LockAttemptRow, Goto, PCs
  <1>9. CASE AttemptLockTimeout(r)
    BY <1>1, <1>9 DEF AttemptLockTimeout
  <1>10. CASE Refuse(r)
    BY <1>1, <1>10 DEF Refuse
  <1>11. CASE Accept(r)
    BY <1>11 DEF Accept, Goto, PCs
  <1>12. CASE StartRevoking(r)
    BY <1>12 DEF StartRevoking, ActiveTokensOf, Goto, PCs
  <1>13. CASE RevokeRow(r)
    BY <1>13 DEF RevokeRow
  <1>14. CASE TokenLockTimeout(r)
    BY <1>1, <1>14 DEF TokenLockTimeout
  <1>15. CASE Commit(r)
    <2>1. users' \in [Users -> UserRow]
      BY <1>15, WrittenType DEF Commit
    <2>2. attempts' \in [Users -> AttemptRow] /\ misses' \in [Users -> Nat]
      BY <1>15, ClearType DEF Commit
    <2>3. tokens' \in [Tokens -> TokenRow]
      BY <1>15, RevokedType DEF Commit
    <2>4. DbTypeOK'
      BY <1>0, <1>15, <2>1, <2>2, <2>3 DEF Commit, ReleaseAll, ReleaseUserLocks,
         ReleaseAttemptLocks, ReleaseTokenLocks
    <2>5. AdminTypeOK'
      BY <1>15 DEF Commit, Forget, PCs
    <2>6. SessionTypeOK' /\ InUse'
      OBVIOUS
    <2> QED
      BY <2>4, <2>5, <2>6
  <1> QED
    BY <1>2, <1>3, <1>4, <1>5, <1>6, <1>7, <1>8, <1>9, <1>10, <1>11, <1>12, <1>13, <1>14, <1>15
    DEF AdminStep

\* A new token, and the one it is exchanged for, are rows.
LEMMA IssueType ==
  ASSUME DbTypeOK, NEW t \in Tokens, NEW u \in Users \cup {Null}, NEW time \in Nat,
         NEW from \in Tokens \cup {NoToken}, Issue(t, u, time, from)
  PROVE  tokens' \in [Tokens -> TokenRow] /\ parent' \in [Tokens -> Tokens \cup {NoToken}]
  <1>1. time + RefreshTtl \in Nat
    BY DurationsAssumption
  <1>2. [status |-> "active", user |-> u, expires |-> time + RefreshTtl] \in TokenRow
    BY <1>1 DEF TokenRow
  <1> QED
    BY <1>2, RevokedType DEF Issue, DbTypeOK

\* ... and so does every step of a login, an exchange, a logout and the cleanup.
LEMMA TypeSession ==
  ASSUME TypeInv, UNCHANGED <<adminVars, phase>>, SessionNext
  PROVE  TypeInv'
  <1> USE SessionReqsAssumption DEF TypeInv, TypeOK, DbTypeOK, SessionTypeOK, InUse,
        loginVars, exchangeVars, sessionVars, dbVars, tables, locks
  <1>0. AdminTypeOK'
    BY DEF AdminTypeOK, adminVars
  <1>1. ASSUME NEW l \in LoginReqs, Verify(l) \/ LoginStep(l) PROVE TypeInv'
    <2>0. /\ Released(attemptLock, l) \in [Users -> Txns \cup {NoTxn}]
          /\ Released(tokenLock, l) \in [Tokens -> Txns \cup {NoTxn}]
      BY ReleasedType
    <2>1. CASE Verify(l)
      BY <1>0, <2>1 DEF Verify, UserRow
    <2>2. CASE CreateRow(l)
      BY <1>0, <2>2, ClearType DEF CreateRow
    <2>3. CASE LockLoginRow(l)
      BY <1>0, <2>3 DEF LockLoginRow
    <2>4. CASE LoginLockTimeout(l)
      BY <1>0, <2>4, ClearType DEF LoginLockTimeout, ForgetLogin
    <2>5. CASE RefuseSuspended(l)
      BY <1>0, <2>0, <2>5, ClearType DEF RefuseSuspended, ForgetLogin, ReleaseAttemptLocks
    <2>6. CASE Judge(l)
      <3>1. NextRow(read[l], matched[l], now) \in AttemptRow /\ subject[l] \in Users
        BY <2>6, NextRowType DEF Judge
      <3>2. tokens' \in [Tokens -> TokenRow] /\ parent' \in [Tokens -> Tokens \cup {NoToken}]
        BY <2>6, <3>1, IssueType DEF Judge
      <3>3. misses' \in [Users -> Nat]
        BY <2>6 DEF Judge
      <3>4. attempts' \in [Users -> AttemptRow]
        BY <2>6, <3>1 DEF Judge
      <3>5. SessionTypeOK' /\ InUse'
        BY <2>6, ClearType DEF Judge, ForgetLogin
      <3>6. attemptLock' \in [Users -> Txns \cup {NoTxn}] /\ UNCHANGED <<users, userLock, tokenLock, now>>
        BY <2>0, <2>6 DEF Judge, ReleaseAttemptLocks
      <3> QED
        BY <1>0, <3>2, <3>3, <3>4, <3>5, <3>6
    <2> QED
      BY <1>1, <2>1, <2>2, <2>3, <2>4, <2>5, <2>6 DEF LoginStep
  <1>2. ASSUME NEW q \in TokenReqs, Present(q) \/ ExchangeStep(q) PROVE TypeInv'
    <2>0. Released(tokenLock, q) \in [Tokens -> Txns \cup {NoTxn}]
      BY ReleasedType
    <2>1. CASE Present(q)
      BY <1>0, <2>1 DEF Present
    <2>2. CASE RevokeIfActive(q)
      BY <1>0, <2>2 DEF RevokeIfActive, ForgetExchange
    <2>3. CASE ExchangeLockTimeout(q)
      BY <1>0, <2>3 DEF ExchangeLockTimeout, ForgetExchange
    <2>4. CASE ReadOwner(q)
      BY <1>0, <2>0, <2>4 DEF ReadOwner, ForgetExchange, ReleaseTokenLocks
    <2>5. CASE CommitRefresh(q)
      <3>1. token[q] \in Tokens /\ tokens[token[q]].user \in Users \cup {Null}
        BY <2>5 DEF CommitRefresh, TokenRow
      <3>2. tokens' \in [Tokens -> TokenRow] /\ parent' \in [Tokens -> Tokens \cup {NoToken}]
        BY <2>5, <3>1, IssueType DEF CommitRefresh
      <3> QED
        BY <1>0, <2>0, <2>5, <3>2 DEF CommitRefresh, ForgetExchange, ReleaseTokenLocks
    <2>6. CASE CommitLogout(q)
      <3>1. tokens' \in [Tokens -> TokenRow]
        BY <2>6, RevokedType DEF CommitLogout
      <3> QED
        BY <1>0, <2>0, <2>6, <3>1 DEF CommitLogout, ForgetExchange, ReleaseTokenLocks
    <2> QED
      BY <1>2, <2>1, <2>2, <2>3, <2>4, <2>5, <2>6 DEF ExchangeStep
  <1>3. CASE DeleteExpired
    <2>1. tokens' \in [Tokens -> TokenRow]
      BY <1>3, RevokedType DEF DeleteExpired
    <2> QED
      BY <1>0, <1>3, <2>1 DEF DeleteExpired
  <1> QED
    BY <1>1, <1>2, <1>3 DEF SessionNext

\* ... and a start, a crash and the clock.
LEMMA TypeEnvironment ==
  ASSUME TypeInv, Start \/ Crash \/ (Tick /\ UNCHANGED phase)
  PROVE  TypeInv'
  <1> USE DEF TypeInv, TypeOK, DbTypeOK, InUse, tables, locks
  <1>1. CASE Start
    <2>1. AdminTypeOK' /\ SessionTypeOK' /\ InUse'
      BY <1>1 DEF Start, adminVars, sessionVars, AdminTypeOK, SessionTypeOK
    <2>2. CASE Rescue
      <3>1. [admin |-> TRUE, suspended |-> FALSE] \in UserRow
        BY DEF UserRow
      <3>2. users' \in [Users -> UserRow]
        BY <2>2, <3>1 DEF Rescue
      <3>3. attempts' \in [Users -> AttemptRow] /\ misses' \in [Users -> Nat]
        BY <2>2, ClearType DEF Rescue
      <3>4. tokens' \in [Tokens -> TokenRow]
        BY <2>2, RevokedType DEF Rescue
      <3> QED
        BY <1>1, <2>1, <2>2, <3>2, <3>3, <3>4 DEF Start, Rescue
    <2>3. CASE UNCHANGED tables
      BY <1>1, <2>1, <2>3 DEF Start
    <2> QED
      BY <1>1, <2>2, <2>3 DEF Start
  <1>2. CASE Crash
    <2>1. AdminTypeOK'
      BY <1>2 DEF Crash, AdminTypeOK, PCs
    <2>2. SessionTypeOK' /\ InUse'
      BY <1>2, ClearType DEF Crash, SessionTypeOK
    <2> QED
      BY <1>2, <2>1, <2>2 DEF Crash
  <1>3. CASE Tick /\ UNCHANGED phase
    BY <1>3 DEF Tick, adminVars, sessionVars, AdminTypeOK, SessionTypeOK
  <1> QED
    BY <1>1, <1>2, <1>3

\* Next, case by case: who takes the step, and what it leaves alone.
LEMMA NextCases ==
  ASSUME Next
  PROVE  \/ Start \/ Crash
         \/ phase = "serving" /\ UNCHANGED <<sessionVars, phase>>
              /\ \E r \in AdminReqs : Admit(r) \/ AdminStep(r)
         \/ phase = "serving" /\ UNCHANGED <<adminVars, phase>> /\ SessionNext
         \/ phase = "serving" /\ Tick /\ UNCHANGED phase
  BY DEF Next, Serve, AdminNext

\* Every reachable state is well typed, and a request that is under way has a row
\* of users, or a token, to work on.
THEOREM Typing == Spec => []TypeInv
  <1>1. TypeInv /\ [Next]_vars => TypeInv'
    <2> SUFFICES ASSUME TypeInv, [Next]_vars PROVE TypeInv'
      OBVIOUS
    <2>1. CASE Next
      BY <2>1, NextCases, TypeAdmin, TypeSession, TypeEnvironment
    <2>2. CASE UNCHANGED vars
      BY <2>2 DEF vars, dbVars, tables, locks, adminVars, sessionVars, TypeInv, TypeOK, DbTypeOK,
         AdminTypeOK, SessionTypeOK, InUse
    <2> QED
      BY <2>1, <2>2
  <1> QED
    BY <1>1, TypeInit, PTL DEF Spec

\* Every variable keeps the type declared for it.
THEOREM TypesHold == Spec => []TypeOK
  BY Typing, PTL DEF TypeInv

-----------------------------------------------------------------------------
(***************************************************************************)
(* Nothing is under way before the application serves requests.            *)
(***************************************************************************)
Quiet ==
  phase = "starting" =>
    /\ \A r \in AdminReqs : pc[r] = "idle"
    /\ \A l \in LoginReqs : lpc[l] = "idle"
    /\ \A q \in TokenReqs : qpc[q] = "idle"

\* A start finds no request and no transaction (Accounts, Crash and Init).
THEOREM QuietStart == Spec => []Quiet
  <1>1. Init => Quiet
    BY DEF Init, AdminInit, SessionInit, Quiet
  <1>2. Quiet /\ [Next]_vars => Quiet'
    <2> SUFFICES ASSUME Quiet, [Next]_vars PROVE Quiet'
      OBVIOUS
    <2>1. CASE Next
      BY <2>1, NextCases DEF Quiet, Start, Crash
    <2>2. CASE UNCHANGED vars
      BY <2>2 DEF vars, adminVars, sessionVars, Quiet
    <2> QED
      BY <2>1, <2>2
  <1> QED
    BY <1>1, <1>2, PTL DEF Spec

-----------------------------------------------------------------------------
(***************************************************************************)
(* Refresh tokens.  An exchange that has revoked its token has the row     *)
(* locked until it ends, so the token is still active when its successor   *)
(* is written; and only tokens that were issued have a parent.             *)
(***************************************************************************)
Orphans == \A t \in Tokens : tokens[t].status = "unissued" => parent[t] = NoToken

TokenInv == RevokerHoldsToken /\ Orphans

\* An administrator's request touches only token rows it has locked.
LEMMA TokensAdmin ==
  ASSUME TypeInv, TokenInv, UNCHANGED sessionVars, NEW r \in AdminReqs, Admit(r) \/ AdminStep(r)
  PROVE  TokenInv' /\ UNCHANGED parent
  <1> USE RequestKindsAssumption, SessionReqsAssumption, AdminReqsAssumption, NoTxnAssumption
      DEF TypeInv, TypeOK, DbTypeOK, SessionTypeOK, InUse, TokenInv, RevokerHoldsToken, Orphans,
        sessionVars, dbVars, tables, locks
  <1>1. ASSUME EndUnchanged(r) PROVE TokenInv' /\ UNCHANGED parent
    BY <1>1 DEF EndUnchanged, ReleaseAll, ReleaseTokenLocks, Released
  <1>2. CASE Admit(r) \/ StartLocking(r) \/ Locked(r) \/ Accept(r) \/ StartRevoking(r)
    BY <1>2 DEF Admit, StartLocking, Locked, Accept, StartRevoking
  <1>3. CASE LockRow(r)
    BY <1>3 DEF LockRow
  <1>4. CASE UserLockTimeout(r) \/ AttemptLockTimeout(r) \/ TokenLockTimeout(r) \/ Refuse(r)
    BY <1>1, <1>4 DEF UserLockTimeout, AttemptLockTimeout, TokenLockTimeout, Refuse
  <1>5. CASE StartReset(r) \/ LockAttemptRow(r)
    BY <1>1, <1>5 DEF StartReset, LockAttemptRow
  <1>6. CASE RevokeRow(r)
    BY <1>6 DEF RevokeRow
  <1>7. CASE Commit(r)
    BY <1>7 DEF Commit, ReleaseAll, ReleaseTokenLocks, Released
  <1> QED
    BY <1>2, <1>3, <1>4, <1>5, <1>6, <1>7 DEF AdminStep

\* What OnlyLiveTokensRotate says of one step.
RotatesLiveTokens ==
  \A t \in Tokens :
    (tokens[t].status = "unissued" /\ parent'[t] # NoToken) => tokens[parent'[t]].status = "active"

\* A login issues a token without a parent; an exchange revokes the parent of
\* the token it issues, which it has had locked; the cleanup passes over locked rows.
LEMMA TokensSession ==
  ASSUME TypeInv, TokenInv, SessionNext
  PROVE  TokenInv' /\ RotatesLiveTokens
  <1> USE SessionReqsAssumption, NoTxnAssumption, NoTokenAssumption
      DEF TypeInv, TypeOK, DbTypeOK, SessionTypeOK, InUse, TokenInv, RevokerHoldsToken, Orphans,
        RotatesLiveTokens, loginVars, exchangeVars, sessionVars, dbVars, tables, locks
  <1>1. ASSUME NEW l \in LoginReqs, Verify(l) \/ LoginStep(l) PROVE TokenInv' /\ RotatesLiveTokens
    <2>1. CASE Verify(l) \/ CreateRow(l) \/ LockLoginRow(l)
      BY <2>1 DEF Verify, CreateRow, LockLoginRow
    <2>2. CASE LoginLockTimeout(l) \/ RefuseSuspended(l)
      BY <2>2 DEF LoginLockTimeout, RefuseSuspended, ForgetLogin
    <2>3. CASE Judge(l)
      BY <2>3 DEF Judge, Issue, ForgetLogin
    <2> QED
      BY <1>1, <2>1, <2>2, <2>3 DEF LoginStep
  <1>2. ASSUME NEW q \in TokenReqs, Present(q) \/ ExchangeStep(q) PROVE TokenInv' /\ RotatesLiveTokens
    <2>1. CASE Present(q)
      BY <2>1 DEF Present
    <2>2. CASE RevokeIfActive(q) \/ ExchangeLockTimeout(q)
      BY <2>2 DEF RevokeIfActive, ExchangeLockTimeout, ForgetExchange
    <2>3. CASE ReadOwner(q)
      BY <2>3 DEF ReadOwner, ForgetExchange, ReleaseTokenLocks, Released
    <2>4. CASE CommitRefresh(q)
      BY <2>4 DEF CommitRefresh, Issue, ForgetExchange, ReleaseTokenLocks, Released
    <2>5. CASE CommitLogout(q)
      BY <2>5 DEF CommitLogout, ForgetExchange, ReleaseTokenLocks, Released
    <2> QED
      BY <1>2, <2>1, <2>2, <2>3, <2>4, <2>5 DEF ExchangeStep
  <1>3. CASE DeleteExpired
    BY <1>3 DEF DeleteExpired, ExpiredLongAgo
  <1> QED
    BY <1>1, <1>2, <1>3 DEF SessionNext

\* A start and a crash leave no exchange under way, and give no token a parent.
LEMMA TokensEnvironment ==
  ASSUME TypeInv, Quiet, TokenInv, Start \/ Crash \/ (Tick /\ UNCHANGED phase)
  PROVE  TokenInv' /\ UNCHANGED parent
  <1> USE DEF TypeInv, TypeOK, DbTypeOK, TokenInv, RevokerHoldsToken, Orphans, Quiet,
        exchangeVars, sessionVars, tables, locks
  <1>1. CASE Start
    <2>1. phase = "starting" /\ UNCHANGED <<qpc, token, tokenLock>>
      BY <1>1 DEF Start
    <2>2. UNCHANGED parent /\ \A t \in Tokens : tokens'[t].status = "unissued" => tokens[t].status = "unissued"
      <3>1. CASE Rescue
        BY <3>1, RevokedType DEF Rescue
      <3>2. CASE UNCHANGED tables
        BY <3>2
      <3> QED
        BY <1>1, <3>1, <3>2 DEF Start
    <2> QED
      BY <2>1, <2>2
  <1>2. CASE Crash
    BY <1>2 DEF Crash
  <1>3. CASE Tick /\ UNCHANGED phase
    BY <1>3 DEF Tick
  <1> QED
    BY <1>1, <1>2, <1>3

\* One step, whoever takes it.
LEMMA TokensStep ==
  ASSUME TypeInv, Quiet, TokenInv, [Next]_vars
  PROVE  TokenInv' /\ [RotatesLiveTokens]_<<tokens, parent>>
  <1>1. ASSUME UNCHANGED parent PROVE RotatesLiveTokens
    BY <1>1 DEF RotatesLiveTokens, TokenInv, Orphans
  <1>2. CASE Next
    BY <1>1, <1>2, NextCases, TokensAdmin, TokensSession, TokensEnvironment
  <1>3. CASE UNCHANGED vars
    BY <1>3 DEF vars, dbVars, tables, locks, sessionVars, exchangeVars, TokenInv,
       RevokerHoldsToken, Orphans
  <1> QED
    BY <1>2, <1>3

LEMMA TokensInit == Init => TokenInv
  BY DEF Init, DbInit, SessionInit, TokenInv, RevokerHoldsToken, Orphans, Unissued

\* An exchange or a logout that has revoked its token holds the row, and nobody
\* else has revoked or deleted the token (TokenRefreshService, LogoutService).
THEOREM RevokerHolds == Spec => []RevokerHoldsToken
  <1>1. TypeInv /\ Quiet /\ TokenInv /\ [Next]_vars => TokenInv'
    BY TokensStep
  <1> QED
    BY <1>1, TokensInit, Typing, QuietStart, PTL DEF Spec, TokenInv

\* However many requests present a refresh token, it buys one successor at most,
\* and none once it has been revoked (TokenRefreshService, revokeIfActive).
THEOREM RotationIsExclusive == Spec => OnlyLiveTokensRotate
  <1>1. TypeInv /\ Quiet /\ TokenInv /\ [Next]_vars => TokenInv' /\ [RotatesLiveTokens]_<<tokens, parent>>
    BY TokensStep
  <1> QED
    BY <1>1, TokensInit, Typing, QuietStart, PTL DEF Spec, OnlyLiveTokensRotate, RotatesLiveTokens

-----------------------------------------------------------------------------
(***************************************************************************)
(* The lock-out.  CountsAgree is inductive together with what a reset has  *)
(* locked: rows of login_attempt_states are written under their lock only. *)
(***************************************************************************)
ResetHolds ==
  \A r \in AdminReqs :
    /\ pc[r] = "locking" => op[r] # "RESET_LOGIN_FAILURES"
    /\ pc[r] = "lockingAttempt" => op[r] = "RESET_LOGIN_FAILURES" /\ target[r] \in Users
    /\ Past(r) /\ op[r] = "RESET_LOGIN_FAILURES" =>
         /\ target[r] \in Users
         /\ attemptLock[target[r]] = r
         /\ attempts[target[r]].present

CountInv == CountsAgree /\ ResetHolds

LEMMA CountsInit == Init => CountInv
  <1> SUFFICES ASSUME Init PROVE CountInv
    OBVIOUS
  <1>1. \A u \in Users : /\ attempts[u].failures = 0 /\ attempts[u].until = Null
                         /\ misses[u] = 0
    BY DEF Init, DbInit, Clear
  <1>2. CountsAgree
    BY <1>1, LockPolicyAssumption DEF Init, SessionInit, CountsAgree
  <1>3. ResetHolds
    BY DEF Init, AdminInit, ResetHolds, Past, Decided
  <1> QED
    BY <1>2, <1>3 DEF CountInv

\* A row is cleared by a reset that holds it.
LEMMA CountsAdmin ==
  ASSUME TypeInv, CountInv, UNCHANGED sessionVars, NEW r \in AdminReqs, Admit(r) \/ AdminStep(r)
  PROVE  CountInv'
  <1> USE RequestKindsAssumption, SessionReqsAssumption, AdminReqsAssumption, NoTxnAssumption
      DEF TypeInv, TypeOK, DbTypeOK, AdminTypeOK, SessionTypeOK, InUse, CountInv, CountsAgree,
        ResetHolds, Past, Decided, loginVars, sessionVars, dbVars, tables, locks
  <1>1. ASSUME EndUnchanged(r) PROVE CountInv'
    BY <1>1 DEF EndUnchanged, Forget, ReleaseAll, ReleaseAttemptLocks, Released
  <1>2. CASE Admit(r) \/ StartLocking(r)
    BY <1>2 DEF Admit, StartLocking, Goto
  <1>3. CASE LockRow(r) \/ RevokeRow(r)
    BY <1>3 DEF LockRow, RevokeRow
  <1>4. CASE UserLockTimeout(r) \/ AttemptLockTimeout(r) \/ TokenLockTimeout(r) \/ Refuse(r)
    BY <1>1, <1>4 DEF UserLockTimeout, AttemptLockTimeout, TokenLockTimeout, Refuse
  <1>5. CASE Locked(r) \/ Accept(r) \/ StartRevoking(r)
    BY <1>5 DEF Locked, Accept, StartRevoking, Goto
  <1>6. CASE StartReset(r)
    BY <1>1, <1>6 DEF StartReset, Goto
  <1>7. CASE LockAttemptRow(r)
    BY <1>1, <1>7 DEF LockAttemptRow, Goto
  <1>8. CASE Commit(r)
    <2>1. ResetHolds'
      BY <1>8, ClearType DEF Commit, Forget, ReleaseAll, ReleaseAttemptLocks, Released, Clear
    <2>2. CountsAgree'
      BY <1>8, LockPolicyAssumption DEF Commit, Forget, ReleaseAll, ReleaseAttemptLocks, Released, Clear
    <2> QED
      BY <2>1, <2>2
  <1> QED
    BY <1>2, <1>3, <1>4, <1>5, <1>6, <1>7, <1>8 DEF AdminStep

\* A login works on the row it has locked, so the row it writes counts one more
\* than the row there is.
LEMMA CountsJudge ==
  ASSUME TypeInv, CountInv, UNCHANGED adminVars, NEW l \in LoginReqs, Judge(l)
  PROVE  CountInv'
  <1> DEFINE u == subject[l]
             row == NextRow(read[l], matched[l], now)
  <1>1. /\ u \in Users /\ read[l] \in AttemptRow /\ matched[l] \in BOOLEAN /\ now \in Nat
        /\ attempts[u] = read[l] /\ attemptLock[u] = l /\ read[l].present
        /\ attempts \in [Users -> AttemptRow] /\ misses \in [Users -> Nat]
    BY DEF TypeInv, TypeOK, DbTypeOK, SessionTypeOK, InUse, CountInv, CountsAgree, Judge
  <1>2. /\ attempts' = [attempts EXCEPT ![u] = row]
        /\ row \in AttemptRow /\ row.present
    BY <1>1, NextRowType DEF Judge
  <1>3. /\ misses'[u] = row.failures
        /\ row.failures <= Threshold
        /\ row.failures = Threshold => row.until # Null
    <2> DEFINE old == read[l]
    <2>0. /\ old.failures \in Nat /\ old.failures <= Threshold
          /\ old.failures = Threshold => old.until # Null
          /\ misses[u] = old.failures
      BY <1>1 DEF CountInv, CountsAgree, AttemptRow
    <2>1. CASE LockedAt(old, now)
      <3>1. row = old /\ misses'[u] = misses[u]
        BY <1>1, <2>1 DEF NextRow, Judge, Verdict
      <3> QED
        BY <2>0, <3>1
    <2>2. CASE ~LockedAt(old, now) /\ matched[l]
      <3>1. row.failures = 0 /\ misses'[u] = 0
        BY <1>1, <2>2 DEF NextRow, Judge, Verdict
      <3> QED
        BY <3>1, LockPolicyAssumption
    <2>3. CASE ~LockedAt(old, now) /\ ~matched[l]
      <3>1. /\ row.failures = FailuresAfter(old)
            /\ row.until = IF FailuresAfter(old) >= Threshold THEN now + LockDuration ELSE Null
            /\ misses'[u] = (IF old.until = Null THEN misses[u] ELSE 0) + 1
        BY <1>1, <2>3 DEF NextRow, Judge, Verdict, Null
      <3> QED
        BY <1>1, <2>0, <3>1, LockPolicyAssumption DEF FailuresAfter, Null
    <2> QED
      BY <2>1, <2>2, <2>3
  <1>4. \A v \in Users \ {u} : misses'[v] = misses[v] /\ attempts'[v] = attempts[v]
    BY <1>1, <1>2 DEF Judge
  <1>5. /\ lpc' = [lpc EXCEPT ![l] = "idle"]
        /\ \A k \in LoginReqs \ {l} : subject'[k] = subject[k] /\ read'[k] = read[k]
        /\ \A v \in Users : attemptLock[v] # l => attemptLock'[v] = attemptLock[v]
    BY <1>1 DEF Judge, ForgetLogin, ReleaseAttemptLocks, Released, TypeInv, TypeOK, DbTypeOK,
       SessionTypeOK
  <1>6. CountsAgree'
    <2>1. ASSUME NEW v \in Users
          PROVE  /\ misses'[v] = attempts'[v].failures
                 /\ attempts'[v].failures <= Threshold
                 /\ attempts'[v].failures = Threshold => attempts'[v].until # Null
                 /\ ~attempts'[v].present => attempts'[v].failures = 0 /\ attempts'[v].until = Null
      BY <1>1, <1>2, <1>3, <1>4 DEF CountInv, CountsAgree
    <2>2. ASSUME NEW k \in LoginReqs, lpc'[k] = "judging"
          PROVE  /\ attemptLock'[subject'[k]] = k
                 /\ attempts'[subject'[k]] = read'[k]
                 /\ read'[k].present
      BY <1>1, <1>2, <1>4, <1>5, <2>2 DEF CountInv, CountsAgree, TypeInv, TypeOK, SessionTypeOK, InUse
    <2> QED
      BY <2>1, <2>2 DEF CountsAgree
  <1>7. ResetHolds'
    BY <1>1, <1>2, <1>4, <1>5, RequestKindsAssumption DEF CountInv, ResetHolds, Past, Decided, adminVars
  <1> QED
    BY <1>6, <1>7 DEF CountInv

LEMMA CountsSession ==
  ASSUME TypeInv, CountInv, UNCHANGED adminVars, SessionNext
  PROVE  CountInv'
  <1> USE RequestKindsAssumption, SessionReqsAssumption, NoTxnAssumption
      DEF TypeInv, TypeOK, DbTypeOK, SessionTypeOK, InUse, CountInv, CountsAgree,
        ResetHolds, Past, Decided, adminVars, loginVars, exchangeVars, sessionVars, dbVars, tables, locks
  <1>1. ASSUME NEW l \in LoginReqs, Verify(l) \/ LoginStep(l) PROVE CountInv'
    <2>1. CASE Verify(l)
      BY <2>1 DEF Verify
    <2>2. CASE CreateRow(l)
      <3>1. /\ subject[l] \in Users
            /\ attempts' = [attempts EXCEPT ![subject[l]] = Clear]
            /\ ~attempts[subject[l]].present
            /\ misses[subject[l]] = 0
            /\ UNCHANGED <<misses, attemptLock, lpc, subject, read>>
        BY <2>2 DEF CreateRow
      <3>2. CountsAgree'
        BY <3>1, LockPolicyAssumption DEF Clear
      <3>3. ResetHolds'
        BY <3>1
      <3> QED
        BY <3>2, <3>3
    <2>3. CASE LockLoginRow(l)
      <3>1. /\ subject[l] \in Users /\ attempts[subject[l]].present
            /\ attemptLock[subject[l]] = NoTxn
            /\ attemptLock' = [attemptLock EXCEPT ![subject[l]] = l]
            /\ read' = [read EXCEPT ![l] = attempts[subject[l]]]
            /\ UNCHANGED <<attempts, misses, subject>>
        BY <2>3 DEF LockLoginRow
      <3>2. \A k \in LoginReqs \ {l} : lpc'[k] = lpc[k]
        BY <2>3 DEF LockLoginRow
      <3>3. ASSUME NEW k \in LoginReqs, lpc'[k] = "judging"
            PROVE  /\ attemptLock'[subject'[k]] = k
                   /\ attempts'[subject'[k]] = read'[k]
                   /\ read'[k].present
        BY <3>1, <3>2, <3>3
      <3>4. \A u \in Users :
               /\ misses'[u] = attempts'[u].failures
               /\ attempts'[u].failures <= Threshold
               /\ attempts'[u].failures = Threshold => attempts'[u].until # Null
               /\ ~attempts'[u].present => attempts'[u].failures = 0 /\ attempts'[u].until = Null
        BY <3>1
      <3>5. ResetHolds'
        BY <3>1, AdminReqsAssumption
      <3> QED
        BY <3>3, <3>4, <3>5
    <2>4. CASE LoginLockTimeout(l)
      BY <2>4 DEF LoginLockTimeout, ForgetLogin
    <2>5. CASE RefuseSuspended(l)
      <3>1. attempts' = attempts
        BY <2>5 DEF RefuseSuspended
      <3> QED
        BY <2>5, <3>1 DEF RefuseSuspended, ForgetLogin, ReleaseAttemptLocks, Released
    <2>6. CASE Judge(l)
      BY <2>6, CountsJudge
    <2> QED
      BY <1>1, <2>1, <2>2, <2>3, <2>4, <2>5, <2>6 DEF LoginStep
  <1>2. ASSUME NEW q \in TokenReqs, Present(q) \/ ExchangeStep(q) PROVE CountInv'
    BY <1>2 DEF Present, ExchangeStep, RevokeIfActive, ExchangeLockTimeout, ReadOwner,
       CommitRefresh, CommitLogout, ForgetExchange
  <1>3. CASE DeleteExpired
    BY <1>3 DEF DeleteExpired
  <1> QED
    BY <1>1, <1>2, <1>3 DEF SessionNext

\* A rescue clears its row while nobody is served.
LEMMA CountsEnvironment ==
  ASSUME TypeInv, Quiet, CountInv, Start \/ Crash \/ (Tick /\ UNCHANGED phase)
  PROVE  CountInv'
  <1> USE DEF TypeInv, TypeOK, DbTypeOK, SessionTypeOK, CountInv, CountsAgree, ResetHolds, Past,
        Decided, Quiet, adminVars, loginVars, sessionVars, tables, locks
  <1>1. CASE Start
    <2>1. CASE Rescue
      BY <1>1, <2>1, LockPolicyAssumption DEF Start, Rescue, Clear
    <2>2. CASE UNCHANGED tables
      BY <1>1, <2>2 DEF Start
    <2> QED
      BY <1>1, <2>1, <2>2 DEF Start
  <1>2. CASE Crash
    BY <1>2 DEF Crash
  <1>3. CASE Tick /\ UNCHANGED phase
    BY <1>3 DEF Tick
  <1> QED
    BY <1>1, <1>2, <1>3

LEMMA CountsAlways == Spec => []CountInv
  <1>1. TypeInv /\ Quiet /\ CountInv /\ [Next]_vars => CountInv'
    <2> SUFFICES ASSUME TypeInv, Quiet, CountInv, [Next]_vars PROVE CountInv'
      OBVIOUS
    <2>1. CASE Next
      BY <2>1, NextCases, CountsAdmin, CountsSession, CountsEnvironment
    <2>2. CASE UNCHANGED vars
      BY <2>2 DEF vars, dbVars, tables, locks, adminVars, sessionVars, loginVars, CountInv,
         CountsAgree, ResetHolds, Past, Decided
    <2> QED
      BY <2>1, <2>2
  <1> QED
    BY <1>1, CountsInit, Typing, QuietStart, PTL DEF Spec

\* The count in the table is the number of wrong passwords answered since it was
\* last cleared, however many logins and resets there are at the same time.
THEOREM CountsHold == Spec => []CountsAgree
  BY CountsAlways, PTL DEF CountInv

\* No more than Threshold wrong passwords are answered before the account is locked
\* (LoginService.decide, under the row lock).
THEOREM GuessesAreBounded == Spec => []GuessesBounded
  <1>1. CountInv => GuessesBounded
    BY DEF CountInv, CountsAgree, GuessesBounded
  <1> QED
    BY <1>1, CountsAlways, PTL

\* What LockedStaysLocked says of one step.
KeepsLock ==
  \A u \in Users :
    LockedAt(attempts[u], now) =>
      \/ attempts'[u] = attempts[u]
      \/ phase = "starting" /\ u = InitialAdmin
      \/ \E r \in AdminReqs : /\ op[r] = "RESET_LOGIN_FAILURES"
                               /\ target[r] = u
                               /\ Decided(r)

LEMMA KeepsLockStep ==
  ASSUME TypeInv, CountInv, [Next]_vars
  PROVE  [KeepsLock]_vars
  <1>0. attempts \in [Users -> AttemptRow] /\ \A l \in LoginReqs : lpc[l] # "idle" => subject[l] \in Users
    BY DEF TypeInv, TypeOK, DbTypeOK, InUse
  <1>1. ASSUME attempts' = attempts PROVE KeepsLock
    BY <1>1 DEF KeepsLock
  <1>2. ASSUME NEW r \in AdminReqs, Admit(r) \/ AdminStep(r) PROVE KeepsLock
    <2>1. CASE Commit(r)
      BY <1>0, <2>1 DEF Commit, KeepsLock, Decided
    <2>2. CASE ~Commit(r)
      <3>1. attempts' = attempts
        BY <1>2, <2>2 DEF Admit, AdminStep, StartLocking, LockRow, Locked, UserLockTimeout, StartReset, LockAttemptRow,
           AttemptLockTimeout, Refuse, Accept, StartRevoking, RevokeRow, TokenLockTimeout, EndUnchanged, dbVars, tables
      <3> QED
        BY <1>1, <3>1
    <2> QED
      BY <2>1, <2>2
  <1>3. ASSUME NEW l \in LoginReqs, Verify(l) \/ LoginStep(l) PROVE KeepsLock
    <2>1. CASE CreateRow(l)
      <3>1. attempts[subject[l]].until = Null
        BY <1>0, <2>1 DEF CreateRow, CountInv, CountsAgree
      <3> QED
        BY <1>0, <2>1, <3>1 DEF CreateRow, KeepsLock, LockedAt
    <2>2. CASE RefuseSuspended(l)
      <3>1. attempts' = attempts
        BY <1>0, <2>2 DEF RefuseSuspended, CountInv, CountsAgree
      <3> QED
        BY <1>1, <3>1
    <2>3. CASE Judge(l)
      <3>1. attempts' = [attempts EXCEPT ![subject[l]] = NextRow(read[l], matched[l], now)] /\ attempts[subject[l]] = read[l]
        BY <2>3 DEF Judge, CountInv, CountsAgree
      <3> QED
        BY <1>0, <3>1 DEF KeepsLock, NextRow
    <2>4. CASE Verify(l) \/ LockLoginRow(l) \/ LoginLockTimeout(l)
      BY <1>1, <2>4 DEF Verify, LockLoginRow, LoginLockTimeout, dbVars, tables
    <2> QED
      BY <1>3, <2>1, <2>2, <2>3, <2>4 DEF LoginStep
  <1>4. ASSUME DeleteExpired \/ \E q \in TokenReqs : Present(q) \/ ExchangeStep(q) PROVE KeepsLock
    <2>1. attempts' = attempts
      BY <1>4 DEF DeleteExpired, Present, ExchangeStep, RevokeIfActive, ExchangeLockTimeout, ReadOwner, CommitRefresh,
         CommitLogout, dbVars, tables
    <2> QED
      BY <1>1, <2>1
  <1>5. CASE Start
    BY <1>0, <1>5 DEF Start, Rescue, KeepsLock, tables
  <1>6. CASE Crash \/ Tick \/ UNCHANGED vars
    BY <1>1, <1>6 DEF Crash, Tick, vars, dbVars, tables
  <1> QED
    BY <1>2, <1>3, <1>4, <1>5, <1>6, NextCases DEF SessionNext

\* A lock that is set stays until it runs out: however many logins are under way,
\* only a reset or the rescue of a start takes it away (LockPolicy.decide).
THEOREM LockStays == Spec => LockedStaysLocked
  <1>1. TypeInv /\ CountInv /\ [Next]_vars => [KeepsLock]_vars
    BY KeepsLockStep
  <1> QED
    BY <1>1, Typing, CountsAlways, PTL DEF Spec, LockedStaysLocked, KeepsLock

-----------------------------------------------------------------------------
(***************************************************************************)
(* Suspensions.  An operation on a user has the row of that user from its  *)
(* locking query to its commit; and the UPDATE of a suspension has locked, *)
(* or has still to visit, every token of the user that is active still.    *)
(***************************************************************************)
HoldsTarget(r) ==
  /\ pc[r] = "locking" /\ target[r] \in Users => target[r] \in want[r] \/ userLock[target[r]] = r
  /\ Past(r) /\ op[r] # "RESET_LOGIN_FAILURES" /\ target[r] \in Users => userLock[target[r]] = r

Visits(r) ==
  /\ pc[r] \in {"suspending", "revoking"} => op[r] = "SUSPEND"
  /\ pc[r] = "writing" => op[r] # "SUSPEND"
  /\ \A t \in seen[r] : tokens[t].status # "unissued" /\ tokens[t].user = target[r]
  /\ pc[r] = "revoking" => \A t \in seen[r] : tokens[t].status = "active" => t \in toRevoke[r] \/ tokenLock[t] = r

SuspendInv == \A r \in AdminReqs : HoldsTarget(r) /\ Visits(r)

\* What nobody else changes of a request of an administrator: its locals, its locks,
\* and of the tokens it saw the user, and whether they are issued and no longer active.
LeavesAlone(r) ==
  /\ pc'[r] = pc[r] /\ op'[r] = op[r] /\ target'[r] = target[r] /\ want'[r] = want[r]
  /\ toRevoke'[r] = toRevoke[r] /\ seen'[r] = seen[r]
  /\ \A u \in Users : userLock[u] = r => userLock'[u] = r
  /\ \A t \in Tokens : tokenLock[t] = r => tokenLock'[t] = r

TokensGoOn ==
  \A t \in Tokens : tokens[t].status # "unissued" =>
    /\ tokens'[t].status # "unissued" /\ tokens'[t].user = tokens[t].user
    /\ tokens'[t].status = "active" => tokens[t].status = "active"

LEMMA LeftAloneKeeps ==
  ASSUME TypeInv, NEW r \in AdminReqs, HoldsTarget(r) /\ Visits(r), LeavesAlone(r), TokensGoOn
  PROVE  HoldsTarget(r)' /\ Visits(r)'
  <1>1. seen[r] \subseteq Tokens
    BY DEF TypeInv, TypeOK, AdminTypeOK
  <1>2. HoldsTarget(r)'
    BY DEF HoldsTarget, LeavesAlone, Past, Decided
  <1>3. Visits(r)'
    BY <1>1 DEF Visits, LeavesAlone, TokensGoOn
  <1> QED
    BY <1>2, <1>3

\* A request of an administrator leaves those of others alone.
LEMMA OthersLeftAlone ==
  ASSUME TypeInv, NEW r \in AdminReqs, NEW k \in AdminReqs \ {r}, Admit(r) \/ AdminStep(r)
  PROVE  LeavesAlone(k)
  <1> USE AdminReqsAssumption, NoTxnAssumption DEF TypeInv, TypeOK, DbTypeOK, AdminTypeOK, LeavesAlone, dbVars, tables, locks
  <1>1. ASSUME EndUnchanged(r) PROVE LeavesAlone(k)
    BY <1>1 DEF EndUnchanged, Forget, ReleaseAll, ReleaseUserLocks, ReleaseTokenLocks, Released
  <1>2. CASE Admit(r) \/ StartLocking(r) \/ Locked(r) \/ Accept(r) \/ StartRevoking(r)
    BY <1>2 DEF Admit, StartLocking, Locked, Accept, StartRevoking, Goto
  <1>3. CASE LockRow(r) \/ RevokeRow(r)
    BY <1>3 DEF LockRow, RevokeRow
  <1>4. CASE UserLockTimeout(r) \/ AttemptLockTimeout(r) \/ TokenLockTimeout(r) \/ Refuse(r)
    BY <1>1, <1>4 DEF UserLockTimeout, AttemptLockTimeout, TokenLockTimeout, Refuse
  <1>5. CASE StartReset(r) \/ LockAttemptRow(r)
    BY <1>1, <1>5 DEF StartReset, LockAttemptRow, Goto
  <1>6. CASE Commit(r)
    BY <1>6 DEF Commit, Forget, ReleaseAll, ReleaseUserLocks, ReleaseTokenLocks, Released
  <1> QED
    BY <1>2, <1>3, <1>4, <1>5, <1>6 DEF AdminStep

LEMMA TokensOfAdmin ==
  ASSUME TypeInv, NEW r \in AdminReqs, Admit(r) \/ AdminStep(r)
  PROVE  TokensGoOn
  <1> USE DEF TypeInv, TypeOK, DbTypeOK, TokensGoOn
  <1>1. CASE Commit(r)
    BY <1>1 DEF Commit, TokenRow
  <1>2. CASE ~Commit(r)
    <2>1. tokens' = tokens
      BY <1>2 DEF Admit, AdminStep, StartLocking, LockRow, Locked, UserLockTimeout, StartReset, LockAttemptRow,
         AttemptLockTimeout, Refuse, Accept, StartRevoking, RevokeRow, TokenLockTimeout, EndUnchanged, dbVars, tables
    <2> QED
      BY <2>1
  <1> QED
    BY <1>1, <1>2

\* A request of an administrator keeps what is said of itself.
LEMMA SuspendOwn ==
  ASSUME TypeInv, CountInv, SuspendInv, NEW r \in AdminReqs, Admit(r) \/ AdminStep(r)
  PROVE  HoldsTarget(r)' /\ Visits(r)'
  <1> USE AdminReqsAssumption, NoTxnAssumption DEF TypeInv, TypeOK, DbTypeOK, AdminTypeOK, SuspendInv, HoldsTarget, Visits, Past, Decided,
        dbVars, tables, locks
  <1>0. pc[r] = "locking" => op[r] # "RESET_LOGIN_FAILURES"
    BY DEF CountInv, ResetHolds
  <1>1. ASSUME pc'[r] = "idle", seen'[r] = {} PROVE HoldsTarget(r)' /\ Visits(r)'
    BY <1>1
  <1>2. CASE EndUnchanged(r) \/ Commit(r)
    BY <1>1, <1>2 DEF EndUnchanged, Commit, Forget
  <1>3. CASE Admit(r)
    BY <1>3 DEF Admit, Goto, ActiveTokensOf
  <1>4. CASE StartLocking(r)
    BY <1>4 DEF StartLocking, Goto, RowsToLock
  <1>5. CASE LockRow(r)
    BY <1>5 DEF LockRow, RowsToLock
  <1>6. CASE Locked(r)
    BY <1>0, <1>6 DEF Locked, Goto
  <1>7. CASE StartReset(r) /\ ~EndUnchanged(r)
    BY <1>7 DEF StartReset, Goto
  <1>8. CASE LockAttemptRow(r) /\ ~EndUnchanged(r)
    BY <1>8 DEF LockAttemptRow, Goto, CountInv, ResetHolds
  <1>9. CASE Accept(r)
    BY <1>9 DEF Accept, Goto
  <1>10. CASE StartRevoking(r)
    BY <1>10 DEF StartRevoking, Goto, ActiveTokensOf
  <1>11. CASE RevokeRow(r)
    BY <1>11 DEF RevokeRow
  <1> QED
    BY <1>2, <1>3, <1>4, <1>5, <1>6, <1>7, <1>8, <1>9, <1>10, <1>11
    DEF AdminStep, UserLockTimeout, AttemptLockTimeout, TokenLockTimeout, Refuse

\* Sessions lock other rows than users, and take no lock that is held.
LEMMA SuspendSession ==
  ASSUME TypeInv, UNCHANGED adminVars, SessionNext, NEW k \in AdminReqs
  PROVE  LeavesAlone(k) /\ TokensGoOn
  <1> USE SessionReqsAssumption, RequestKindsAssumption, AdminReqsAssumption, NoTxnAssumption, NoTokenAssumption
      DEF TypeInv, TypeOK, DbTypeOK, SessionTypeOK, InUse, LeavesAlone, TokensGoOn, adminVars, dbVars, tables, locks
  <1>1. ASSUME NEW l \in LoginReqs, Verify(l) \/ LoginStep(l) PROVE LeavesAlone(k) /\ TokensGoOn
    <2>1. CASE ~Judge(l)
      BY <1>1, <2>1 DEF Verify, LoginStep, CreateRow, LockLoginRow, LoginLockTimeout, RefuseSuspended
    <2>2. CASE Judge(l)
      BY <2>2 DEF Judge, Issue
    <2> QED
      BY <2>1, <2>2
  <1>2. ASSUME NEW q \in TokenReqs, Present(q) \/ ExchangeStep(q) PROVE LeavesAlone(k) /\ TokensGoOn
    <2>1. CASE Present(q) \/ RevokeIfActive(q) \/ ExchangeLockTimeout(q)
      BY <2>1 DEF Present, RevokeIfActive, ExchangeLockTimeout
    <2>2. CASE ReadOwner(q)
      BY <2>2 DEF ReadOwner, ReleaseTokenLocks, Released
    <2>3. CASE CommitRefresh(q)
      BY <2>3, RevokedType DEF CommitRefresh, Issue, ReleaseTokenLocks, Released, TokenRow
    <2>4. CASE CommitLogout(q)
      BY <2>4 DEF CommitLogout, ReleaseTokenLocks, Released, TokenRow
    <2> QED
      BY <1>2, <2>1, <2>2, <2>3, <2>4 DEF ExchangeStep
  <1>3. CASE DeleteExpired
    BY <1>3 DEF DeleteExpired, TokenRow
  <1> QED
    BY <1>1, <1>2, <1>3 DEF SessionNext

LEMMA SuspendStep ==
  ASSUME TypeInv, CountInv, SuspendInv, [Next]_vars
  PROVE  SuspendInv'
  <1>1. ASSUME NEW r \in AdminReqs, Admit(r) \/ AdminStep(r) PROVE SuspendInv'
    <2>1. HoldsTarget(r)' /\ Visits(r)'
      BY <1>1, SuspendOwn
    <2>2. ASSUME NEW k \in AdminReqs \ {r} PROVE HoldsTarget(k)' /\ Visits(k)'
      BY <1>1, OthersLeftAlone, TokensOfAdmin, LeftAloneKeeps DEF SuspendInv
    <2> QED
      BY <2>1, <2>2 DEF SuspendInv
  <1>2. ASSUME \A k \in AdminReqs : LeavesAlone(k) /\ TokensGoOn PROVE SuspendInv'
    BY <1>2, LeftAloneKeeps DEF SuspendInv
  <1>3. CASE UNCHANGED adminVars /\ SessionNext
    BY <1>2, <1>3, SuspendSession
  <1>4. CASE Start
    <2>1. TokensGoOn
      <3>1. tokens \in [Tokens -> TokenRow]
        BY DEF TypeInv, TypeOK, DbTypeOK
      <3>2. CASE Rescue
        BY <3>1, <3>2 DEF Rescue, TokensGoOn, TokenRow
      <3>3. CASE UNCHANGED tables
        BY <3>3 DEF tables, TokensGoOn
      <3> QED
        BY <1>4, <3>2, <3>3 DEF Start
    <2>2. \A k \in AdminReqs : LeavesAlone(k)
      BY <1>4 DEF Start, adminVars, locks, LeavesAlone
    <2> QED
      BY <1>2, <2>1, <2>2
  <1>5. CASE Tick \/ UNCHANGED vars
    BY <1>2, <1>5 DEF Tick, vars, adminVars, dbVars, tables, locks, LeavesAlone, TokensGoOn
  <1>6. CASE Crash
    BY <1>6 DEF Crash, SuspendInv, HoldsTarget, Visits, Past, Decided
  <1> QED
    BY <1>1, <1>3, <1>4, <1>5, <1>6, NextCases

\* What SuspendEndsEarlierSessions says of one step.
SuspensionRevokes ==
  \A r \in AdminReqs :
    (target[r] \in Users /\ op[r] = "SUSPEND" /\ Decided(r) /\ Suspends(target[r]))
       => \A t \in seen[r] : tokens'[t].status # "active"

\* Only the request that has the row of the user can suspend the user, and it commits
\* when its UPDATE has visited every token.
LEMMA SuspensionStep ==
  ASSUME TypeInv, SuspendInv, [Next]_vars
  PROVE  [SuspensionRevokes]_vars
  <1> USE DEF TypeInv, TypeOK, DbTypeOK, AdminTypeOK
  <1>1. ASSUME \A u \in Users : ~Suspends(u) PROVE SuspensionRevokes
    BY <1>1 DEF SuspensionRevokes
  <1>2. ASSUME users' = users PROVE SuspensionRevokes
    BY <1>1, <1>2 DEF Suspends
  <1>3. ASSUME NEW k \in AdminReqs, Commit(k) PROVE SuspensionRevokes
    <2>1. SUFFICES ASSUME NEW r \in AdminReqs, target[r] \in Users, op[r] = "SUSPEND", Decided(r), Suspends(target[r]), NEW t \in seen[r]
                   PROVE  tokens'[t].status # "active"
      BY DEF SuspensionRevokes
    <2>2. target[k] = target[r] /\ op[k] = "SUSPEND" /\ Past(k)
      BY <1>3, <2>1 DEF Commit, Suspends, Written, UserRow, Past, Decided
    <2>3. userLock[target[r]] = r /\ userLock[target[k]] = k
      BY <2>1, <2>2 DEF SuspendInv, HoldsTarget, Past
    <2>4. k = r
      BY <2>2, <2>3
    <2>5. pc[r] = "revoking" /\ toRevoke[r] = {}
      BY <1>3, <2>1, <2>4 DEF Commit, SuspendInv, Visits
    <2>6. t \in Tokens /\ (tokens[t].status = "active" => tokenLock[t] = r)
      BY <2>1, <2>5 DEF SuspendInv, Visits
    <2> QED
      BY <1>3, <2>4, <2>6 DEF Commit, TokenRow
  <1>4. ASSUME NEW k \in AdminReqs, Admit(k) \/ AdminStep(k), ~Commit(k) PROVE SuspensionRevokes
    <2>1. users' = users
      BY <1>4 DEF Admit, AdminStep, StartLocking, LockRow, Locked, UserLockTimeout, StartReset, LockAttemptRow,
         AttemptLockTimeout, Refuse, Accept, StartRevoking, RevokeRow, TokenLockTimeout, EndUnchanged, dbVars, tables
    <2> QED
      BY <1>2, <2>1
  <1>5. CASE SessionNext
    <2>1. users' = users
      BY <1>5 DEF SessionNext, LoginStep, ExchangeStep, Verify, CreateRow, LockLoginRow, LoginLockTimeout, RefuseSuspended, Judge,
         Present, RevokeIfActive, ExchangeLockTimeout, ReadOwner, CommitRefresh, CommitLogout, DeleteExpired, dbVars, tables
    <2> QED
      BY <1>2, <2>1
  <1>6. CASE Start
    BY <1>1, <1>6 DEF Start, Rescue, Suspends, tables
  <1>7. CASE Crash \/ Tick \/ UNCHANGED vars
    BY <1>2, <1>7 DEF Crash, Tick, vars, dbVars, tables
  <1> QED
    BY <1>3, <1>4, <1>5, <1>6, <1>7, NextCases

LEMMA SuspendAlways == Spec => []SuspendInv
  <1>1. Init => SuspendInv
    BY DEF Init, AdminInit, SuspendInv, HoldsTarget, Visits, Past, Decided
  <1>2. TypeInv /\ CountInv /\ SuspendInv /\ [Next]_vars => SuspendInv'
    BY SuspendStep
  <1> QED
    BY <1>1, <1>2, Typing, CountsAlways, PTL DEF Spec

\* Suspending a user ends every session the user had when the request came in,
\* whatever exchanges, logouts, logins and other administrators do meanwhile
\* (UserAdminService.suspend and revokeAllRefreshTokens).
THEOREM SuspensionEndsSessions == Spec => SuspendEndsEarlierSessions
  <1>1. TypeInv /\ SuspendInv /\ [Next]_vars => [SuspensionRevokes]_vars
    BY SuspensionStep
  <1> QED
    BY <1>1, Typing, SuspendAlways, PTL DEF Spec, SuspendEndsEarlierSessions, SuspensionRevokes

-----------------------------------------------------------------------------
\* The row locks: what the proofs assume that speak of administrators.
NobodyPromoted == "GRANT_ADMIN" \notin Operations

-----------------------------------------------------------------------------
(***************************************************************************)
(* RejectionPolicy: an operation is let through when no reason applies     *)
(* and holds.                                                              *)
(***************************************************************************)
Hits(o, f) == {i \in 1..5 : Applies(o, RejectionReasons[i]) /\ Holds(o, RejectionReasons[i], f)}

LEMMA DecideNone ==
  ASSUME NEW o, NEW f
  PROVE  Decide(o, f) = "NONE" <=> Hits(o, f) = {}
  <1>0. DOMAIN RejectionReasons = 1..5
    BY DEF RejectionReasons
  <1>1. \A i \in 1..5 : RejectionReasons[i] # "NONE"
    BY DEF RejectionReasons
  <1>2. ASSUME NEW S \in SUBSET (1..5), S # {}
        PROVE  \E i \in S : \A j \in S : i <= j
    <2>1. CASE 1 \in S
      BY <2>1
    <2>2. CASE 1 \notin S /\ 2 \in S
      BY <2>2
    <2>3. CASE 1 \notin S /\ 2 \notin S /\ 3 \in S
      BY <2>3
    <2>4. CASE 1 \notin S /\ 2 \notin S /\ 3 \notin S /\ 4 \in S
      BY <2>4
    <2>5. CASE 1 \notin S /\ 2 \notin S /\ 3 \notin S /\ 4 \notin S
      <3>1. \A j \in S : j = 5
        BY <2>5
      <3>2. PICK i \in S : TRUE
        BY <1>2
      <3>3. i = 5 /\ \A j \in S : i <= j
        BY <3>1
      <3> QED
        BY <3>3
    <2> QED
      BY <2>1, <2>2, <2>3, <2>4, <2>5
  <1>3. CASE Hits(o, f) = {}
    BY <1>0, <1>3 DEF Decide, Hits
  <1>4. CASE Hits(o, f) # {}
    <2> DEFINE first == CHOOSE i \in Hits(o, f) : \A j \in Hits(o, f) : i <= j
    <2>1. Hits(o, f) \in SUBSET (1..5)
      BY DEF Hits
    <2>2. first \in Hits(o, f)
      BY <1>2, <1>4, <2>1
    <2>3. Decide(o, f) = RejectionReasons[first]
      BY <1>0, <1>4 DEF Decide, Hits
    <2> QED
      BY <1>1, <1>4, <2>1, <2>2, <2>3
  <1> QED
    BY <1>3, <1>4

\* What a request that was let through may rely on until it commits.
Fine(r) ==
  /\ target[r] \in Users
  /\ op[r] # "RESET_LOGIN_FAILURES" => target[r] # actor[r]
  /\ op[r] = "REVOKE_ADMIN" => users[target[r]].admin /\ ~users[target[r]].suspended
  /\ op[r] = "SUSPEND" => ~users[target[r]].suspended
  /\ op[r] = "RESUME" => users[target[r]].suspended
  /\ op[r] = "RESET_LOGIN_FAILURES" => Resettable(attempts[target[r]])
  /\ op[r] \in {"REVOKE_ADMIN", "SUSPEND"} => ActiveAdmins # {target[r]}

LEMMA FineIsAllowed ==
  ASSUME NobodyPromoted, NEW r \in AdminReqs, op[r] \in Operations
  PROVE  Decide(op[r], Facts(r)) = "NONE" <=> Fine(r)
  <1>1. op[r] \in AdminOperation \ {"GRANT_ADMIN"}
    BY OperationsAssumption DEF NobodyPromoted
  <1>2. Hits(op[r], Facts(r)) = {} <=>
          \A i \in 1..5 : ~(Applies(op[r], RejectionReasons[i]) /\ Holds(op[r], RejectionReasons[i], Facts(r)))
    BY DEF Hits
  <1>3. (\A i \in 1..5 : ~(Applies(op[r], RejectionReasons[i]) /\ Holds(op[r], RejectionReasons[i], Facts(r))))
          <=> \A reason \in {"USER_NOT_FOUND", "SELF_OPERATION", "TARGET_SUSPENDED", "NO_CHANGE", "LAST_ACTIVE_ADMIN"} :
                ~(Applies(op[r], reason) /\ Holds(op[r], reason, Facts(r)))
    BY DEF RejectionReasons
  <1>4. CASE target[r] \notin Users
    BY <1>1, <1>2, <1>3, <1>4, DecideNone DEF Fine, Facts, TargetMissing, Applies, Holds
  <1>5. CASE target[r] \in Users
    <2>1. /\ Facts(r).targetExists
          /\ Facts(r).targetIsOperator <=> target[r] = actor[r]
          /\ Facts(r).targetSuspended <=> users[target[r]].suspended
          /\ Facts(r).targetAdmin <=> users[target[r]].admin
          /\ Facts(r).targetResettable <=>
               op[r] = "RESET_LOGIN_FAILURES" /\ Resettable(attempts[target[r]])
          /\ Facts(r).leavesNoActiveAdmin <=> op[r] \in RowsOps /\ ActiveAdmins = {target[r]}
      BY <1>5 DEF Facts
    <2> QED
      BY <1>1, <1>2, <1>3, <1>5, <2>1, DecideNone
      DEF Fine, Applies, Holds, NoChange, RowsOps, AdminOperation
  <1> QED
    BY <1>4, <1>5

-----------------------------------------------------------------------------
(***************************************************************************)
(* What the locks of a request cover.                                      *)
(***************************************************************************)
RowsInv ==
  \A r \in AdminReqs :
    /\ pc[r] # "idle" => op[r] \in Operations /\ actor[r] \in Users
    /\ pc[r] # "locking" => want[r] = {}
    /\ pc[r] \in {"suspending", "revoking"} => op[r] = "SUSPEND"
    /\ (pc[r] = "locking" \/ Past(r)) /\ op[r] # "RESET_LOGIN_FAILURES" =>
         \A u \in RowsToLock(r) : userLock[u] = r \/ u \in want[r]

LEMMA RowsInit == Init => RowsInv
  BY DEF Init, AdminInit, RowsInv, Past, Decided

\* Who is an administrator, and suspended, after an operation commits.
LEMMA CommitUsers ==
  ASSUME TypeInv, NEW r \in AdminReqs, Commit(r)
  PROVE  /\ \A u \in Users : u # target[r] => users'[u] = users[u]
         /\ target[r] \in Users =>
              /\ users'[target[r]].admin <=>
                   op[r] = "GRANT_ADMIN" \/ (users[target[r]].admin /\ op[r] # "REVOKE_ADMIN")
              /\ users'[target[r]].suspended <=>
                   op[r] = "SUSPEND" \/ (users[target[r]].suspended /\ op[r] # "RESUME")
  BY DEF Commit, Written, TypeInv, TypeOK, DbTypeOK

\* Without promotions a commit only takes rows out of what others have to lock.
LEMMA RowsAdmin ==
  ASSUME NobodyPromoted, TypeInv, CountInv, RowsInv, NEW r \in AdminReqs, Admit(r) \/ AdminStep(r)
  PROVE  RowsInv'
  <1> USE AdminReqsAssumption, NoTxnAssumption
      DEF TypeInv, TypeOK, DbTypeOK, AdminTypeOK, RowsInv, Past, Decided, RowsToLock,
        sessionVars, dbVars, tables, locks
  <1>1. ASSUME EndUnchanged(r) PROVE RowsInv'
    BY <1>1 DEF EndUnchanged, Forget, ReleaseAll, ReleaseUserLocks, Released
  <1>2. CASE Admit(r)
    BY <1>2 DEF Admit, Goto, ActiveAdmins
  <1>3. CASE StartLocking(r) \/ Locked(r)
    BY <1>3 DEF StartLocking, Locked, Goto
  <1>4. CASE LockRow(r)
    BY <1>4 DEF LockRow
  <1>5. CASE UserLockTimeout(r) \/ AttemptLockTimeout(r) \/ TokenLockTimeout(r) \/ Refuse(r)
    BY <1>1, <1>5 DEF UserLockTimeout, AttemptLockTimeout, TokenLockTimeout, Refuse
  <1>6. CASE StartReset(r) \/ LockAttemptRow(r)
    BY <1>1, <1>6 DEF StartReset, LockAttemptRow, Goto, CountInv, ResetHolds
  <1>7. CASE Accept(r) \/ StartRevoking(r) \/ RevokeRow(r)
    BY <1>7 DEF Accept, StartRevoking, RevokeRow, Goto
  <1>8. CASE Commit(r)
    <2>1. op[r] # "GRANT_ADMIN"
      BY <1>8 DEF Commit, NobodyPromoted
    <2>2. \A u \in Users : users'[u].admin => users[u].admin
      BY <1>8, <2>1, CommitUsers
    <2>3. \A u \in Users : userLock[u] # r => userLock'[u] = userLock[u]
      BY <1>8 DEF Commit, ReleaseAll, ReleaseUserLocks, Released
    <2>4. /\ pc' = [pc EXCEPT ![r] = "idle"] /\ want' = [want EXCEPT ![r] = {}]
          /\ \A k \in AdminReqs \ {r} : op'[k] = op[k] /\ actor'[k] = actor[k] /\ target'[k] = target[k]
      BY <1>8 DEF Commit, Forget
    <2> QED
      BY <2>2, <2>3, <2>4
  <1> QED
    BY <1>2, <1>3, <1>4, <1>5, <1>6, <1>7, <1>8 DEF AdminStep

\* Sessions touch neither table users nor its locks.
LEMMA SessionUsers ==
  ASSUME SessionNext
  PROVE  UNCHANGED <<users, userLock>>
  BY DEF SessionNext, Verify, LoginStep, CreateRow, LockLoginRow, LoginLockTimeout, RefuseSuspended,
     Judge, Present, ExchangeStep, RevokeIfActive, ExchangeLockTimeout, ReadOwner, CommitRefresh,
     CommitLogout, DeleteExpired, dbVars, tables, locks

\* A start, before anybody is served, may promote; nothing else does.
LEMMA RowsStep ==
  ASSUME NobodyPromoted, TypeInv, Quiet, CountInv, RowsInv, [Next]_vars
  PROVE  RowsInv'
  <1>1. ASSUME UNCHANGED <<users, userLock, adminVars>> PROVE RowsInv'
    BY <1>1 DEF adminVars, RowsInv, Past, Decided, RowsToLock
  <1>2. CASE Start
    BY <1>2 DEF Start, Quiet, adminVars, RowsInv, Past, Decided
  <1>3. CASE Crash
    BY <1>3 DEF Crash, RowsInv, Past, Decided
  <1>4. CASE Tick
    BY <1>1, <1>4 DEF Tick, tables, locks
  <1>5. CASE UNCHANGED vars
    BY <1>1, <1>5 DEF vars, dbVars, tables, locks
  <1>6. CASE UNCHANGED <<adminVars, phase>> /\ SessionNext
    BY <1>1, <1>6, SessionUsers
  <1> QED
    BY <1>2, <1>3, <1>4, <1>5, <1>6, RowsAdmin, NextCases

\* From its locking query to its commit, an operation has locked or has still to
\* visit every row that the query would return now, and a reset holds the row it
\* is about to clear (UserRowLockRepository, LockAdministrationService).
THEOREM LocksCover ==
  ASSUME NobodyPromoted
  PROVE  Spec => []LockDiscipline
  <1>1. TypeInv /\ Quiet /\ CountInv /\ RowsInv /\ [Next]_vars => RowsInv'
    BY RowsStep
  <1>2. RowsInv /\ CountInv => LockDiscipline
    BY DEF RowsInv, CountInv, ResetHolds, LockDiscipline
  <1> QED
    BY <1>1, <1>2, RowsInit, Typing, QuietStart, CountsAlways, PTL DEF Spec

-----------------------------------------------------------------------------
(***************************************************************************)
(* What was decided still holds.  Of two requests past their decision, two *)
(* revocations or suspensions would both have locked the senders' rows;    *)
(* two of any kind about one user would both have locked that user's row   *)
(* (or, for resets, the row of login_attempt_states).                      *)
(***************************************************************************)
FineInv ==
  \A r \in AdminReqs : Decided(r) =>
    /\ Fine(r)
    /\ op[r] \in RowsOps => IsActiveAdmin(actor[r])

\* A decided request has its rows locked.
LEMMA HoldsRows ==
  ASSUME RowsInv, NEW r \in AdminReqs, Decided(r), op[r] # "RESET_LOGIN_FAILURES"
  PROVE  \A u \in RowsToLock(r) : userLock[u] = r
  BY DEF RowsInv, Past, Decided

LEMMA DecidedOps ==
  ASSUME NobodyPromoted, RowsInv, NEW r \in AdminReqs, Decided(r)
  PROVE  op[r] \in {"REVOKE_ADMIN", "SUSPEND", "RESUME", "RESET_LOGIN_FAILURES"}
  BY OperationsAssumption DEF RowsInv, Decided, NobodyPromoted, AdminOperation

\* What another request relies on, after r has committed.
LEMMA CommitKeepsFine ==
  ASSUME NobodyPromoted, TypeInv, CountInv, RowsInv, FineInv,
         NEW r \in AdminReqs, Commit(r), NEW k \in AdminReqs \ {r}, Decided(k)
  PROVE  (Fine(k) /\ (op[k] \in RowsOps => IsActiveAdmin(actor[k])))'
  <1>1. Decided(r) /\ Fine(r) /\ Fine(k)
    BY DEF Commit, Decided, FineInv
  <1>2. /\ op'[k] = op[k] /\ actor'[k] = actor[k] /\ target'[k] = target[k]
        /\ target[r] \in Users /\ target[k] \in Users /\ actor[k] \in Users
    BY <1>1 DEF Commit, Forget, Fine, RowsInv, Decided, TypeInv, TypeOK, AdminTypeOK
  <1>3. /\ \A u \in Users : u # target[r] => users'[u] = users[u]
        /\ users'[target[r]].admin <=> users[target[r]].admin /\ op[r] # "REVOKE_ADMIN"
        /\ users'[target[r]].suspended <=>
             op[r] = "SUSPEND" \/ (users[target[r]].suspended /\ op[r] # "RESUME")
    BY <1>1, <1>2, CommitUsers, DecidedOps
  <1>4. CASE op[k] = "RESET_LOGIN_FAILURES"
    <2>1. ~(op[r] = "RESET_LOGIN_FAILURES" /\ target[r] = target[k])
      BY <1>1, <1>4 DEF CountInv, ResetHolds, Past, Decided
    <2>2. attempts'[target[k]] = attempts[target[k]]
      BY <1>2, <2>1 DEF Commit, TypeInv, TypeOK, DbTypeOK
    <2> QED
      BY <1>1, <1>2, <1>4, <2>2 DEF Fine, RowsOps
  <1>5. CASE op[r] = "RESET_LOGIN_FAILURES"
    <2>1. \A u \in Users : IsActiveAdmin(u)' <=> IsActiveAdmin(u)
      BY <1>3, <1>5 DEF IsActiveAdmin
    <2>2. ActiveAdmins' = ActiveAdmins
      BY <2>1 DEF ActiveAdmins
    <2>3. /\ users'[target[k]].admin <=> users[target[k]].admin
          /\ users'[target[k]].suspended <=> users[target[k]].suspended
      BY <1>2, <1>3, <1>5
    <2>4. CASE op[k] # "RESET_LOGIN_FAILURES"
      BY <1>1, <1>2, <2>1, <2>2, <2>3, <2>4 DEF Fine, FineInv
    <2> QED
      BY <1>4, <2>4
  <1>6. CASE op[k] = "RESUME" /\ op[r] # "RESET_LOGIN_FAILURES"
    <2>1. target[k] # target[r]
      BY <1>1, <1>2, <1>6, HoldsRows DEF RowsToLock
    <2> QED
      BY <1>1, <1>2, <1>3, <1>6, <2>1 DEF Fine, RowsOps
  <1>7. CASE op[k] \in {"REVOKE_ADMIN", "SUSPEND"} /\ op[r] # "RESET_LOGIN_FAILURES"
    <2>1. IsActiveAdmin(actor[k])
      BY <1>7 DEF FineInv, RowsOps
    <2>2. op[r] = "RESUME"
      <3>1. userLock[actor[k]] = k
        BY <1>2, <1>7, <2>1, HoldsRows DEF RowsToLock, IsActiveAdmin
      <3>2. op[r] \in {"REVOKE_ADMIN", "SUSPEND"} => userLock[actor[k]] = r
        BY <1>1, <1>2, <2>1, HoldsRows DEF RowsToLock, IsActiveAdmin
      <3> QED
        BY <1>1, <1>7, <3>1, <3>2, DecidedOps
    <2>3. target[r] # target[k] /\ ~users[target[r]].admin
      <3>1. userLock[target[r]] = r
        BY <1>1, <1>2, <2>2, HoldsRows DEF RowsToLock
      <3>2. users[target[r]].admin \/ target[r] = target[k] => userLock[target[r]] = k
        BY <1>2, <1>7, HoldsRows DEF RowsToLock
      <3> QED
        BY <3>1, <3>2
    <2>4. \A u \in Users : IsActiveAdmin(u)' <=> IsActiveAdmin(u)
      BY <1>3, <2>2, <2>3 DEF IsActiveAdmin
    <2>5. ActiveAdmins' = ActiveAdmins
      BY <2>4 DEF ActiveAdmins
    <2>6. users'[target[k]] = users[target[k]]
      BY <1>2, <1>3, <2>3
    <2> QED
      BY <1>1, <1>2, <1>7, <2>1, <2>4, <2>5, <2>6 DEF Fine
  <1> QED
    BY <1>4, <1>5, <1>6, <1>7, DecidedOps

\* Every step of a request keeps what the others have decided on, and a request
\* decides on what is so.
LEMMA FineAdmin ==
  ASSUME NobodyPromoted, TypeInv, CountInv, RowsInv, FineInv,
         NEW r \in AdminReqs, Admit(r) \/ AdminStep(r)
  PROVE  FineInv'
  <1>1. ASSUME UNCHANGED <<users, attempts>>,
               \A k \in AdminReqs \ {r} :
                 pc'[k] = pc[k] /\ op'[k] = op[k] /\ actor'[k] = actor[k] /\ target'[k] = target[k],
               Decided(r)' => /\ Fine(r) /\ (op[r] \in RowsOps => IsActiveAdmin(actor[r]))
                              /\ op'[r] = op[r] /\ actor'[r] = actor[r] /\ target'[r] = target[r]
        PROVE  FineInv'
    BY <1>1 DEF FineInv, Fine, Decided, IsActiveAdmin, ActiveAdmins
  <1> USE DEF TypeInv, TypeOK, AdminTypeOK, dbVars, tables, Decided
  <1>2. ASSUME EndUnchanged(r) PROVE FineInv'
    BY <1>1, <1>2 DEF EndUnchanged, Forget
  <1>3. CASE Admit(r) \/ StartLocking(r) \/ Locked(r)
    BY <1>1, <1>3 DEF Admit, StartLocking, Locked, Goto
  <1>4. CASE LockRow(r) \/ RevokeRow(r)
    BY <1>1, <1>4 DEF LockRow, RevokeRow, FineInv
  <1>5. CASE UserLockTimeout(r) \/ AttemptLockTimeout(r) \/ TokenLockTimeout(r) \/ Refuse(r)
    BY <1>2, <1>5 DEF UserLockTimeout, AttemptLockTimeout, TokenLockTimeout, Refuse
  <1>6. CASE StartReset(r) \/ LockAttemptRow(r)
    BY <1>1, <1>2, <1>6 DEF StartReset, LockAttemptRow, Goto
  <1>7. CASE Accept(r)
    <2>1. Fine(r) /\ IsActiveAdmin(actor[r])
      BY <1>7, FineIsAllowed DEF Accept, Allowed, RowsInv
    <2> QED
      BY <1>1, <1>7, <2>1 DEF Accept, Goto
  <1>8. CASE StartRevoking(r)
    BY <1>1, <1>8 DEF StartRevoking, Goto, FineInv
  <1>9. CASE Commit(r)
    <2>1. pc' = [pc EXCEPT ![r] = "idle"]
      BY <1>9 DEF Commit, Forget
    <2>2. ASSUME NEW k \in AdminReqs, Decided(k)'
          PROVE  (Fine(k) /\ (op[k] \in RowsOps => IsActiveAdmin(actor[k])))'
      <3>1. k # r /\ Decided(k)
        BY <2>1, <2>2
      <3> QED
        BY <1>9, <3>1, CommitKeepsFine
    <2> QED
      BY <2>2 DEF FineInv
  <1> QED
    BY <1>3, <1>4, <1>5, <1>6, <1>7, <1>8, <1>9 DEF AdminStep

\* A login that changes a row of login_attempt_states holds it, so no reset that
\* has been decided sees its row change.
LEMMA SessionAttempts ==
  ASSUME TypeInv, CountInv, SessionNext,
         NEW r \in AdminReqs, Decided(r), op[r] = "RESET_LOGIN_FAILURES"
  PROVE  attempts'[target[r]] = attempts[target[r]]
  <1>1. target[r] \in Users /\ attemptLock[target[r]] = r /\ attempts[target[r]].present
    BY DEF CountInv, ResetHolds, Past, Decided
  <1>2. ASSUME NEW l \in LoginReqs, Verify(l) \/ LoginStep(l)
        PROVE  attempts'[target[r]] = attempts[target[r]]
    <2>1. lpc[l] = "judging" => attemptLock[subject[l]] = l
      BY DEF CountInv, CountsAgree
    <2>2. l # r
      BY RequestKindsAssumption
    <2>3. CASE CreateRow(l)
      BY <1>1, <2>3 DEF CreateRow, TypeInv, TypeOK, DbTypeOK
    <2>4. CASE RefuseSuspended(l) \/ Judge(l)
      BY <1>1, <2>1, <2>2, <2>4 DEF RefuseSuspended, Judge, TypeInv, TypeOK, DbTypeOK
    <2>5. CASE Verify(l) \/ LockLoginRow(l) \/ LoginLockTimeout(l)
      BY <2>5 DEF Verify, LockLoginRow, LoginLockTimeout, dbVars, tables
    <2> QED
      BY <1>2, <2>3, <2>4, <2>5 DEF LoginStep
  <1>3. ASSUME NEW q \in TokenReqs, Present(q) \/ ExchangeStep(q)
        PROVE  attempts'[target[r]] = attempts[target[r]]
    BY <1>3 DEF Present, ExchangeStep, RevokeIfActive, ExchangeLockTimeout, ReadOwner,
       CommitRefresh, CommitLogout, dbVars, tables
  <1>4. CASE DeleteExpired
    BY <1>4 DEF DeleteExpired
  <1> QED
    BY <1>2, <1>3, <1>4 DEF SessionNext

\* One step, whoever takes it.
LEMMA FineStep ==
  ASSUME NobodyPromoted, TypeInv, Quiet, CountInv, RowsInv, FineInv, [Next]_vars
  PROVE  FineInv'
  <1>1. ASSUME UNCHANGED <<users, adminVars>>,
               \A r \in AdminReqs : Decided(r) /\ op[r] = "RESET_LOGIN_FAILURES"
                                      => attempts'[target[r]] = attempts[target[r]]
        PROVE  FineInv'
    BY <1>1 DEF adminVars, FineInv, Fine, Decided, IsActiveAdmin, ActiveAdmins
  <1>2. CASE Start
    BY <1>2 DEF Start, Quiet, adminVars, FineInv, Decided
  <1>3. CASE Crash
    BY <1>3 DEF Crash, FineInv, Decided
  <1>4. CASE Tick
    BY <1>1, <1>4 DEF Tick, tables
  <1>5. CASE UNCHANGED vars
    BY <1>1, <1>5 DEF vars, dbVars, tables
  <1>6. CASE UNCHANGED <<adminVars, phase>> /\ SessionNext
    BY <1>1, <1>6, SessionUsers, SessionAttempts
  <1> QED
    BY <1>2, <1>3, <1>4, <1>5, <1>6, FineAdmin, NextCases

LEMMA FineAlways ==
  ASSUME NobodyPromoted
  PROVE  Spec => [](TypeInv /\ RowsInv /\ FineInv)
  <1>1. Init => FineInv
    BY DEF Init, AdminInit, FineInv, Decided
  <1>2. TypeInv /\ Quiet /\ CountInv /\ RowsInv /\ FineInv /\ [Next]_vars => RowsInv' /\ FineInv'
    BY RowsStep, FineStep
  <1> QED
    BY <1>1, <1>2, RowsInit, Typing, QuietStart, CountsAlways, PTL DEF Spec

\* What an operation of an administrator was allowed on is still so when it commits,
\* however many run at the same time (UserAdminService).
THEOREM DecisionsHold ==
  ASSUME NobodyPromoted
  PROVE  Spec => []DecisionStillHolds
  <1>1. RowsInv /\ FineInv => DecisionStillHolds
    <2> SUFFICES ASSUME RowsInv, FineInv, NEW r \in AdminReqs, Decided(r)
                 PROVE  /\ Decide(op[r], Facts(r)) = "NONE"
                        /\ op[r] \in RowsOps => IsActiveAdmin(actor[r])
      BY DEF DecisionStillHolds
    <2>1. Fine(r) /\ op[r] \in Operations
      BY DEF FineInv, RowsInv, Decided
    <2> QED
      BY <2>1, FineIsAllowed DEF FineInv
  <1> QED
    BY <1>1, FineAlways, PTL

\* The sender of a revocation or a suspension remains when it commits.
LEMMA OneRemains ==
  ASSUME NobodyPromoted, TypeInv, RowsInv, FineInv, ActiveAdminExists, [Next]_vars
  PROVE  ActiveAdminExists'
  <1>1. ASSUME UNCHANGED users PROVE ActiveAdminExists'
    BY <1>1 DEF ActiveAdminExists, ActiveAdmins, IsActiveAdmin
  <1>2. CASE Start
    <2>1. CASE Rescue
      <3>1. users'[InitialAdmin].admin /\ ~users'[InitialAdmin].suspended
        BY <2>1, InitialAdminAssumption DEF Rescue, TypeInv, TypeOK, DbTypeOK
      <3> QED
        BY <3>1, InitialAdminAssumption DEF ActiveAdminExists, ActiveAdmins, IsActiveAdmin
    <2> QED
      BY <1>1, <1>2, <2>1 DEF Start, tables
  <1>3. CASE Crash \/ Tick \/ UNCHANGED vars
    BY <1>1, <1>3 DEF Crash, Tick, vars, dbVars, tables
  <1>4. ASSUME NEW r \in AdminReqs, Commit(r) PROVE ActiveAdminExists'
    <2>1. Decided(r) /\ Fine(r) /\ (op[r] \in RowsOps => IsActiveAdmin(actor[r])) /\ actor[r] \in Users
      BY <1>4 DEF Commit, Decided, FineInv, RowsInv
    <2>2. CASE op[r] \in RowsOps
      <3>1. actor[r] # target[r]
        BY <2>1, <2>2 DEF Fine, RowsOps
      <3>2. users'[actor[r]] = users[actor[r]] /\ IsActiveAdmin(actor[r])
        BY <1>4, <2>1, <2>2, <3>1, CommitUsers
      <3> QED
        BY <2>1, <3>2 DEF ActiveAdminExists, ActiveAdmins, IsActiveAdmin
    <2>3. CASE op[r] \notin RowsOps
      <3>1. \A u \in Users : IsActiveAdmin(u) => users'[u].admin /\ ~users'[u].suspended
        BY <1>4, <2>1, <2>3, CommitUsers DEF Fine, RowsOps, IsActiveAdmin
      <3> QED
        BY <3>1 DEF ActiveAdminExists, ActiveAdmins, IsActiveAdmin
    <2> QED
      BY <2>2, <2>3
  <1>5. ASSUME NEW r \in AdminReqs, Admit(r) \/ AdminStep(r), ~Commit(r) PROVE ActiveAdminExists'
    BY <1>1, <1>5 DEF Admit, AdminStep, StartLocking, LockRow, Locked, UserLockTimeout, StartReset,
       LockAttemptRow, AttemptLockTimeout, Refuse, Accept, StartRevoking, RevokeRow, TokenLockTimeout,
       EndUnchanged, dbVars, tables
  <1>6. CASE SessionNext
    BY <1>1, <1>6, SessionUsers
  <1> QED
    BY <1>2, <1>3, <1>4, <1>5, <1>6, NextCases DEF AdminStep

\* Whatever administrators do to each other at the same time, one who is not
\* suspended remains, as long as nobody is made an administrator meanwhile
\* (UserAdminService.adminRowsOperation).
THEOREM LastAdminStays ==
  ASSUME NobodyPromoted
  PROVE  Spec => []ActiveAdminExists
  <1>1. Init => ActiveAdminExists
    BY DEF Init, DbInit, ActiveAdminExists, ActiveAdmins, IsActiveAdmin
  <1>2. TypeInv /\ RowsInv /\ FineInv /\ ActiveAdminExists /\ [Next]_vars => ActiveAdminExists'
    BY OneRemains
  <1> QED
    BY <1>1, <1>2, FineAlways, PTL DEF Spec
-----------------------------------------------------------------------------
(***************************************************************************)
(* Waiting.  Rows of users are locked in ascending order, a reset locks    *)
(* one row and waits for nothing more, and only the suspension that has    *)
(* the row of a user revokes that user's tokens.  So of any set of         *)
(* requests, one waits for none of the others.                             *)
(***************************************************************************)
AdminHolds(r) ==
  /\ \A u \in Users : userLock[u] = r => (pc[r] = "locking" \/ Past(r)) /\ \A v \in want[r] : u < v
  /\ \A u \in Users : attemptLock[u] = r => op[r] = "RESET_LOGIN_FAILURES" /\ pc[r] \in {"deciding", "writing"}
  /\ \A t \in Tokens : tokenLock[t] = r => pc[r] = "revoking" /\ tokens[t].status # "unissued" /\ tokens[t].user = target[r]
  /\ \A t \in toRevoke[r] : pc[r] = "revoking" /\ tokenLock[t] # r /\ tokens[t].status # "unissued" /\ tokens[t].user = target[r]
  /\ pc[r] \in {"suspending", "revoking"} => target[r] \in Users

LoginHolds(l) ==
  /\ \A u \in Users : userLock[u] # l /\ (attemptLock[u] = l => lpc[l] = "judging")
  /\ \A t \in Tokens : tokenLock[t] # l

ExchangeHolds(q) ==
  /\ \A u \in Users : userLock[u] # q /\ attemptLock[u] # q
  /\ \A t \in Tokens : tokenLock[t] = q => qpc[q] \in {"revoked", "issuing"}

LockInv ==
  /\ \A r \in AdminReqs : AdminHolds(r)
  /\ \A l \in LoginReqs : LoginHolds(l)
  /\ \A q \in TokenReqs : ExchangeHolds(q)

\* A step locks nothing for x.
TakesNothing(x) ==
  /\ \A u \in Users : (userLock'[u] = x => userLock[u] = x) /\ (attemptLock'[u] = x => attemptLock[u] = x)
  /\ \A t \in Tokens : tokenLock'[t] = x => tokenLock[t] = x

\* What is said of a request holds after a step that locks nothing for it and
\* leaves its locals as they are.
LEMMA AdminHoldsOn ==
  ASSUME TypeInv, NEW r \in AdminReqs, AdminHolds(r), TakesNothing(r), TokensGoOn,
         pc'[r] = pc[r], op'[r] = op[r], target'[r] = target[r], want'[r] = want[r], toRevoke'[r] = toRevoke[r]
  PROVE  AdminHolds(r)'
  <1>1. toRevoke[r] \subseteq Tokens
    BY DEF TypeInv, TypeOK, AdminTypeOK
  <1>2. (\A u \in Users : userLock[u] = r => (pc[r] = "locking" \/ Past(r)) /\ \A v \in want[r] : u < v)'
    BY DEF AdminHolds, TakesNothing, Past, Decided
  <1>3. (\A u \in Users : attemptLock[u] = r => op[r] = "RESET_LOGIN_FAILURES" /\ pc[r] \in {"deciding", "writing"})'
    BY DEF AdminHolds, TakesNothing
  <1>4. (\A t \in Tokens : tokenLock[t] = r => pc[r] = "revoking" /\ tokens[t].status # "unissued" /\ tokens[t].user = target[r])'
    BY DEF AdminHolds, TakesNothing, TokensGoOn
  <1>5. (\A t \in toRevoke[r] : pc[r] = "revoking" /\ tokenLock[t] # r /\ tokens[t].status # "unissued" /\ tokens[t].user = target[r])'
    BY <1>1 DEF AdminHolds, TakesNothing, TokensGoOn
  <1>6. (pc[r] \in {"suspending", "revoking"} => target[r] \in Users)'
    BY DEF AdminHolds
  <1> QED
    BY <1>2, <1>3, <1>4, <1>5, <1>6 DEF AdminHolds

LEMMA SessionHoldsOn ==
  ASSUME NEW x, TakesNothing(x)
  PROVE  /\ x \in LoginReqs /\ lpc'[x] = lpc[x] /\ LoginHolds(x) => LoginHolds(x)'
         /\ x \in TokenReqs /\ qpc'[x] = qpc[x] /\ ExchangeHolds(x) => ExchangeHolds(x)'
  BY DEF TakesNothing, LoginHolds, ExchangeHolds

\* A request of an administrator locks rows for itself only.
LEMMA AdminTakes ==
  ASSUME TypeInv, NEW r \in AdminReqs, Admit(r) \/ AdminStep(r), NEW x \in Txns \ {r}
  PROVE  TakesNothing(x)
  <1> USE AdminReqsAssumption, NoTxnAssumption DEF TypeInv, TypeOK, DbTypeOK, AdminTypeOK, TakesNothing, dbVars, locks
  <1>1. ASSUME ReleaseAll(r) PROVE TakesNothing(x)
    BY <1>1 DEF ReleaseAll, ReleaseUserLocks, ReleaseAttemptLocks, ReleaseTokenLocks, Released
  <1>2. CASE Admit(r) \/ StartLocking(r) \/ Locked(r) \/ Accept(r) \/ StartRevoking(r)
    BY <1>2 DEF Admit, StartLocking, Locked, Accept, StartRevoking
  <1>3. CASE LockRow(r) \/ RevokeRow(r)
    BY <1>3 DEF LockRow, RevokeRow
  <1>4. CASE UserLockTimeout(r) \/ AttemptLockTimeout(r) \/ TokenLockTimeout(r) \/ Refuse(r) \/ Commit(r)
    BY <1>1, <1>4 DEF UserLockTimeout, AttemptLockTimeout, TokenLockTimeout, Refuse, Commit, EndUnchanged
  <1>5. CASE StartReset(r) \/ LockAttemptRow(r)
    BY <1>1, <1>5 DEF StartReset, LockAttemptRow, EndUnchanged
  <1> QED
    BY <1>2, <1>3, <1>4, <1>5 DEF AdminStep

\* A request whose transaction ends holds nothing.
LEMMA AdminReleases ==
  ASSUME TypeInv, NEW r \in AdminReqs, ReleaseAll(r), Forget(r)
  PROVE  AdminHolds(r)'
  <1> USE AdminReqsAssumption, NoTxnAssumption DEF TypeInv, TypeOK, DbTypeOK, AdminTypeOK
  <1>1. pc'[r] = "idle" /\ toRevoke'[r] = {}
    BY DEF Forget
  <1>2. \A u \in Users : userLock'[u] # r /\ attemptLock'[u] # r
    BY DEF ReleaseAll, ReleaseUserLocks, ReleaseAttemptLocks, Released
  <1>3. \A t \in Tokens : tokenLock'[t] # r
    BY DEF ReleaseAll, ReleaseTokenLocks, Released
  <1> QED
    BY <1>1, <1>2, <1>3 DEF AdminHolds

\* An operation is let through only on a user there is.
LEMMA AllowedExists ==
  ASSUME NEW r \in AdminReqs, Allowed(r)
  PROVE  target[r] \in Users
  <1> SUFFICES ASSUME target[r] \notin Users PROVE FALSE
    OBVIOUS
  <1>1. Hits(op[r], Facts(r)) = {}
    BY DecideNone DEF Allowed
  <1>2. 1 \in Hits(op[r], Facts(r))
    BY DEF Hits, Facts, TargetMissing, Applies, Holds, RejectionReasons
  <1> QED
    BY <1>1, <1>2

\* A request of an administrator keeps what is said of itself: it locks rows in
\* ascending order, and tokens of its target.
LEMMA AdminHoldsOwn ==
  ASSUME TypeInv, CountInv, SuspendInv, NEW r \in AdminReqs, AdminHolds(r), Admit(r) \/ AdminStep(r)
  PROVE  AdminHolds(r)'
  <1> USE AdminReqsAssumption, NoTxnAssumption DEF TypeInv, TypeOK, DbTypeOK, AdminTypeOK
  <1>1. CASE EndUnchanged(r) \/ Commit(r)
    BY <1>1, AdminReleases DEF EndUnchanged, Commit
  <1>2. CASE Admit(r)
    BY <1>2 DEF Admit, Goto, AdminHolds, Past, Decided, dbVars, tables, locks
  <1>3. CASE StartLocking(r)
    BY <1>3 DEF StartLocking, Goto, AdminHolds, Past, Decided, dbVars, tables, locks
  <1>4. CASE LockRow(r)
    <2>1. PICK u \in want[r] : /\ IsNext(r, u) /\ userLock' = [userLock EXCEPT ![u] = IF u \in RowsToLock(r) THEN r ELSE NoTxn]
                               /\ want' = [want EXCEPT ![r] = @ \ {u}]
      BY <1>4 DEF LockRow
    <2>2. /\ want[r] \subseteq Nat /\ u \in Users /\ \A v \in want[r] \ {u} : u < v
      <3>1. want[r] \subseteq Users /\ u \in Users
        BY <2>1
      <3>2. ASSUME NEW v \in want[r] \ {u} PROVE u < v
        <4>1. u \in Nat /\ v \in Nat /\ u <= v /\ u # v
          BY <2>1, <3>1, UsersAssumption DEF IsNext
        <4> QED
          BY <4>1
      <3> QED
        BY <3>1, <3>2, UsersAssumption
    <2>3. UNCHANGED <<attemptLock, tokenLock, tokens, pc, op, target, toRevoke>> /\ pc[r] = "locking"
      BY <1>4 DEF LockRow, tables
    <2>4. \A w \in Users : userLock'[w] = r => \A v \in want'[r] : w < v
      BY <2>1, <2>2 DEF AdminHolds
    <2> QED
      BY <2>3, <2>4 DEF AdminHolds, Past, Decided
  <1>5. CASE Locked(r)
    BY <1>5 DEF Locked, Goto, AdminHolds, Past, Decided, dbVars, tables, locks
  <1>6. CASE StartReset(r) /\ ~EndUnchanged(r)
    BY <1>6 DEF StartReset, Goto, AdminHolds, Past, Decided, dbVars, tables, locks
  <1>7. CASE LockAttemptRow(r) /\ ~EndUnchanged(r)
    <2>1. op[r] = "RESET_LOGIN_FAILURES" /\ target[r] \in Users
      BY <1>7 DEF LockAttemptRow, CountInv, ResetHolds
    <2> QED
      BY <1>7, <2>1 DEF LockAttemptRow, Goto, AdminHolds, Past, Decided, dbVars, tables, locks
  <1>8. CASE Accept(r)
    BY <1>8, AllowedExists DEF Accept, Goto, AdminHolds, Past, Decided, dbVars, tables, locks
  <1>9. CASE StartRevoking(r)
    BY <1>9 DEF StartRevoking, Goto, ActiveTokensOf, AdminHolds, Past, Decided, dbVars, tables, locks
  <1>10. CASE RevokeRow(r)
    BY <1>10 DEF RevokeRow, AdminHolds, Past, Decided, dbVars, tables, locks
  <1> QED
    BY <1>1, <1>2, <1>3, <1>4, <1>5, <1>6, <1>7, <1>8, <1>9, <1>10
    DEF AdminStep, UserLockTimeout, AttemptLockTimeout, TokenLockTimeout, Refuse

LEMMA LocksAdmin ==
  ASSUME TypeInv, CountInv, SuspendInv, LockInv, UNCHANGED sessionVars, NEW r \in AdminReqs, Admit(r) \/ AdminStep(r)
  PROVE  LockInv'
  <1>1. ASSUME NEW k \in AdminReqs \ {r} PROVE AdminHolds(k)'
    <2>1. TakesNothing(k) /\ TokensGoOn /\ LeavesAlone(k)
      BY AdminTakes, TokensOfAdmin, OthersLeftAlone, AdminReqsAssumption
    <2> QED
      BY <2>1, AdminHoldsOn DEF LockInv, LeavesAlone
  <1>2. AdminHolds(r)'
    BY AdminHoldsOwn DEF LockInv
  <1>3. \A x \in LoginReqs \cup TokenReqs : TakesNothing(x)
    BY AdminTakes, RequestKindsAssumption, SessionReqsAssumption
  <1>4. \A x \in LoginReqs : LoginHolds(x)'
    BY <1>3, SessionHoldsOn DEF LockInv, sessionVars
  <1>5. \A x \in TokenReqs : ExchangeHolds(x)'
    BY <1>3, SessionHoldsOn DEF LockInv, sessionVars
  <1> QED
    BY <1>1, <1>2, <1>4, <1>5 DEF LockInv

\* A login locks one row of login_attempt_states, and for itself only.
LEMMA LocksLogin ==
  ASSUME TypeInv, LockInv, NEW l \in LoginReqs, Verify(l) \/ LoginStep(l)
  PROVE  /\ \A x \in Txns \ {l} : TakesNothing(x)
         /\ LoginHolds(l)'
         /\ \A x \in LoginReqs \ {l} : lpc'[x] = lpc[x]
         /\ UNCHANGED qpc
  <1> USE NoTxnAssumption, SessionReqsAssumption DEF TypeInv, TypeOK, DbTypeOK, SessionTypeOK, InUse, TakesNothing, LoginHolds, LockInv
  <1>1. CASE Verify(l) \/ CreateRow(l) \/ LoginLockTimeout(l)
    BY <1>1 DEF Verify, CreateRow, LoginLockTimeout, ForgetLogin, dbVars, locks, sessionVars, loginVars, exchangeVars
  <1>2. CASE LockLoginRow(l)
    BY <1>2 DEF LockLoginRow, exchangeVars
  <1>3. CASE RefuseSuspended(l) \/ Judge(l)
    BY <1>3 DEF RefuseSuspended, Judge, ForgetLogin, ReleaseAttemptLocks, Released, exchangeVars
  <1> QED
    BY <1>1, <1>2, <1>3 DEF LoginStep

\* An exchange or a logout locks its token, and for itself only.
LEMMA LocksExchange ==
  ASSUME TypeInv, LockInv, NEW q \in TokenReqs, Present(q) \/ ExchangeStep(q)
  PROVE  /\ \A x \in Txns \ {q} : TakesNothing(x)
         /\ ExchangeHolds(q)'
         /\ \A x \in TokenReqs \ {q} : qpc'[x] = qpc[x]
         /\ UNCHANGED lpc
  <1> USE NoTxnAssumption, SessionReqsAssumption DEF TypeInv, TypeOK, DbTypeOK, SessionTypeOK, InUse, TakesNothing, ExchangeHolds, LockInv
  <1>1. CASE Present(q) \/ ExchangeLockTimeout(q)
    BY <1>1 DEF Present, ExchangeLockTimeout, ForgetExchange, dbVars, locks, loginVars
  <1>2. CASE RevokeIfActive(q)
    BY <1>2 DEF RevokeIfActive, ForgetExchange, dbVars, locks, loginVars
  <1>3. CASE ReadOwner(q) \/ CommitRefresh(q) \/ CommitLogout(q)
    BY <1>3 DEF ReadOwner, CommitRefresh, CommitLogout, ForgetExchange, ReleaseTokenLocks, Released, dbVars, locks, loginVars
  <1> QED
    BY <1>1, <1>2, <1>3 DEF ExchangeStep

LEMMA LocksSession ==
  ASSUME TypeInv, LockInv, UNCHANGED adminVars, SessionNext
  PROVE  LockInv'
  <1> USE AdminReqsAssumption, SessionReqsAssumption, RequestKindsAssumption
  <1>1. ASSUME NEW r \in AdminReqs, TakesNothing(r) PROVE AdminHolds(r)'
    BY <1>1, SuspendSession, AdminHoldsOn DEF LockInv, adminVars
  <1>2. ASSUME NEW l \in LoginReqs, Verify(l) \/ LoginStep(l) PROVE LockInv'
    <2>1. \A x \in Txns \ {l} : TakesNothing(x)
      BY <1>2, LocksLogin
    <2>2. LoginHolds(l)' /\ (\A x \in LoginReqs \ {l} : lpc'[x] = lpc[x]) /\ qpc' = qpc
      BY <1>2, LocksLogin
    <2>3. \A x \in LoginReqs : LoginHolds(x)'
      BY <2>1, <2>2, SessionHoldsOn DEF LockInv
    <2>4. \A x \in TokenReqs : ExchangeHolds(x)'
      BY <2>1, <2>2, SessionHoldsOn DEF LockInv
    <2> QED
      BY <1>1, <2>1, <2>3, <2>4 DEF LockInv
  <1>3. ASSUME NEW q \in TokenReqs, Present(q) \/ ExchangeStep(q) PROVE LockInv'
    <2>1. \A x \in Txns \ {q} : TakesNothing(x)
      BY <1>3, LocksExchange
    <2>2. ExchangeHolds(q)' /\ (\A x \in TokenReqs \ {q} : qpc'[x] = qpc[x]) /\ lpc' = lpc
      BY <1>3, LocksExchange
    <2>3. \A x \in LoginReqs : LoginHolds(x)'
      BY <2>1, <2>2, SessionHoldsOn DEF LockInv
    <2>4. \A x \in TokenReqs : ExchangeHolds(x)'
      BY <2>1, <2>2, SessionHoldsOn DEF LockInv
    <2> QED
      BY <1>1, <2>1, <2>3, <2>4 DEF LockInv
  <1>4. CASE DeleteExpired
    <2>1. \A x : TakesNothing(x)
      BY <1>4 DEF DeleteExpired, TakesNothing, locks
    <2>2. UNCHANGED <<lpc, qpc>>
      BY <1>4 DEF DeleteExpired, sessionVars
    <2> QED
      BY <1>1, <2>1, <2>2, SessionHoldsOn DEF LockInv
  <1> QED
    BY <1>2, <1>3, <1>4 DEF SessionNext

LEMMA LocksStep ==
  ASSUME TypeInv, Quiet, CountInv, SuspendInv, LockInv, [Next]_vars
  PROVE  LockInv'
  <1>1. ASSUME UNCHANGED <<locks, adminVars, sessionVars>>, TokensGoOn PROVE LockInv'
    <2>1. \A x : TakesNothing(x)
      BY <1>1 DEF locks, TakesNothing
    <2>2. \A r \in AdminReqs : AdminHolds(r)'
      BY <1>1, <2>1, AdminHoldsOn DEF LockInv, adminVars
    <2> QED
      BY <1>1, <2>1, <2>2, SessionHoldsOn DEF LockInv, sessionVars
  <1>2. CASE Start
    <2>1. TokensGoOn
      BY <1>2 DEF Start, Rescue, TypeInv, TypeOK, DbTypeOK, tables, TokensGoOn, TokenRow
    <2> QED
      BY <1>1, <1>2, <2>1 DEF Start
  <1>3. CASE Tick \/ UNCHANGED vars
    BY <1>1, <1>3 DEF Tick, vars, dbVars, tables, TokensGoOn
  <1>4. CASE Crash
    <2>1. /\ \A u \in Users : userLock'[u] = NoTxn /\ attemptLock'[u] = NoTxn
          /\ \A t \in Tokens : tokenLock'[t] = NoTxn
          /\ \A r \in AdminReqs : pc'[r] = "idle" /\ toRevoke'[r] = {}
      BY <1>4 DEF Crash
    <2> QED
      BY <2>1, NoTxnAssumption, AdminReqsAssumption, SessionReqsAssumption DEF LockInv, AdminHolds, LoginHolds, ExchangeHolds
  <1> QED
    BY <1>2, <1>3, <1>4, LocksAdmin, LocksSession, NextCases

LEMMA LocksAlways == Spec => []LockInv
  <1>1. Init => LockInv
    BY NoTxnAssumption, AdminReqsAssumption, SessionReqsAssumption
    DEF Init, DbInit, AdminInit, SessionInit, LockInv, AdminHolds, LoginHolds, ExchangeHolds
  <1>2. TypeInv /\ Quiet /\ CountInv /\ SuspendInv /\ LockInv /\ [Next]_vars => LockInv'
    BY LocksStep
  <1> QED
    BY <1>1, <1>2, Typing, QuietStart, CountsAlways, SuspendAlways, PTL DEF Spec

-----------------------------------------------------------------------------
\* Some row waited for is the greatest, as a table has finitely many rows.
LEMMA Greatest ==
  ASSUME NEW N \in SUBSET Nat, IsFiniteSet(N), N # {}
  PROVE  \E u \in N : \A v \in N : ~(u < v)
  <1> DEFINE Above(u) == {w \in N : u < w}
             Counts == {Cardinality(Above(u)) : u \in N}
  <1>1. \A u \in N : IsFiniteSet(Above(u)) /\ Cardinality(Above(u)) \in Nat
    BY FS_Subset, FS_CardinalityType
  <1>2. Counts \subseteq Nat /\ Counts # {}
    BY <1>1
  <1> HIDE DEF Counts
  <1>3. \E c \in Counts : \A d \in Counts : ~(<<d, c>> \in OpToRel(<, Nat))
    BY <1>2, NatLessThanWellFounded, WFMin, Zenon
  <1>4. PICK c \in Counts : \A d \in Counts : ~(d < c)
    BY <1>2, <1>3 DEF OpToRel
  <1>5. PICK u \in N : c = Cardinality(Above(u))
    BY <1>4 DEF Counts
  <1>6. ASSUME NEW v \in N, u < v PROVE FALSE
    <2>1. Above(v) \subseteq Above(u) /\ Above(v) # Above(u)
      <3>1. \A w \in N : w \in Nat
        OBVIOUS
      <3>2. v \in Above(u) /\ v \notin Above(v)
        BY <1>6, <3>1
      <3>3. \A w \in N : v < w => u < w
        BY <1>6, <3>1
      <3> QED
        BY <3>2, <3>3
    <2>2. Cardinality(Above(v)) < Cardinality(Above(u))
      BY <1>1, <2>1, FS_Subset
    <2>3. Cardinality(Above(v)) \in Counts
      BY DEF Counts
    <2> QED
      BY <1>4, <1>5, <2>2, <2>3
  <1> QED
    BY <1>6

AllRequests == AdminReqs \cup LoginReqs \cup TokenReqs

\* y has locked the row that x waits for.
WaitsFor(x, y) ==
  \/ x \in AdminReqs /\ pc[x] = "locking" /\ \E u \in want[x] : IsNext(x, u) /\ userLock[u] = y
  \/ x \in AdminReqs /\ pc[x] = "revoking" /\ \E t \in toRevoke[x] : tokenLock[t] = y
  \/ x \in AdminReqs /\ pc[x] = "lockingAttempt" /\ attemptLock[target[x]] = y
  \/ x \in LoginReqs /\ lpc[x] = "verified" /\ attemptLock[subject[x]] = y
  \/ x \in TokenReqs /\ qpc[x] = "found" /\ tokenLock[token[x]] = y

LEMMA BlockersWait ==
  ASSUME NEW x \in AllRequests, NEW y \in AllRequests
  PROVE  y \in Blockers(x) => WaitsFor(x, y)
  <1>1. CASE x \in AdminReqs
    <2>1. Blockers(x) = AdminBlockers(x)
      BY <1>1, RequestKindsAssumption DEF Blockers
    <2> QED
      BY <1>1, <2>1 DEF AdminBlockers, WaitsFor
  <1>2. CASE x \in LoginReqs
    BY <1>2, RequestKindsAssumption, SessionReqsAssumption DEF Blockers, WaitsFor
  <1>3. CASE x \in TokenReqs
    BY <1>3, RequestKindsAssumption, SessionReqsAssumption DEF Blockers, WaitsFor
  <1> QED
    BY <1>1, <1>2, <1>3 DEF AllRequests

\* Who waits while others wait for it is an administrator's request, at its rows of
\* users or at the tokens of its target: a judged login, a decided reset and an
\* exchange that has its token wait for nothing more.
LEMMA WaitingHolder ==
  ASSUME TypeInv, CountInv, LockInv, NEW x \in AllRequests, NEW y \in AllRequests, NEW z \in AllRequests,
         WaitsFor(x, y), WaitsFor(y, z)
  PROVE  y \in AdminReqs /\ pc[y] \in {"locking", "revoking"}
  <1> USE RequestKindsAssumption, SessionReqsAssumption
      DEF TypeInv, TypeOK, DbTypeOK, AdminTypeOK, SessionTypeOK, InUse, LockInv
  <1>1. CASE \E u \in Users : userLock[u] = y
    BY <1>1 DEF AllRequests, AdminHolds, LoginHolds, ExchangeHolds, WaitsFor, Past, Decided
  <1>2. CASE \E u \in Users : attemptLock[u] = y
    <2>1. CASE y \in AdminReqs
      <3>1. pc[y] \in {"deciding", "writing"}
        BY <1>2, <2>1 DEF AdminHolds
      <3> QED
        BY <2>1, <3>1 DEF WaitsFor
    <2>2. CASE y \in LoginReqs
      <3>1. lpc[y] = "judging"
        BY <1>2, <2>2 DEF LoginHolds
      <3> QED
        BY <2>2, <3>1 DEF WaitsFor
    <2>3. CASE y \in TokenReqs
      BY <1>2, <2>3 DEF ExchangeHolds
    <2> QED
      BY <2>1, <2>2, <2>3 DEF AllRequests
  <1>3. CASE \E t \in Tokens : tokenLock[t] = y
    BY <1>3 DEF AllRequests, AdminHolds, LoginHolds, ExchangeHolds, WaitsFor
  <1>4. \A r \in AdminReqs : pc[r] = "lockingAttempt" => target[r] \in Users
    BY DEF CountInv, ResetHolds
  <1> QED
    BY <1>1, <1>2, <1>3, <1>4 DEF WaitsFor

\* Two suspensions do not revoke the tokens of one user at a time, so a suspension
\* that revokes waits for no request that waits.
LEMMA RevokingWaitsForNone ==
  ASSUME TypeInv, CountInv, SuspendInv, LockInv,
         NEW y \in AdminReqs, NEW z \in AllRequests, NEW w \in AllRequests, WaitsFor(y, z), WaitsFor(z, w)
  PROVE  pc[y] # "revoking"
  <1> SUFFICES ASSUME pc[y] = "revoking" PROVE FALSE
    OBVIOUS
  <1>1. PICK t \in toRevoke[y] : tokenLock[t] = z
    BY RequestKindsAssumption DEF WaitsFor
  <1>2. t \in Tokens /\ y \in AllRequests
    BY DEF TypeInv, TypeOK, AdminTypeOK, AllRequests
  <1>3. z \in AdminReqs
    BY <1>2, WaitingHolder
  <1>4. /\ pc[z] = "revoking" /\ target[z] = target[y] /\ target[y] \in Users /\ z # y
    BY <1>1, <1>2, <1>3 DEF LockInv, AdminHolds
  <1>5. userLock[target[y]] = y /\ userLock[target[z]] = z
    BY <1>3, <1>4 DEF SuspendInv, HoldsTarget, Visits, Past, Decided
  <1> QED
    BY <1>4, <1>5

\* The row r waits for next is in want[r], and a row of users.
WaitedFor(X) == {u \in Users : \E y \in X : y \in AdminReqs /\ pc[y] = "locking" /\ u \in want[y] /\ IsNext(y, u) /\ userLock[u] \in X}

LEMMA SomebodyGoesOn ==
  ASSUME IsFiniteSet(Users), TypeInv, CountInv, SuspendInv, LockInv, NEW X \in SUBSET AllRequests, X # {}
  PROVE  \E x \in X : Blockers(x) \cap X = {}
  <1> SUFFICES ASSUME \A x \in X : \E y \in X : WaitsFor(x, y) PROVE FALSE
    BY BlockersWait
  <1>1. ASSUME NEW x \in X, NEW y \in X, WaitsFor(x, y)
        PROVE  y \in AdminReqs /\ pc[y] = "locking" /\ \E u \in WaitedFor(X) : u \in want[y]
    <2>1. PICK z \in X : WaitsFor(y, z)
      OBVIOUS
    <2>2. PICK w \in X : WaitsFor(z, w)
      OBVIOUS
    <2>3. y \in AdminReqs /\ pc[y] = "locking"
      BY <1>1, <2>1, <2>2, WaitingHolder, RevokingWaitsForNone
    <2>4. \E u \in want[y] : IsNext(y, u) /\ userLock[u] = z
      BY <2>1, <2>3, RequestKindsAssumption DEF WaitsFor
    <2>5. want[y] \subseteq Users
      BY <2>3 DEF TypeInv, TypeOK, AdminTypeOK
    <2> QED
      BY <2>3, <2>4, <2>5 DEF WaitedFor
  <1>2. WaitedFor(X) # {}
    BY <1>1
  <1>3. WaitedFor(X) \in SUBSET Nat /\ IsFiniteSet(WaitedFor(X))
    BY UsersAssumption, FS_Subset DEF WaitedFor
  <1>4. PICK u \in WaitedFor(X) : \A v \in WaitedFor(X) : ~(u < v)
    BY <1>2, <1>3, Greatest
  <1>5. PICK y \in X : y \in AdminReqs /\ pc[y] = "locking" /\ u \in want[y] /\ IsNext(y, u) /\ userLock[u] \in X
    BY DEF WaitedFor
  <1> DEFINE z == userLock[u]
  <1>6. z \in AdminReqs /\ \E v \in WaitedFor(X) : v \in want[z]
    BY <1>1, <1>5 DEF WaitsFor
  <1>7. \A v \in want[z] : u < v
    BY <1>6 DEF LockInv, AdminHolds, WaitedFor
  <1> QED
    BY <1>4, <1>6, <1>7

\* Logins, exchanges, logouts and the operations of administrators never wait only
\* for one another, however many there are, if there are finitely many users
\* (lockAdminRowsAndTarget, lockForReset, revokeIfActive, revokeAllActiveByUserId).
THEOREM NobodyDeadlocks ==
  ASSUME IsFiniteSet(Users)
  PROVE  Spec => []NoDeadlock
  <1>1. TypeInv /\ CountInv /\ SuspendInv /\ LockInv => NoDeadlock
    <2> SUFFICES ASSUME TypeInv, CountInv, SuspendInv, LockInv, NEW X \in (SUBSET AllRequests) \ {{}}
                 PROVE  \E x \in X : Blockers(x) \cap X = {}
      BY DEF NoDeadlock, AllRequests
    <2> QED
      BY SomebodyGoesOn
  <1> QED
    BY <1>1, Typing, CountsAlways, SuspendAlways, LocksAlways, PTL

\* Nor do the operations of administrators among each other.
THEOREM NoCycleOfAdmins ==
  ASSUME IsFiniteSet(Users)
  PROVE  Spec => []NoLockCycle
  <1>1. \A r \in AdminReqs : Blockers(r) = AdminBlockers(r)
    BY RequestKindsAssumption DEF Blockers
  <1>2. NoDeadlock => NoLockCycle
    BY <1>1 DEF NoDeadlock, NoLockCycle
  <1> QED
    BY <1>2, NobodyDeadlocks, PTL
=============================================================================
