------------------------------ MODULE Sessions ------------------------------
(***************************************************************************)
(* Package auth: logins (LoginService), the exchange of refresh tokens     *)
(* (TokenRefreshService), logouts (LogoutService) and the deletion of old  *)
(* tokens (RefreshTokenCleanupJob), run by concurrent requests.            *)
(*                                                                         *)
(* A login checks the password before its transaction starts, so what it   *)
(* knows of the user then is a copy when it decides:                       *)
(*                                                                         *)
(*   idle -> verified -> judging -> idle                                   *)
(*                                                                         *)
(* An exchange or a logout is one transaction:                             *)
(*                                                                         *)
(*   idle -> found -> revoked -> issuing -> idle             exchange      *)
(*   idle -> found -> revoked -> idle                        logout        *)
(***************************************************************************)
EXTENDS InternalDb

CONSTANTS
  Threshold,    \* wrong passwords in a row that lock an account
  LockDuration, \* and for how long
  LoginReqs,    \* concurrent POST /api/auth/login
  TokenReqs,    \* concurrent POST /api/auth/refresh and /api/auth/logout
  RefreshTtl,   \* refreshTokenTtl
  Retention     \* refreshTokenCleanup.retention

ASSUME LockPolicyAssumption == Threshold \in Nat \ {0} /\ LockDuration \in Nat \ {0}
ASSUME SessionReqsAssumption ==
  /\ LoginReqs \subseteq Txns
  /\ TokenReqs \subseteq Txns
  /\ LoginReqs \cap TokenReqs = {}
ASSUME DurationsAssumption == RefreshTtl \in Nat \ {0} /\ Retention \in Nat

VARIABLES
  lpc,         \* where each login stands
  subject,     \* the user whose address was entered
  matched,     \* PasswordVerification.matched
  suspendedThen, \* PasswordVerification.user.suspended: as read by the check
  read,        \* the row of login_attempt_states as read under its lock
  qpc,         \* where each exchange or logout stands
  kind,        \* which of the two it is
  token,       \* the token presented
  since        \* the instant it was looked up

sessionVars == <<lpc, subject, matched, suspendedThen, read, qpc, kind, token, since>>

loginVars == <<lpc, subject, matched, suspendedThen, read>>
exchangeVars == <<qpc, kind, token, since>>

(***************************************************************************)
(* LockPolicy: from the row of login_attempt_states and the outcome of the *)
(* password check, the verdict on a login and the row to write.            *)
(***************************************************************************)

\* The count a wrong password leaves: it restarts once a lock has run out.
FailuresAfter(row) == (IF row.until = Null THEN row.failures ELSE 0) + 1

Verdict(row, right, time) ==
  IF LockedAt(row, time) THEN "ACCOUNT_LOCKED"
  ELSE IF right THEN "SUCCEEDED" ELSE "PASSWORD_MISMATCH"

NextRow(row, right, time) ==
  IF LockedAt(row, time) THEN row
  ELSE [present |-> row.present,
        failures |-> IF right THEN 0 ELSE FailuresAfter(row),
        until |-> IF ~right /\ FailuresAfter(row) >= Threshold
                 THEN time + LockDuration ELSE Null]

-----------------------------------------------------------------------------
SessionTypeOK ==
  /\ lpc \in [LoginReqs -> {"idle", "verified", "judging"}]
  /\ subject \in [LoginReqs -> Users \cup {Null}]
  /\ matched \in [LoginReqs -> BOOLEAN]
  /\ suspendedThen \in [LoginReqs -> BOOLEAN]
  /\ read \in [LoginReqs -> AttemptRow]
  /\ qpc \in [TokenReqs -> {"idle", "found", "revoked", "issuing"}]
  /\ kind \in [TokenReqs -> {"refresh", "logout"}]
  /\ token \in [TokenReqs -> Tokens \cup {NoToken}]
  /\ since \in [TokenReqs -> Nat]

SessionInit ==
  /\ lpc = [l \in LoginReqs |-> "idle"]
  /\ subject = [l \in LoginReqs |-> Null]
  /\ matched = [l \in LoginReqs |-> FALSE]
  /\ suspendedThen = [l \in LoginReqs |-> FALSE]
  /\ read = [l \in LoginReqs |-> Clear]
  /\ qpc = [q \in TokenReqs |-> "idle"]
  /\ kind = [q \in TokenReqs |-> "logout"]
  /\ token = [q \in TokenReqs |-> NoToken]
  /\ since = [q \in TokenReqs |-> 0]

-----------------------------------------------------------------------------
\* Bound: a login or an exchange starts only if a token is left for it.
UnissuedTokens == {t \in Tokens : tokens[t].status = "unissued"}
TokenLeft ==
  Cardinality(UnissuedTokens) >
    Cardinality({l \in LoginReqs : lpc[l] # "idle"})
      + Cardinality({q \in TokenReqs : qpc[q] # "idle" /\ kind[q] = "refresh"})

\* issueTokens: a new row of refresh_tokens for user u.
Issue(t, u, time, from) ==
  /\ tokens[t].status = "unissued"
  /\ parent' = [parent EXCEPT ![t] = from]
  /\ tokens' = [s \in Tokens |->
                  IF s = t THEN [status |-> "active", user |-> u, expires |-> time + RefreshTtl]
                  ELSE IF s = from THEN [tokens[s] EXCEPT !.status = "revoked"] ELSE tokens[s]]

ForgetLogin(l) ==
  /\ lpc' = [lpc EXCEPT ![l] = "idle"]
  /\ subject' = [subject EXCEPT ![l] = Null]
  /\ matched' = [matched EXCEPT ![l] = FALSE]
  /\ suspendedThen' = [suspendedThen EXCEPT ![l] = FALSE]
  /\ read' = [read EXCEPT ![l] = Clear]
  /\ UNCHANGED exchangeVars

\* verifyPassword, outside any transaction.  An address nobody has is judged on
\* a dummy row and changes nothing, so it is left out.
Verify(l) ==
  /\ lpc[l] = "idle"
  /\ TokenLeft
  /\ \E u \in Users, m \in BOOLEAN :
       /\ subject' = [subject EXCEPT ![l] = u]
       /\ matched' = [matched EXCEPT ![l] = m]
       /\ suspendedThen' = [suspendedThen EXCEPT ![l] = users[u].suspended]
  /\ lpc' = [lpc EXCEPT ![l] = "verified"]
  /\ UNCHANGED <<dbVars, read, exchangeVars>>

\* The first decision found no row: createRow, then decide again.
CreateRow(l) ==
  /\ lpc[l] = "verified"
  /\ ~attempts[subject[l]].present
  /\ attempts' = [attempts EXCEPT ![subject[l]] = Clear]
  /\ UNCHANGED <<users, tokens, parent, misses, locks, now, sessionVars>>

\* Mutant: the row is read without FOR UPDATE.
MutReadLoginRow(l) ==
  /\ lpc[l] = "verified"
  /\ attempts[subject[l]].present
  /\ read' = [read EXCEPT ![l] = attempts[subject[l]]]
  /\ lpc' = [lpc EXCEPT ![l] = "judging"]
  /\ UNCHANGED <<dbVars, subject, matched, suspendedThen, exchangeVars>>

LockLoginRow(l) ==
  /\ lpc[l] = "verified"
  /\ attempts[subject[l]].present
  /\ attemptLock[subject[l]] = NoTxn
  /\ attemptLock' = [attemptLock EXCEPT ![subject[l]] = l]
  /\ read' = [read EXCEPT ![l] = attempts[subject[l]]]
  /\ lpc' = [lpc EXCEPT ![l] = "judging"]
  /\ UNCHANGED <<tables, userLock, tokenLock, now,
                 subject, matched, suspendedThen, exchangeVars>>

\* RowLockUnavailableException: the request fails, nothing is written.
LoginLockTimeout(l) ==
  /\ lpc[l] = "verified"
  /\ attemptLock[subject[l]] # NoTxn
  /\ ForgetLogin(l)
  /\ UNCHANGED dbVars

\* decide, for a user the password check saw as suspended: the row is written
\* with the values read, and the attempt is not counted.
RefuseSuspended(l) ==
  /\ lpc[l] = "judging"
  /\ suspendedThen[l]
  /\ attempts' = [attempts EXCEPT ![subject[l]] = read[l]]
  /\ ReleaseAttemptLocks(l)
  /\ ForgetLogin(l)
  /\ UNCHANGED <<users, tokens, parent, misses, userLock, tokenLock, now>>

\* decide: the verdict of LockPolicy, the row it leaves and, on success, tokens.
Judge(l) ==
  LET u == subject[l]
      verdict == Verdict(read[l], matched[l], now)
  IN  /\ lpc[l] = "judging"
      /\ ~suspendedThen[l]
      /\ attempts' = [attempts EXCEPT ![u] = NextRow(read[l], matched[l], now)]
      /\ misses' = [misses EXCEPT ![u] =
                      IF verdict = "SUCCEEDED" THEN 0
                      ELSE IF verdict = "PASSWORD_MISMATCH"
                           THEN (IF read[l].until = Null THEN @ ELSE 0) + 1 ELSE @]
      /\ IF verdict = "SUCCEEDED"
         THEN \E t \in Tokens : Issue(t, u, now, NoToken)
         ELSE UNCHANGED <<tokens, parent>>
      /\ ReleaseAttemptLocks(l)
      /\ ForgetLogin(l)
      /\ UNCHANGED <<users, userLock, tokenLock, now>>

-----------------------------------------------------------------------------
ForgetExchange(q) ==
  /\ qpc' = [qpc EXCEPT ![q] = "idle"]
  /\ kind' = [kind EXCEPT ![q] = "logout"]
  /\ token' = [token EXCEPT ![q] = NoToken]
  /\ since' = [since EXCEPT ![q] = 0]
  /\ UNCHANGED loginVars

\* A client presents a token it was given.  One that is revoked, out of date or
\* deleted is refused at once, which changes nothing and is left out.
Present(q) ==
  /\ qpc[q] = "idle"
  /\ \E t \in Tokens, k \in {"refresh", "logout"} :
       /\ tokens[t].status = "active"
       /\ IsValid(t)
       /\ k = "refresh" => TokenLeft
       /\ kind' = [kind EXCEPT ![q] = k]
       /\ token' = [token EXCEPT ![q] = t]
  /\ since' = [since EXCEPT ![q] = now]
  /\ qpc' = [qpc EXCEPT ![q] = "found"]
  /\ UNCHANGED <<dbVars, loginVars>>

\* Mutant: the UPDATE has no condition on revoked_at.
MutRevokeAnyway(q) ==
  /\ qpc[q] = "found"
  /\ tokenLock[token[q]] = NoTxn
  /\ tokenLock' = [tokenLock EXCEPT ![token[q]] = q]
  /\ qpc' = [qpc EXCEPT ![q] = "revoked"]
  /\ UNCHANGED <<tables, userLock, attemptLock, now, loginVars, kind, token, since>>

\* Mutant: a token that was revoked meanwhile is not answered.
MutNoAnswer(q) ==
  /\ qpc[q] = "found"
  /\ tokenLock[token[q]] = NoTxn
  /\ tokens[token[q]].status = "active"
  /\ tokenLock' = [tokenLock EXCEPT ![token[q]] = q]
  /\ qpc' = [qpc EXCEPT ![q] = "revoked"]
  /\ UNCHANGED <<tables, userLock, attemptLock, now, loginVars, kind, token, since>>

\* revokeIfActive: the UPDATE waits for the row and reads its condition again.
RevokeIfActive(q) ==
  /\ qpc[q] = "found"
  /\ tokenLock[token[q]] = NoTxn
  /\ IF tokens[token[q]].status = "active"
     THEN /\ tokenLock' = [tokenLock EXCEPT ![token[q]] = q]
          /\ qpc' = [qpc EXCEPT ![q] = "revoked"]
          /\ UNCHANGED <<tables, userLock, attemptLock, now, loginVars, kind, token, since>>
     ELSE ForgetExchange(q) /\ UNCHANGED dbVars

ExchangeLockTimeout(q) ==
  /\ qpc[q] = "found"
  /\ tokenLock[token[q]] # NoTxn
  /\ ForgetExchange(q)
  /\ UNCHANGED dbVars

\* The owner is read after the revocation; a suspended one ends the exchange
\* with an exception, which rolls the revocation back.
ReadOwner(q) ==
  /\ qpc[q] = "revoked"
  /\ kind[q] = "refresh"
  /\ IF users[tokens[token[q]].user].suspended
     THEN /\ ForgetExchange(q)
          /\ ReleaseTokenLocks(q)
          /\ UNCHANGED <<tables, userLock, attemptLock, now>>
     ELSE /\ qpc' = [qpc EXCEPT ![q] = "issuing"]
          /\ UNCHANGED <<dbVars, loginVars, kind, token, since>>

CommitRefresh(q) ==
  /\ qpc[q] = "issuing"
  /\ \E t \in Tokens : Issue(t, tokens[token[q]].user, since[q], token[q])
  /\ ReleaseTokenLocks(q)
  /\ ForgetExchange(q)
  /\ UNCHANGED <<users, attempts, misses, userLock, attemptLock, now>>

CommitLogout(q) ==
  /\ qpc[q] = "revoked"
  /\ kind[q] = "logout"
  /\ tokens' = [tokens EXCEPT ![token[q]].status = "revoked"]
  /\ ReleaseTokenLocks(q)
  /\ ForgetExchange(q)
  /\ UNCHANGED <<users, attempts, parent, misses, userLock, attemptLock, now>>

-----------------------------------------------------------------------------
\* The cleanup job: one batch, in a transaction of its own.
ExpiredLongAgo == {t \in Tokens : /\ tokens[t].status \in {"active", "revoked"}
                                  /\ tokens[t].expires < now - Retention}

DeleteExpired ==
  /\ ExpiredLongAgo # {}
  /\ \A t \in ExpiredLongAgo : tokenLock[t] = NoTxn
  /\ tokens' = [t \in Tokens |-> IF t \in ExpiredLongAgo
                                 THEN [tokens[t] EXCEPT !.status = "deleted"] ELSE tokens[t]]
  /\ UNCHANGED <<users, attempts, parent, misses, locks, now, sessionVars>>

LoginStep(l) ==
  \/ CreateRow(l) \/ LockLoginRow(l) \/ LoginLockTimeout(l)
  \/ RefuseSuspended(l) \/ Judge(l)

ExchangeStep(q) ==
  \/ RevokeIfActive(q) \/ ExchangeLockTimeout(q) \/ ReadOwner(q)
  \/ CommitRefresh(q) \/ CommitLogout(q)

SessionNext ==
  \/ \E l \in LoginReqs : Verify(l) \/ LoginStep(l)
  \/ \E q \in TokenReqs : Present(q) \/ ExchangeStep(q)
  \/ DeleteExpired

-----------------------------------------------------------------------------
(***************************************************************************)
(* Properties.                                                             *)
(***************************************************************************)

\* The lock-out counts every wrong password, however many logins are judged at
\* the same time: since the count was last cleared, by a success, a reset or a
\* lock that ran out, no more than Threshold wrong passwords were answered
\* (LoginService.decide under the row lock of LoginAttemptStateRepository).
GuessesBounded == \A u \in Users : misses[u] <= Threshold

\* What makes that so: the ghost count is the count in the table, which leaves room
\* for another wrong password unless the account is locked or a lock has run out;
\* and a login that is being judged works on the row as it is now.
CountsAgree ==
  /\ \A u \in Users :
       /\ misses[u] = attempts[u].failures
       /\ attempts[u].failures <= Threshold
       /\ attempts[u].failures = Threshold => attempts[u].until # Null
       /\ ~attempts[u].present => attempts[u].failures = 0 /\ attempts[u].until = Null
  /\ \A l \in LoginReqs : lpc[l] = "judging" =>
       /\ attemptLock[subject[l]] = l
       /\ attempts[subject[l]] = read[l]
       /\ read[l].present

\* An exchange that has revoked its token is the only one that can end it.
RevokerHoldsToken ==
  \A q \in TokenReqs : qpc[q] \in {"revoked", "issuing"} =>
    tokenLock[token[q]] = q /\ tokens[token[q]].status = "active"

\* A refresh token buys one successor at most, and none once a logout, a
\* suspension or a rescue has revoked it: whoever presents it, and however many
\* present it at the same time (TokenRefreshService, revokeIfActive).
OnlyLiveTokensRotate ==
  [][\A t \in Tokens :
       (tokens[t].status = "unissued" /\ parent'[t] # NoToken)
          => tokens[parent'[t]].status = "active"]_<<tokens, parent>>
=============================================================================
