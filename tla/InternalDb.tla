----------------------------- MODULE InternalDb -----------------------------
(***************************************************************************)
(* The tables of the internal H2 database that the user, useradmin and     *)
(* auth packages share, and the row locks their transactions take.         *)
(*                                                                         *)
(* Every variable holds COMMITTED data: the database runs READ COMMITTED,  *)
(* so a transaction's writes become visible in one step, its commit, and   *)
(* a plain read returns what is committed when the statement starts.  A    *)
(* row written or read FOR UPDATE stays locked until commit or rollback.   *)
(***************************************************************************)
EXTENDS Integers, FiniteSets

CONSTANTS
  Users,      \* ids of the rows of table users
  OldUsers,   \* those of them that have no row in login_attempt_states yet
  Tokens,     \* the refresh tokens that may be issued (bounds the runs)
  Txns,       \* the requests, each with at most one open transaction
  NoTxn,      \* "nobody holds the lock"
  NoToken     \* the parent of a token that a login issued

ASSUME UsersAssumption == Users \subseteq Nat
ASSUME OldUsersAssumption == OldUsers \subseteq Users
ASSUME NoTxnAssumption == NoTxn \notin Txns
ASSUME NoTokenAssumption == NoToken \notin Tokens

VARIABLES
  users,        \* users[u]: the flags admin and suspended
  attempts,     \* attempts[u]: the row of login_attempt_states
  tokens,       \* tokens[t]: the row of refresh_tokens
  userLock,     \* userLock[u]: the transaction that holds the row of users
  attemptLock,  \* attemptLock[u]: the same for login_attempt_states
  tokenLock,    \* tokenLock[t]: the same for refresh_tokens
  now,          \* the injected Clock
  parent,       \* history: the token each token was exchanged for
  misses        \* history: wrong passwords answered since the count was cleared

tables == <<users, attempts, tokens, parent, misses>>
locks == <<userLock, attemptLock, tokenLock>>
dbVars == <<tables, locks, now>>

Null == -1    \* an Instant column that is null

UserRow == [admin : BOOLEAN, suspended : BOOLEAN]
AttemptRow == [present : BOOLEAN, failures : Nat, until : Nat \cup {Null}]
TokenRow == [status : {"unissued", "active", "revoked", "deleted"},
             user : Users \cup {Null}, expires : Nat]

Unissued == [status |-> "unissued", user |-> Null, expires |-> 0]
Clear == [present |-> TRUE, failures |-> 0, until |-> Null]

DbTypeOK ==
  /\ users \in [Users -> UserRow]
  /\ attempts \in [Users -> AttemptRow]
  /\ tokens \in [Tokens -> TokenRow]
  /\ userLock \in [Users -> Txns \cup {NoTxn}]
  /\ attemptLock \in [Users -> Txns \cup {NoTxn}]
  /\ tokenLock \in [Tokens -> Txns \cup {NoTxn}]
  /\ now \in Nat
  /\ parent \in [Tokens -> Tokens \cup {NoToken}]
  /\ misses \in [Users -> Nat]

\* The state of the tables after a first start: at least one administrator can
\* act, nobody has logged in yet, and users whose creation did not write a row of
\* login_attempt_states are still without one.
DbInit ==
  /\ users \in [Users -> UserRow]
  /\ \E u \in Users : users[u].admin /\ ~users[u].suspended
  /\ attempts = [u \in Users |-> [Clear EXCEPT !.present = u \notin OldUsers]]
  /\ tokens = [t \in Tokens |-> Unissued]
  /\ userLock = [u \in Users |-> NoTxn]
  /\ attemptLock = [u \in Users |-> NoTxn]
  /\ tokenLock = [t \in Tokens |-> NoTxn]
  /\ now = 0
  /\ parent = [t \in Tokens |-> NoToken]
  /\ misses = [u \in Users |-> 0]

IsActiveAdmin(u) == users[u].admin /\ ~users[u].suspended
ActiveAdmins == {u \in Users : IsActiveAdmin(u)}

ActiveTokensOf(u) == {t \in Tokens : tokens[t].status = "active" /\ tokens[t].user = u}

\* LockView.of: the account is locked, and there is something to reset.
LockedAt(attempt, time) == attempt.until # Null /\ time < attempt.until
Resettable(attempt) == attempt.failures >= 1 \/ attempt.until # Null

\* TokenExpiry.isValid
IsValid(t) == now < tokens[t].expires

\* What the end of transaction x leaves of a lock table.
Released(lock, x) == [k \in DOMAIN lock |-> IF lock[k] = x THEN NoTxn ELSE lock[k]]

ReleaseUserLocks(x) == userLock' = Released(userLock, x)
ReleaseAttemptLocks(x) == attemptLock' = Released(attemptLock, x)
\* Mutant: the end of the transaction leaves its token rows locked.
MutKeepTokenLocks(x) == UNCHANGED tokenLock

ReleaseTokenLocks(x) == tokenLock' = Released(tokenLock, x)
ReleaseAll(x) ==
  ReleaseUserLocks(x) /\ ReleaseAttemptLocks(x) /\ ReleaseTokenLocks(x)
=============================================================================
