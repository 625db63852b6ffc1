----------------------------- MODULE MCAccounts -----------------------------
(* Accounts for TLC: logins, exchanges of tokens and the operations of       *)
(* administrators over the same users, with crashes and the clock.           *)
EXTENDS Accounts, TLC

CONSTANTS a1, a2, a3, l1, l2, q1, q2, t1, t2, t3

Nobody == {}
OneUser == {1}
TwoUsers == 1..2
ThreeUsers == 1..3
OneMissing == {9}
OneAdmin == {a1}
TwoAdmins == {a1, a2}
ThreeAdmins == {a1, a2, a3}
OneLogin == {l1}
TwoLogins == {l1, l2}
OneExchange == {q1}
TwoExchanges == {q1, q2}
TwoTokens == {t1, t2}
ThreeTokens == {t1, t2, t3}
AllTxns == AdminReqs \cup LoginReqs \cup TokenReqs
AllOperations == AdminOperation
NoGrant == AdminOperation \ {"GRANT_ADMIN"}
GrantAndRevoke == {"GRANT_ADMIN", "REVOKE_ADMIN"}
SuspendAndReset == {"SUSPEND", "RESET_LOGIN_FAILURES"}
JustSuspend == {"SUSPEND"}
Symmetry == Permutations(AdminReqs) \cup Permutations(LoginReqs) \cup Permutations(TokenReqs)

-----------------------------------------------------------------------------
(* What a run is about: administrators among each other; logins, exchanges   *)
(* and logouts of user 1 while time passes; or everything at once.           *)
CONSTANT Workloads

VARIABLE workload

mcVars == <<vars, workload>>

\* User 1 has the sessions to itself.
MCInit ==
  /\ Init
  /\ workload \in Workloads
  /\ workload = "sessions" => \A u \in Users \ {1} : ~users[u].admin /\ ~users[u].suspended

Administers == AdminNext /\ UNCHANGED sessionVars
OfUser1 == \A l \in LoginReqs : subject'[l] \in {1, Null}
UsesSessions == SessionNext /\ OfUser1 /\ UNCHANGED adminVars

Works ==
  \/ workload = "administration" /\ Administers
  \/ workload = "sessions" /\ (UsesSessions \/ Tick)
  \/ workload = "everything" /\ (Administers \/ (SessionNext /\ UNCHANGED adminVars) \/ Tick)

MCNext ==
  /\ Start \/ Crash \/ (phase = "serving" /\ Works /\ UNCHANGED phase)
  /\ UNCHANGED workload

MCSpec == MCInit /\ [][MCNext]_mcVars
MCFairSpec == MCSpec /\ Fairness

\* Every request, of an administrator or of a session, is answered unless the
\* process dies: no wait lasts longer than the lock timeout (LockAttemptRow and
\* LockRow end as Busy) and no step waits for a state of the data.
EveryRequestIsAnswered == RequestsFinish /\ SessionRequestsFinish
=============================================================================
