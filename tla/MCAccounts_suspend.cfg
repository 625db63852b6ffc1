\* An administrator against a login and an exchange, and who answers them: with
\* fairness, so no symmetry.
CONSTANTS
  a1 = a1
  a2 = a2
  a3 = a3
  l1 = l1
  l2 = l2
  q1 = q1
  q2 = q2
  t1 = t1
  t2 = t2
  t3 = t3
  NoTxn = NoTxn
  NoToken = NoToken
  Users <- TwoUsers
  OldUsers <- Nobody
  Tokens <- TwoTokens
  Txns <- AllTxns
  AdminReqs <- OneAdmin
  LoginReqs <- OneLogin
  TokenReqs <- OneExchange
  Operations <- SuspendAndReset
  Missing <- Nobody
  InitialAdmin = 1
  Threshold = 1
  LockDuration = 1
  RefreshTtl = 2
  Retention = 0
  MaxNow = 0
  Workloads = {"everything"}
SPECIFICATION MCFairSpec
INVARIANTS
  NoDeadlock
PROPERTIES
  SuspendEndsEarlierSessions
  EveryRequestIsAnswered
