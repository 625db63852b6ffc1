\* Three users: two administrators at a time with every operation; or two logins and
\* two exchanges at a time, time passing, by a user without a row of
\* login_attempt_states.
CONSTANTS
  a1 = a1
  a2 = a2
  a3 = a3
  l1 = l1
  l2 = l2
  q1 = q1
  q2 = q2
  t1 = t1
  t2 = t2
  t3 = t3
  NoTxn = NoTxn
  NoToken = NoToken
  Users <- ThreeUsers
  OldUsers <- OneUser
  Tokens <- ThreeTokens
  Txns <- AllTxns
  AdminReqs <- TwoAdmins
  LoginReqs <- TwoLogins
  TokenReqs <- TwoExchanges
  Operations <- AllOperations
  Missing <- Nobody
  InitialAdmin = 1
  Threshold = 2
  LockDuration = 2
  RefreshTtl = 2
  Retention = 0
  MaxNow = 3
  Workloads = {"administration", "sessions"}
SPECIFICATION MCSpec
INVARIANTS
  ActiveAdminExists
  NoLockCycle
  GuessesBounded
PROPERTIES
  OnlyLiveTokensRotate
  LockedStaysLocked
SYMMETRY Symmetry
