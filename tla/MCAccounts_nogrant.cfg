\* Two users, one without a row of login_attempt_states, and an unknown id; three
\* administrators at a time, who promote nobody.
CONSTANTS
  a1 = a1
  a2 = a2
  a3 = a3
  l1 = l1
  l2 = l2
  q1 = q1
  q2 = q2
  t1 = t1
  t2 = t2
  t3 = t3
  NoTxn = NoTxn
  NoToken = NoToken
  Users <- TwoUsers
  OldUsers <- OneUser
  Tokens <- Nobody
  Txns <- AllTxns
  AdminReqs <- ThreeAdmins
  LoginReqs <- Nobody
  TokenReqs <- Nobody
  Operations <- NoGrant
  Missing <- OneMissing
  InitialAdmin = 1
  Threshold = 2
  LockDuration = 1
  RefreshTtl = 2
  Retention = 0
  MaxNow = 0
  Workloads = {"administration"}
SPECIFICATION MCSpec
INVARIANTS
  TypeOK
  DecisionStillHolds
  LockDiscipline
SYMMETRY Symmetry
