\* Two users, three administrators at a time, who grant and revoke.
CONSTANTS
  a1 = a1
  a2 = a2
  a3 = a3
  l1 = l1
  l2 = l2
  q1 = q1
  q2 = q2
  t1 = t1
  t2 = t2
  t3 = t3
  NoTxn = NoTxn
  NoToken = NoToken
  Users <- TwoUsers
  OldUsers <- Nobody
  Tokens <- Nobody
  Txns <- AllTxns
  AdminReqs <- ThreeAdmins
  LoginReqs <- Nobody
  TokenReqs <- Nobody
  Operations <- GrantAndRevoke
  Missing <- Nobody
  InitialAdmin = 1
  Threshold = 2
  LockDuration = 1
  RefreshTtl = 2
  Retention = 0
  MaxNow = 0
  Workloads = {"administration"}
SPECIFICATION MCSpec
INVARIANTS
  ActiveAdminExists
SYMMETRY Symmetry
