\* Two calls at once and two grants of one user, exchanges of the start, of the calls
\* and of a refusal crossing, with answers lost; with fairness, so no symmetry.
CONSTANTS
  Users = {u1}
  Calls = {c1, c2}
  MaxGrants = 2
  NoUser = NoUser
  Unknown = Unknown
  NoExchange = NoExchange
SPECIFICATION SessionSpec
INVARIANTS
  SessionTypeOK
  OneExchange
  ResentWithNewToken
PROPERTIES
  CallsEnd
