\* Two requests of any kind about one address; the retention lies beyond the bound.
CONSTANTS
  e1 = e1
  e2 = e2
  r1 = r1
  r2 = r2
  NoEmail = NoEmail
  NoReq = NoReq
  Emails <- OneEmail
  Reqs <- TwoReqs
  Validity = 1
  Retention = 9
  BatchSize = 1
  MaxTokens = 3
  MaxNow = 2
  MaxFaults = 0
SPECIFICATION Spec
INVARIANTS
  OneOpenInvitation
  EndedInTime
  SentMeansMailed
  RegistrationIsAtomic
PROPERTIES
  LinkSpec
SYMMETRY Symmetry
