\* The cleanup beside a request, with faults; with fairness, so no symmetry.  All may
\* be over: the tokens of the bound are used and the rows deleted.
CONSTANTS
  e1 = e1
  e2 = e2
  r1 = r1
  r2 = r2
  NoEmail = NoEmail
  NoReq = NoReq
  Emails <- TwoEmails
  Reqs <- OneReq
  Validity = 1
  Retention = 1
  BatchSize = 2
  MaxTokens = 2
  MaxNow = 2
  MaxFaults = 1
SPECIFICATION FairSpec
PROPERTIES
  CleanupTakesWhatIsDue
CHECK_DEADLOCK FALSE
