\* Two requests, with crashes and builds that read other bodies; applications by both
\* or by one of them.  With fairness, so no symmetry.
CONSTANTS
  r1 = r1
  r2 = r2
  r3 = r3
  NoReq = NoReq
  Reqs <- TwoReqs
  Appliers <- TwoReqs
  Texts <- TwoBodies
  Builds <- AllBuilds
  HistoryLimit = 1
  MaxPlaced = 3
  MaxNow = 1
  Alones = {TRUE, FALSE}
SPECIFICATION MCFairSpec
INVARIANTS
  HistoryIsNewest
  OnlyAppliedRuns
  PreviewAppliedOnce
  CurrentRunsAlone
PROPERTIES
  StoreSpec
  PermitReturns
