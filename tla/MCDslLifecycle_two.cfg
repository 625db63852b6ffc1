\* Two applications at a time.
CONSTANTS
  r1 = r1
  r2 = r2
  r3 = r3
  NoReq = NoReq
  Reqs <- TwoReqs
  Appliers <- TwoReqs
  Texts <- TwoBodies
  Builds <- OneBuild
  HistoryLimit = 2
  MaxPlaced = 2
  MaxNow = 0
  Alones = {FALSE}
SPECIFICATION MCSpec
INVARIANTS
  CurrentRuns
SYMMETRY Symmetry
