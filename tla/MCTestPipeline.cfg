CONSTANTS
  p1 = p1
  p2 = p2
  w1 = w1
  w2 = w2
  Paths <- MCPaths
  N = 2
  Contents <- MCContents
  Workers <- MCWorkers
  OptionSets <- MCOptionSets
SYMMETRY MCSymmetry
SPECIFICATION Spec
INVARIANTS
  TypeOK
  NoSendOnClosed
  EveryFileHasVerdict
  ReportedOnce
  VerdictSound
  WarningsMatchVerdicts
  SummaryCountsChecked
PROPERTY NoWriteAfterWait
