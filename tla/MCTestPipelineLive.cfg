CONSTANTS
  p1 = p1
  p2 = p2
  w1 = w1
  w2 = w2
  Paths <- MCPaths
  N = 2
  Contents <- FewContents
  Workers <- OneWorker
  OptionSets <- FewOptionSets
SPECIFICATION FairSpec
PROPERTIES
  Terminates
  ImplementsAudit
