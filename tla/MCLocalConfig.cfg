CONSTANTS
  p1 = p1
  p2 = p2
  p3 = p3
  mine = mine
  theirs = theirs
  None = None
  Corrupt = Corrupt
  Procs <- MCProcs
  Settings <- MCSettings
  Envs <- MCEnvs
  MaxFaults = 1
CHECK_DEADLOCK FALSE
SYMMETRY MCSymmetry
SPECIFICATION Spec
INVARIANTS
  SerialSettingsKept
  LoadedConfigUsable
  CorruptOnlyByOverlap
