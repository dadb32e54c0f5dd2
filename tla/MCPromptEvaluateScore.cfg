SPECIFICATION Spec
CONSTANTS
    good = good
    bad = bad
    r1 = r1
    r2 = r2
    Capacity = 1
    MaxCalls = 1
    Answers = {good, bad}
    Programs <- MCPrograms
    Found <- MCFound
INVARIANT ScoreCountsCorrections
CHECK_DEADLOCK FALSE
