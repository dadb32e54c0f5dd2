SPECIFICATION FairSpec
CONSTANTS
    good = good
    bad = bad
    r1 = r1
    r2 = r2
    Capacity = 1
    MaxCalls = 2
    Answers = {good, bad}
    Programs <- MCPrograms
    Found <- MCFound
INVARIANT FindingsAllOrNone
PROPERTY KubevalVerdict
PROPERTY CallEnds
PROPERTY PipesDrained
CHECK_DEADLOCK FALSE
