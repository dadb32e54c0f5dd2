SPECIFICATION Spec
CONSTANTS
    pol1 = pol1
    pol2 = pol2
    Broken = Broken
    NoName = NoName
    Files <- MCFiles
    DefaultSets <- MCDefaultSets
    PolicyNames = {pol1, pol2}
    MaxEdits = 1
INVARIANT ValidFileUsable
INVARIANT RulesUnambiguous
CHECK_DEADLOCK FALSE
