SPECIFICATION FairSpec
CONSTANTS
    Keys = {k1, k2, k3}
    Sizes = {1, 2}
    Setters = {s1}
    Purgers = {p1}
    MaxEntries = 2
    MaxSizeBytes = 3
    MaxAge = 1
    NoEntry = NoEntry
    NoOne = NoOne
    MaxSets = 3
    MaxTime = 2
INVARIANTS
    TypeOK
    SizeIsAccounted
    WithinLimits
    NewEntrySurvives
    PurgeIsComplete
    IInv
PROPERTIES
    ImplementsStore
    CallsReturn
