SPECIFICATION Spec
CONSTANTS
    Keys = {k1, k2}
    Sizes = {1, 2}
    Setters = {s1, s2}
    Purgers = {p1}
    MaxEntries = 2
    MaxSizeBytes = 3
    MaxAge = 1
    NoEntry = NoEntry
    NoOne = NoOne
    MaxSets = 2
    MaxTime = 2
PROPERTY
    SweepRemovesOnlyExpired
