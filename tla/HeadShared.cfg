SPECIFICATION Spec
CONSTANTS
    Requests = {"r1", "r2"}
    Heads = {"teaser", "page"}
    HeadsOf <- CachedHeadsOf
    Priority <- CachedPriority
    Prioritized = {"r1"}
    Texts <- CachedTexts
INVARIANT
    NoPropertyIsLost
