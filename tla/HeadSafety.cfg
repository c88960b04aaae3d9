SPECIFICATION Spec
CONSTANTS
    Requests = {"r1", "r2"}
    Heads = {"layout", "navigation", "page", "error"}
    HeadsOf <- OwnHeadsOf
    Priority <- OwnPriority
    Prioritized = {"r1"}
    Texts <- OwnTexts
INVARIANTS
    HighestPriorityWins
    OnlyRepeatsAreDropped
    IInv
