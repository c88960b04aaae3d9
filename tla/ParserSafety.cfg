SPECIFICATION Spec
CONSTANTS
    Texts = {"text"}
    Sheets = {"sheet"}
    Includes = {"include"}
    Fetches = {"fetch"}
    Metas = {"script"}
    Names = {"", "news"}
    Default = ""
    MaxItems = 1
    MaxDepth = 5
INVARIANTS
    RemovedIsGone
    EverythingIsHome
    DirectivesAreDependencies
    IInv
