SPECIFICATION FairSpec
CONSTANTS
    Defs <- ShopDefs
    Names <- ShopNames
    Hashes <- ShopDefs
    Params = {"p1", "p2"}
    MetaKeys = {"theme", "foo", "host"}
    Name <- ShopName
    Hash <- ShopHash
    Priority <- ShopPriority
    Initial <- ShopInitial
    MetaValues = {"default", "layout", "sidebar"}
    InitialMeta <- ShopMeta
    Pages <- ShopPages
    LazyFd <- ShopLazyFd
    NoFd = "NoFd"
    MalformedURL = {"foo2"}
    NoTimeout <- ShopNoTimeout
INVARIANTS
    NoJobOutlivesWait
    NoAnswerMissing
    ReferencesResolved
    UrlSeesRequesterMeta
    IInv
PROPERTIES
    SettledAfterWait
    ImplementsPlan
    Terminates
