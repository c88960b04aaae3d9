SPECIFICATION Spec
CONSTANTS
    Defs <- AliasDefs
    Names <- AliasNames
    Hashes <- AliasDefs
    Params = {"p1", "p2"}
    MetaKeys = {"theme", "foo", "host"}
    Name <- AliasName
    Hash <- AliasHash
    Priority <- AliasPriority
    Initial <- AliasInitial
    MetaValues = {"default", "layout", "sidebar"}
    InitialMeta <- ShopMeta
    Pages <- AliasPages
    LazyFd <- AliasLazyFd
    NoFd = "NoFd"
    MalformedURL = {}
    NoTimeout = {}
INVARIANT
    FetchNameIsKnown
