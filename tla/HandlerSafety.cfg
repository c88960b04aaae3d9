SPECIFICATION Spec
CONSTANTS
    Jobs <- PortalJobs
    Definition <- Portal
    Responses <- PortalResponses
    Requests = {"r1", "r2", "r3", "r4", "r5"}
    Wanted <- PortalWanted
    HeadRequests <- PortalHeads
    HasCache = TRUE
    Metadata <- NoMetadata
    ForwardRequestHeaders <- Forwarded
    includeHeaders <- PortalHeaders
    includeCookies <- PortalCookies
    ignoreReasons = {}
    NoJob = NoJob
    NoContent = NoContent
INVARIANTS
    CacheIsServable
    StreamsAreWhole
    AnswerIsDue
    FailedMergeIsPurged
    CachedIsOwn
    BodiesAreReleased
    IInv
