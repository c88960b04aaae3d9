SPECIFICATION Spec
CONSTANTS
    Jobs <- ShopJobs
    Definition <- Shops
    Responses <- ShopResponses
    Requests = {"r1", "r2"}
    Wanted <- ShopWanted
    HeadRequests = {}
    HasCache = TRUE
    Metadata <- NoMetadata
    ForwardRequestHeaders <- Forwarded
    includeHeaders <- PortalHeaders
    includeCookies <- ShopCookies
    ignoreReasons = {}
    NoJob = NoJob
    NoContent = NoContent
INVARIANTS
    CachedIsOwn
