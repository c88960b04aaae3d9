SPECIFICATION Spec
CONSTANTS
    Jobs <- OneJob
    Definition <- Templated
    Responses <- OneResponses
    Requests = {"r1"}
    Wanted <- OneWanted
    HeadRequests = {}
    HasCache = TRUE
    Metadata <- OneMetadata
    ForwardRequestHeaders <- Forwarded
    includeHeaders <- PortalHeaders
    includeCookies <- NoNames
    ignoreReasons = {}
    NoJob = NoJob
    NoContent = NoContent
INVARIANTS
    FailedMergeIsPurged
