--------------------------- MODULE CachingLoader ---------------------------
(***************************************************************************)
(* composition/cache_loader.go with the loaders it asks, http_content_-    *)
(* loader.go and file_content_loader.go: the loads of several requests     *)
(* share one cache and the servers behind it.                              *)
(*                                                                         *)
(* A job loads one definition for one request; it is the Load of its       *)
(* goroutine.  The cache is VolatileStore, whose entries are known by the  *)
(* job that set them.  A response is what comes back from the network or   *)
(* the disk, reduced to what the loaders distinguish; the life of its body *)
(* is kept, because a stream can be read once.                             *)
(***************************************************************************)
EXTENDS FetchDefinition

CONSTANTS
    Jobs,           \* the fetch jobs of all requests
    Definition,     \* what each job has to load
    Metadata,       \* what the variables of a URL stand for
    Responses,      \* the responses each definition may meet
    NoJob, NoContent

(* The responses: no answer (or no service, or a timeout); a redirect that *)
(* is not followed; a bad status; one the processor refuses; a page, well- *)
(* formed or not; another document, which may break off when it is read.   *)
(* A file is missing, cannot be opened, or is one of the last four.        *)
HttpKinds == {"refused", "redirect", "badStatus", "unprocessable",
              "page", "malformed", "document", "cut"}
FileKinds == {"missing", "unreadable", "page", "malformed", "document", "cut"}

Response == [kind : HttpKinds \cup FileKinds, status : Int,
             directives : SUBSET STRING, needs : SUBSET STRING]

ASSUME DefinitionAssumption ==
    /\ \A j \in Jobs : Definition[j].name \in STRING
    /\ NoJob \notin Jobs

ASSUME ResponsesAssumption ==
    \A j \in Jobs : \A r \in Responses[j] :
       /\ r \in Response
       /\ r.kind \in IF Definition[j].file THEN FileKinds ELSE HttpKinds
       /\ r.kind = "unprocessable" => Definition[j].processed
       /\ r.kind \in {"page", "malformed", "document", "cut"} =>
             r.status \in 200 .. 399
       /\ r.kind = "refused" => r.status = 502
       /\ r.kind = "missing" => r.status = 404
       /\ r.kind = "redirect" => r.status \in 300 .. 308
       /\ r.kind = "badStatus" => r.status \notin 200 .. 399

(* What was loaded, by which job's loader; a stream is read from the body  *)
(* of its response or, if "wrapped", from bytes that were read before.     *)
Content == [name : STRING, loader : Jobs, status : Int, stream : BOOLEAN,
            wrapped : BOOLEAN, needs : SUBSET STRING]

ASSUME NoContentAssumption == NoContent \notin Content \cup Response

(* The copy of a definition that is loaded has a URL without variables.    *)
Expanded ==
    LET Parts(p)       == IF p \in DOMAIN Metadata THEN Metadata[p] ELSE <<p>>
        ExpandUrl(url) == FlattenSeq([i \in DOMAIN url |-> Parts(url[i])])
    IN  [j \in Jobs |-> [Definition[j] EXCEPT !.url = ExpandUrl(@)]]

(* A result is known by the hash of its definition, and its content in the *)
(* cache by that of the copy.                                              *)
HashAsAdded == [j \in Jobs |-> Hash(Definition[j])]
StoreHash   == [j \in Jobs |-> Hash(Expanded[j])]

Hashes == {StoreHash[j] : j \in Jobs} \cup {HashAsAdded[j] : j \in Jobs}

VARIABLES
    position,       \* where each job is
    content,        \* the Content it has
    failed,         \* whether it has an error
    response,       \* the response it got
    body,           \* of its response: "none", "open", "drained" or "closed"
    cached,         \* what each job has set in the cache
    store, used     \* the cache

results == <<content, failed>>
loaderVars == <<position, results, response, body, cached, store, used>>

Cache == INSTANCE VolatileStore WITH Keys <- Hashes, Ids <- Jobs, NoId <- NoJob

LoaderInit ==
    /\ position = [j \in Jobs |-> "new"]
    /\ content = [j \in Jobs |-> NoContent]
    /\ failed = [j \in Jobs |-> TRUE]
    /\ response = [j \in Jobs |-> NoContent]
    /\ body = [j \in Jobs |-> "none"]
    /\ cached = [j \in Jobs |-> NoContent]
    /\ Cache!Init

Moves(j, p) == position' = [position EXCEPT ![j] = p]

Returns(j, c, err) ==
    /\ content' = [content EXCEPT ![j] = c]
    /\ failed' = [failed EXCEPT ![j] = err]

-----------------------------------------------------------------------------
(* What the loaders make of a response.                                    *)

HasReader(kind) == kind \in {"document", "cut"}

MemoryContent(j, r) ==
    [name |-> Definition[j].name, loader |-> j, status |-> r.status,
     stream |-> HasReader(r.kind), wrapped |-> FALSE, needs |-> r.needs]

LoadFails(r) ==
    r.kind \in {"refused", "badStatus", "unprocessable", "malformed",
                "missing", "unreadable"}

\* A file that cannot be opened has no content at all.
Loaded(j, r) ==
    IF r.kind = "unreadable" THEN NoContent ELSE MemoryContent(j, r)

\* Faulty variant: a page that cannot be parsed is not closed.
BodyOfParsed(kind) ==
    IF kind = "page" THEN "closed"
    ELSE IF HasReader(kind) \/ kind \in {"malformed", "badStatus", "unprocessable"}
    THEN "open" ELSE "none"

(* What is left of the body, of a response or a file: it is read and       *)
(* closed when it is parsed, and stays open for the reader of the content, *)
(* or after a bad status or a processor's error.                           *)
BodyOf(kind) ==
    IF kind \in {"page", "malformed"} THEN "closed"
    ELSE IF HasReader(kind) \/ kind \in {"badStatus", "unprocessable"} THEN "open"
    ELSE "none"

\* Faulty variant: what could not be loaded is stored as well.
IsStoredUnchecked(j, r) == IsCacheable(Expanded[j], r.status, r.directives)

\* It is asked whether a response may be kept only without an error.
IsStored(j, r) ==
    ~LoadFails(r) /\ IsCacheable(Expanded[j], r.status, r.directives)

-----------------------------------------------------------------------------
(* The URL template cannot be expanded: nothing is loaded.                 *)
ExpandFails(j) ==
    /\ position[j] = "new" /\ ~Definition[j].expands
    /\ Moves(j, "loaded")
    /\ UNCHANGED <<results, response, body, cached, store, used>>

(* A file is not loaded with a response processor.                         *)
RefusesProcessor(j) == Definition[j].file /\ Definition[j].processed

Load(j) ==
    /\ position[j] = "new" /\ Definition[j].expands
    /\ LET hit == store[StoreHash[j]] IN
       IF Definition[j].method = "GET" /\ IsReadableFromCache(Expanded[j])
          /\ hit # NoJob
       THEN Moves(j, "loaded") /\ Returns(j, cached[hit], FALSE)
       ELSE /\ Moves(j, IF RefusesProcessor(j) THEN "loaded" ELSE "loading")
            /\ UNCHANGED results
    /\ UNCHANGED <<response, body, cached, store, used>>

LoadReturns(j) ==
    /\ position[j] = "loading"
    /\ \E r \in Responses[j] :
          /\ response' = [response EXCEPT ![j] = r]
          /\ Returns(j, Loaded(j, r), LoadFails(r))
          /\ body' = [body EXCEPT ![j] = BodyOf(r.kind)]
          /\ Moves(j, IF ~IsStored(j, r) THEN "loaded"
                      ELSE IF HasReader(r.kind) THEN "reading" ELSE "storing")
    /\ UNCHANGED <<cached, store, used>>

\* Faulty variant: the content with the reader itself is kept.
ReadStreamUnwrapped(j) ==
    /\ position[j] = "reading"
    /\ Moves(j, "storing")
    /\ UNCHANGED <<results, response, body, cached, store, used>>

(* The stream is read to its end, and not closed; it then is bytes that    *)
(* can be read again.  If it breaks off, the half-read content is returned *)
(* with the error.                                                         *)
ReadStream(j) ==
    /\ position[j] = "reading"
    /\ body' = [body EXCEPT ![j] = "drained"]
    /\ IF response[j].kind = "cut"
       THEN Moves(j, "loaded") /\ Returns(j, content[j], TRUE)
       ELSE /\ Moves(j, "storing")
            /\ Returns(j, [content[j] EXCEPT !.wrapped = TRUE], FALSE)
    /\ UNCHANGED <<response, cached, store, used>>

SetContent(j) ==
    /\ position[j] = "storing"
    /\ Cache!Put(StoreHash[j], j)
    /\ cached' = [cached EXCEPT ![j] = content[j]]
    /\ Moves(j, "loaded")
    /\ UNCHANGED <<results, response, body>>

(* Entries are evicted, expire, or are invalidated: with DELETE            *)
(* internal/cache (CacheInvalidationHandler), all of them.                 *)
CacheForgets ==
    /\ Cache!Forget
    /\ UNCHANGED <<position, results, response, body, cached>>

LoaderStep(j) ==
    ExpandFails(j) \/ Load(j) \/ LoadReturns(j) \/ ReadStream(j) \/ SetContent(j)

-----------------------------------------------------------------------------
LoaderTypeOK ==
    /\ position \in [Jobs -> {"new", "loading", "reading", "storing", "loaded"}]
    /\ content \in [Jobs -> Content \cup {NoContent}]
    /\ failed \in [Jobs -> BOOLEAN]
    /\ DOMAIN response = Jobs
    /\ \A j \in Jobs : response[j] = NoContent \/ response[j] \in Responses[j]
    /\ body \in [Jobs -> {"none", "open", "drained", "closed"}]
    /\ cached \in [Jobs -> Content \cup {NoContent}]
    /\ Cache!TypeOK

(* Whatever is in the cache can be handed to any number of requests: it    *)
(* was loaded without an error, for that hash, and to its end.             *)
CacheIsServable ==
    \A h \in Hashes : store[h] # NoJob =>
       LET j == store[h] IN
       /\ h = StoreHash[j] /\ cached[j] # NoContent
       /\ ~LoadFails(response[j]) /\ response[j].kind # "cut"
       /\ cached[j].stream => cached[j].wrapped

-----------------------------------------------------------------------------
(* The parts of the inductive invariant that concern the loads.            *)

CanBeKept(j, c) ==
    /\ c # NoContent /\ c.loader = j
    /\ ~LoadFails(response[j]) /\ response[j].kind # "cut"
    /\ c.stream => c.wrapped

(* A body is read to its end if it is kept, and its content is its bytes;  *)
(* otherwise it is as the loader left it, but that a stream may be closed. *)
BodyIsSound(j) ==
    IF response[j] = NoContent THEN body[j] = "none"
    ELSE LET kind == response[j].kind IN
         IF ~HasReader(kind)
         THEN /\ body[j] = BodyOf(kind)
              /\ LoadFails(response[j]) => failed[j]
         ELSE IF IsStored(j, response[j]) /\ position[j] # "reading"
         THEN /\ body[j] = "drained"
              /\ content[j] # NoContent /\ (failed[j] \/ content[j].wrapped)
         ELSE /\ body[j] = "open" \/ (body[j] = "closed" /\ position[j] = "loaded")
              /\ content[j] # NoContent /\ ~content[j].wrapped

(* What a load has, at each of its positions.                              *)
LoadIsSound(j) ==
    /\ position[j] \in {"new", "loading"} =>
          content[j] = NoContent /\ response[j] = NoContent
    /\ position[j] = "reading" =>
          /\ content[j] # NoContent /\ content[j].loader = j
          /\ IsStored(j, response[j]) /\ HasReader(response[j].kind)
    /\ position[j] = "storing" => CanBeKept(j, content[j])
    /\ BodyIsSound(j)

(* What has been set was loaded for its job, and the job is over.          *)
EntryIsSound(j) ==
    IF j \in used
    THEN position[j] = "loaded" /\ CanBeKept(j, cached[j])
    ELSE cached[j] = NoContent

StoreIsSound ==
    \A h \in Hashes : store[h] # NoJob => h = StoreHash[store[h]]

(* A content is that of the job's response, or, without one, one from the  *)
(* cache for the same URL.                                                 *)
ContentIsSound(j) ==
    content[j] # NoContent =>
       LET k == content[j].loader IN
       IF k = j
       THEN /\ response[j] # NoContent
            /\ content[j].stream = HasReader(response[j].kind)
       ELSE /\ response[j] = NoContent
            /\ k \in used /\ content[j] = cached[k]
            /\ StoreHash[k] = StoreHash[j]

LoadsAreSound ==
    /\ \A j \in Jobs : LoadIsSound(j) /\ EntryIsSound(j) /\ ContentIsSound(j)
    /\ StoreIsSound

=============================================================================
