----------------------- MODULE CompositionHandlerProofs -----------------------
(***************************************************************************)
(* Proofs about CompositionHandler and the loads under it, for any         *)
(* requests, definitions and responses.                                    *)
(***************************************************************************)
EXTENDS CompositionHandler, Inductions

-----------------------------------------------------------------------------
(* The constants.                                                          *)

LEMMA WantedJobs ==
    ASSUME NEW r \in Requests
    PROVE  /\ Wanted[r] \in Seq(Jobs)
           /\ \A i \in DOMAIN Wanted[r] : Wanted[r][i] \in Jobs
  BY RequestsAssumption

LEMMA DefinitionFields ==
    ASSUME NEW j \in Jobs
    PROVE  /\ Definition[j].name \in STRING
           /\ StoreHash[j] \in Hashes
           /\ HashAsAdded[j] \in Hashes
  BY DefinitionAssumption DEF Hashes

LEMMA ResponseFields ==
    ASSUME NEW j \in Jobs, NEW r \in Responses[j]
    PROVE  /\ r \in Response
           /\ r.status \in Int /\ r.needs \in SUBSET STRING
  BY ResponsesAssumption DEF Response

(* What a loader returns is a content of its own, or none.                 *)
LEMMA LoadedContent ==
    ASSUME NEW j \in Jobs, NEW r \in Responses[j]
    PROVE  /\ MemoryContent(j, r) \in Content
           /\ MemoryContent(j, r) # NoContent
           /\ MemoryContent(j, r).loader = j
           /\ ~MemoryContent(j, r).wrapped
           /\ MemoryContent(j, r).stream = HasReader(r.kind)
           /\ Loaded(j, r) \in {MemoryContent(j, r), NoContent}
           /\ ~LoadFails(r) => Loaded(j, r) = MemoryContent(j, r)
<1>1. MemoryContent(j, r) \in Content
  BY DefinitionFields, ResponseFields DEF MemoryContent, Content, HasReader
<1>2. /\ MemoryContent(j, r).loader = j /\ ~MemoryContent(j, r).wrapped
      /\ MemoryContent(j, r).stream = HasReader(r.kind)
  BY DEF MemoryContent
<1>3. r.kind = "unreadable" => LoadFails(r)
  BY DEF LoadFails
<1> QED
  BY <1>1, <1>2, <1>3, NoContentAssumption DEF Loaded

-----------------------------------------------------------------------------
(* Steps of a load leave the results of the other jobs alone, and a        *)
(* request goes on only when its jobs are over.                            *)

OnlyMoves(j) ==
    /\ position[j] # "loaded"
    /\ body'[j] = "closed" => ~HasReader(response'[j].kind)
    /\ \A k \in Jobs \ {j} :
          /\ position'[k] = position[k]
          /\ content'[k] = content[k] /\ failed'[k] = failed[k]
          /\ response'[k] = response[k] /\ body'[k] = body[k]
          /\ cached'[k] = cached[k]

LEMMA LoaderIsOver ==
    ASSUME RequestsAreSound, NEW k \in Jobs, position[k] = "loaded", content[k] # NoContent
    PROVE  content[k].loader \in Jobs /\ position[content[k].loader] = "loaded"
<1>1. content[k] \in Content
  BY DEF RequestsAreSound, TypeOK, LoaderTypeOK
<1>2. content[k].loader \in Jobs
  BY <1>1 DEF Content
<1>3. CASE content[k].loader = k
  BY <1>3
<1>4. CASE content[k].loader # k
  BY <1>2, <1>4 DEF RequestsAreSound, LoadsAreSound, ContentIsSound, EntryIsSound
<1> QED
  BY <1>2, <1>3, <1>4

LEMMA RequestsStaySound ==
    ASSUME RequestsAreSound, NEW j \in Jobs, OnlyMoves(j), UNCHANGED handlerVars
    PROVE  \A r \in Requests : RequestIsSound(r)' /\ StreamIsWhole(r)'
<1> stage' = stage /\ answer' = answer
  BY DEF handlerVars
<1>1. ASSUME NEW r \in Requests, IsLoaded(r)
      PROVE  /\ IsLoaded(r)'
             /\ \A i \in DOMAIN Wanted[r] :
                   /\ content'[Wanted[r][i]] = content[Wanted[r][i]]
                   /\ body'[Wanted[r][i]] = body[Wanted[r][i]]
  BY <1>1, WantedJobs DEF IsLoaded, OnlyMoves
<1>2. \A r \in Requests : RequestIsSound(r)'
  <2>1. ASSUME NEW r \in Requests, stage[r] # "fetching"
        PROVE  IsLoaded(r)'
    BY <1>1, <2>1 DEF RequestsAreSound, RequestIsSound
  <2>2. ASSUME NEW r \in Requests, answer[r].form = "stream"
        PROVE  \E i \in DOMAIN Wanted[r] :
                  /\ answer[r].jobs = <<Wanted[r][i]>>
                  /\ content'[Wanted[r][i]] # NoContent
                  /\ body'[Wanted[r][i]] # "open"
    <3>1. stage[r] # "fetching"
      BY <2>2 DEF RequestsAreSound, RequestIsSound
    <3> QED
      BY <1>1, <2>2, <3>1 DEF RequestsAreSound, RequestIsSound
  <2>3. ASSUME NEW r \in Requests, NEW k \in ToSet(Wanted[r]),
               body'[k] = "closed", HasReader(response'[k].kind)
        PROVE  IsForwarded(r, k)
    <3>1. k \in Jobs
      BY WantedJobs DEF ToSet
    <3>2. body[k] = "closed" /\ HasReader(response[k].kind)
      BY <2>3, <3>1 DEF OnlyMoves
    <3> QED
      BY <3>2 DEF RequestsAreSound, RequestIsSound
  <2> QED
    BY <2>1, <2>2, <2>3 DEF RequestsAreSound, RequestIsSound, IsForwarded
<1>3. ASSUME NEW r \in Requests, answer[r].form = "stream"
      PROVE  /\ content'[answer[r].jobs[1]] = content[answer[r].jobs[1]]
             /\ response'[content[answer[r].jobs[1]].loader] =
                   response[content[answer[r].jobs[1]].loader]
  <2>0. stage[r] # "fetching"
    BY <1>3 DEF RequestsAreSound, RequestIsSound
  <2>1. IsLoaded(r)
    BY <2>0 DEF RequestsAreSound, RequestIsSound
  <2>2. PICK i \in DOMAIN Wanted[r] :
           /\ answer[r].jobs = <<Wanted[r][i]>>
           /\ content[Wanted[r][i]] # NoContent
    BY <1>3 DEF RequestsAreSound, RequestIsSound
  <2>3. answer[r].jobs[1] = Wanted[r][i]
    BY <2>2
  <2>4. /\ content[Wanted[r][i]].loader \in Jobs
        /\ position[content[Wanted[r][i]].loader] = "loaded"
    BY <2>1, <2>2, LoaderIsOver, WantedJobs DEF IsLoaded
  <2> QED
    BY <1>1, <2>1, <2>3, <2>4 DEF OnlyMoves
<1>4. \A r \in Requests : StreamIsWhole(r)'
  BY <1>3 DEF RequestsAreSound, StreamIsWhole, handlerVars
<1> QED
  BY <1>2, <1>4

(* An entry that a step brings into the cache is new: no result has it.    *)
LEMMA PassedStaysPurged ==
    ASSUME RequestsAreSound, NEW j \in Jobs, OnlyMoves(j), UNCHANGED handlerVars,
           \A h \in Hashes : store'[h] \in {store[h], NoJob, j}
    PROVE  \A r \in Requests : PassedIsPurged(r) => PassedIsPurged(r)'
<1> SUFFICES ASSUME NEW r \in Requests, PassedIsPurged(r),
                    HasCache, answer[r].form = "failedMerge",
                    NEW i \in DOMAIN Wanted[r], NEW h \in Hashes,
                    stage[r] = "answered" \/ i < next[r],
                    content'[Wanted[r][i]] # NoContent
             PROVE  store'[h] # content'[Wanted[r][i]].loader
  BY DEF PassedIsPurged, handlerVars
<1>0. stage[r] # "fetching"
  BY DEF RequestsAreSound, RequestIsSound
<1>1. Wanted[r][i] \in Jobs /\ position[Wanted[r][i]] = "loaded"
  BY <1>0, WantedJobs DEF RequestsAreSound, RequestIsSound, IsLoaded
<1>2. content'[Wanted[r][i]] = content[Wanted[r][i]]
  BY <1>1 DEF OnlyMoves
<1>3. /\ content[Wanted[r][i]].loader \in Jobs
      /\ position[content[Wanted[r][i]].loader] = "loaded"
  BY <1>1, <1>2, LoaderIsOver
<1>4. /\ content[Wanted[r][i]].loader # j
      /\ content[Wanted[r][i]].loader # NoJob
  BY <1>3, DefinitionAssumption DEF OnlyMoves
<1>5. store[h] # content[Wanted[r][i]].loader
  BY <1>2 DEF PassedIsPurged
<1> QED
  BY <1>2, <1>4, <1>5

(* What a step does to its own job decides the rest.                       *)
LEMMA OthersStaySound ==
    ASSUME RequestsAreSound, NEW j \in Jobs, OnlyMoves(j), UNCHANGED handlerVars,
           used' = used \/ used' = used \cup {j},
           \A h \in Hashes :
              \/ store'[h] \in {store[h], NoJob}
              \/ store'[h] = j /\ h = StoreHash[j],
           LoadIsSound(j)', EntryIsSound(j)', ContentIsSound(j)',
           ReaderIsUnread(j)', TypeOK'
    PROVE  RequestsAreSound'
<1>1. ASSUME NEW k \in Jobs, k # j
      PROVE  LoadIsSound(k)' /\ EntryIsSound(k)' /\ ContentIsSound(k)'
  <2>0. LoadIsSound(k) /\ EntryIsSound(k) /\ ContentIsSound(k)
    BY DEF RequestsAreSound, LoadsAreSound
  <2>1. LoadIsSound(k)'
    BY <1>1, <2>0 DEF OnlyMoves, LoadIsSound, BodyIsSound, CanBeKept
  <2>2. EntryIsSound(k)'
    BY <1>1, <2>0 DEF OnlyMoves, EntryIsSound, CanBeKept
  <2>3. ContentIsSound(k)'
    <3> SUFFICES ASSUME content[k] # NoContent, content[k].loader # k
                 PROVE  /\ content[k].loader \in used'
                        /\ content[k] = cached'[content[k].loader]
                        /\ StoreHash[content[k].loader]
                              = StoreHash[k]
      BY <1>1, <2>0 DEF OnlyMoves, ContentIsSound
    <3>1. /\ content[k].loader \in used
          /\ content[k] = cached[content[k].loader]
          /\ StoreHash[content[k].loader] = StoreHash[k]
      BY <2>0 DEF ContentIsSound
    <3>2. content[k].loader \in Jobs
      BY <3>1 DEF RequestsAreSound, TypeOK, LoaderTypeOK, Cache!TypeOK
    <3>3. content[k].loader # j
      BY <3>1, <3>2 DEF RequestsAreSound, LoadsAreSound, EntryIsSound, OnlyMoves
    <3> QED
      BY <3>1, <3>2, <3>3 DEF OnlyMoves
  <2> QED
    BY <2>1, <2>2, <2>3
<1>2. StoreIsSound'
  BY DEF RequestsAreSound, LoadsAreSound, StoreIsSound
<1>3. LoadsAreSound'
  BY <1>1, <1>2 DEF LoadsAreSound
<1>4. ReadersAreUnread'
  BY DEF RequestsAreSound, ReadersAreUnread, ReaderIsUnread, OnlyMoves, handlerVars
<1>5. \A r \in Requests : (UrlsAreLiteral => PassedIsPurged(r))'
  <2>1. \A h \in Hashes : store'[h] \in {store[h], NoJob, j}
    OBVIOUS
  <2> QED
    BY <2>1, PassedStaysPurged DEF RequestsAreSound, UrlsAreLiteral
<1> QED
  BY <1>3, <1>4, <1>5, RequestsStaySound DEF RequestsAreSound

LEMMA SameStoreStaysSound ==
    ASSUME RequestsAreSound, NEW j \in Jobs, OnlyMoves(j), UNCHANGED handlerVars,
           used' = used, store' = store,
           LoadIsSound(j)', EntryIsSound(j)', ContentIsSound(j)',
           ReaderIsUnread(j)', TypeOK'
    PROVE  RequestsAreSound'
<1>1. \A h \in Hashes :
         \/ store'[h] \in {store[h], NoJob}
         \/ store'[h] = j /\ h = StoreHash[j]
  OBVIOUS
<1> QED
  BY <1>1, OthersStaySound

-----------------------------------------------------------------------------
(* The steps of a load.                                                    *)

LEMMA TypesOfLoads ==
    ASSUME RequestsAreSound
    PROVE  /\ position \in [Jobs -> {"new", "loading", "reading", "storing", "loaded"}]
           /\ content \in [Jobs -> Content \cup {NoContent}]
           /\ failed \in [Jobs -> BOOLEAN]
           /\ DOMAIN response = Jobs
           /\ \A j \in Jobs : response[j] = NoContent \/ response[j] \in Responses[j]
           /\ body \in [Jobs -> {"none", "open", "drained", "closed"}]
           /\ cached \in [Jobs -> Content \cup {NoContent}]
           /\ used \subseteq Jobs
           /\ store \in [Hashes -> used \cup {NoJob}]
  BY DEF RequestsAreSound, TypeOK, LoaderTypeOK, Cache!TypeOK

LEMMA HandlerTypesStay ==
    ASSUME RequestsAreSound, UNCHANGED handlerVars, LoaderTypeOK'
    PROVE  TypeOK'
  BY DEF RequestsAreSound, TypeOK, handlerVars

LEMMA ExpandFailsKeeps ==
    ASSUME RequestsAreSound, NEW j \in Jobs, ExpandFails(j), UNCHANGED handlerVars
    PROVE  RequestsAreSound'
<1> USE TypesOfLoads
<1>0. body[j] # "closed"
  BY DEF ExpandFails, RequestsAreSound, LoadsAreSound, LoadIsSound, BodyIsSound
<1>1. OnlyMoves(j)
  BY <1>0 DEF ExpandFails, Moves, results, OnlyMoves
<1>2. LoaderTypeOK'
  BY DEF ExpandFails, Moves, results, LoaderTypeOK, Cache!TypeOK
<1>3. LoadIsSound(j) /\ EntryIsSound(j) /\ ContentIsSound(j) /\ ReaderIsUnread(j)
  BY DEF RequestsAreSound, LoadsAreSound, ReadersAreUnread
<1>4. LoadIsSound(j)' /\ EntryIsSound(j)' /\ ContentIsSound(j)'
  BY <1>3 DEF ExpandFails, Moves, results, LoadIsSound, BodyIsSound, EntryIsSound,
              ContentIsSound, CanBeKept
<1>5. ReaderIsUnread(j)'
  BY <1>3 DEF ExpandFails, results, ReaderIsUnread, handlerVars
<1>6. used' = used /\ store' = store
  BY DEF ExpandFails
<1>7. TypeOK'
  BY <1>2, HandlerTypesStay
<1> QED
  BY <1>1, <1>4, <1>5, <1>6, <1>7, SameStoreStaysSound

LEMMA LoadKeeps ==
    ASSUME RequestsAreSound, NEW j \in Jobs, Load(j), UNCHANGED handlerVars
    PROVE  RequestsAreSound'
<1> USE TypesOfLoads
<1> DEFINE hit == store[StoreHash[j]]
<1>0. /\ position[j] = "new"
      /\ UNCHANGED <<response, body, cached, store, used>>
  BY DEF Load
<1>3. /\ LoadIsSound(j) /\ EntryIsSound(j) /\ ContentIsSound(j) /\ ReaderIsUnread(j)
      /\ StoreIsSound
  BY DEF RequestsAreSound, LoadsAreSound, ReadersAreUnread
<1>4. response[j] = NoContent /\ body'[j] # "closed"
  BY <1>0, <1>3 DEF LoadIsSound, BodyIsSound
<1>a. CASE hit # NoJob /\ Moves(j, "loaded") /\ Returns(j, cached[hit], FALSE)
  <2>0. StoreHash[j] \in Hashes
    BY DefinitionFields
  <2>1. /\ hit \in Jobs /\ hit \in used
        /\ StoreHash[hit] = StoreHash[j]
    BY <1>3, <1>a, <2>0 DEF StoreIsSound
  <2>2. EntryIsSound(hit)
    BY <2>1 DEF RequestsAreSound, LoadsAreSound
  <2>3. position[hit] = "loaded" /\ CanBeKept(hit, cached[hit])
    BY <2>1, <2>2 DEF EntryIsSound
  <2>4. hit # j /\ j \notin used
    BY <1>0, <1>3, <2>3 DEF EntryIsSound
  <2>5. cached[hit] \in Content /\ cached[hit].loader = hit
        /\ (cached[hit].stream => cached[hit].wrapped)
    BY <2>1, <2>3 DEF CanBeKept
  <2> HIDE DEF hit
  <2>6. /\ position' = [position EXCEPT ![j] = "loaded"]
        /\ content' = [content EXCEPT ![j] = cached[hit]]
        /\ failed' = [failed EXCEPT ![j] = FALSE]
    BY <1>a DEF Moves, Returns
  <2>7. OnlyMoves(j)
    BY <1>0, <1>4, <2>6 DEF OnlyMoves
  <2>8. LoaderTypeOK'
    BY <1>0, <2>1, <2>5, <2>6 DEF LoaderTypeOK, Cache!TypeOK
  <2>9. LoadIsSound(j)' /\ EntryIsSound(j)'
    BY <1>0, <1>3, <2>4, <2>6 DEF LoadIsSound, BodyIsSound, EntryIsSound
  <2>10. ContentIsSound(j)'
    BY <1>0, <1>4, <2>1, <2>4, <2>5, <2>6 DEF ContentIsSound
  <2>11. ReaderIsUnread(j)'
    BY <2>5, <2>6 DEF ReaderIsUnread
  <2>12. TypeOK'
    BY <2>8, HandlerTypesStay
  <2> QED
    BY <1>0, <2>7, <2>9, <2>10, <2>11, <2>12, SameStoreStaysSound
<1>b. CASE /\ Moves(j, IF RefusesProcessor(j) THEN "loaded" ELSE "loading")
           /\ UNCHANGED results
  <2>1. /\ position' = [position EXCEPT ![j] =
                          IF RefusesProcessor(j) THEN "loaded" ELSE "loading"]
        /\ content' = content /\ failed' = failed
    BY <1>b DEF Moves, results
  <2>2. position'[j] \in {"loaded", "loading"}
    BY <2>1
  <2>3. OnlyMoves(j)
    BY <1>0, <1>4, <2>1 DEF OnlyMoves
  <2>4. LoaderTypeOK'
    BY <1>0, <2>1 DEF LoaderTypeOK, Cache!TypeOK
  <2>5. LoadIsSound(j)' /\ EntryIsSound(j)' /\ ContentIsSound(j)'
    BY <1>0, <1>3, <2>1, <2>2 DEF LoadIsSound, BodyIsSound, EntryIsSound, ContentIsSound
  <2>6. ReaderIsUnread(j)'
    BY <1>0, <1>3, <2>1 DEF ReaderIsUnread, handlerVars
  <2>7. TypeOK'
    BY <2>4, HandlerTypesStay
  <2> QED
    BY <1>0, <2>3, <2>5, <2>6, <2>7, SameStoreStaysSound
<1> QED
  BY <1>a, <1>b DEF Load

LEMMA LoadReturnsKeeps ==
    ASSUME RequestsAreSound, NEW j \in Jobs, LoadReturns(j), UNCHANGED handlerVars
    PROVE  RequestsAreSound'
<1> USE TypesOfLoads
<1>1. PICK r \in Responses[j] :
        /\ response' = [response EXCEPT ![j] = r]
        /\ Returns(j, Loaded(j, r), LoadFails(r))
        /\ body' = [body EXCEPT ![j] = BodyOf(r.kind)]
        /\ Moves(j, IF ~IsStored(j, r) THEN "loaded"
                    ELSE IF HasReader(r.kind) THEN "reading" ELSE "storing")
  BY DEF LoadReturns
<1>2. position[j] = "loading" /\ UNCHANGED <<cached, store, used>>
  BY DEF LoadReturns
<1>3. /\ content' = [content EXCEPT ![j] = Loaded(j, r)]
      /\ failed' = [failed EXCEPT ![j] = LoadFails(r)]
      /\ position' = [position EXCEPT ![j] =
                        IF ~IsStored(j, r) THEN "loaded"
                        ELSE IF HasReader(r.kind) THEN "reading" ELSE "storing"]
  BY <1>1 DEF Returns, Moves
<1>4. LoadIsSound(j) /\ EntryIsSound(j)
  BY DEF RequestsAreSound, LoadsAreSound
<1>5. LoadFails(r) \in BOOLEAN /\ (IsStored(j, r) => ~LoadFails(r))
  BY DEF LoadFails, IsStored
<1>6. OnlyMoves(j)
  BY <1>1, <1>2, <1>3 DEF OnlyMoves, BodyOf, HasReader
<1>a. r # NoContent
  BY ResponseFields, NoContentAssumption
<1>7. LoaderTypeOK'
  BY <1>1, <1>2, <1>3, <1>5, LoadedContent DEF LoaderTypeOK, Cache!TypeOK, BodyOf
<1>8. /\ position'[j] = "reading" => IsStored(j, r) /\ HasReader(r.kind)
      /\ position'[j] = "storing" => IsStored(j, r) /\ ~HasReader(r.kind)
      /\ position'[j] \notin {"new", "loading"}
      /\ content'[j] = Loaded(j, r) /\ response'[j] = r
      /\ body'[j] = BodyOf(r.kind) /\ failed'[j] = LoadFails(r)
      /\ HasReader(r.kind) => body'[j] = "open"
  BY <1>1, <1>3 DEF BodyOf, HasReader
<1>9. LoadIsSound(j)'
  <2>1. BodyIsSound(j)'
    <3>1. CASE HasReader(r.kind)
      <4>1. ~LoadFails(r)
        BY <3>1 DEF HasReader, LoadFails
      <4>2. Loaded(j, r) # NoContent /\ ~Loaded(j, r).wrapped
        BY <4>1, LoadedContent
      <4>3. IsStored(j, r) => position'[j] = "reading"
        BY <1>1, <1>3, <3>1
      <4> QED
        BY <1>8, <1>a, <3>1, <4>2, <4>3 DEF BodyIsSound
    <3>2. CASE ~HasReader(r.kind)
      BY <1>8, <1>a, <3>2 DEF BodyIsSound
    <3> QED
      BY <3>1, <3>2
  <2> QED
    BY <1>5, <1>8, <2>1, LoadedContent DEF LoadIsSound, CanBeKept, HasReader
<1>10. EntryIsSound(j)'
  BY <1>2, <1>4 DEF EntryIsSound
<1>11. ContentIsSound(j)'
  BY <1>8, <1>a, LoadedContent DEF ContentIsSound
<1>12. ReaderIsUnread(j)'
  BY <1>8, LoadedContent DEF ReaderIsUnread
<1>13. TypeOK'
  BY <1>7, HandlerTypesStay
<1> QED
  BY <1>2, <1>6, <1>9, <1>10, <1>11, <1>12, <1>13, SameStoreStaysSound

LEMMA ReadStreamKeeps ==
    ASSUME RequestsAreSound, NEW j \in Jobs, ReadStream(j), UNCHANGED handlerVars
    PROVE  RequestsAreSound'
<1> USE TypesOfLoads
<1>1. /\ position[j] = "reading"
      /\ body' = [body EXCEPT ![j] = "drained"]
      /\ UNCHANGED <<response, cached, store, used>>
  BY DEF ReadStream
<1>2. LoadIsSound(j) /\ EntryIsSound(j) /\ ContentIsSound(j)
  BY DEF RequestsAreSound, LoadsAreSound
<1>3. /\ content[j] \in Content /\ content[j] # NoContent
      /\ content[j].loader = j /\ ~LoadFails(response[j])
      /\ IsStored(j, response[j]) /\ HasReader(response[j].kind)
      /\ response[j] # NoContent /\ content[j].stream
  BY <1>1, <1>2 DEF LoadIsSound, ContentIsSound, IsStored
<1>a. CASE /\ response[j].kind = "cut"
           /\ Moves(j, "loaded") /\ Returns(j, content[j], TRUE)
  <2>1. /\ position' = [position EXCEPT ![j] = "loaded"]
        /\ content' = content /\ failed' = [failed EXCEPT ![j] = TRUE]
    BY <1>a DEF Moves, Returns
  <2>2. OnlyMoves(j)
    BY <1>1, <2>1 DEF OnlyMoves
  <2>3. LoaderTypeOK'
    BY <1>1, <2>1 DEF LoaderTypeOK, Cache!TypeOK
  <2>4. TypeOK'
    BY <2>3, HandlerTypesStay
  <2>5. LoadIsSound(j)' /\ EntryIsSound(j)' /\ ContentIsSound(j)'
    BY <1>1, <1>2, <1>3, <2>1 DEF LoadIsSound, BodyIsSound, EntryIsSound, ContentIsSound
  <2>6. ReaderIsUnread(j)'
    BY <1>a, <1>1 DEF ReaderIsUnread
  <2> QED
    BY <1>1, <2>2, <2>4, <2>5, <2>6, SameStoreStaysSound
<1>b. CASE /\ response[j].kind # "cut" /\ Moves(j, "storing")
           /\ Returns(j, [content[j] EXCEPT !.wrapped = TRUE], FALSE)
  <2> DEFINE c == [content[j] EXCEPT !.wrapped = TRUE]
  <2>0. c \in Content /\ c # NoContent /\ c.loader = j /\ c.wrapped /\ c.stream
    BY <1>3, NoContentAssumption DEF Content
  <2> HIDE DEF c
  <2>1. /\ position' = [position EXCEPT ![j] = "storing"]
        /\ content' = [content EXCEPT ![j] = c]
        /\ failed' = [failed EXCEPT ![j] = FALSE]
    BY <1>b DEF Moves, Returns, c
  <2>2. OnlyMoves(j)
    BY <1>1, <2>1 DEF OnlyMoves
  <2>3. LoaderTypeOK'
    BY <1>1, <2>0, <2>1 DEF LoaderTypeOK, Cache!TypeOK
  <2>4. TypeOK'
    BY <2>3, HandlerTypesStay
  <2>5. LoadIsSound(j)' /\ EntryIsSound(j)' /\ ContentIsSound(j)'
    BY <1>b, <1>1, <1>2, <1>3, <2>0, <2>1
    DEF LoadIsSound, BodyIsSound, EntryIsSound, ContentIsSound, CanBeKept
  <2>6. ReaderIsUnread(j)'
    BY <2>0, <2>1 DEF ReaderIsUnread
  <2> QED
    BY <1>1, <2>2, <2>4, <2>5, <2>6, SameStoreStaysSound
<1> QED
  BY <1>a, <1>b DEF ReadStream

LEMMA SetContentKeeps ==
    ASSUME RequestsAreSound, NEW j \in Jobs, SetContent(j), UNCHANGED handlerVars
    PROVE  RequestsAreSound'
<1> USE TypesOfLoads
<1>1. /\ position[j] = "storing"
      /\ position' = [position EXCEPT ![j] = "loaded"]
      /\ cached' = [cached EXCEPT ![j] = content[j]]
      /\ UNCHANGED <<content, failed, response, body>>
  BY DEF SetContent, Moves, results
<1>2. /\ LoadIsSound(j) /\ ContentIsSound(j) /\ ReaderIsUnread(j)
  BY DEF RequestsAreSound, LoadsAreSound, ReadersAreUnread
<1>3. CanBeKept(j, content[j])
  BY <1>1, <1>2 DEF LoadIsSound
<1>4. PICK K \in SUBSET Hashes :
        store' = Cache!Forgetting([store EXCEPT ![StoreHash[j]] = j], K)
  BY DEF SetContent, Cache!Put
<1>5. used' = used \cup {j}
  BY DEF SetContent, Cache!Put
<1>6. /\ store' \in [Hashes -> used' \cup {NoJob}]
      /\ \A h \in Hashes :
            \/ store'[h] \in {store[h], NoJob}
            \/ store'[h] = j /\ h = StoreHash[j]
  BY <1>4, <1>5 DEF Cache!Forgetting
<1>7. OnlyMoves(j)
  BY <1>1, <1>2 DEF OnlyMoves, LoadIsSound, BodyIsSound
<1>8. LoaderTypeOK'
  BY <1>1, <1>5, <1>6 DEF LoaderTypeOK, Cache!TypeOK
<1>9. TypeOK'
  BY <1>8, HandlerTypesStay
<1>10. LoadIsSound(j)' /\ EntryIsSound(j)'
  BY <1>1, <1>2, <1>3, <1>5 DEF LoadIsSound, BodyIsSound, EntryIsSound, CanBeKept
<1>11. ContentIsSound(j)'
  BY <1>1, <1>2, <1>3 DEF ContentIsSound, CanBeKept
<1>12. ReaderIsUnread(j)'
  BY <1>1, <1>2 DEF ReaderIsUnread, handlerVars
<1> QED
  BY <1>5, <1>6, <1>7, <1>9, <1>10, <1>11, <1>12, OthersStaySound

-----------------------------------------------------------------------------
(* Steps of a request, and of the cache, leave the loads alone.            *)

BodyStays(j) ==
    \/ body'[j] = body[j]
    \/ /\ position[j] = "loaded" /\ body'[j] = "closed"
       /\ response[j] # NoContent /\ HasReader(response[j].kind)
       /\ ~IsStored(j, response[j])

LEMMA LoadsStaySound ==
    ASSUME RequestsAreSound, UNCHANGED <<position, results, response, cached, used>>,
           \A j \in Jobs : BodyStays(j),
           \A h \in Hashes : store'[h] \in {store[h], NoJob}
    PROVE  LoadsAreSound'
<1>1. content' = content
  BY DEF results
<1>2. ASSUME NEW j \in Jobs
      PROVE  LoadIsSound(j)' /\ EntryIsSound(j)' /\ ContentIsSound(j)'
  <2>1. LoadIsSound(j) /\ EntryIsSound(j) /\ ContentIsSound(j)
    BY DEF RequestsAreSound, LoadsAreSound
  <2>2. failed' = failed /\ position' = position /\ response' = response
    BY DEF results
  <2>3. BodyIsSound(j)'
    BY <1>1, <2>1, <2>2 DEF BodyStays, LoadIsSound, BodyIsSound
  <2> QED
    BY <1>1, <2>1, <2>2, <2>3
    DEF LoadIsSound, EntryIsSound, ContentIsSound, CanBeKept
<1>3. StoreIsSound'
  BY DEF RequestsAreSound, LoadsAreSound, StoreIsSound
<1> QED
  BY <1>2, <1>3 DEF LoadsAreSound

(* A request keeps what it has while only the cache changes, or it is over.*)
LEMMA WaitingRequestStaysSound ==
    ASSUME RequestsAreSound, NEW r \in Requests,
           \/ stage'[r] = stage[r]
           \/ stage[r] = "purging" /\ stage'[r] = "answered",
           answer' = answer, UNCHANGED <<position, content, response, body>>
    PROVE  RequestIsSound(r)' /\ StreamIsWhole(r)'
<1>1. RequestIsSound(r) /\ StreamIsWhole(r)
  BY DEF RequestsAreSound
<1>2. (IsLoaded(r)' <=> IsLoaded(r)) /\ (StreamIsWhole(r)' <=> StreamIsWhole(r))
  BY DEF IsLoaded, StreamIsWhole
<1>3. \A j \in ToSet(Wanted[r]) : IsForwarded(r, j)' <=> IsForwarded(r, j)
  BY DEF IsForwarded
<1>4. stage[r] # "fetching" <=> stage'[r] # "fetching"
  OBVIOUS
<1> QED
  BY <1>1, <1>2, <1>3, <1>4 DEF RequestIsSound

LEMMA CacheForgetsKeeps ==
    ASSUME RequestsAreSound, CacheForgets, UNCHANGED handlerVars
    PROVE  RequestsAreSound'
<1>1. UNCHANGED <<position, content, failed, response, body, cached, used>>
  BY DEF CacheForgets, results, Cache!Forget
<1>2. PICK K \in SUBSET Hashes : store' = Cache!Forgetting(store, K)
  BY DEF CacheForgets, Cache!Forget
<1>3. /\ store' \in [Hashes -> used \cup {NoJob}]
      /\ \A h \in Hashes : store'[h] \in {store[h], NoJob}
  BY <1>2, TypesOfLoads DEF Cache!Forgetting
<1>4. LoaderTypeOK'
  BY <1>1, <1>3, TypesOfLoads DEF LoaderTypeOK, Cache!TypeOK
<1>5. TypeOK'
  BY <1>4, HandlerTypesStay
<1>6. LoadsAreSound'
  BY <1>1, <1>3, LoadsStaySound DEF results, BodyStays
<1>7. ReadersAreUnread'
  BY <1>1 DEF RequestsAreSound, ReadersAreUnread, ReaderIsUnread, handlerVars
<1>8. ASSUME NEW r \in Requests
      PROVE  RequestIsSound(r)' /\ StreamIsWhole(r)'
  BY <1>1, WaitingRequestStaysSound DEF handlerVars, results
<1>9. ASSUME NEW r \in Requests, PassedIsPurged(r)
      PROVE  PassedIsPurged(r)'
  <2> SUFFICES ASSUME NEW i \in DOMAIN Wanted[r], NEW h \in Hashes,
                      HasCache, answer[r].form = "failedMerge",
                      stage[r] = "answered" \/ i < next[r],
                      content[Wanted[r][i]] # NoContent
               PROVE  store'[h] # content[Wanted[r][i]].loader
    BY <1>1 DEF PassedIsPurged, handlerVars
  <2>1. Wanted[r][i] \in Jobs /\ position[Wanted[r][i]] = "loaded"
    BY WantedJobs DEF RequestsAreSound, RequestIsSound, IsLoaded
  <2>2. content[Wanted[r][i]].loader # NoJob
    BY <2>1, LoaderIsOver, DefinitionAssumption
  <2> QED
    BY <1>3, <1>9, <2>2 DEF PassedIsPurged
<1> QED
  BY <1>5, <1>6, <1>7, <1>8, <1>9 DEF RequestsAreSound, UrlsAreLiteral

-----------------------------------------------------------------------------
(* The steps of a request.                                                 *)

LEMMA TypesOfRequests ==
    ASSUME RequestsAreSound
    PROVE  /\ stage \in [Requests -> {"fetching", "merging", "purging", "answered"}]
           /\ next \in [Requests -> Nat]
           /\ \A r \in Requests : next[r] \in 1 .. Len(Wanted[r]) + 1
           /\ merged \in [Requests -> Seq(Jobs)]
           /\ answer \in [Requests -> AnswerType]
  BY DEF RequestsAreSound, TypeOK

LEMMA PanicHasType == Panic \in AnswerType /\ Panic.form = "panic"
  BY DEF Panic, Answer, AnswerType

LEMMA ResultIsLoaded ==
    ASSUME RequestsAreSound, NEW r \in Requests, InLoop(r)
    PROVE  /\ next[r] \in DOMAIN Wanted[r] /\ Result(r) \in Jobs
           /\ position[Result(r)] = "loaded"
           /\ content[Result(r)] # NoContent => content[Result(r)] \in Content
<1>1. IsLoaded(r)
  BY DEF RequestsAreSound, RequestIsSound, InLoop
<1> QED
  BY <1>1, WantedJobs, TypesOfLoads DEF InLoop, Result, IsLoaded

(* The other requests see nothing of a step but what the cache forgets.    *)
OnlyRequestMoves(r) ==
    /\ stage[r] # "answered"
    /\ \A q \in Requests \ {r} :
          stage'[q] = stage[q] /\ next'[q] = next[q] /\ answer'[q] = answer[q]

LEMMA OtherRequestsStaySound ==
    ASSUME RequestsAreSound, NEW r \in Requests, OnlyRequestMoves(r),
           UNCHANGED <<position, results, response, cached, used>>,
           \A j \in Jobs : BodyStays(j),
           \A j \in Jobs : body'[j] = body[j] \/ j \in ToSet(Wanted[r]),
           \A h \in Hashes : store'[h] \in {store[h], NoJob},
           RequestIsSound(r)', StreamIsWhole(r)',
           UrlsAreLiteral => PassedIsPurged(r)',
           ReadersAreUnread', TypeOK'
    PROVE  RequestsAreSound'
<1>1. LoadsAreSound'
  BY LoadsStaySound
<1>2. ASSUME NEW q \in Requests, q # r
      PROVE  /\ RequestIsSound(q)' /\ StreamIsWhole(q)'
             /\ UrlsAreLiteral => PassedIsPurged(q)'
  <2>1. /\ stage'[q] = stage[q] /\ next'[q] = next[q] /\ answer'[q] = answer[q]
        /\ position' = position /\ content' = content /\ response' = response
    BY <1>2 DEF OnlyRequestMoves, results
  <2>2. RequestIsSound(q)' /\ StreamIsWhole(q)'
    <3>1. \A i \in DOMAIN Wanted[q] :
             body[Wanted[q][i]] # "open" => body'[Wanted[q][i]] # "open"
      BY WantedJobs DEF BodyStays
    <3>2. ASSUME NEW k \in ToSet(Wanted[q])
          PROVE  body'[k] = body[k]
      <4>1. k \in Jobs
        BY WantedJobs DEF ToSet
      <4>2. k \notin ToSet(Wanted[r])
        BY <1>2, RequestsAssumption DEF ToSet
      <4> QED
        BY <4>1, <4>2
    <3> QED
      BY <2>1, <3>1, <3>2
      DEF RequestsAreSound, RequestIsSound, StreamIsWhole, IsLoaded, IsForwarded
  <2>3. ASSUME UrlsAreLiteral
        PROVE  PassedIsPurged(q)'
    <3> SUFFICES ASSUME NEW i \in DOMAIN Wanted[q], NEW h \in Hashes,
                        HasCache, answer[q].form = "failedMerge",
                        stage[q] = "answered" \/ i < next[q],
                        content[Wanted[q][i]] # NoContent
                 PROVE  store'[h] # content[Wanted[q][i]].loader
      BY <2>1 DEF PassedIsPurged
    <3>1. Wanted[q][i] \in Jobs /\ position[Wanted[q][i]] = "loaded"
      BY WantedJobs DEF RequestsAreSound, RequestIsSound, IsLoaded
    <3>2. content[Wanted[q][i]].loader # NoJob
      BY <3>1, LoaderIsOver, DefinitionAssumption
    <3>3. store[h] # content[Wanted[q][i]].loader
      BY <2>3 DEF RequestsAreSound, PassedIsPurged
    <3> QED
      BY <3>2, <3>3
  <2> QED
    BY <2>2, <2>3
<1>3. \A q \in Requests :
         /\ RequestIsSound(q)' /\ StreamIsWhole(q)'
         /\ UrlsAreLiteral => PassedIsPurged(q)'
  BY <1>2
<1> QED
  BY <1>1, <1>3 DEF RequestsAreSound, UrlsAreLiteral

(* Most steps only move the request on or answer it.                       *)
LEMMA RequestMovesOn ==
    ASSUME RequestsAreSound, NEW r \in Requests, OnlyRequestMoves(r), UNCHANGED loaderVars,
           RequestIsSound(r)', StreamIsWhole(r)', PassedIsPurged(r)', TypeOK'
    PROVE  RequestsAreSound'
<1>1. ReadersAreUnread'
  BY DEF RequestsAreSound, ReadersAreUnread, ReaderIsUnread, OnlyRequestMoves, loaderVars, results
<1> QED
  BY <1>1, OtherRequestsStaySound DEF loaderVars, BodyStays

(* Before a request is answered, none of its readers has been closed.      *)
LEMMA NoneIsForwarded ==
    ASSUME RequestsAreSound, NEW r \in Requests, stage[r] # "answered"
    PROVE  \A k \in ToSet(Wanted[r]) : ~(body[k] = "closed" /\ HasReader(response[k].kind))
  BY DEF RequestsAreSound, RequestIsSound, IsForwarded

LEMMA LoaderTypesStay ==
    ASSUME RequestsAreSound, UNCHANGED loaderVars
    PROVE  LoaderTypeOK'
  BY DEF RequestsAreSound, TypeOK, LoaderTypeOK, loaderVars, results, Cache!TypeOK

(* The steps that answer a request at once.                                *)
LEMMA AnswerKeeps ==
    ASSUME RequestsAreSound, NEW r \in Requests, stage[r] \in {"fetching", "merging"},
           Wanted[r] = << >> \/ IsLoaded(r),
           NEW a \in AnswerType, Answers(r, a),
           a.form \notin {"failedMerge", "stream"},
           UNCHANGED <<loaderVars, next, merged>>
    PROVE  RequestsAreSound'
<1> USE TypesOfRequests
<1>1. /\ stage' = [stage EXCEPT ![r] = "answered"]
      /\ answer' = [answer EXCEPT ![r] = a]
  BY DEF Answers, Reaches
<1>2. OnlyRequestMoves(r)
  BY <1>1 DEF OnlyRequestMoves
<1>3. TypeOK'
  BY <1>1, LoaderTypesStay DEF TypeOK
<1>4. position' = position
  BY DEF loaderVars
<1>5. IsLoaded(r)'
  BY <1>4, WantedJobs DEF IsLoaded
<1>6. RequestIsSound(r)'
  <2>1. ASSUME NEW k \in ToSet(Wanted[r])
        PROVE  ~(body'[k] = "closed" /\ HasReader(response'[k].kind))
    BY NoneIsForwarded DEF loaderVars
  <2> QED
    BY <1>1, <1>5, <2>1 DEF RequestIsSound
<1>7. StreamIsWhole(r)' /\ PassedIsPurged(r)'
  BY <1>1 DEF StreamIsWhole, PassedIsPurged
<1> QED
  BY <1>2, <1>3, <1>6, <1>7, RequestMovesOn

LEMMA AnswerEmptyKeeps ==
    ASSUME RequestsAreSound, NEW r \in Requests, AnswerEmpty(r)
    PROVE  RequestsAreSound'
<1> DEFINE a == Answer(500, "error", << >>, TRUE)
<1>1. a \in AnswerType /\ a.form = "error"
  BY DEF Answer, AnswerType
<1> HIDE DEF a
<1>2. Answers(r, a)
  BY DEF AnswerEmpty, a
<1> QED
  BY <1>1, <1>2, AnswerKeeps DEF AnswerEmpty

LEMMA AnswerHeadKeeps ==
    ASSUME RequestsAreSound, NEW r \in Requests, AnswerHead(r)
    PROVE  RequestsAreSound'
<1> DEFINE first == content[Wanted[r][1]]
           a == IF first = NoContent THEN Panic
                ELSE Answer(first.status, "head", << >>, TRUE)
<1>1. Wanted[r] # << >> /\ stage[r] = "fetching" /\ IsLoaded(r)
  BY DEF AnswerHead
<1>2. Wanted[r][1] \in Jobs
  BY <1>1, WantedJobs
<1>3. first # NoContent => first.status \in Int
  BY <1>2, TypesOfLoads DEF Content
<1>4. a \in AnswerType /\ a.form \in {"panic", "head"}
  BY <1>3, PanicHasType DEF Answer, AnswerType
<1> HIDE DEF a
<1>5. Answers(r, a)
  BY DEF AnswerHead, a
<1> QED
  BY <1>1, <1>4, <1>5, AnswerKeeps DEF AnswerHead

LEMMA Forward30xKeeps ==
    ASSUME RequestsAreSound, NEW r \in Requests, Forward30x(r)
    PROVE  RequestsAreSound'
<1> DEFINE a == Answer(content[Result(r)].status, "redirect", <<Result(r)>>, TRUE)
<1>1. InLoop(r) /\ content[Result(r)] # NoContent
  BY DEF Forward30x, Succeeded
<1>2. content[Result(r)].status \in Int /\ <<Result(r)>> \in Seq(Jobs)
  BY <1>1, ResultIsLoaded DEF Content
<1>3. a \in AnswerType /\ a.form = "redirect"
  BY <1>2 DEF Answer, AnswerType
<1> HIDE DEF a
<1>4. Answers(r, a)
  BY DEF Forward30x, a
<1>5. stage[r] = "merging" /\ IsLoaded(r)
  BY <1>1 DEF InLoop, RequestsAreSound, RequestIsSound
<1> QED
  BY <1>3, <1>4, <1>5, AnswerKeeps DEF Forward30x

LEMMA AnswerErrorKeeps ==
    ASSUME RequestsAreSound, NEW r \in Requests, AnswerError(r)
    PROVE  RequestsAreSound'
<1> DEFINE c == content[Result(r)]
           a == IF c = NoContent THEN Panic
                ELSE Answer(c.status, "error", <<Result(r)>>, TRUE)
<1>1. InLoop(r)
  BY DEF AnswerError
<1>2. (c # NoContent => c.status \in Int) /\ <<Result(r)>> \in Seq(Jobs)
  BY <1>1, ResultIsLoaded DEF Content
<1>3. a \in AnswerType /\ a.form \in {"panic", "error"}
  BY <1>2, PanicHasType DEF Answer, AnswerType
<1> HIDE DEF a
<1>4. Answers(r, a)
  BY DEF AnswerError, a
<1>5. stage[r] = "merging" /\ IsLoaded(r)
  BY <1>1 DEF InLoop, RequestsAreSound, RequestIsSound
<1> QED
  BY <1>3, <1>4, <1>5, AnswerKeeps DEF AnswerError

LEMMA WaitForResultsKeeps ==
    ASSUME RequestsAreSound, NEW r \in Requests, WaitForResults(r)
    PROVE  RequestsAreSound'
<1> USE TypesOfRequests
<1>1. /\ stage[r] = "fetching" /\ IsLoaded(r) /\ Wanted[r] # << >>
      /\ stage' = [stage EXCEPT ![r] = "merging"]
      /\ UNCHANGED <<loaderVars, next, merged, answer>>
  BY DEF WaitForResults, Reaches
<1>2. OnlyRequestMoves(r)
  BY <1>1 DEF OnlyRequestMoves
<1>3. TypeOK'
  BY <1>1, LoaderTypesStay DEF TypeOK
<1>4. RequestIsSound(r) /\ StreamIsWhole(r)
  BY DEF RequestsAreSound
<1>5. IsLoaded(r)' /\ answer'[r].form = "none"
  BY <1>1, <1>4 DEF IsLoaded, loaderVars, RequestIsSound
<1>6. RequestIsSound(r)' /\ StreamIsWhole(r)' /\ PassedIsPurged(r)'
  BY <1>1, <1>5, NoneIsForwarded
     DEF RequestIsSound, StreamIsWhole, PassedIsPurged, loaderVars
<1> QED
  BY <1>1, <1>2, <1>3, <1>6, RequestMovesOn

(* AddContent and SkipOptional.                                            *)
LEMMA NextResultKeeps ==
    ASSUME RequestsAreSound, NEW r \in Requests, InLoop(r),
           next' = [next EXCEPT ![r] = @ + 1],
           merged' \in [Requests -> Seq(Jobs)],
           UNCHANGED <<loaderVars, stage, answer>>
    PROVE  RequestsAreSound'
<1> USE TypesOfRequests
<1>1. OnlyRequestMoves(r)
  BY DEF OnlyRequestMoves, InLoop
<1>2. next[r] \in 1 .. Len(Wanted[r])
  BY WantedJobs DEF InLoop
<1>3. TypeOK'
  BY <1>2, LoaderTypesStay, WantedJobs DEF TypeOK
<1>4. RequestIsSound(r) /\ stage[r] = "merging"
  BY DEF RequestsAreSound, InLoop
<1>5. IsLoaded(r)' /\ answer'[r].form = "none"
  BY <1>4 DEF IsLoaded, loaderVars, RequestIsSound
<1>6. RequestIsSound(r)' /\ StreamIsWhole(r)' /\ PassedIsPurged(r)'
  BY <1>4, <1>5, NoneIsForwarded
     DEF RequestIsSound, StreamIsWhole, PassedIsPurged, loaderVars
<1> QED
  BY <1>1, <1>3, <1>6, RequestMovesOn

LEMMA AddContentKeeps ==
    ASSUME RequestsAreSound, NEW r \in Requests, AddContent(r) \/ SkipOptional(r)
    PROVE  RequestsAreSound'
<1>1. InLoop(r)
  BY DEF AddContent, SkipOptional
<1>2. merged' \in [Requests -> Seq(Jobs)]
  <2>1. Append(merged[r], Result(r)) \in Seq(Jobs)
    BY <1>1, ResultIsLoaded, TypesOfRequests
  <2> QED
    BY <2>1, TypesOfRequests DEF AddContent, SkipOptional
<1>3. /\ next' = [next EXCEPT ![r] = @ + 1]
      /\ UNCHANGED <<loaderVars, stage, answer>>
  BY DEF AddContent, SkipOptional
<1> QED
  BY <1>1, <1>2, <1>3, NextResultKeeps

(* A reader that was not wrapped belongs to one job, of one request, which *)
(* is answered once.                                                       *)
LEMMA ReaderIsOwn ==
    ASSUME RequestsAreSound, NEW r \in Requests, InLoop(r), NEW j \in Jobs, j = Result(r),
           content[j] # NoContent, content[j].stream, ~content[j].wrapped
    PROVE  /\ content[j].loader = j
           /\ body[j] = "open" \/ response[j].kind = "cut"
<1>1. /\ ContentIsSound(j) /\ ReaderIsUnread(j) /\ stage[r] = "merging"
      /\ next[r] \in DOMAIN Wanted[r]
  BY DEF RequestsAreSound, LoadsAreSound, ReadersAreUnread, InLoop
<1>2. content[j].loader = j
  <2> SUFFICES ASSUME content[j].loader # j PROVE FALSE
    OBVIOUS
  <2> DEFINE k == content[j].loader
  <2>1. k \in used /\ content[j] = cached[k]
    BY <1>1 DEF ContentIsSound
  <2>2. k \in Jobs
    BY <2>1, TypesOfLoads
  <2>3. EntryIsSound(k)
    BY <2>2 DEF RequestsAreSound, LoadsAreSound
  <2> HIDE DEF k
  <2> QED
    BY <2>1, <2>3 DEF EntryIsSound, CanBeKept
<1>3. ASSUME NEW q \in Requests, stage[q] = "answered", j \in ToSet(Wanted[q])
      PROVE  FALSE
  <2>1. PICK i \in DOMAIN Wanted[q] : Wanted[q][i] = Wanted[r][next[r]]
    BY <1>3 DEF ToSet, Result
  <2>2. q = r
    BY <1>1, <2>1, RequestsAssumption
  <2> QED
    BY <1>1, <1>3, <2>2
<1> QED
  BY <1>1, <1>2, <1>3 DEF ReaderIsUnread

LEMMA ForwardStreamKeeps ==
    ASSUME RequestsAreSound, NEW r \in Requests, ForwardStream(r)
    PROVE  RequestsAreSound'
<1> USE TypesOfRequests
<1> DEFINE j == Result(r)
           c == content[j]
           w == c.wrapped \/ (body[c.loader] = "open" /\ response[c.loader].kind # "cut")
           a == Answer(c.status, "stream", <<j>>, w)
<1>1. /\ InLoop(r) /\ c # NoContent /\ c.stream
      /\ Answers(r, a)
      /\ body' = IF c.wrapped THEN body ELSE [body EXCEPT ![c.loader] = "closed"]
      /\ UNCHANGED <<position, results, response, cached, store, used, next, merged>>
  BY DEF ForwardStream, Succeeded
<1>2. /\ j \in Jobs /\ position[j] = "loaded" /\ c \in Content
      /\ next[r] \in DOMAIN Wanted[r] /\ stage[r] = "merging"
  BY <1>1, ResultIsLoaded DEF InLoop
<1>3. c.status \in Int /\ c.wrapped \in BOOLEAN /\ c.loader \in Jobs
  BY <1>2 DEF Content
<1>4. ~c.wrapped => c.loader = j /\ (body[j] = "open" \/ response[j].kind = "cut")
  BY <1>1, <1>2, ReaderIsOwn
<1>5. w \/ response[c.loader].kind = "cut"
  BY <1>3, <1>4
<1>6. w \in BOOLEAN
  BY <1>3
<1> HIDE DEF w
<1>7. /\ a \in AnswerType /\ a.form = "stream" /\ a.jobs = <<j>>
      /\ a.whole = w
  BY <1>2, <1>3, <1>6 DEF Answer, AnswerType
<1> HIDE DEF a
<1>8. /\ stage' = [stage EXCEPT ![r] = "answered"]
      /\ answer' = [answer EXCEPT ![r] = a]
  BY <1>1 DEF Answers, Reaches
<1>9. OnlyRequestMoves(r)
  BY <1>1, <1>2, <1>8 DEF OnlyRequestMoves
<1>10. \A k \in Jobs : k # j => body'[k] = body[k]
  BY <1>1, <1>4, TypesOfLoads
<1>11. LoaderTypeOK'
  BY <1>1, TypesOfLoads DEF LoaderTypeOK, Cache!TypeOK, results
<1>12. TypeOK'
  BY <1>1, <1>7, <1>8, <1>11 DEF TypeOK
<1>13. RequestIsSound(r)'
  <2>1. IsLoaded(r)
    BY <1>2 DEF RequestsAreSound, RequestIsSound
  <2>2. IsLoaded(r)'
    BY <1>1, <2>1 DEF IsLoaded
  <2>0. body'[j] # "open"
    <3>1. CASE c.wrapped
      <4>1. BodyIsSound(j) /\ ContentIsSound(j)
        BY <1>2 DEF RequestsAreSound, LoadsAreSound, LoadIsSound
      <4>2. CASE response[j] = NoContent
        BY <1>1, <3>1, <4>1, <4>2 DEF BodyIsSound
      <4>3. CASE response[j] # NoContent
        <5>1. HasReader(response[j].kind)
          BY <1>1, <4>1, <4>3 DEF ContentIsSound
        <5> QED
          BY <1>1, <1>2, <3>1, <4>1, <4>3, <5>1 DEF BodyIsSound
      <4> QED
        BY <4>2, <4>3
    <3>2. CASE ~c.wrapped
      BY <1>1, <1>2, <1>4, <3>2, TypesOfLoads
    <3> QED
      BY <3>1, <3>2
  <2>3. /\ answer'[r].jobs = <<Wanted[r][next[r]]>>
        /\ content'[Wanted[r][next[r]]] # NoContent
        /\ body'[Wanted[r][next[r]]] # "open"
    BY <1>1, <1>7, <1>8, <2>0 DEF Result, results
  <2>4. \E i \in DOMAIN Wanted[r] :
           /\ answer'[r].jobs = <<Wanted[r][i]>>
           /\ content'[Wanted[r][i]] # NoContent /\ body'[Wanted[r][i]] # "open"
    BY <1>2, <2>3
  <2>5. stage'[r] = "answered" /\ answer'[r].form = "stream"
    BY <1>7, <1>8
  <2>6. ASSUME NEW k \in ToSet(Wanted[r]),
               body'[k] = "closed", HasReader(response'[k].kind)
        PROVE  answer'[r].jobs = <<k>>
    <3>1. k \in Jobs
      BY WantedJobs DEF ToSet
    <3>2. k = j
      BY <1>1, <1>2, <1>10, <2>6, <3>1, NoneIsForwarded
    <3> QED
      BY <1>7, <1>8, <3>2
  <2> QED
    BY <2>2, <2>4, <2>5, <2>6 DEF RequestIsSound, IsForwarded
<1>14. StreamIsWhole(r)'
  <2>1. answer'[r].jobs[1] = j /\ answer'[r].whole = w
    BY <1>7, <1>8
  <2> QED
    BY <1>1, <1>5, <2>1 DEF StreamIsWhole, results
<1>15. PassedIsPurged(r)'
  BY <1>7, <1>8 DEF PassedIsPurged
<1>16. ReadersAreUnread'
  <2>1. ASSUME NEW k \in Jobs, k # j
        PROVE  ReaderIsUnread(k)'
    <3>1. ReaderIsUnread(k)
      BY DEF RequestsAreSound, ReadersAreUnread
    <3>2. \A q \in Requests : stage[q] = "answered" => stage'[q] = "answered"
      BY <1>8
    <3> QED
      BY <1>1, <1>10, <2>1, <3>1, <3>2 DEF ReaderIsUnread, results
  <2>2. ASSUME NEW k \in Jobs, k = j
        PROVE  ReaderIsUnread(k)'
    <3>1. k \in ToSet(Wanted[r]) /\ stage'[r] = "answered"
      BY <1>2, <1>8, <2>2 DEF ToSet, Result
    <3> QED
      BY <3>1 DEF ReaderIsUnread
  <2> QED
    BY <2>1, <2>2 DEF ReadersAreUnread
<1> HIDE DEF j, c
<1>17. /\ \A k \in Jobs : BodyStays(k)
       /\ \A k \in Jobs : body'[k] = body[k] \/ k \in ToSet(Wanted[r])
       /\ \A h \in Hashes : store'[h] \in {store[h], NoJob}
       /\ UNCHANGED <<position, results, response, cached, used>>
  <2>1. BodyStays(j)
    <3>1. CASE c.wrapped
      BY <1>1, <3>1 DEF BodyStays
    <3>2. CASE ~c.wrapped
      <4>1. body'[j] = "closed"
        BY <1>1, <1>2, <1>4, <3>2, TypesOfLoads
      <4>2. BodyIsSound(j) /\ ContentIsSound(j) /\ ~failed[j]
        BY <1>2 DEF RequestsAreSound, LoadsAreSound, LoadIsSound, ForwardStream, Succeeded, j
      <4>3. response[j] # NoContent /\ HasReader(response[j].kind)
        BY <1>1, <1>4, <3>2, <4>2 DEF ContentIsSound, c
      <4>4. ~IsStored(j, response[j])
        BY <1>2, <3>2, <4>2, <4>3 DEF BodyIsSound, c
      <4> QED
        BY <1>2, <4>1, <4>3, <4>4 DEF BodyStays
    <3> QED
      BY <3>1, <3>2
  <2>2. j \in ToSet(Wanted[r])
    BY <1>2 DEF ToSet, Result, j
  <2> QED
    BY <1>1, <1>10, <2>1, <2>2 DEF BodyStays
<1> QED
  BY <1>9, <1>12, <1>13, <1>14, <1>15, <1>16, <1>17, OtherRequestsStaySound

LEMMA ComposeKeeps ==
    ASSUME RequestsAreSound, NEW r \in Requests, Compose(r)
    PROVE  RequestsAreSound'
<1> USE TypesOfRequests
<1>1. /\ stage[r] = "merging" /\ UNCHANGED <<loaderVars, merged>>
      /\ IsLoaded(r) /\ Wanted[r] # << >> /\ next[r] \notin DOMAIN Wanted[r]
  BY DEF Compose, LoopIsOver, RequestsAreSound, RequestIsSound
<1>a. CASE Answers(r, Panic) /\ UNCHANGED next
  BY <1>1, <1>a, PanicHasType, AnswerKeeps
<1>b. CASE /\ \A i \in DOMAIN Wanted[r] : content[Wanted[r][i]] # NoContent
           /\ IsMergeable(merged[r])
           /\ Answers(r, Answer(StatusOf(content[Wanted[r][1]]), "html", merged[r], TRUE))
           /\ UNCHANGED next
  <2> DEFINE a == Answer(StatusOf(content[Wanted[r][1]]), "html", merged[r], TRUE)
  <2>1. 1 \in DOMAIN Wanted[r]
    BY <1>1, WantedJobs
  <2>2. StatusOf(content[Wanted[r][1]]) \in Int
    BY <1>b, <2>1, WantedJobs, TypesOfLoads DEF Content, StatusOf
  <2>3. a \in AnswerType /\ a.form = "html"
    BY <2>2 DEF Answer, AnswerType
  <2> HIDE DEF a
  <2>4. Answers(r, a)
    BY <1>b DEF a
  <2> QED
    BY <1>1, <1>b, <2>3, <2>4, AnswerKeeps
<1>c. CASE /\ answer' = [answer EXCEPT ![r] = Answer(500, "failedMerge", merged[r], TRUE)]
           /\ Reaches(r, "purging") /\ next' = [next EXCEPT ![r] = 1]
  <2> DEFINE a == Answer(500, "failedMerge", merged[r], TRUE)
  <2>1. a \in AnswerType /\ a.form = "failedMerge"
    BY DEF Answer, AnswerType
  <2> HIDE DEF a
  <2>2. /\ answer' = [answer EXCEPT ![r] = a]
        /\ stage' = [stage EXCEPT ![r] = "purging"]
        /\ next' = [next EXCEPT ![r] = 1]
    BY <1>c DEF a, Reaches
  <2>3. OnlyRequestMoves(r)
    BY <1>1, <2>2 DEF OnlyRequestMoves
  <2>4. \A q \in Requests : next'[q] \in 1 .. Len(Wanted[q]) + 1
    BY <2>2, WantedJobs
  <2>5. TypeOK'
    BY <1>1, <2>1, <2>2, <2>4, LoaderTypesStay DEF TypeOK
  <2>6. IsLoaded(r)'
    BY <1>1 DEF IsLoaded, loaderVars
  <2>7. RequestIsSound(r)' /\ StreamIsWhole(r)'
    BY <1>1, <2>1, <2>2, <2>6, NoneIsForwarded DEF RequestIsSound, StreamIsWhole, loaderVars
  <2>8. PassedIsPurged(r)'
    BY <2>2, WantedJobs DEF PassedIsPurged
  <2> QED
    BY <1>1, <2>3, <2>5, <2>7, <2>8, RequestMovesOn
<1> QED
  BY <1>a, <1>b, <1>c DEF Compose

(* With literal URLs the hash that is purged is that of the entry, for     *)
(* whoever loaded it.                                                      *)
LEMMA PurgeEntryKeeps ==
    ASSUME RequestsAreSound, NEW r \in Requests, PurgeEntry(r)
    PROVE  RequestsAreSound'
<1> USE TypesOfRequests
<1>1. /\ stage[r] = "purging" /\ next[r] \in DOMAIN Wanted[r]
      /\ store' = Cache!Forgetting(store, {HashAsAdded[Result(r)]})
      /\ next' = [next EXCEPT ![r] = @ + 1]
      /\ UNCHANGED <<position, results, response, body, cached, used, stage,
                     merged, answer>>
  BY DEF PurgeEntry
<1>2. Result(r) \in Jobs /\ IsLoaded(r)
  BY <1>1, WantedJobs DEF Result, RequestsAreSound, RequestIsSound
<1>3. /\ store' \in [Hashes -> used \cup {NoJob}]
      /\ \A h \in Hashes : store'[h] \in {store[h], NoJob}
      /\ \A h \in Hashes : h = HashAsAdded[Result(r)] => store'[h] = NoJob
  BY <1>1, TypesOfLoads DEF Cache!Forgetting
<1>4. OnlyRequestMoves(r)
  BY <1>1 DEF OnlyRequestMoves
<1>5. LoaderTypeOK'
  BY <1>1, <1>3, TypesOfLoads DEF LoaderTypeOK, Cache!TypeOK, results
<1>6. \A q \in Requests : next'[q] \in 1 .. Len(Wanted[q]) + 1
  BY <1>1, WantedJobs
<1>7. TypeOK'
  BY <1>1, <1>5, <1>6 DEF TypeOK
<1>8. RequestIsSound(r)' /\ StreamIsWhole(r)'
  BY <1>1, WaitingRequestStaysSound DEF results
<1>9. ReadersAreUnread'
  BY <1>1 DEF RequestsAreSound, ReadersAreUnread, ReaderIsUnread, results
<1>10. ASSUME UrlsAreLiteral
       PROVE  PassedIsPurged(r)'
  <2> SUFFICES ASSUME NEW i \in DOMAIN Wanted[r], NEW h \in Hashes,
                      answer[r].form = "failedMerge",
                      i < next[r] + 1, content[Wanted[r][i]] # NoContent
               PROVE  store'[h] # content[Wanted[r][i]].loader
    BY <1>1 DEF PassedIsPurged, results
  <2>0. HasCache
    BY DEF PurgeEntry
  <2> DEFINE j == Wanted[r][i]
             k == content[j].loader
  <2>1. j \in Jobs /\ position[j] = "loaded"
    BY <1>2, WantedJobs DEF IsLoaded
  <2>2. k \in Jobs /\ k # NoJob
    BY <2>1, LoaderIsOver, DefinitionAssumption
  <2>3. CASE i < next[r]
    <3>1. store[h] # k
      BY <1>10, <2>0, <2>3 DEF RequestsAreSound, PassedIsPurged
    <3> QED
      BY <1>3, <2>2, <3>1
  <2>4. CASE i = next[r]
    <3>1. StoreHash[k] = StoreHash[j]
      BY <2>1 DEF RequestsAreSound, LoadsAreSound, ContentIsSound
    <3>2. store[h] = k => h = StoreHash[k]
      BY <2>2 DEF RequestsAreSound, LoadsAreSound, StoreIsSound
    <3>3. StoreHash[j] = HashAsAdded[Result(r)]
      BY <1>10, <2>1, <2>4 DEF UrlsAreLiteral, Result
    <3> QED
      BY <1>3, <2>2, <3>1, <3>2, <3>3
  <2>5. next[r] \in Nat /\ i \in Nat
    BY WantedJobs
  <2> QED
    BY <2>3, <2>4, <2>5
<1>11. \A j \in Jobs : BodyStays(j) /\ body'[j] = body[j]
  BY <1>1 DEF BodyStays
<1> QED
  BY <1>1, <1>3, <1>4, <1>7, <1>8, <1>9, <1>10, <1>11, OtherRequestsStaySound

LEMMA PurgeReturnsKeeps ==
    ASSUME RequestsAreSound, NEW r \in Requests, PurgeReturns(r)
    PROVE  RequestsAreSound'
<1> USE TypesOfRequests
<1>1. /\ stage[r] = "purging" /\ (HasCache => next[r] \notin DOMAIN Wanted[r])
      /\ stage' = [stage EXCEPT ![r] = "answered"]
      /\ UNCHANGED <<loaderVars, next, merged, answer>>
  BY DEF PurgeReturns, Reaches
<1>2. UNCHANGED <<position, results, response, body, cached, store, used>>
  BY <1>1 DEF loaderVars
<1>3. OnlyRequestMoves(r)
  BY <1>1 DEF OnlyRequestMoves
<1>4. TypeOK'
  BY <1>1, LoaderTypesStay DEF TypeOK
<1>5. RequestIsSound(r)' /\ StreamIsWhole(r)'
  BY <1>1, <1>2, WaitingRequestStaysSound DEF results
<1>6. ReadersAreUnread'
  BY <1>1, <1>2 DEF RequestsAreSound, ReadersAreUnread, ReaderIsUnread, results
<1>7. HasCache => \A i \in DOMAIN Wanted[r] : i < next[r]
  BY <1>1, WantedJobs
<1>8. ASSUME UrlsAreLiteral
      PROVE  PassedIsPurged(r)'
  <2>1. PassedIsPurged(r)
    BY <1>8 DEF RequestsAreSound
  <2> QED
    BY <1>1, <1>2, <1>7, <2>1 DEF PassedIsPurged, results
<1>9. /\ \A j \in Jobs : BodyStays(j) /\ body'[j] = body[j]
      /\ \A h \in Hashes : store'[h] \in {store[h], NoJob}
  BY <1>2 DEF BodyStays
<1> QED
  BY <1>2, <1>3, <1>4, <1>5, <1>6, <1>8, <1>9, OtherRequestsStaySound

-----------------------------------------------------------------------------
LEMMA InitEstablishes ==
    ASSUME Init
    PROVE  RequestsAreSound
<1>1. LoaderTypeOK
  BY DEF Init, LoaderInit, LoaderTypeOK, Cache!Init, Cache!TypeOK
<1>2. NoAnswer \in AnswerType /\ NoAnswer.form = "none"
  BY DEF NoAnswer, Answer, AnswerType
<1>3. \A r \in Requests : 1 \in 1 .. Len(Wanted[r]) + 1
  BY WantedJobs
<1>4. TypeOK
  BY <1>1, <1>2, <1>3 DEF Init, TypeOK
<1>5. ASSUME NEW j \in Jobs
      PROVE  LoadIsSound(j) /\ EntryIsSound(j) /\ ContentIsSound(j) /\ ReaderIsUnread(j)
  BY DEF Init, LoaderInit, LoadIsSound, BodyIsSound, EntryIsSound, ContentIsSound,
         ReaderIsUnread, Cache!Init
<1>6. StoreIsSound
  BY DEF Init, LoaderInit, StoreIsSound, Cache!Init
<1>7. ASSUME NEW r \in Requests
      PROVE  RequestIsSound(r) /\ StreamIsWhole(r) /\ PassedIsPurged(r)
  <2>1. ASSUME NEW k \in ToSet(Wanted[r])
        PROVE  body[k] # "closed"
    <3>1. k \in Jobs
      BY WantedJobs DEF ToSet
    <3> QED
      BY <3>1 DEF Init, LoaderInit
  <2> QED
    BY <1>2, <2>1 DEF Init, RequestIsSound, StreamIsWhole, PassedIsPurged
<1> QED
  BY <1>4, <1>5, <1>6, <1>7 DEF RequestsAreSound, LoadsAreSound, ReadersAreUnread

LEMMA StutteringKeeps ==
    ASSUME RequestsAreSound, UNCHANGED vars
    PROVE  RequestsAreSound'
<1>1. /\ UNCHANGED <<position, content, failed, response, body, cached, store, used>>
      /\ UNCHANGED <<stage, next, merged, answer>>
  BY DEF vars, loaderVars, handlerVars, results
<1>2. TypeOK'
  BY <1>1, LoaderTypesStay DEF RequestsAreSound, TypeOK, loaderVars, results
<1>3. LoadsAreSound'
  BY <1>1, LoadsStaySound DEF results, BodyStays
<1>4. ReadersAreUnread'
  BY <1>1 DEF RequestsAreSound, ReadersAreUnread, ReaderIsUnread
<1>5. ASSUME NEW r \in Requests
      PROVE  /\ RequestIsSound(r)' /\ StreamIsWhole(r)'
             /\ PassedIsPurged(r) => PassedIsPurged(r)'
  BY <1>1, WaitingRequestStaysSound DEF PassedIsPurged
<1> QED
  BY <1>2, <1>3, <1>4, <1>5 DEF RequestsAreSound, UrlsAreLiteral

LEMMA StepKeeps ==
    ASSUME RequestsAreSound, [Next]_vars
    PROVE  RequestsAreSound'
<1>1. ASSUME NEW j \in Jobs, LoaderStep(j), UNCHANGED handlerVars
      PROVE  RequestsAreSound'
  BY <1>1, ExpandFailsKeeps, LoadKeeps, LoadReturnsKeeps, ReadStreamKeeps,
     SetContentKeeps DEF LoaderStep
<1>2. ASSUME NEW r \in Requests, HandlerStep(r)
      PROVE  RequestsAreSound'
  BY <1>2, AnswerEmptyKeeps, AnswerHeadKeeps, WaitForResultsKeeps,
     Forward30xKeeps, ForwardStreamKeeps, AddContentKeeps, AnswerErrorKeeps,
     ComposeKeeps, PurgeEntryKeeps, PurgeReturnsKeeps DEF HandlerStep
<1> QED
  BY <1>1, <1>2, CacheForgetsKeeps, StutteringKeeps DEF Next, AllAnswered

-----------------------------------------------------------------------------
(* What is kept of a list.                                                 *)

KeepsInSteps(list, places) ==
    /\ Kept(list, places, 0) = << >>
    /\ \A n \in 1 .. Len(list) :
          Kept(list, places, n) =
             IF n \in places THEN Append(Kept(list, places, n - 1), list[n])
             ELSE Kept(list, places, n - 1)

LEMMA KeptSteps ==
    ASSUME NEW list \in Seq(Jobs), NEW places
    PROVE  KeepsInSteps(list, places)
<1> DEFINE Equals(f) ==
             f = [i \in 0 .. Len(list) |->
                    IF i = 0 THEN << >>
                    ELSE IF i \in places THEN Append(f[i - 1], list[i])
                    ELSE f[i - 1]]
           F == CHOOSE f : Equals(f)
           step == [i \in 1 .. Len(list) |-> [x \in Seq(Jobs) |->
                      IF i \in places THEN Append(x, list[i]) ELSE x]]
<1>l. Len(list) \in Nat /\ \A i \in 1 .. Len(list) : list[i] \in Jobs
  OBVIOUS
<1>1. \A i \in 1 .. Len(list), x \in Seq(Jobs) :
         step[i][x] = IF i \in places THEN Append(x, list[i]) ELSE x
  OBVIOUS
<1>2. /\ << >> \in Seq(Jobs)
      /\ \A i \in 1 .. Len(list), x \in Seq(Jobs) : step[i][x] \in Seq(Jobs)
  BY <1>l, <1>1
<1> HIDE DEF step
<1>3. PICK f : Iterates(f, Len(list), Seq(Jobs), << >>, step)
  BY <1>l, <1>2, Iteration
<1> DEFINE N == Len(list)
           SJ == Seq(Jobs)
           Extended(x, i) == Append(x, list[i])
           After(x, i) == IF i \in places THEN Extended(x, i) ELSE x
<1>n. N \in Nat /\ \A i \in 1 .. N : i \in 0 .. N /\ i - 1 \in 0 .. N /\ i # 0
  BY <1>l
<1> HIDE DEF N, SJ, Extended
<1>4. \A i \in 1 .. N : f[i] = After(f[i - 1], i)
  <2>1. \A i \in 1 .. N : f[i] = step[i][f[i - 1]]
    BY <1>3 DEF Iterates, N
  <2>2. \A i \in 1 .. N : f[i - 1] \in SJ
    BY <1>3, <1>n DEF Iterates, N, SJ
  <2> QED
    BY <1>1, <2>1, <2>2 DEF N, SJ, Extended
<1>5. f = [i \in 0 .. N |-> IF i = 0 THEN << >> ELSE After(f[i - 1], i)]
  <2>1. f = [i \in 0 .. N |-> f[i]] /\ f[0] = << >>
    BY <1>3 DEF Iterates, N
  <2>2. \A i \in 0 .. N : i = 0 \/ i \in 1 .. N
    BY <1>n
  <2> QED
    BY <1>4, <2>1, <2>2
<1>6. Equals(f)
  BY <1>5 DEF N, Extended
<1>7. Equals(F)
  BY <1>6
<1>8. F = [i \in 0 .. N |-> IF i = 0 THEN << >> ELSE After(F[i - 1], i)]
  BY <1>7 DEF N, Extended
<1>9. \A n \in 0 .. N : Kept(list, places, n) = F[n]
  BY DEF Kept
<1> HIDE DEF F
<1>10. F[0] = << >>
  BY <1>n, <1>8
<1>11. \A n \in 1 .. N : F[n] = After(F[n - 1], n)
  BY <1>n, <1>8
<1>12. /\ Kept(list, places, 0) = << >>
       /\ \A n \in 1 .. N :
             Kept(list, places, n) = After(Kept(list, places, n - 1), n)
  BY <1>n, <1>9, <1>10, <1>11
<1> QED
  BY <1>12 DEF KeepsInSteps, N, Extended

-----------------------------------------------------------------------------
(* The loop over the results.                                              *)

(* A step changes nothing of what a request that goes on has.              *)
ResultsStay(r) ==
    \A i \in DOMAIN Wanted[r] :
       /\ content'[Wanted[r][i]] = content[Wanted[r][i]]
       /\ failed'[Wanted[r][i]] = failed[Wanted[r][i]]

LEMMA DecisionsStay ==
    ASSUME NEW r \in Requests, ResultsStay(r)
    PROVE  /\ \A i \in DOMAIN Wanted[r] :
                 /\ Succeeded(Wanted[r][i])' <=> Succeeded(Wanted[r][i])
                 /\ Decisive(Wanted[r][i])' <=> Decisive(Wanted[r][i])
           /\ \A n \in Nat : SucceededUpTo(r, n)' = SucceededUpTo(r, n)
           /\ \A n \in 0 .. Len(Wanted[r]) : NoneDecides(r, n)' <=> NoneDecides(r, n)
<1>1. \A i \in DOMAIN Wanted[r] :
         /\ Succeeded(Wanted[r][i])' <=> Succeeded(Wanted[r][i])
         /\ Decisive(Wanted[r][i])' <=> Decisive(Wanted[r][i])
  BY DEF ResultsStay, Succeeded, Decisive, Is30x
<1>2. {i \in DOMAIN Wanted[r] : Succeeded(Wanted[r][i])}' =
         {i \in DOMAIN Wanted[r] : Succeeded(Wanted[r][i])}
  BY <1>1
<1>3. \A n \in Nat : SucceededUpTo(r, n)' = SucceededUpTo(r, n)
  BY <1>2 DEF SucceededUpTo
<1>4. \A n \in 0 .. Len(Wanted[r]) : \A i \in 1 .. n : i \in DOMAIN Wanted[r]
  BY WantedJobs
<1>5. \A n \in 0 .. Len(Wanted[r]) : NoneDecides(r, n)' <=> NoneDecides(r, n)
  BY <1>1, <1>4 DEF NoneDecides
<1> QED
  BY <1>1, <1>3, <1>5

LEMMA IsDueStays ==
    ASSUME NEW r \in Requests, ResultsStay(r), answer'[r] = answer[r]
    PROVE  IsDue(r)' <=> IsDue(r)
<1> DEFINE last == Len(Wanted[r])
<1>1. last \in Nat /\ last \in 0 .. last
      /\ \A i \in DOMAIN Wanted[r] : i - 1 \in 0 .. last
  BY WantedJobs
<1>2. \A i \in DOMAIN Wanted[r] :
         IsDecidedBy(r, Wanted[r][i])' <=> IsDecidedBy(r, Wanted[r][i])
  <2> SUFFICES ASSUME NEW i \in DOMAIN Wanted[r]
               PROVE  IsDecidedBy(r, Wanted[r][i])' <=> IsDecidedBy(r, Wanted[r][i])
    OBVIOUS
  <2>1. content'[Wanted[r][i]] = content[Wanted[r][i]]
    BY DEF ResultsStay
  <2>2. Succeeded(Wanted[r][i])' <=> Succeeded(Wanted[r][i])
    BY DecisionsStay
  <2> QED
    BY <2>1, <2>2 DEF IsDecidedBy, Is30x
<1>3. SucceededUpTo(r, last)' = SucceededUpTo(r, last)
      /\ (NoneDecides(r, last)' <=> NoneDecides(r, last))
  BY <1>1, DecisionsStay
<1>4. \A i \in DOMAIN Wanted[r] :
         (Decisive(Wanted[r][i]) /\ NoneDecides(r, i - 1))' <=>
            (Decisive(Wanted[r][i]) /\ NoneDecides(r, i - 1))
  BY <1>1, DecisionsStay
<1>5. \A i \in DOMAIN Wanted[r] : content'[Wanted[r][i]] = content[Wanted[r][i]]
  BY DEF ResultsStay
<1> QED
  BY <1>2, <1>3, <1>4, <1>5 DEF IsDue, Panic

(* A step of a load or of another request.                                 *)
LEMMA LoopStaysSound ==
    ASSUME RequestsAreSound, NEW r \in Requests, LoopIsSound(r),
           stage'[r] = stage[r], next'[r] = next[r], merged'[r] = merged[r],
           answer'[r] = answer[r],
           stage[r] # "fetching" => ResultsStay(r)
    PROVE  LoopIsSound(r)'
<1>1. CASE stage[r] = "fetching"
  BY <1>1 DEF LoopIsSound, Answered, NoAnswer
<1>2. CASE stage[r] # "fetching"
  <2>1. next[r] - 1 \in 0 .. Len(Wanted[r]) /\ next[r] - 1 \in Nat
    <3>1. next[r] \in 1 .. Len(Wanted[r]) + 1 /\ Len(Wanted[r]) \in Nat
      BY WantedJobs DEF RequestsAreSound, TypeOK
    <3> QED
      BY <3>1
  <2>2. IsDue(r)' <=> IsDue(r)
    BY <1>2, IsDueStays
  <2>3. /\ SucceededUpTo(r, next[r] - 1)' = SucceededUpTo(r, next[r] - 1)
        /\ NoneDecides(r, next[r] - 1)' <=> NoneDecides(r, next[r] - 1)
    BY <1>2, <2>1, DecisionsStay
  <2> QED
    BY <1>2, <2>2, <2>3 DEF LoopIsSound, Answered, NoAnswer
<1> QED
  BY <1>1, <1>2

LEMMA WantedKept ==
    ASSUME NEW r \in Requests, NEW places, NEW n \in 1 .. Len(Wanted[r])
    PROVE  Kept(Wanted[r], places, n) =
              IF n \in places THEN Append(Kept(Wanted[r], places, n - 1), Wanted[r][n])
              ELSE Kept(Wanted[r], places, n - 1)
<1>1. KeepsInSteps(Wanted[r], places)
  BY WantedJobs, KeptSteps
<1> QED
  BY <1>1, Zenon DEF KeepsInSteps

LEMMA NextIsInside ==
    ASSUME RequestsAreSound, NEW r \in Requests
    PROVE  /\ Len(Wanted[r]) \in Nat /\ DOMAIN Wanted[r] = 1 .. Len(Wanted[r])
           /\ next[r] \in 1 .. Len(Wanted[r]) + 1
           /\ next[r] \in DOMAIN Wanted[r] \/ next[r] = Len(Wanted[r]) + 1
<1>1. Len(Wanted[r]) \in Nat /\ DOMAIN Wanted[r] = 1 .. Len(Wanted[r])
  BY WantedJobs
<1>2. next[r] \in 1 .. Len(Wanted[r]) + 1
  BY DEF RequestsAreSound, TypeOK
<1> QED
  BY <1>1, <1>2

(* The first decisive result is answered.                                  *)
LEMMA FirstDecides ==
    ASSUME RequestsAreSound, NEW r \in Requests, LoopIsSound(r),
           InLoop(r), Decisive(Result(r)), ResultsStay(r),
           stage'[r] = "answered", NEW j, j = Result(r), IsDecidedBy(r, j)'
    PROVE  LoopIsSound(r)'
<1> USE NextIsInside
<1> DEFINE n == next[r]
<1>1. n \in DOMAIN Wanted[r] /\ Result(r) = Wanted[r][n] /\ NoneDecides(r, n - 1)
  BY DEF InLoop, Result, LoopIsSound
<1>2. /\ \A i \in DOMAIN Wanted[r] :
            Decisive(Wanted[r][i]) /\ NoneDecides(r, i - 1) => i = n
      /\ ~NoneDecides(r, Len(Wanted[r]))
  <2>1. ASSUME NEW i \in DOMAIN Wanted[r], Decisive(Wanted[r][i]), NoneDecides(r, i - 1)
        PROVE  i = n
    <3>1. ~(i < n)
      BY <1>1, <2>1 DEF NoneDecides
    <3>2. ~(n < i)
      BY <1>1, <2>1 DEF NoneDecides
    <3> QED
      BY <1>1, <3>1, <3>2
  <2>2. ~NoneDecides(r, Len(Wanted[r]))
    BY <1>1 DEF NoneDecides
  <2> QED
    BY <2>1, <2>2
<1>3. /\ \A i \in DOMAIN Wanted[r] :
            (Decisive(Wanted[r][i]) /\ NoneDecides(r, i - 1))' <=>
               (Decisive(Wanted[r][i]) /\ NoneDecides(r, i - 1))
      /\ NoneDecides(r, Len(Wanted[r]))' <=> NoneDecides(r, Len(Wanted[r]))
  <2>1. /\ Len(Wanted[r]) \in 0 .. Len(Wanted[r])
        /\ \A i \in DOMAIN Wanted[r] : i - 1 \in 0 .. Len(Wanted[r])
    OBVIOUS
  <2> QED
    BY <2>1, DecisionsStay
<1>4. j = Wanted[r][n]
  BY <1>1
<1>5. IsDue(r)'
  BY <1>2, <1>3, <1>4 DEF IsDue
<1> QED
  BY <1>5 DEF LoopIsSound

(* A result that does not decide is passed, and merged if it succeeded.    *)
LEMMA NextIsPassed ==
    ASSUME RequestsAreSound, NEW r \in Requests, LoopIsSound(r),
           InLoop(r), ~Decisive(Result(r)), ResultsStay(r),
           stage'[r] = stage[r], answer'[r] = answer[r], next'[r] = next[r] + 1,
           merged'[r] = IF Succeeded(Result(r)) THEN Append(merged[r], Result(r))
                        ELSE merged[r]
    PROVE  LoopIsSound(r)'
<1> USE NextIsInside
<1>0. PICK n \in Nat : n = next[r]
  OBVIOUS
<1>p. PICK places : places = {i \in DOMAIN Wanted[r] : Succeeded(Wanted[r][i])}
  OBVIOUS
<1>1. /\ n \in DOMAIN Wanted[r] /\ Result(r) = Wanted[r][n]
      /\ NoneDecides(r, n - 1) /\ merged[r] = SucceededUpTo(r, n - 1)
      /\ stage[r] = "merging" /\ answer[r] = NoAnswer
  BY <1>0 DEF InLoop, Result, LoopIsSound
<1>2. n \in 1 .. Len(Wanted[r]) /\ n \in 0 .. Len(Wanted[r])
      /\ (n + 1) - 1 = n
  BY <1>1
<1>3. NoneDecides(r, n)
  <2>1. \A i \in 1 .. n : i \in 1 .. n - 1 \/ i = n
    BY <1>2
  <2> QED
    BY <1>1, <2>1 DEF NoneDecides
<1>4. merged'[r] = SucceededUpTo(r, n)
  <2>1. \A m : SucceededUpTo(r, m) = Kept(Wanted[r], places, m)
    BY <1>p DEF SucceededUpTo
  <2>2. n \in places <=> Succeeded(Result(r))
    BY <1>1, <1>p
  <2>3. Kept(Wanted[r], places, n) =
           IF n \in places THEN Append(Kept(Wanted[r], places, n - 1), Wanted[r][n])
           ELSE Kept(Wanted[r], places, n - 1)
    BY <1>2, WantedKept
  <2> QED
    BY <1>1, <1>2, <2>1, <2>2, <2>3
<1>5. NoneDecides(r, n)'
  BY <1>2, <1>3, DecisionsStay
<1>6. merged'[r] = SucceededUpTo(r, n)'
  BY <1>4, DecisionsStay
<1>7. next'[r] - 1 = n
  BY <1>0
<1> QED
  BY <1>1, <1>5, <1>6, <1>7 DEF LoopIsSound, Answered, NoAnswer

LEMMA FetchingIsFollowed ==
    ASSUME RequestsAreSound, NEW r \in Requests, LoopIsSound(r),
           AnswerEmpty(r) \/ AnswerHead(r) \/ WaitForResults(r)
    PROVE  LoopIsSound(r)'
<1> USE TypesOfRequests
<1>1. CASE AnswerEmpty(r)
  BY <1>1 DEF AnswerEmpty, Answers, Reaches, LoopIsSound
<1>2. CASE AnswerHead(r)
  BY <1>2 DEF AnswerHead, Answers, Reaches, LoopIsSound
<1>3. CASE WaitForResults(r)
  <2>1. /\ stage'[r] = "merging" /\ next'[r] = 1 /\ merged'[r] = << >>
        /\ answer'[r] = NoAnswer
    BY <1>3 DEF WaitForResults, Reaches, LoopIsSound
  <2>2. SucceededUpTo(r, 0)' = << >>
    BY KeptSteps, WantedJobs DEF SucceededUpTo, KeepsInSteps
  <2>3. NoneDecides(r, 0)'
    BY DEF NoneDecides
  <2>4. NoneDecides(r, next[r] - 1)' /\ merged'[r] = SucceededUpTo(r, next[r] - 1)'
    <3>1. next'[r] - 1 = 0
      BY <2>1
    <3> QED
      BY <2>1, <2>2, <2>3, <3>1 DEF NoneDecides, SucceededUpTo
  <2> QED
    BY <2>1, <2>4 DEF LoopIsSound, Answered, NoAnswer
<1> QED
  BY <1>1, <1>2, <1>3

LEMMA ResultIsFollowed ==
    ASSUME RequestsAreSound, NEW r \in Requests, LoopIsSound(r),
           \/ Forward30x(r) \/ ForwardStream(r) \/ AddContent(r)
           \/ AnswerError(r) \/ SkipOptional(r)
    PROVE  LoopIsSound(r)'
<1> USE TypesOfRequests
<1>1. PICK j : j = Result(r)
  OBVIOUS
<1>2. InLoop(r) /\ UNCHANGED results
  BY DEF Forward30x, ForwardStream, AddContent, AnswerError, SkipOptional,
         loaderVars
<1>3. /\ ResultsStay(r) /\ content'[j] = content[j]
      /\ Succeeded(j)' <=> Succeeded(j)
  BY <1>2 DEF results, ResultsStay, Succeeded
<1>4. CASE Forward30x(r)
  <2>1. Decisive(j) /\ stage'[r] = "answered" /\ IsDecidedBy(r, j)'
    BY <1>1, <1>3, <1>4 DEF Forward30x, Answers, Reaches, Answer, Decisive,
       IsDecidedBy, Succeeded, Is30x
  <2> QED
    BY <1>1, <1>2, <1>3, <2>1, FirstDecides
<1>5. CASE ForwardStream(r)
  <2>1. Decisive(j) /\ stage'[r] = "answered" /\ IsDecidedBy(r, j)'
    BY <1>1, <1>3, <1>5 DEF ForwardStream, Answers, Reaches, Answer, Decisive,
       IsDecidedBy, Succeeded, Is30x
  <2> QED
    BY <1>1, <1>2, <1>3, <2>1, FirstDecides
<1>6. CASE AnswerError(r)
  <2>1. Decisive(j) /\ stage'[r] = "answered" /\ IsDecidedBy(r, j)'
    BY <1>1, <1>3, <1>6 DEF AnswerError, Answers, Reaches, Answer, Decisive,
       IsDecidedBy
  <2> QED
    BY <1>1, <1>2, <1>3, <2>1, FirstDecides
<1>7. CASE AddContent(r)
  <2>1. /\ ~Decisive(Result(r)) /\ Succeeded(Result(r))
        /\ merged'[r] = Append(merged[r], Result(r)) /\ next'[r] = next[r] + 1
        /\ stage' = stage /\ answer' = answer
    BY <1>7 DEF AddContent, Decisive
  <2> QED
    BY <1>2, <1>3, <2>1, NextIsPassed
<1>8. CASE SkipOptional(r)
  <2>1. /\ ~Decisive(Result(r)) /\ ~Succeeded(Result(r))
        /\ next'[r] = next[r] + 1
        /\ stage' = stage /\ answer' = answer /\ merged' = merged
    BY <1>8 DEF SkipOptional, Decisive
  <2> QED
    BY <1>2, <1>3, <2>1, NextIsPassed
<1> QED
  BY <1>4, <1>5, <1>6, <1>7, <1>8

(* The loop is over, and nothing has decided.                              *)
LEMMA MergingIsFollowed ==
    ASSUME RequestsAreSound, NEW r \in Requests, LoopIsSound(r), Compose(r)
    PROVE  LoopIsSound(r)'
<1> USE TypesOfRequests
<1>1. PICK n \in Nat : n = Len(Wanted[r])
  BY NextIsInside
<1>2. next[r] - 1 = n /\ n \in 0 .. n
  BY <1>1, NextIsInside DEF Compose, LoopIsOver
<1>3. stage[r] = "merging" /\ UNCHANGED <<loaderVars, merged>>
  BY DEF Compose, LoopIsOver
<1>4. NoneDecides(r, n) /\ merged[r] = SucceededUpTo(r, n)
  BY <1>2, <1>3 DEF LoopIsSound
<1>5. ResultsStay(r)
  BY <1>3 DEF loaderVars, results, ResultsStay
<1>6. /\ \A i \in DOMAIN Wanted[r] : ~Decisive(Wanted[r][i])'
      /\ SucceededUpTo(r, n)' = merged[r]
  BY <1>1, <1>4, <1>5, DecisionsStay, NextIsInside DEF NoneDecides
<1>7. /\ stage'[r] \in {"answered", "purging"}
      /\ IF \E i \in DOMAIN Wanted[r] : content[Wanted[r][i]] = NoContent
         THEN answer'[r] = Panic
         ELSE answer'[r].form \in {"html", "failedMerge"} /\ answer'[r].jobs = merged[r]
  <2> DEFINE missing == \E i \in DOMAIN Wanted[r] : content[Wanted[r][i]] = NoContent
  <2>1. CASE missing
    <3>1. Answers(r, Panic)
      BY <2>1 DEF Compose
    <3> QED
      BY <2>1, <3>1 DEF Answers, Reaches
  <2>2. CASE ~missing /\ Answers(r, Answer(StatusOf(content[Wanted[r][1]]), "html",
                                         merged[r], TRUE))
    BY <2>2 DEF Answers, Reaches, Answer
  <2>3. CASE /\ ~missing
             /\ answer' = [answer EXCEPT ![r] = Answer(500, "failedMerge", merged[r], TRUE)]
             /\ Reaches(r, "purging")
    BY <2>3 DEF Reaches, Answer
  <2> QED
    BY <2>1, <2>2, <2>3 DEF Compose
<1>8. \A i \in DOMAIN Wanted[r] : content'[Wanted[r][i]] = content[Wanted[r][i]]
  BY <1>5 DEF ResultsStay
<1>9. IsDue(r)'
  BY <1>1, <1>6, <1>7, <1>8 DEF IsDue, Panic
<1> QED
  BY <1>7, <1>9 DEF LoopIsSound

LEMMA PurgingIsFollowed ==
    ASSUME RequestsAreSound, NEW r \in Requests, LoopIsSound(r),
           PurgeEntry(r) \/ PurgeReturns(r)
    PROVE  LoopIsSound(r)'
<1> USE TypesOfRequests
<1>1. /\ stage[r] = "purging" /\ stage'[r] \in {"purging", "answered"}
      /\ answer' = answer /\ UNCHANGED results
  BY DEF PurgeEntry, PurgeReturns, Reaches, loaderVars
<1>2. ResultsStay(r)
  BY <1>1 DEF results, ResultsStay
<1>3. IsDue(r)' <=> IsDue(r)
  BY <1>1, <1>2, IsDueStays
<1> QED
  BY <1>1, <1>3 DEF LoopIsSound, Answered, NoAnswer

(* A load changes no result of a request that goes on.                     *)
LEMMA LoadsLeaveResults ==
    ASSUME RequestsAreSound, NEW j \in Jobs, LoaderStep(j),
           NEW r \in Requests, stage[r] # "fetching"
    PROVE  ResultsStay(r)
<1>1. position[j] # "loaded"
  BY DEF LoaderStep, ExpandFails, Load, LoadReturns, ReadStream, SetContent
<1>2. \A k \in Jobs \ {j} : content'[k] = content[k] /\ failed'[k] = failed[k]
  BY TypesOfLoads DEF LoaderStep, ExpandFails, Load, LoadReturns, ReadStream,
     SetContent, Returns, results
<1>3. \A i \in DOMAIN Wanted[r] :
         Wanted[r][i] \in Jobs /\ position[Wanted[r][i]] = "loaded"
  BY WantedJobs DEF RequestsAreSound, RequestIsSound, IsLoaded
<1> QED
  BY <1>1, <1>2, <1>3 DEF ResultsStay

LEMMA LoopStepKeeps ==
    ASSUME RequestsAreSound, \A r \in Requests : LoopIsSound(r), [Next]_vars
    PROVE  \A r \in Requests : LoopIsSound(r)'
<1> SUFFICES ASSUME NEW r \in Requests
             PROVE  LoopIsSound(r)'
  OBVIOUS
<1> USE TypesOfRequests
<1>1. ASSUME NEW j \in Jobs, LoaderStep(j), UNCHANGED handlerVars
      PROVE  LoopIsSound(r)'
  BY <1>1, LoadsLeaveResults, LoopStaysSound DEF handlerVars
<1>2. ASSUME NEW q \in Requests, HandlerStep(q)
      PROVE  LoopIsSound(r)'
  <2>1. CASE q = r
    BY <1>2, <2>1, FetchingIsFollowed, ResultIsFollowed, MergingIsFollowed,
       PurgingIsFollowed DEF HandlerStep
  <2>2. CASE q # r
    <3>1. /\ stage'[r] = stage[r] /\ next'[r] = next[r]
          /\ merged'[r] = merged[r] /\ answer'[r] = answer[r]
      <4>1. CASE AnswerEmpty(q)
        BY <2>2, <4>1 DEF AnswerEmpty, Answers, Reaches
      <4>2. CASE AnswerHead(q)
        BY <2>2, <4>2 DEF AnswerHead, Answers, Reaches
      <4>3. CASE WaitForResults(q)
        BY <2>2, <4>3 DEF WaitForResults, Reaches
      <4>4. CASE Forward30x(q)
        BY <2>2, <4>4 DEF Forward30x, Answers, Reaches
      <4>5. CASE ForwardStream(q)
        BY <2>2, <4>5 DEF ForwardStream, Answers, Reaches
      <4>6. CASE AddContent(q)
        BY <2>2, <4>6 DEF AddContent
      <4>7. CASE AnswerError(q)
        BY <2>2, <4>7 DEF AnswerError, Answers, Reaches
      <4>8. CASE SkipOptional(q)
        BY <2>2, <4>8 DEF SkipOptional
      <4>9. CASE Compose(q)
        <5>1. /\ \E a : answer' = [answer EXCEPT ![q] = a]
              /\ \E s : stage' = [stage EXCEPT ![q] = s]
              /\ next' = next \/ next' = [next EXCEPT ![q] = 1]
              /\ merged' = merged
          BY <4>9, Zenon DEF Compose, Answers, Reaches
        <5> QED
          BY <2>2, <5>1
      <4>10. CASE PurgeEntry(q)
        BY <2>2, <4>10 DEF PurgeEntry
      <4>11. CASE PurgeReturns(q)
        BY <2>2, <4>11 DEF PurgeReturns, Reaches
      <4> QED
        BY <1>2, <4>1, <4>2, <4>3, <4>4, <4>5, <4>6, <4>7, <4>8, <4>9, <4>10, <4>11 DEF HandlerStep
    <3>2. UNCHANGED results
      BY <1>2 DEF HandlerStep, AnswerEmpty, AnswerHead, WaitForResults,
         Forward30x, ForwardStream, AddContent, AnswerError, SkipOptional,
         Compose, PurgeEntry, PurgeReturns, loaderVars
    <3> QED
      BY <3>1, <3>2, LoopStaysSound DEF results, ResultsStay
  <2> QED
    BY <2>1, <2>2
<1>3. ASSUME \/ CacheForgets /\ UNCHANGED handlerVars
             \/ UNCHANGED vars
      PROVE  LoopIsSound(r)'
  BY <1>3, LoopStaysSound
     DEF CacheForgets, vars, loaderVars, handlerVars, results, ResultsStay
<1> QED
  BY <1>1, <1>2, <1>3 DEF Next, AllAnswered

-----------------------------------------------------------------------------
(* At every moment of any number of requests over one cache: what the      *)
(* loads have, what is kept, and what the requests have answered.          *)
THEOREM Invariant == Spec => []IInv
<1>1. Init => IInv
  BY InitEstablishes DEF Init, IInv, LoopIsSound, Answered, NoAnswer
<1>2. IInv /\ [Next]_vars => IInv'
  BY StepKeeps, LoopStepKeeps DEF IInv
<1> QED
  BY <1>1, <1>2, PTL DEF Spec

LEMMA RequestsInvariant == Spec => []RequestsAreSound
<1>1. IInv => RequestsAreSound
  BY DEF IInv
<1> QED
  BY <1>1, Invariant, PTL

(* The variables have their types; the loop stays within its results.      *)
THEOREM TypeCorrect == Spec => []TypeOK
<1>1. RequestsAreSound => TypeOK
  BY DEF RequestsAreSound
<1> QED
  BY <1>1, RequestsInvariant, PTL

(* cache_loader.go:36-50: what is in the cache was loaded without an       *)
(* error, for that hash and to its end, and holds no reader.               *)
THEOREM CachedIsServable == Spec => []CacheIsServable
<1>1. ASSUME RequestsAreSound
      PROVE  CacheIsServable
  <2> SUFFICES ASSUME NEW h \in Hashes, NEW j, j = store[h], j # NoJob
               PROVE  /\ h = StoreHash[j] /\ cached[j] # NoContent
                      /\ ~LoadFails(response[j]) /\ response[j].kind # "cut"
                      /\ cached[j].stream => cached[j].wrapped
    BY DEF CacheIsServable
  <2>1. j \in used /\ j \in Jobs
    BY <1>1, TypesOfLoads
  <2>2. CanBeKept(j, cached[j])
    BY <1>1, <2>1 DEF RequestsAreSound, LoadsAreSound, EntryIsSound
  <2>3. h = StoreHash[j]
    BY <1>1 DEF RequestsAreSound, LoadsAreSound, StoreIsSound
  <2> QED
    BY <2>2, <2>3 DEF CanBeKept
<1> QED
  BY <1>1, RequestsInvariant, PTL

(* composition_handler.go:206-215: no two requests read the same reader,   *)
(* so a stream that did not break off is forwarded whole.                  *)
THEOREM ForwardedIsWhole == Spec => []StreamsAreWhole
<1>1. RequestsAreSound => StreamsAreWhole
  BY DEF RequestsAreSound, StreamsAreWhole
<1> QED
  BY <1>1, RequestsInvariant, PTL

(* composition_handler.go:206-215 and http_content_loader.go:88-106: behind *)
(* an answer exactly those bodies are held that the code forgets: of a bad *)
(* status or what a processor refuses, a file read into the cache, and a   *)
(* stream that is neither kept nor the answer.                             *)
THEOREM BodiesReleased == Spec => []BodiesAreReleased
<1>1. ASSUME RequestsAreSound
      PROVE  BodiesAreReleased
  <2> SUFFICES ASSUME NEW r \in Requests, NEW j \in ToSet(Wanted[r]), stage[r] = "answered"
               PROVE  Holds(j) <=> IsForgotten(r, j)
    BY DEF BodiesAreReleased
  <2>1. PICK i \in DOMAIN Wanted[r] : j = Wanted[r][i]
    BY DEF ToSet
  <2>2. j \in Jobs /\ position[j] = "loaded"
    BY <1>1, <2>1, WantedJobs DEF RequestsAreSound, RequestIsSound, IsLoaded
  <2>3. BodyIsSound(j)
    BY <1>1, <2>2 DEF RequestsAreSound, LoadsAreSound, LoadIsSound
  <2>4. CASE response[j] = NoContent
    BY <2>3, <2>4 DEF BodyIsSound, Holds, IsForgotten
  <2>5. CASE response[j] # NoContent /\ ~HasReader(response[j].kind)
    BY <2>3, <2>5 DEF BodyIsSound, BodyOf, Holds, IsForgotten
  <2>6. CASE response[j] # NoContent /\ HasReader(response[j].kind)
    <3>1. response[j].kind \notin {"badStatus", "unprocessable"}
      BY <2>6 DEF HasReader
    <3>2. CASE IsStored(j, response[j])
      BY <2>2, <2>3, <2>6, <3>1, <3>2 DEF BodyIsSound, Holds, IsForgotten
    <3>3. CASE ~IsStored(j, response[j])
      <4>1. body[j] \in {"open", "closed"}
        BY <2>3, <2>6, <3>3 DEF BodyIsSound
      <4>2. body[j] = "closed" => IsForwarded(r, j)
        BY <1>1, <2>6 DEF RequestsAreSound, RequestIsSound
      <4>3. IsForwarded(r, j) => body[j] # "open"
        <5>1. \A x, y \in Jobs : <<x>> = <<y>> => x = y
          OBVIOUS
        <5> QED
          BY <1>1, <2>2, <5>1, WantedJobs DEF RequestsAreSound, RequestIsSound, IsForwarded
      <4> QED
        BY <2>6, <3>1, <3>3, <4>1, <4>2, <4>3 DEF Holds, IsForgotten
    <3> QED
      BY <3>2, <3>3
  <2> QED
    BY <2>4, <2>5, <2>6
<1> QED
  BY <1>1, RequestsInvariant, PTL

(* composition_handler.go:122-130: unless a URL is a template, nothing of  *)
(* a failed merge is left in the cache.                                    *)
THEOREM FailedMergePurges == Spec => [](UrlsAreLiteral => FailedMergeIsPurged)
<1>1. ASSUME RequestsAreSound, UrlsAreLiteral
      PROVE  FailedMergeIsPurged
  BY <1>1 DEF RequestsAreSound, PassedIsPurged, FailedMergeIsPurged
<1>2. RequestsAreSound => (UrlsAreLiteral => FailedMergeIsPurged)
  BY <1>1
<1> QED
  BY <1>2, RequestsInvariant, PTL

(* composition_handler.go:84-113: the first result that decides by itself  *)
(* is the answer of a request, with its own status and nothing of the      *)
(* others; if none does, all that succeeded are merged, in their order.    *)
THEOREM AnswersAreDue == Spec => []AnswerIsDue
<1>1. IInv => AnswerIsDue
  BY DEF IInv, LoopIsSound, AnswerIsDue
<1> QED
  BY <1>1, Invariant, PTL

=============================================================================
