------------------------- MODULE CompositionHandler -------------------------
(***************************************************************************)
(* composition/composition_handler.go: ServeHTTP of several requests at a  *)
(* time, over the loads of CachingLoader.                                  *)
(*                                                                         *)
(* The fetcher is that of module ContentFetcher, reduced to its result: a  *)
(* sequence of jobs for each request, of which each is waited for.  The    *)
(* merging is that of ContentMerge, reduced to whether it succeeds: pages  *)
(* need others by name.  A dereference of a Content that is not there is a *)
(* panic, which the HTTP server turns into a dropped connection.           *)
(***************************************************************************)
EXTENDS CachingLoader

CONSTANTS
    Requests,
    Wanted,         \* the jobs of each request, in the order of its results
    HeadRequests,   \* those with method HEAD
    HasCache        \* whether the handler has been given the cache

ASSUME RequestsAssumption ==
    /\ Wanted \in [Requests -> Seq(Jobs)]
    /\ \A q, r \in Requests : \A i \in DOMAIN Wanted[q], k \in DOMAIN Wanted[r] :
          Wanted[q][i] = Wanted[r][k] => q = r /\ i = k
    /\ HeadRequests \subseteq Requests

VARIABLES
    stage,          \* "fetching", "merging", "purging" or "answered"
    next,           \* the result the loop is at
    merged,         \* the results added to the merge context
    answer          \* what has been written

handlerVars == <<stage, next, merged, answer>>
vars == <<loaderVars, handlerVars>>

(* An answer: its status, what it is made of, and the jobs whose contents  *)
(* it shows; "whole" says that no byte of a stream is missing.             *)
Answer(status, form, jobs, whole) ==
    [status |-> status, form |-> form, jobs |-> jobs, whole |-> whole]

NoAnswer == Answer(0, "none", << >>, TRUE)
Panic    == Answer(0, "panic", << >>, TRUE)

Init ==
    /\ LoaderInit
    /\ stage = [r \in Requests |-> "fetching"]
    /\ next = [r \in Requests |-> 1]
    /\ merged = [r \in Requests |-> << >>]
    /\ answer = [r \in Requests |-> NoAnswer]

Reaches(r, s) == stage' = [stage EXCEPT ![r] = s]

Answers(r, a) == Reaches(r, "answered") /\ answer' = [answer EXCEPT ![r] = a]

-----------------------------------------------------------------------------
IsLoaded(r) == \A i \in DOMAIN Wanted[r] : position[Wanted[r][i]] = "loaded"

(* handleEmptyFetcher.                                                     *)
AnswerEmpty(r) ==
    /\ stage[r] = "fetching" /\ Wanted[r] = << >>
    /\ Answers(r, Answer(500, "error", << >>, TRUE))
    /\ UNCHANGED <<loaderVars, next, merged>>

(* A HEAD request is answered from the first result, whatever became of it.*)
AnswerHead(r) ==
    /\ stage[r] = "fetching" /\ Wanted[r] # << >> /\ IsLoaded(r)
    /\ r \in HeadRequests
    /\ LET first == content[Wanted[r][1]]
       IN  Answers(r, IF first = NoContent THEN Panic
                      ELSE Answer(first.status, "head", << >>, TRUE))
    /\ UNCHANGED <<loaderVars, next, merged>>

\* Faulty variant: only the first result is waited for.
WaitForFirst(r) ==
    /\ stage[r] = "fetching" /\ Wanted[r] # << >>
    /\ position[Wanted[r][1]] = "loaded" /\ r \notin HeadRequests
    /\ Reaches(r, "merging")
    /\ UNCHANGED <<loaderVars, next, merged, answer>>

WaitForResults(r) ==
    /\ stage[r] = "fetching" /\ Wanted[r] # << >> /\ IsLoaded(r)
    /\ r \notin HeadRequests
    /\ Reaches(r, "merging")
    /\ UNCHANGED <<loaderVars, next, merged, answer>>

-----------------------------------------------------------------------------
(* The loop over the results.                                              *)

InLoop(r) == stage[r] = "merging" /\ next[r] \in DOMAIN Wanted[r]
Result(r) == Wanted[r][next[r]]

Is30x(c) == c.status \in 300 .. 308

Succeeded(j) == ~failed[j] /\ content[j] # NoContent

Forward30x(r) ==
    /\ InLoop(r) /\ Succeeded(Result(r)) /\ Is30x(content[Result(r)])
    /\ Answers(r, Answer(content[Result(r)].status, "redirect", <<Result(r)>>, TRUE))
    /\ UNCHANGED <<loaderVars, next, merged>>

(* The reader is copied and closed; one that was read before gives nothing.*)
ForwardStream(r) ==
    /\ InLoop(r) /\ Succeeded(Result(r))
    /\ LET c == content[Result(r)] IN
       /\ ~Is30x(c) /\ c.stream
       /\ Answers(r, Answer(c.status, "stream", <<Result(r)>>,
                            \/ c.wrapped
                            \/ /\ body[c.loader] = "open"
                               /\ response[c.loader].kind # "cut"))
       /\ body' = IF c.wrapped THEN body ELSE [body EXCEPT ![c.loader] = "closed"]
    /\ UNCHANGED <<position, results, response, cached, store, used, next, merged>>

AddContent(r) ==
    /\ InLoop(r) /\ Succeeded(Result(r))
    /\ ~Is30x(content[Result(r)]) /\ ~content[Result(r)].stream
    /\ merged' = [merged EXCEPT ![r] = Append(@, Result(r))]
    /\ next' = [next EXCEPT ![r] = @ + 1]
    /\ UNCHANGED <<loaderVars, stage, answer>>

\* Faulty variant: an optional content's failure is answered, too.
AnswerAnyError(r) ==
    /\ InLoop(r) /\ ~Succeeded(Result(r))
    /\ LET c == content[Result(r)]
       IN  Answers(r, IF c = NoContent THEN Panic
                      ELSE Answer(c.status, "error", <<Result(r)>>, TRUE))
    /\ UNCHANGED <<loaderVars, next, merged>>

(* The error handler of the definition answers with the status of the      *)
(* content.                                                                *)
AnswerError(r) ==
    /\ InLoop(r) /\ ~Succeeded(Result(r)) /\ Definition[Result(r)].required
    /\ LET c == content[Result(r)]
       IN  Answers(r, IF c = NoContent THEN Panic
                      ELSE Answer(c.status, "error", <<Result(r)>>, TRUE))
    /\ UNCHANGED <<loaderVars, next, merged>>

SkipOptional(r) ==
    /\ InLoop(r) /\ ~Succeeded(Result(r)) /\ ~Definition[Result(r)].required
    /\ next' = [next EXCEPT ![r] = @ + 1]
    /\ UNCHANGED <<loaderVars, stage, merged, answer>>

-----------------------------------------------------------------------------
(* After the loop.                                                         *)

LoopIsOver(r) == stage[r] = "merging" /\ next[r] \notin DOMAIN Wanted[r]

\* GetHtml finds a start fragment and every fragment a page must include.
IsMergeable(jobs) ==
    /\ jobs # << >>
    /\ \A j \in ToSet(jobs) :
          content[j].needs \subseteq {content[k].name : k \in ToSet(jobs)}

\* extractStatusCode.
StatusOf(c) == IF c.status # 0 THEN c.status ELSE 200

(* The status is that of the first result; the cookies are those of all.   *)
Compose(r) ==
    /\ LoopIsOver(r)
    /\ IF \E i \in DOMAIN Wanted[r] : content[Wanted[r][i]] = NoContent
       THEN Answers(r, Panic) /\ UNCHANGED next
       ELSE IF IsMergeable(merged[r])
       THEN /\ Answers(r, Answer(StatusOf(content[Wanted[r][1]]), "html",
                                 merged[r], TRUE))
            /\ UNCHANGED next
       ELSE /\ answer' = [answer EXCEPT ![r] = Answer(500, "failedMerge",
                                                      merged[r], TRUE)]
            /\ Reaches(r, "purging")
            /\ next' = [next EXCEPT ![r] = 1]
    /\ UNCHANGED <<loaderVars, merged>>

\* Faulty variant: every second hash is left out.
PurgeEverySecond(r) ==
    /\ stage[r] = "purging" /\ next[r] \in DOMAIN Wanted[r]
    /\ store' = Cache!Forgetting(store, {HashAsAdded[Result(r)]})
    /\ next' = [next EXCEPT ![r] = @ + 2]
    /\ UNCHANGED <<position, results, response, body, cached, used, stage,
                   merged, answer>>

(* PurgeEntries with the hashes of the results, one after another.         *)
PurgeEntry(r) ==
    /\ stage[r] = "purging" /\ HasCache /\ next[r] \in DOMAIN Wanted[r]
    /\ store' = Cache!Forgetting(store, {HashAsAdded[Result(r)]})
    /\ next' = [next EXCEPT ![r] = @ + 1]
    /\ UNCHANGED <<position, results, response, body, cached, used, stage,
                   merged, answer>>

PurgeReturns(r) ==
    /\ stage[r] = "purging" /\ (HasCache => next[r] \notin DOMAIN Wanted[r])
    /\ Reaches(r, "answered")
    /\ UNCHANGED <<loaderVars, next, merged, answer>>

HandlerStep(r) ==
    \/ AnswerEmpty(r) \/ AnswerHead(r) \/ WaitForResults(r)
    \/ Forward30x(r) \/ ForwardStream(r) \/ AddContent(r)
    \/ AnswerError(r) \/ SkipOptional(r)
    \/ Compose(r) \/ PurgeEntry(r) \/ PurgeReturns(r)

AllAnswered == (\A r \in Requests : stage[r] = "answered") /\ UNCHANGED vars

Next ==
    \/ \E j \in Jobs : LoaderStep(j) /\ UNCHANGED handlerVars
    \/ \E r \in Requests : HandlerStep(r)
    \/ CacheForgets /\ UNCHANGED handlerVars
    \/ AllAnswered

Spec == Init /\ [][Next]_vars

-----------------------------------------------------------------------------
AnswerType ==
    [status : Int, form : {"none", "panic", "error", "head", "redirect",
                           "stream", "html", "failedMerge"},
     jobs : Seq(Jobs), whole : BOOLEAN]

(* Types of what ServeHTTP and the loads under it keep; the loops over the *)
(* results stay within them.                                               *)
TypeOK ==
    /\ LoaderTypeOK
    /\ stage \in [Requests -> {"fetching", "merging", "purging", "answered"}]
    /\ next \in [Requests -> Nat]
    /\ \A r \in Requests : next[r] \in 1 .. Len(Wanted[r]) + 1
    /\ merged \in [Requests -> Seq(Jobs)]
    /\ answer \in [Requests -> AnswerType]

Answered(r) == answer[r] # NoAnswer

StreamIsWhole(r) ==
    answer[r].form = "stream" =>
       \/ answer[r].whole
       \/ response[content[answer[r].jobs[1]].loader].kind = "cut"

(* A stream is forwarded whole, whoever else got it from the cache, before *)
(* or after: no two requests read the same reader.                         *)
StreamsAreWhole == \A r \in Requests : StreamIsWhole(r)

(* The results that decide an answer by themselves: one that fails though  *)
(* it is required, and one that cannot be merged.                          *)
Decisive(j) ==
    IF Succeeded(j) THEN Is30x(content[j]) \/ content[j].stream
    ELSE Definition[j].required

NoneDecides(r, n) == \A i \in 1 .. n : ~Decisive(Wanted[r][i])

IsDecidedBy(r, j) ==
    IF content[j] = NoContent THEN answer[r] = Panic
    ELSE /\ answer[r].jobs = <<j>>
         /\ answer[r].status = content[j].status
         /\ answer[r].form = IF ~Succeeded(j) THEN "error"
                             ELSE IF Is30x(content[j]) THEN "redirect"
                             ELSE "stream"

(* Of the first n of a list, those at the given places, in their order.    *)
Kept(list, places, n) ==
    LET kept[i \in 0 .. Len(list)] ==
          IF i = 0 THEN << >>
          ELSE IF i \in places THEN Append(kept[i - 1], list[i])
          ELSE kept[i - 1]
    IN  kept[n]

SucceededUpTo(r, n) ==
    Kept(Wanted[r], {i \in DOMAIN Wanted[r] : Succeeded(Wanted[r][i])}, n)

IsDue(r) ==
    /\ \A i \in DOMAIN Wanted[r] :
          Decisive(Wanted[r][i]) /\ NoneDecides(r, i - 1) =>
             IsDecidedBy(r, Wanted[r][i])
    /\ NoneDecides(r, Len(Wanted[r])) =>
          IF \E i \in DOMAIN Wanted[r] : content[Wanted[r][i]] = NoContent
          THEN answer[r] = Panic
          ELSE /\ answer[r].form \in {"html", "failedMerge"}
               /\ answer[r].jobs = SucceededUpTo(r, Len(Wanted[r]))

(* The first decisive result alone is the answer, however many others      *)
(* there are; without one, all that succeeded are merged in their order,   *)
(* or the handler panics over a result that has no content.                *)
AnswerIsDue ==
    \A r \in Requests \ HeadRequests :
       Answered(r) /\ Wanted[r] # << >> => IsDue(r)

(* After a failed merge none of what was merged is in the handler's cache  *)
(* any more, whoever had loaded it: the next request loads it again.       *)
FailedMergeIsPurged ==
    \A r \in Requests :
       HasCache /\ stage[r] = "answered" /\ answer[r].form = "failedMerge" =>
          \A i \in DOMAIN Wanted[r], h \in Hashes :
             content[Wanted[r][i]] # NoContent =>
                store[h] # content[Wanted[r][i]].loader

(* A content that comes from another load was loaded for a request that    *)
(* does not differ in anything the cache strategy goes by: nobody gets     *)
(* what was meant for another session.                                     *)
CachedIsOwn ==
    \A j \in Jobs : content[j] # NoContent =>
       IsSameRequest(Expanded[content[j].loader], Expanded[j])

(* A job still holds a connection or a file: nobody has closed the body.   *)
(* Reading a response to its end gives its connection back, reading a file *)
(* does not.                                                               *)
Holds(j) == body[j] = "open" \/ (body[j] = "drained" /\ Definition[j].file)

IsForwarded(r, j) == answer[r].form = "stream" /\ answer[r].jobs = <<j>>

(* What the code forgets to close: the body of a bad status and of a       *)
(* response the processor refuses, a file that is read into the cache, and *)
(* a stream that is not kept and loses to another result.                  *)
IsForgotten(r, j) ==
    /\ response[j] # NoContent
    /\ LET kind == response[j].kind IN
       \/ kind \in {"badStatus", "unprocessable"}
       \/ /\ HasReader(kind)
          /\ IF IsStored(j, response[j]) THEN Definition[j].file
             ELSE ~IsForwarded(r, j)

(* Behind an answer, exactly what the code forgets is held: whatever else  *)
(* happens to the results, in whatever order, is closed, once.             *)
BodiesAreReleased ==
    \A r \in Requests : stage[r] = "answered" =>
       \A j \in ToSet(Wanted[r]) : Holds(j) <=> IsForgotten(r, j)

-----------------------------------------------------------------------------
(* The inductive invariant.                                                *)

(* A request that goes on has its results, and answers with them.          *)
RequestIsSound(r) ==
    /\ stage[r] # "fetching" => IsLoaded(r)
    /\ stage[r] = "merging" => Wanted[r] # << >>
    /\ stage[r] # "answered" => answer[r].form \in {"none", "failedMerge"}
    /\ stage[r] = "purging" => answer[r].form = "failedMerge"
    /\ answer[r].form = "failedMerge" => stage[r] \in {"purging", "answered"}
    /\ answer[r].form = "stream" =>
          \E i \in DOMAIN Wanted[r] :
             /\ answer[r].jobs = <<Wanted[r][i]>>
             /\ content[Wanted[r][i]] # NoContent /\ body[Wanted[r][i]] # "open"
    /\ \A j \in ToSet(Wanted[r]) :
          body[j] = "closed" /\ HasReader(response[j].kind) => IsForwarded(r, j)

(* A reader is unread until the request it belongs to is answered.         *)
ReaderIsUnread(j) ==
    content[j] # NoContent /\ content[j].stream /\ ~content[j].wrapped =>
       \/ body[j] = "open" \/ response[j].kind = "cut"
       \/ \E r \in Requests : stage[r] = "answered" /\ j \in ToSet(Wanted[r])

ReadersAreUnread == \A j \in Jobs : ReaderIsUnread(j)

(* No URL is a template, so a definition is hashed as it is stored.        *)
UrlsAreLiteral == \A j \in Jobs : HashAsAdded[j] = StoreHash[j]

(* Of the results that a purge has passed, nothing is in the cache.        *)
PassedIsPurged(r) ==
    HasCache /\ answer[r].form = "failedMerge" =>
       \A i \in DOMAIN Wanted[r], h \in Hashes :
          (stage[r] = "answered" \/ i < next[r]) /\ content[Wanted[r][i]] # NoContent =>
             store[h] # content[Wanted[r][i]].loader

(* The loop has passed no decisive result, and has kept what succeeded.    *)
LoopIsSound(r) ==
    /\ stage[r] = "fetching" => next[r] = 1 /\ merged[r] = << >>
    /\ stage[r] \in {"fetching", "merging"} => answer[r] = NoAnswer
    /\ stage[r] = "merging" =>
          /\ NoneDecides(r, next[r] - 1)
          /\ merged[r] = SucceededUpTo(r, next[r] - 1)
    /\ r \notin HeadRequests /\ Wanted[r] # << >> /\ Answered(r) => IsDue(r)

(* What every step of ServeHTTP and of the loads preserves.                *)
RequestsAreSound ==
    /\ TypeOK
    /\ LoadsAreSound
    /\ ReadersAreUnread
    /\ \A r \in Requests :
          /\ RequestIsSound(r) /\ StreamIsWhole(r)
          /\ UrlsAreLiteral => PassedIsPurged(r)

IInv == RequestsAreSound /\ \A r \in Requests : LoopIsSound(r)

=============================================================================
