# lib-compose in TLA+

lib-compose answers a request by loading several HTML pages in parallel,
following what they refer to, and merging their fragments into one page.  This
directory holds TLA+ models of the library, configurations that check them with
TLC, and proofs that the TLA+ proof system checks.  Paths are relative to the
repository.

## Inventory

| Component | State | Operations | What is hard about it |
|---|---|---|---|
| `composition/content_fetcher.go` | results, scheduled names, wait group, meta map | AddFetchJob, the goroutine of a job, WaitForResults | goroutines that start goroutines; check-then-act on names; visibility without locks after Wait; cycles; loads that never return |
| `cache/cache.go` | LRU list, byte counter, clock | Get, Set, Invalidate, PurgeOldEntries, PurgeEntries | two limits, a loop with the lock held, purges that peek and remove in separate critical sections |
| `composition/cache_loader.go`, `cache_invalidation_handler.go` | the shared cache | Load, DELETE internal/cache | stampedes, loads in flight over an invalidation, streams that can be read once |
| `composition/http_content_loader.go`, `file_content_loader.go` | the response body | Load | outcomes with and without content, with and without error; who reads and closes the body |
| `composition/composition_handler.go` | the response | ServeHTTP | which result decides the answer; failed results without content; purge after a failed merge |
| `composition/content_merge.go`, `templating.go` | fragment maps, stylesheets | AddContent, GetHtml | recursive includes, alternative texts after partial output, cycles |
| `composition/html_content_parser.go` | tokenizer position | Parse | nested token loops, uic-remove; head fragments that are rewritten where other requests use them |
| `composition/fetch_definition.go`, `cache/cache_strategy.go` | none | FromRequest, Hash, IsCacheable | which definitions count as the same resource, and share an entry |
| `util/gzip_handler.go` | pool of gzip writers | WriteHeader, Write, Close | deciding once; a pool shared by requests |
| `util/cookie.go`, `util/forwardedhosthandler.go` | none | looking up a cookie, converting a header | nothing |

They meet in `ServeHTTP`: the handler gets a fetcher from a callback, waits for
its results, merges their contents and writes one answer.  Every job of the
fetcher calls a loader; the caching loader shares one cache among all requests;
a failed merge purges that cache.

What makes each correct: the fetcher must ask for everything a page refers to,
once, and hand out nothing that still changes; the cache must stay within its
limits, return from every call and never bring back what it has given up; the
handler must answer each request once, decided by the first result that can.

## Plan

1. `FetchPlan`, `ContentFetcher` (core), `VolatileStore`, `Cache`; their runs and
   proofs.  *Done.*
2. `ContentMerge`; `CachingLoader` and `CompositionHandler` over `VolatileStore`;
   `GzipHandler`; `HtmlContentParser`, the token loops of head, body and
   fragments with uic-remove; their runs and proofs.  *Done.*
3. The priorities of head fragments, with `ParseHeadFragment` rewriting fragments
   that a cache shares (`HeadPriority`); its runs and proofs.  *Done.*
4. `CacheStrategy` and `FetchDefinition`, composed into `CachingLoader` and
   `CompositionHandler`, and the life of response bodies; two requests that must
   not share an entry do not; the proofs of both.  *Done.*
5. Proofs of the handler's `AnswerIsDue`, of the accounting of the cache, of
   `HtmlIsRendering` and of the deduplication of stylesheets.  *Done.*
6. Where the code and its documentation disagree, properties that say exactly what
   the code does (`HtmlIsRendering`, `BodiesAreReleased`, `RemovedIsGone`), and runs
   for the disagreements that matter most.  *Done.*
7. Variables and body attributes in `ContentMerge`.

## Modules

**`ContentFetcher`** models `content_fetcher.go`.  A definition identifies its job:
a second job with an equal hash is never started.  `pc[d]` is the position in the
goroutine of `AddFetchJob`, `answer[d]` and `page[d]` are `Err` and `Content` of
its result, `activeJobs` is the wait group.  One action is one critical section
or one call: `AddFetchJob` (lines 99-113, inside `CallerAdds`, `AddRequired`,
`AddLazy`), `ExpandURL`, `LoadReturns`/`LoadFails`, `AddMeta`, `LookUpDependency`
(the look-up of a name with the factory's answer), `Done`, `WaitReturns`,
`CollectResults`.  A page is reduced to what the fetcher reads of it.  The meta
JSON is a map in which each page overwrites the fields it has (`Overwritten`, lines
200-206); `published` is a history variable, the order in which the pages did so.
A definition that a page asks for need not see that page's value of a field:
another page may have overwritten it before the URL is expanded, which README.md:30
of the package warns of.  What is certain
is `UrlSeesRequesterMeta`: each field of the requester's JSON is there, as the
requester or a page published after it has set it.  Names,
hashes, priorities, the factory and the pages a load may return are constants:
an application.  `sort.Sort` is not stable, so `SortResults` allows every sorted
permutation.

**`FetchPlan`** is what the fetcher promises, over resources known by their hash:
ask once, only because the caller or a settled page says so, settle each, return
when all is settled and all that must be asked for has been.

**`Cache`** models `cache.go` over an LRU list (oldest first).  Every critical
section is one action; `Set` is four (the entry is built before the lock is
taken, stored, the eviction loop runs with the lock held, and it returns), because
it is a question whether the loop ends.  A purge is `PurgeOldEntries` or
`PurgeEntries`, then `Peek`, `RemovePeeked` or `KeepPeeked` for each key, with
gaps between them as in the code.  `targets` is a history variable: the entries a
purge has been called for.  Keys are visited in any order; the code uses that of
a slice.  `Get` promotes what it finds, whatever its age, and answers with it unless
it is too old (`Answer`).  A negative `maxSizeMB` is excluded by
`LimitsAssumption`: with it the first `Set` never returns.  Hit and miss counters
and log lines are left out.

**`VolatileStore`** is what a cache promises: under a key is nothing or what was
put there last; a forgotten or replaced entry never comes back.  `Cache` implements
it with what `Get` would answer for each key: an entry that becomes too old counts
as forgotten, though it stays in the list until a sweep finds it.

**`ContentMerge`** models `content_merge.go`, `templating.go`, `string_fragment.go` and
the stylesheet deduplication: `AddContent` for each page in order, then `GetHtml`.
Executing a fragment pushes a frame onto `stack` with the tokens that are left; an
include pushes another, an error unwinds frames until one of them has an alternative
(`ReturnError`).  A token is a text, a required include, the start of an optional one,
the end of one, or broken. Names are sequences of parts, because the look-up cuts a name
at its `#` (`LookUps`, content_merge.go:183-201).  Fragments may include each other in a
cycle, as nothing in the code keeps them from it; the recursion then goes on until the
stack is exhausted.  Variables and body attributes are left out; priorities are in
`HeadPriority`.

**`HeadPriority`** models the heads of pages that are merged with a priority:
`processMetaPriorityParsing` of `content_merge.go`, `ParseHeadFragment` of
`html_content_parser.go`, and the loop of `GetHtml` that renders them, for several
requests whose contents, and with them the heads, may be the same ones of a cache.
The tags of a head are the positions of the text it was loaded with, since parsing
only takes tags out: `rest` are those still to read, `headBuff` those kept, and
`headPropertyMap` the properties that have been seen.  A tag has the property it
sets, `none` for one that is always kept, and says whether its value is not
empty.  `SetContent` assigns a Go string, two words that no lock protects, one
after the other: another request may find one of them old and one new, and then
has a text of which nothing can be said (`Garbled`).

**`CacheStrategy`** and **`FetchDefinition`** are operators: the digest that tells
requests apart, which responses may be kept, how a definition is made from a
client's request and which of its headers are forwarded.  A URL is the sequence of
its parts, of which one may be a variable; a text is a sequence of symbols.  A
digest is known by the text that is digested, which is the concatenation of method,
URL, names and values with nothing between them, as in cache_strategy.go:85-98: two
requests that differ can have one.  `CachableByDefault` and `Reasons` stand for
`cacheobject`, with the directives of a response and its `Expires`; a header the
library cannot parse is its error, with which nothing is kept (lines 110-113).

**`CachingLoader`** models `cache_loader.go` over the loaders it asks and the
cache, which is `VolatileStore` through INSTANCE: entries expire, are evicted or
invalidated at any time (`CacheForgets`).  A job is the `Load` of one goroutine;
`Load` looks into the cache, `LoadReturns` is what came back (twelve kinds of
responses, files included), `ReadStream` copies a stream into memory,
`SetContent` stores, under the hash of the definition with its URL expanded
(`StoreHash`), while the result has that of the definition as it was added
(`HashAsAdded`).  `body` follows the body of a response or a file: it is closed once
its page is parsed or its stream forwarded, open as long as somebody has still to
read it, and drained when it has been read into memory, which nobody follows by a
`Close` (cache_loader.go:40).  Reading a response to its end gives its connection
back, reading a file does not (`Holds`).

**`CompositionHandler`** models `composition_handler.go`: `ServeHTTP` of several
requests over the loads of `CachingLoader`, whose variables it shares.  The
fetcher is reduced to its result, an ordered list of jobs per request, and
merging to whether it succeeds.  One action is one result in the loop or one
return: `AnswerEmpty`, `AnswerHead`, `Forward30x`, `ForwardStream`, `AddContent`,
`AnswerError`, `SkipOptional`, `Compose`, and `PurgeEntry` for each result of a
failed merge, if the handler has been given the cache (`HasCache`; without one it
purges nothing).  Reading a `Content` that is nil is the answer `Panic`.

**`GzipHandler`** models `gzip_handler.go`.  The handler inside is any program:
it sets headers once, writes, and ends.  `SendPlain` and `TakeWriter` are the two
branches of the first `WriteHeader`, explicit or by `Write`; `ResetWriter` is
apart from `TakeWriter`, because the writer still knows its last request in
between; `CloseWriter` and `PutWriter` are apart, because the pool is shared.
What is written is a sequence of pieces that name their request, of which the
gzip writer keeps any suffix until it is closed.  `pool` starts with every writer
`sync.Pool` can give, the new ones included.

**`HtmlContentParser`** models `Parse` of `html_content_parser.go` together with the
page it reads, which is any well nested one with a head and a body at most and no
fragment in another, as README.md of the package asks for.  `open` is the stack of the
page's open elements; `home` records for each item, a text or an element without content
that the parser treats in its own way, in which part of the page it stands or that it is
to be removed; an include in a fragment that is marked itself is told apart (`marked`),
since the code keeps it.  `mode` is the token loop that runs, `buffer` holds the buffers
of the loops that have been entered, and `depth` is the counter of
`skipSubtreeIfUicRemove`.  One action is one token in one loop: `SkipItem`,
`SkipElement` and `SkipEnd` in the subtree that is skipped, `RemoveItem` and
`RemoveElement` where it starts, `WriteItem`, `WriteElement` and `WriteEnd` for what a
loop copies, `StartHead` to `EndFragment` for what it has a case for.  All loops that
run end with the input (`EndOfInput`) or with an error (`ParsingFails`).  The names of
attributes and the text of directives are left out; a directive whose `src` has a
percent sign is, too (see below).

**`Rendering`** is what the code makes of the pages as a function of them, without
stack, buffers or errors that unwind: a fragment becomes the texts of its template
with `Named` at each include (`RenderNext`), a name stands for the fragment of the
page that registered it last (`Provider`), an optional include that fails is what it
has written so far with the text of the alternative behind it (`Or`), the header is
all heads (`HeaderOf`), the body the layout and all tails (`BodyOf`).  It assumes
ranks (`AcyclicAssumption`): with a cycle of includes there is nothing the pages
become.  `HtmlIsRendering` compares `ContentMerge` with it, and `IInv` relates the
two while GetHtml runs.  It is the code's page, not the one the documentation
promises: the alternative is not executed and does not replace what was written
(see the divergences below).

**`Inductions`** holds lemmas about natural numbers and ranks that the proofs
share.  The `MC` modules hold the small instances, the modules ending in `Proofs`
the theorems.

## Runs

| Run | Shows | Instance |
|---|---|---|
| FetcherSafety | every interleaving keeps the results complete, settled and visible only after Wait, and implements `FetchPlan`; Wait returns unless a load without timeout never does; `IInv` | five definitions: two pages that include the same lazy content with different parameters, a uic-fetch with priority, a cycle, a malformed URL in a lazy definition, a name nobody provides, a load without timeout |
| CacheSafety | accounting, both limits, survival of the new entry, complete purges, `VolatileStore` for what `Get` answers; every Set and purge returns; `IInv` | three keys, a setter, a purger; a cache of two entries and three bytes |
| MergeSafety | the page is what `Rendering` says, fails exactly if it must, the recursion follows the includes, has the stylesheets of all it shows, and is finished; `IInv` | up to four of five pages in any order: a layout and two pages of one name, fragments that wrap, fail half way, are broken or missing |
| HandlerSafety | what is cached can be served to all, and only to who asks for the same; streams are whole, the first result that decides is the answer, failed merges are purged; behind an answer exactly those connections and files are held that the code forgets to close; `IInv` | five requests: a page that a client with a session asks for and a teaser of the same URL that may be refused, the teaser alone, a file that cannot be opened or breaks off, a HEAD request whose URL cannot be expanded, and nothing |
| ParserSafety | what is to be removed is, but for marked includes of fragments, everything else arrives in the fragment it belongs to, on each page and wherever it is cut off; `IInv` | one item of any kind among plain elements, fragments of two names and tails, five elements deep |
| GzipSafety | each client gets what its handler wrote, as announced; no writer is lost or shared; `IInv` | two requests that accept gzip, one that does not, two writers, four kinds of headers, two pieces |
| HeadSafety | a property that repeats is taken from the highest head that has a value for it, nothing but repeats is dropped; `IInv` | every head of one or two out of four tags for a page and a navigation of one priority, of three tags for a layout of a lower one; a request of its own without priorities |
| FetcherNameLost, CacheSweep, HandlerPurge, HandlerCollision, HeadShared | the findings below | as small as shows them |

Bounds: `MaxSets` is the number of entries ever built: with three, an entry can be
replaced, evicted by count and evicted by size while a purge looks at it. `MaxTime` = 2
with `MaxAge` = 1 lets an entry be young, at the age limit and expired, and to be
refused by `Get` before a sweep may take it.  One setter is enough to meet the purger
between any two of its steps; two of them at a time are covered by the proofs.
`MaxWrites` = 2 lets a writer keep one piece while another comes, and two writers for
two requests let each get either, new or used.  `MaxItems` = 1 and `MaxDepth` = 5: the
items of a page do not interact in the parser, all others are markup to the one that is
followed, and below page, body and fragment there is room for an element to be removed
with two more in it.  Two items, two names and a depth of four pass as well, in some
minutes; the proofs cover all pages.  Fetcher, merge and handler instances are finite by
themselves.  The fetcher's properties relate a parent, its child and a competitor; the
merge's a fragment, the one it includes and one that overrides it; the handler's two
requests that meet in one entry, or must not; the heads' two that set a property and one
above or below. Two purges at the same time are covered by the proof only.

Fairness: goroutines are scheduled (weak fairness on the caller and on the steps
of each job); a load returns if its definition has a timeout, because
`http.Client` then gives up.  The cache assumes that whoever is inside `Set` or a
purge goes on and eventually gets the lock.  Merging is one goroutine, and goes
on.  The handler and the rest are checked for safety, and for deadlock.

## Findings

- *FetcherNameLost*: a uic-fetch of a URL that is scheduled under another name is
  dropped (content_fetcher.go:104), so it cannot be referenced by its own name as
  README.md:255 says.
- *CacheSweep*: the sweep removes what a key holds after it has looked at an
  expired predecessor (cache.go:148-157), also a fresh entry.
- *HandlerPurge*: a failed merge purges the hash of the definition as it was
  added; the loader stores under that of its copy with the expanded URL
  (content_fetcher.go:127-129), so with a template the entry stays.
- *HandlerCollision*: two requests for one URL, with the cookies `shop=s2` and
  `shops=2`, are digested to one hash, because nothing separates the pieces
  (cache_strategy.go:85-98); one is answered with what the other's cookie led to.
  fetch_definition.go:143-144 says that definitions of equal hashes refer to the same
  resource.  Of a header only the first value is digested, and of the request no
  body, so there are more of this kind.
- *HeadShared*: the text of a head that has been parsed is what its duplicates left
  of it (html_content_parser.go:391).  The fragment belongs to the cached content:
  a teaser that was merged with a page of a higher priority has lost its title for
  every later request, also for one that merges it alone, although
  fetch_definition.go:96 speaks of a collision of fetches.  While the string is
  being assigned, another request may read it torn; the run looks at pages that
  did not.

Divergences met while modelling, which the models follow; the properties named say
what the code does instead, exactly where that is possible:

- content_fetcher.go:77-79 says that jobs end with an error result.  A URL that cannot
  be expanded, a file that cannot be opened and a file with a response processor leave
  a result without `Content`, which the handler dereferences
  (composition_handler.go:148, 160, 179, 219-222).  `AnswerIsDue` says when the
  handler panics: if such a result is required and the first to decide, or if nothing
  decides and there is one.
- http_content_loader.go:103 closes a body "to make reuse of tcp connections"; after a
  bad status or a processor's error nobody does (lines 84-92), nor for a stream that is
  not the answer, nor for a file that is read into the cache (cache_loader.go:40).
  `BodiesAreReleased` says that these are all the cases.
- README.md:208-209 of the package says an optional include is replaced by its
  alternative if an error occurs; what the fragment has written before stays in the
  page, in front of the alternative (templating.go:43-44).  templating.go:24 says the
  alternative text is executed; it is written as it stands, with the directives in it
  (line 44).  `HtmlIsRendering` has both as the code does.
- README.md:39 and 50 of the package let uic-remove stand everywhere; an include
  inside a fragment that is marked is kept, and loaded
  (html_content_parser.go:229-246 comes before the check).  `RemovedIsGone` says that
  this is the only exception.
- README.md:29 of the package calls the order of the caller's definitions
  deterministic; a running job can append one of the same hash before the caller
  does (content_fetcher.go:104-110).
- README.md:235 of the package promises that a dependency is loaded only if its
  name is new; the name is checked in one critical section
  (content_fetcher.go:151-153) and scheduled in a later one (163), so two pages
  that include one name with different parameters can get both contents loaded.
- content_merge.go:264 speaks of removing duplicate tags; a head of which every tag
  repeats keeps its text (html_content_parser.go:390).  `HighestPriorityWins`
  speaks of the other heads.
- interfaces.go:59 says a content has the name given in the fetch definition; one
  from the cache has the name of the definition that loaded it.
- fetch_definition.go:187 says the default handler answers with 502; it gets the
  status of the content, which is 200 for a page that cannot be parsed or that
  breaks off (composition_handler.go:222).
- README.md:255 of the package speaks of fetching a `uic-fetch`; inside a fragment
  there is no case for it, so it stays in the text and is never fetched
  (html_content_parser.go:228-251).  `EverythingIsHome` takes it as text there.
- html_content_parser.go:234 writes the directive of an include with
  `fmt.Fprintf` and no arguments, so a percent sign in its `src` is garbled and
  the merger does not find the dependency.
- gzip_handler.go:34-35 compresses "if the client supports it"; an
  `Accept-Encoding` of `gzip;q=0` counts as support (line 115).

## Proofs

`ContentFetcherProofs` proves `Spec => []IInv` and from it type correctness,
`NoJobOutlivesWait`, `NoAnswerMissing`, `ReferencesResolved`,
`UrlSeesRequesterMeta`, `SettledAfterWait`, and that the fetcher implements
`FetchPlan`, for every application that satisfies the four assumptions of the
module.  `IInv` is needed because the safety properties speak of the end: it says
what the jobs in flight still owe.  A page's reference is a result already, or in
the list its job has still to add (`ReferencesAreHandled`); the wait group is the
number of live jobs (`JobsAreCounted`), so zero means none; each result was
brought in by a page that had published its meta data
(`RequestersHavePublished`), and what was published is in the meta JSON unless a later
page has changed it (`MetaIsPublished`).

`CacheProofs` proves `Spec => []IInv`, type correctness, `SizeIsAccounted`,
`WithinLimits`, `NewEntrySurvives`, `PurgeIsComplete` and the refinement of
`VolatileStore`, for all keys, sizes, limits and goroutines.  For the purges, the
strengthening is `TargetsAreAhead` (a target still in the list is yet to be
visited or has been peeked) and `IdentitiesAreFresh`.  The byte counter is the
sum over the list: what appending, removing from the middle and moving to the end
do to that sum is proved by induction (`PartialSums`), so the counter is never
negative, which is part of the type.  `NewEntryIsNewest` says that the entry of
the `Set` that runs is the last of the list; while the list is over its limit and
that entry fits, there is an older one to evict.  For the same reason each turn
of the eviction loop removes an entry, `EvictionsShorten`: the loop never meets an
empty list, whatever the sizes.

`ContentMergeProofs` proves `Spec => []IInv`, type correctness, `DepthIsBounded`,
`StylesCoverContent` and `HtmlIsRendering`, for all pages, templates and both
strategies.  `MergeIsSound` says that the frames on the stack are suffixes of
templates (`FramesAreParts`) of fragments whose stylesheets have been collected
(`FramesAreStyled`), each asked for by the template below it (`IncludesNest`).
So a stack that is higher than there are fragments holds one of them twice, and the
frames between are a cycle of includes: `DepthIsBounded`, which assumes that the
fragments are finitely many and nothing about cycles (`SoundInvariant` does without
ranks).  The simple strategy keeps the href of every stylesheet, by induction over
the list.

For `HtmlIsRendering` the invariant relates the machine with the reference
between any two of its steps.  `AddedAreRegistered`: of the pages added so far, the
last to register a name has it.  `InStep`: for each template being executed there
is a place in the buffer where it began, and what was there before with the whole
of the template behind it is what is there now with what is still to be rendered
behind it (`Agree`); an error that unwinds leaves nothing to be rendered but a
failure.  A step changes the innermost template, or lays one upon it, or takes one
off, and the proof follows `Agree` through each of these; the other templates are
as they were, because the buffer only grows.  No page is
exempt: a block that fails after it has written something is rendered as the code
leaves it.  That the reference is
defined at all is a theorem too (`RenderedIs`), by recursion over the ranks of
fragments and the lengths of templates, which is what the ranks are for.  The theorem
assumes `NamesAreDistinct`: no
page has a name that begins with `#`.  With such a name a page may register two
fragments under one key, and which one it is depends on the order of a Go map.

`CompositionHandlerProofs` proves `Spec => []IInv`, type correctness, `CacheIsServable`,
`StreamsAreWhole`, `AnswerIsDue`, and `FailedMergeIsPurged` for definitions whose URLs
are literal (`UrlsAreLiteral`; with a template it is false, see *HandlerPurge*), for any
number of requests, definitions and responses and with a cache that forgets at any time.
The strengthening says what a load has at each of its positions (`LoadIsSound`), that
what was stored was complete and belongs to a finished load (`EntryIsSound`), that a
content is the job's own or one from the cache for the same URL (`ContentIsSound`), and
that an unwrapped reader is unread until its own request has been answered
(`ReaderIsUnread`). `PassedIsPurged` is the loop invariant of the purge: nothing can put
an entry back, since an entry is stored only by the load it belongs to.
`BodiesAreReleased` follows from `BodyIsSound`, which says what has become of a body at
each position of its load.  `CachedIsOwn` is not proved: it is false in general
(*HandlerCollision*), and with the hypothesis that no two hashes collide there would be
nothing left to prove; *HandlerSafety* checks it for an instance whose requests differ
in a cookie that is part of the digest.  All of this is `RequestsAreSound`;
`LoopIsSound`, on top of it, is the invariant of the loop over the results: none that
has been passed decides the answer (`NoneDecides`), and what has been kept for merging
is what has succeeded so far (`SucceededUpTo`).  From it `AnswerIsDue` follows,
whichever result the loop returns at.

`HeadPriorityProofs` proves `Spec => []IInv`, type correctness,
`HighestPriorityWins` and `OnlyRepeatsAreDropped`, for any heads, priorities and
requests.  The strengthening says, for a request that shares no head, that after
n tags the buffer has those of them that do not repeat and the map what the heads
above and these n have a value for (`IsReadUpTo`), and that each head above has
been reduced to what does not repeat in it while those below are as they were
loaded (`TextIsSound`).

`GzipHandlerProofs` proves `Spec => []IInv`, type correctness,
`ClientReadsWhatWasWritten`, `CompressedAsAnnounced` and `WritersAreKept`, for any
number of requests, writers and pieces.  The strengthening is `OutputIsSound`:
what the client has, followed by what its writer keeps, is what was written; it
survives the steps of others because a writer has one holder.

`HtmlContentParserProofs` proves `Spec => []IInv`, type correctness, `RemovedIsGone`,
`EverythingIsHome` and `DirectivesAreDependencies`, for pages of any size and depth.
The strengthening says that the elements `depth` counts are those to be removed
(`SkippedIsRemoved`), that the innermost other one belongs to the part the loop reads
(`LoopIsWherePageIs`, by `PageIsNested`), and that each item is in the buffer or the
fragment of its part (`ItemsAreHeld`), for which it matters when buffers are empty and
which fragments exist (`BuffersAreFresh`, `FragmentsAreStarted`).  `MarkedAreFollowed`
follows a marked include of a fragment into the dependencies.

`Inductions` has what these proofs need of the natural numbers: induction up to a
bound, the existence of iterates (`Iteration`), of partial sums, and of functions
that are defined by recursion over a rank (`RankedRecursion`).  They are proved
from the well-foundedness of the order of the naturals, with a set in the place of
the predicate, which the provers can instantiate.

Only model-checked: `CachedIsOwn`, for the reason given above, and the liveness
properties `Terminates`, `CallsReturn` and `GetHtmlReturns`, since fairness is out of
the provers' reach.  Every other invariant that a passing run checks is proved; four of the
results have a hypothesis about the constants, which are finitely many fragments
(`DepthIsBounded`), `AcyclicAssumption` and `NamesAreDistinct` (`HtmlIsRendering`
and the `IInv` of merging) and `UrlsAreLiteral` (`FailedMergeIsPurged`).

## Not modelled

Of the merging, variables and the attributes of the body tag; of the cache, the counters
that are only logged (the sweep reads them without the lock); of the parser, the text of
attributes and directives; of the cache strategy, the reasons the external library finds
beyond those `Reasons` has.  md5 is taken for injective on what is digested.  Of the
gzip handler, errors of writing and responses without a body (204, 304).  `HeadPriority`
has each fragment once in a request: two definitions that load one cached content for
one page are left out.  Header conversions, service discovery, the example service and
generated mocks have no state of their own and are left out.
