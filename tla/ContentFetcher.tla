--------------------------- MODULE ContentFetcher ---------------------------
(***************************************************************************)
(* composition/content_fetcher.go: fetching a set of pages in parallel.    *)
(*                                                                         *)
(* One goroutine, the caller, adds the fetch definitions of a request and  *)
(* waits for the results.  Every definition that is added gets a job, a    *)
(* goroutine that expands the URL template, loads the page, publishes its  *)
(* meta data and adds the definitions the page requires (uic-fetch) and    *)
(* the dependencies nobody has scheduled yet (uic-include with parameters, *)
(* resolved by the lazy factory).  The mutexes of the fetcher make         *)
(* AddFetchJob, the look-up of a dependency's name, the expansion of a     *)
(* template and addMeta atomic; everything between them interleaves.       *)
(*                                                                         *)
(* Jobs are identified by their definition: a second job for an equal      *)
(* definition cannot exist, because its hash is already scheduled.         *)
(***************************************************************************)
EXTENDS Integers, Sequences, FiniteSets

CONSTANTS
    Defs,           \* the fetch definitions of the application
    Names,          \* their names
    Hashes,         \* the values FetchDefinition.Hash returns
    Params,         \* the parameter maps of uic-include
    MetaKeys, MetaValues,   \* the keys and values of the meta JSON
    Name, Hash, Priority,   \* attributes of a definition
    Initial,        \* the definitions the caller adds, in order
    InitialMeta,    \* defaultMetaJSON
    Pages,          \* the pages a load of a definition may return
    LazyFd,         \* the FetchDefinitionFactory: (name, params) -> definition
    NoFd,           \* the factory's "not existing" (or its error)
    MalformedURL,   \* definitions whose URL template does not expand
    NoTimeout       \* definitions whose load may never return

(* A loaded page, reduced to what the fetcher reads of it: the definitions *)
(* of its uic-fetch tags in the order RequiredContent returns them (that   *)
(* of a map: any), its dependencies (a map from names to parameters) and   *)
(* its meta JSON.                                                          *)
MetaJSON == UNION {[S -> MetaValues] : S \in SUBSET MetaKeys}

Page == [required : Seq(Defs),
         dependencies : UNION {[S -> Params] : S \in SUBSET Names},
         meta : MetaJSON]

NoPage == [required |-> << >>, dependencies |-> << >>, meta |-> << >>]

ASSUME AttributesAssumption ==
    /\ Name \in [Defs -> Names]
    /\ Hash \in [Defs -> Hashes]
    /\ Priority \in [Defs -> Int]

ASSUME CallerAssumption ==
    /\ Initial \in Seq(Defs)
    /\ InitialMeta \in MetaJSON

\* content_fetcher.go:32: the factory returns a definition of the name it got.
ASSUME FactoryAssumption ==
    /\ LazyFd \in [Names \X Params -> Defs \cup {NoFd}]
    /\ NoFd \notin Defs
    /\ \A n \in Names, p \in Params :
          LazyFd[<<n, p>>] # NoFd => Name[LazyFd[<<n, p>>]] = n

ASSUME LoadAssumption ==
    /\ Pages \in [Defs -> SUBSET Page]
    /\ MalformedURL \subseteq Defs
    /\ NoTimeout \subseteq Defs

-----------------------------------------------------------------------------
VARIABLES
    caller,         \* what the caller is doing
    toAdd,          \* the definitions it has still to add
    results,        \* fetcher.r.results, by definition
    sheduledFetchDefinitionNames,
    activeJobs,     \* the counter of the WaitGroup
    meta,           \* fetcher.meta.json
    published,      \* history: the definitions in the order of their addMeta
    pc,             \* where the job of each definition is
    answer,         \* Err and Content of the job's FetchResult
    page,           \* the page the job has loaded
    seen,           \* the meta JSON its URL was expanded with
    required,       \* the required definitions it has still to add
    dependencies,   \* the dependency names it has still to look up
    lazyFd          \* the definition it got from the factory and will add

fetcher == <<results, sheduledFetchDefinitionNames, activeJobs>>
jobs    == <<answer, page, seen, required, dependencies, lazyFd>>
metas   == <<meta, published>>
vars    == <<caller, toAdd, fetcher, metas, pc, jobs>>

Phases  == {"none", "expand", "load", "meta", "children", "returning", "ended"}
Answers == {"not fetched", "loaded", "failed"}

Init ==
    /\ caller = "adding"
    /\ toAdd = Initial
    /\ results = << >>
    /\ sheduledFetchDefinitionNames = {}
    /\ activeJobs = 0
    /\ meta = InitialMeta
    /\ published = << >>
    /\ pc = [d \in Defs |-> "none"]
    /\ answer = [d \in Defs |-> "not fetched"]
    /\ page = [d \in Defs |-> NoPage]
    /\ seen = [d \in Defs |-> << >>]
    /\ required = [d \in Defs |-> << >>]
    /\ dependencies = [d \in Defs |-> {}]
    /\ lazyFd = [d \in Defs |-> NoFd]

\* Faulty variant: only jobs that still run are looked at.
isAlreadyRunning(d) ==
    \E i \in DOMAIN results :
       Hash[results[i]] = Hash[d] /\ pc[results[i]] # "ended"

isAlreadyScheduled(d) == \E i \in DOMAIN results : Hash[results[i]] = Hash[d]

\* Faulty variant: only the caller's jobs are counted.
AddFetchJobUncounted(d) ==
    IF isAlreadyScheduled(d)
    THEN UNCHANGED <<fetcher, pc>>
    ELSE /\ activeJobs' = activeJobs + (IF caller = "adding" THEN 1 ELSE 0)
         /\ results' = Append(results, d)
         /\ sheduledFetchDefinitionNames' =
                sheduledFetchDefinitionNames \cup {Name[d]}
         /\ pc' = [pc EXCEPT ![d] = "expand"]

(* AddFetchJob: one critical section of r.mutex.  The new goroutine starts *)
(* with expanding its URL; the counter is raised before it exists.         *)
AddFetchJob(d) ==
    IF isAlreadyScheduled(d)
    THEN UNCHANGED <<fetcher, pc>>
    ELSE /\ activeJobs' = activeJobs + 1
         /\ results' = Append(results, d)
         /\ sheduledFetchDefinitionNames' =
                sheduledFetchDefinitionNames \cup {Name[d]}
         /\ pc' = [pc EXCEPT ![d] = "expand"]

-----------------------------------------------------------------------------
(* The caller.                                                             *)

CallerAdds ==
    /\ caller = "adding" /\ toAdd # << >>
    /\ AddFetchJob(Head(toAdd))
    /\ toAdd' = Tail(toAdd)
    /\ UNCHANGED <<caller, metas, jobs>>

CallerWaits ==
    /\ caller = "adding" /\ toAdd = << >>
    /\ caller' = "waiting"
    /\ UNCHANGED <<toAdd, fetcher, metas, pc, jobs>>

\* Faulty variant: Wait is off by one.
WaitReturnsEarly ==
    /\ caller = "waiting" /\ activeJobs <= 1
    /\ caller' = "collecting"
    /\ UNCHANGED <<toAdd, fetcher, metas, pc, jobs>>

WaitReturns ==
    /\ caller = "waiting" /\ activeJobs = 0
    /\ caller' = "collecting"
    /\ UNCHANGED <<toAdd, fetcher, metas, pc, jobs>>

hasPrioritySetting == \E i \in DOMAIN results : Priority[results[i]] > 0

SortedByPriority(s) ==
    \A i, j \in DOMAIN s : i < j => Priority[s[i]] <= Priority[s[j]]

(* sort.Sort promises the order and a permutation, not stability.          *)
SortResults ==
    \E p \in [DOMAIN results -> DOMAIN results] :
       /\ \A i \in DOMAIN results : \E j \in DOMAIN results : p[j] = i
       /\ results' = [i \in DOMAIN results |-> results[p[i]]]
       /\ SortedByPriority(results')

CollectResults ==
    /\ caller = "collecting"
    /\ IF hasPrioritySetting THEN SortResults ELSE results' = results
    /\ caller' = "returned"
    /\ UNCHANGED <<toAdd, sheduledFetchDefinitionNames, activeJobs,
                   metas, pc, jobs>>

-----------------------------------------------------------------------------
(* The job of definition d.                                                *)

ExpandURL(d) ==
    /\ pc[d] = "expand"
    /\ d \notin MalformedURL
    /\ seen' = [seen EXCEPT ![d] = meta]
    /\ pc' = [pc EXCEPT ![d] = "load"]
    /\ UNCHANGED <<caller, toAdd, fetcher, metas, answer, page, required,
                   dependencies, lazyFd>>

ExpandURLFails(d) ==
    /\ pc[d] = "expand"
    /\ d \in MalformedURL
    /\ pc' = [pc EXCEPT ![d] = "returning"]
    /\ UNCHANGED <<caller, toAdd, fetcher, metas, jobs>>

LoadReturns(d) ==
    /\ pc[d] = "load"
    /\ \E content \in Pages[d] :
          /\ page' = [page EXCEPT ![d] = content]
          /\ answer' = [answer EXCEPT ![d] = "loaded"]
          /\ pc' = [pc EXCEPT ![d] = "meta"]
    /\ UNCHANGED <<caller, toAdd, fetcher, metas, seen, required,
                   dependencies, lazyFd>>

\* Faulty variant: the error is kept in a variable of the job.
LoadFailsUnrecorded(d) ==
    /\ pc[d] = "load"
    /\ pc' = [pc EXCEPT ![d] = "returning"]
    /\ UNCHANGED <<caller, toAdd, fetcher, metas, jobs>>

LoadFails(d) ==
    /\ pc[d] = "load"
    /\ answer' = [answer EXCEPT ![d] = "failed"]
    /\ pc' = [pc EXCEPT ![d] = "returning"]
    /\ UNCHANGED <<caller, toAdd, fetcher, metas, page, seen, required,
                   dependencies, lazyFd>>

\* The names the page of d depends on.
DependencyNames(d) == DOMAIN page[d].dependencies

\* The definition the factory has for a dependency, or NoFd.
Lazily(d, n) == LazyFd[<<n, page[d].dependencies[n]>>]

\* Faulty variant: the meta data of the page replaces what was there.
OverwrittenWhole(json, data) == data

\* Faulty variant: a field that is there is kept.
OverwrittenOnce(json, data) ==
    [k \in DOMAIN json \cup DOMAIN data |->
       IF k \in DOMAIN json THEN json[k] ELSE data[k]]

\* The meta JSON with the fields of a page: a field it has is overwritten.
Overwritten(json, data) ==
    [k \in DOMAIN json \cup DOMAIN data |->
       IF k \in DOMAIN data THEN data[k] ELSE json[k]]

AddMeta(d) ==
    /\ pc[d] = "meta"
    /\ meta' = Overwritten(meta, page[d].meta)
    /\ published' = Append(published, d)
    /\ required' = [required EXCEPT ![d] = page[d].required]
    /\ dependencies' = [dependencies EXCEPT ![d] = DependencyNames(d)]
    /\ pc' = [pc EXCEPT ![d] = "children"]
    /\ UNCHANGED <<caller, toAdd, fetcher, answer, page, seen, lazyFd>>

AddRequired(d) ==
    /\ pc[d] = "children" /\ required[d] # << >>
    /\ AddFetchJob(Head(required[d]))
    /\ required' = [required EXCEPT ![d] = Tail(@)]
    /\ UNCHANGED <<caller, toAdd, metas, answer, page, seen, dependencies,
                   lazyFd>>

\* Faulty variant: a name nobody provides is looked up again and again.
LookUpUntilFound(d) ==
    /\ pc[d] = "children" /\ required[d] = << >> /\ lazyFd[d] = NoFd
    /\ \E n \in dependencies[d] :
          LET known == n \in sheduledFetchDefinitionNames
              fd    == Lazily(d, n)
          IN  /\ dependencies' = [dependencies EXCEPT ![d] =
                    IF known \/ fd # NoFd THEN @ \ {n} ELSE @]
              /\ lazyFd' = [lazyFd EXCEPT ![d] = IF known THEN NoFd ELSE fd]
    /\ UNCHANGED <<caller, toAdd, fetcher, metas, pc, answer, page, seen,
                   required>>

(* The name is looked up in a critical section of its own; the factory is  *)
(* called, and its definition added, after the mutex has been released.    *)
LookUpDependency(d) ==
    /\ pc[d] = "children" /\ required[d] = << >> /\ lazyFd[d] = NoFd
    /\ \E n \in dependencies[d] :
          /\ dependencies' = [dependencies EXCEPT ![d] = @ \ {n}]
          /\ lazyFd' = IF n \in sheduledFetchDefinitionNames THEN lazyFd
                       ELSE [lazyFd EXCEPT ![d] = Lazily(d, n)]
    /\ UNCHANGED <<caller, toAdd, fetcher, metas, pc, answer, page, seen,
                   required>>

AddLazy(d) ==
    /\ pc[d] = "children" /\ lazyFd[d] # NoFd
    /\ AddFetchJob(lazyFd[d])
    /\ lazyFd' = [lazyFd EXCEPT ![d] = NoFd]
    /\ UNCHANGED <<caller, toAdd, metas, answer, page, seen, required,
                   dependencies>>

\* Faulty variant: the job does not wait for its look-ups.
JobIsOverEarly(d) ==
    pc[d] = "returning" \/ (pc[d] = "children" /\ required[d] = << >>)

JobIsOver(d) ==
    \/ pc[d] = "returning"
    \/ /\ pc[d] = "children"
       /\ required[d] = << >> /\ dependencies[d] = {} /\ lazyFd[d] = NoFd

(* The deferred activeJobs.Done().                                         *)
Done(d) ==
    /\ JobIsOver(d)
    /\ activeJobs' = activeJobs - 1
    /\ pc' = [pc EXCEPT ![d] = "ended"]
    /\ UNCHANGED <<caller, toAdd, results, sheduledFetchDefinitionNames,
                   metas, jobs>>

-----------------------------------------------------------------------------
Caller == CallerAdds \/ CallerWaits \/ WaitReturns \/ CollectResults

Load(d) == LoadReturns(d) \/ LoadFails(d)

JobStep(d) ==
    \/ ExpandURL(d) \/ ExpandURLFails(d)
    \/ AddMeta(d) \/ AddRequired(d)
    \/ LookUpDependency(d) \/ AddLazy(d)
    \/ Done(d)

\* The results have been handed out: nothing is left to do.
Returned == caller = "returned" /\ UNCHANGED vars

Next == Caller \/ (\E d \in Defs : JobStep(d) \/ Load(d)) \/ Returned

(* Goroutines are scheduled fairly.  A load returns by its timeout, if the *)
(* definition has one: a http.Client with Timeout 0 waits for ever.        *)
Fairness ==
    /\ WF_vars(Caller)
    /\ \A d \in Defs : WF_vars(JobStep(d))
    /\ \A d \in Defs \ NoTimeout : WF_vars(Load(d))

Spec == Init /\ [][Next]_vars
FairSpec == Spec /\ Fairness

-----------------------------------------------------------------------------
(* Type invariant.                                                         *)
TypeOK ==
    /\ caller \in {"adding", "waiting", "collecting", "returned"}
    /\ toAdd \in Seq(Defs)
    /\ results \in Seq(Defs)
    /\ sheduledFetchDefinitionNames \subseteq Names
    /\ activeJobs \in Nat
    /\ meta \in MetaJSON
    /\ published \in Seq(Defs)
    /\ pc \in [Defs -> Phases]
    /\ answer \in [Defs -> Answers]
    /\ page \in [Defs -> Page]
    /\ seen \in [Defs -> MetaJSON]
    /\ required \in [Defs -> Seq(Defs)]
    /\ dependencies \in [Defs -> SUBSET Names]
    /\ lazyFd \in [Defs -> Defs \cup {NoFd}]

Scheduled == {results[i] : i \in DOMAIN results}
Live(d)   == pc[d] \notin {"none", "ended"}
Settled(d) == pc[d] \in {"meta", "children", "returning", "ended"}

(* No job is running, and none will be started, once Wait has returned:    *)
(* the handler reads the results and the meta map without any lock.  This  *)
(* needs every child to be counted before its parent's Done.               *)
NoJobOutlivesWait ==
    caller \in {"collecting", "returned"} => \A d \in Defs : ~Live(d)

(* Every result handed out was really tried: only a definition whose URL   *)
(* does not expand still says "not fetched".                               *)
NoAnswerMissing ==
    caller = "returned" =>
       \A d \in Scheduled : answer[d] = "not fetched" => d \in MalformedURL

RequiredBy(d) == {page[d].required[i] : i \in DOMAIN page[d].required}

LazyBy(d) == {r \in Defs : \E n \in DependencyNames(d) : Lazily(d, n) = r}

\* There is a result for the resource that definition r refers to.
IsResult(r) == \E e \in Scheduled : Hash[e] = Hash[r]

(* All that a loaded page refers to has a result, be it a content or an    *)
(* error: the URL of every uic-fetch, and for every dependency one of its  *)
(* name, or of the definition the factory had for it, if it had one.       *)
ReferencesResolved ==
    caller = "returned" =>
       \A d \in Scheduled :
          /\ \A r \in RequiredBy(d) : IsResult(r)
          /\ \A n \in DependencyNames(d) :
                \/ \E e \in Scheduled : Name[e] = n
                \/ Lazily(d, n) = NoFd
                \/ IsResult(Lazily(d, n))

References(g, d) == d \in RequiredBy(g) \cup LazyBy(g)

IsInitial(d) == \E i \in DOMAIN Initial : Initial[i] = d

Published(g) == \E i \in DOMAIN published : published[i] = g

\* The pages that were published with or after that of g.
NotBefore(g) ==
    {published[i] : i \in {j \in DOMAIN published :
                             \E b \in DOMAIN published :
                                b <= j /\ published[b] = g}}

\* The JSON has each field of the page of g as g or a later page has set it.
HoldsMetaOf(json, g) ==
    \A k \in DOMAIN page[g].meta :
       /\ k \in DOMAIN json
       /\ \E h \in NotBefore(g) :
             k \in DOMAIN page[h].meta /\ json[k] = page[h].meta[k]

(* The URL template of a definition is expanded with the meta data of a    *)
(* page that brought it in, or of pages published after that one: addMeta  *)
(* comes before addDependentFetchJobs, and the last writer of a field      *)
(* wins.  A default, or a page from before, is never what it sees.         *)
UrlSeesRequesterMeta ==
    \A d \in Scheduled :
       \/ IsInitial(d)
       \/ d \in MalformedURL \/ pc[d] = "expand"
       \/ \E g \in Scheduled :
             References(g, d) /\ Published(g) /\ HoldsMetaOf(seen[d], g)

(* What Wait has announced as finished does not change any more, except    *)
(* for the order of the results.                                           *)
SettledAfterWait ==
    [][(caller \in {"collecting", "returned"}) =>
          Scheduled' = Scheduled /\ UNCHANGED <<meta, answer, page>>]_vars

(* WaitForResults returns, unless a load without timeout never does.       *)
Terminates ==
    \/ <>(caller = "returned")
    \/ <>[](\E d \in NoTimeout : pc[d] = "load")

-----------------------------------------------------------------------------
(* The fetcher implements the plan it promises.                            *)
Asked == {Hash[d] : d \in Scheduled}

Answered == {Hash[d] : d \in {e \in Defs : Settled(e)}}

Requires == UNION {{Hash[d]} \X {Hash[e] : e \in RequiredBy(d)} : d \in Defs}

LeadsTo ==
    UNION {{Hash[d]} \X {Hash[e] : e \in RequiredBy(d) \cup LazyBy(d)} :
              d \in Defs}

Plan == INSTANCE FetchPlan WITH
    asked   <- Asked,
    settled <- Answered,
    must    <- Requires,
    may     <- LeadsTo,
    phase   <- CASE caller = "adding"  -> "open"
                 [] caller = "waiting" -> "closed"
                 [] OTHER              -> "returned"

(* The refinement: each resource is asked for once, only by the caller or  *)
(* a loaded page, and Wait returns only when all is asked and settled.     *)
ImplementsPlan == Plan!Spec

-----------------------------------------------------------------------------
(* The inductive invariant: what the jobs in flight owe.                   *)

\* A job exists for exactly the definitions of the results.
JobsAreScheduled == \A d \in Defs : pc[d] # "none" <=> d \in Scheduled

NamesAreScheduled ==
    sheduledFetchDefinitionNames = {Name[d] : d \in Scheduled}

\* No resource is fetched twice.
HashesAreUnique ==
    \A d, e \in Scheduled : Hash[d] = Hash[e] => d = e

\* The wait group counts the running jobs.
JobsAreCounted ==
    LET running == {d \in Defs : Live(d)}
    IN  IsFiniteSet(running) /\ activeJobs = Cardinality(running)

\* A page is there when a load has returned it, and every load that has
\* returned has left its answer.
LoadsAreRecorded ==
    \A d \in Defs :
       /\ pc[d] \in {"none", "expand", "load", "returning"} => page[d] = NoPage
       /\ Settled(d) /\ answer[d] = "not fetched" => d \in MalformedURL

\* What a job has still to add is what its page refers to.
OwesReferences(d) ==
    /\ \A i \in DOMAIN required[d] : required[d][i] \in RequiredBy(d)
    /\ dependencies[d] \subseteq DependencyNames(d)
    /\ lazyFd[d] # NoFd => lazyFd[d] \in LazyBy(d)
    /\ pc[d] # "children" =>
          required[d] = << >> /\ dependencies[d] = {} /\ lazyFd[d] = NoFd

WorkIsReferenced == \A d \in Defs : OwesReferences(d)

\* What a page refers to has a result, or its job will add it.
RequiredIsHandled(d) ==
    \A r \in RequiredBy(d) :
       IsResult(r) \/ \E i \in DOMAIN required[d] : required[d][i] = r

DependencyIsHandled(d, n) ==
    \/ n \in sheduledFetchDefinitionNames
    \/ Lazily(d, n) = NoFd
    \/ IsResult(Lazily(d, n))
    \/ n \in dependencies[d]
    \/ lazyFd[d] = Lazily(d, n)

ReferencesAreHandled ==
    \A d \in Defs : pc[d] # "meta" =>
       /\ RequiredIsHandled(d)
       /\ \A n \in DependencyNames(d) : DependencyIsHandled(d, n)

\* What has been published is there, unless a later page has changed it.
MetaIsPublished ==
    \A g \in Defs :
       /\ Published(g) => pc[g] \in {"children", "ended"} /\ HoldsMetaOf(meta, g)
       /\ pc[g] = "children" => Published(g)

BroughtInBy(g, d) ==
    /\ References(g, d) /\ Published(g)
    /\ pc[d] = "expand" \/ d \in MalformedURL \/ HoldsMetaOf(seen[d], g)

RequestersHavePublished ==
    \A d \in Scheduled : IsInitial(d) \/ \E g \in Scheduled : BroughtInBy(g, d)

InitialIsAdded == \A i \in DOMAIN toAdd : IsInitial(toAdd[i])

(* What every step of the caller and of the jobs preserves.                *)
IInv ==
    /\ TypeOK
    /\ JobsAreScheduled /\ NamesAreScheduled /\ HashesAreUnique
    /\ JobsAreCounted /\ NoJobOutlivesWait
    /\ LoadsAreRecorded /\ WorkIsReferenced /\ ReferencesAreHandled
    /\ MetaIsPublished /\ RequestersHavePublished /\ InitialIsAdded

-----------------------------------------------------------------------------
(* What the documentation says and the code does not keep (see README.md). *)

(* README.md:255 of the package: a uic-fetch can be referenced by the     *)
(* name it specifies.                                                      *)
FetchNameIsKnown ==
    caller = "returned" =>
       \A d \in Scheduled : \A e \in RequiredBy(d) :
          \E r \in Scheduled : Name[r] = Name[e]

=============================================================================
