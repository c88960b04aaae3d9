------------------------ MODULE ContentFetcherProofs ------------------------
(***************************************************************************)
(* Proofs about ContentFetcher for any definitions, pages and factory.     *)
(***************************************************************************)
EXTENDS ContentFetcher, FiniteSetTheorems, SequenceTheorems, TLAPS

USE DEF fetcher, metas, jobs

(* A page's dependencies are a map from names.                             *)
LEMMA PageType ==
    ASSUME NEW c \in Page
    PROVE  /\ c.required \in Seq(Defs)
           /\ DOMAIN c.dependencies \subseteq Names
           /\ \A n \in DOMAIN c.dependencies : c.dependencies[n] \in Params
           /\ c.meta \in MetaJSON
  BY DEF Page

(* What a job knows of its page depends on nothing but the page.           *)
LEMMA SamePage ==
    ASSUME NEW d \in Defs, page'[d] = page[d]
    PROVE  /\ RequiredBy(d)' = RequiredBy(d)
           /\ DependencyNames(d)' = DependencyNames(d)
           /\ \A n \in DependencyNames(d) : Lazily(d, n)' = Lazily(d, n)
           /\ LazyBy(d)' = LazyBy(d)
<1>1. /\ RequiredBy(d)' = RequiredBy(d)
      /\ DependencyNames(d)' = DependencyNames(d)
  BY DEF RequiredBy, DependencyNames
<1>2. ASSUME NEW n PROVE Lazily(d, n)' = Lazily(d, n)
  BY DEF Lazily
<1> QED
  BY <1>1, <1>2 DEF LazyBy

LEMMA NoPageType == NoPage \in Page
<1>1. << >> \in [{} -> Params] /\ << >> \in [{} -> MetaValues]
  OBVIOUS
<1> QED
  BY <1>1 DEF NoPage, Page, MetaJSON

(* The fields of two JSON objects make one.                                *)
LEMMA OverwrittenType ==
    ASSUME NEW json \in MetaJSON, NEW data \in MetaJSON
    PROVE  Overwritten(json, data) \in MetaJSON
<1>1. PICK S \in SUBSET MetaKeys : json \in [S -> MetaValues]
  BY DEF MetaJSON
<1>2. PICK T \in SUBSET MetaKeys : data \in [T -> MetaValues]
  BY DEF MetaJSON
<1>3. Overwritten(json, data) \in [S \cup T -> MetaValues]
  BY <1>1, <1>2 DEF Overwritten
<1> QED
  BY <1>3 DEF MetaJSON

(* The factory's answer for a dependency of a loaded page.                 *)
LEMMA LazilyType ==
    ASSUME TypeOK, NEW d \in Defs, NEW n \in DependencyNames(d)
    PROVE  /\ n \in Names
           /\ Lazily(d, n) \in Defs \cup {NoFd}
           /\ Lazily(d, n) # NoFd => Name[Lazily(d, n)] = n
<1>1. page[d] \in Page
  BY DEF TypeOK
<1>2. n \in Names /\ page[d].dependencies[n] \in Params
  BY <1>1, PageType DEF DependencyNames
<1> QED
  BY <1>2, FactoryAssumption DEF Lazily

(* What AddFetchJob does: nothing, or it schedules a job for a definition  *)
(* that has none.                                                          *)
LEMMA AddFetchJobEffect ==
    ASSUME TypeOK, JobsAreScheduled, NEW d \in Defs, AddFetchJob(d)
    PROVE  \/ /\ IsResult(d)
              /\ UNCHANGED <<results, sheduledFetchDefinitionNames,
                             activeJobs, pc>>
           \/ /\ ~IsResult(d) /\ d \notin Scheduled /\ pc[d] = "none"
              /\ results' = Append(results, d)
              /\ Scheduled' = Scheduled \cup {d}
              /\ activeJobs' = activeJobs + 1
              /\ sheduledFetchDefinitionNames' =
                    sheduledFetchDefinitionNames \cup {Name[d]}
              /\ pc' = [pc EXCEPT ![d] = "expand"]
<1>1. isAlreadyScheduled(d) <=> IsResult(d)
  BY DEF isAlreadyScheduled, IsResult, Scheduled
<1>2. CASE isAlreadyScheduled(d)
  BY <1>1, <1>2 DEF AddFetchJob
<1>3. CASE ~isAlreadyScheduled(d)
  <2>1. ~IsResult(d) /\ d \notin Scheduled
    BY <1>1, <1>3 DEF IsResult
  <2>2. pc[d] = "none"
    BY <2>1 DEF JobsAreScheduled
  <2>3. Scheduled' = Scheduled \cup {d}
    <3>1. results \in Seq(Defs) /\ results' = Append(results, d)
      BY <1>3 DEF AddFetchJob, TypeOK
    <3>2. /\ Len(results') = Len(results) + 1
          /\ \A i \in 1 .. Len(results) : results'[i] = results[i]
          /\ results'[Len(results) + 1] = d
      BY <3>1, AppendProperties
    <3>3. DOMAIN results' = DOMAIN results \cup {Len(results) + 1}
      BY <3>1, <3>2
    <3> QED
      BY <3>1, <3>2, <3>3 DEF Scheduled
  <2> QED
    BY <1>3, <2>1, <2>2, <2>3 DEF AddFetchJob
<1> QED
  BY <1>2, <1>3

(* What the three callers of AddFetchJob hand to it.                       *)
LEMMA AddFetchJobArguments ==
    ASSUME TypeOK
    PROVE  /\ CallerAdds => Head(toAdd) \in Defs
           /\ \A d \in Defs : AddRequired(d) => Head(required[d]) \in Defs
           /\ \A d \in Defs : AddLazy(d) => lazyFd[d] \in Defs
  BY DEF TypeOK, CallerAdds, AddRequired, AddLazy

-----------------------------------------------------------------------------
LEMMA InitTypeOK == Init => TypeOK
<1> SUFFICES ASSUME Init PROVE TypeOK
  OBVIOUS
<1>a. << >> \in Seq(Defs)
  OBVIOUS
<1>b. toAdd = Initial
  BY DEF Init
<1>1. << >> \in Seq(Defs) /\ toAdd \in Seq(Defs)
  BY <1>a, <1>b, CallerAssumption
<1>2. page \in [Defs -> Page] /\ seen \in [Defs -> MetaJSON]
  <2>1. << >> \in MetaJSON
    BY NoPageType, PageType DEF NoPage
  <2> QED
    BY <2>1, NoPageType DEF Init
<1>3. /\ pc \in [Defs -> Phases] /\ answer \in [Defs -> Answers]
      /\ required \in [Defs -> Seq(Defs)]
  BY <1>1 DEF Init, Phases, Answers
<1> QED
  BY <1>1, <1>2, <1>3, CallerAssumption DEF Init, TypeOK

(* SortResults leaves a sequence with the same elements.                   *)
LEMMA SortResultsEffect ==
    ASSUME TypeOK, SortResults
    PROVE  results' \in Seq(Defs) /\ Scheduled' = Scheduled
<1>1. PICK p \in [DOMAIN results -> DOMAIN results] :
         /\ \A i \in DOMAIN results : \E j \in DOMAIN results : p[j] = i
         /\ results' = [i \in DOMAIN results |-> results[p[i]]]
  BY DEF SortResults
<1>2. results \in Seq(Defs) /\ DOMAIN results = 1 .. Len(results)
  BY DEF TypeOK
<1>3. \A i \in DOMAIN results : results[p[i]] \in Defs
  BY <1>2
<1>4. results' \in Seq(Defs)
  <2>1. results' \in [1 .. Len(results) -> Defs]
    BY <1>1, <1>2, <1>3
  <2>2. Len(results) \in Nat
    BY <1>2
  <2> QED
    BY <2>1, <2>2, IsASeq
<1>5. Scheduled' = Scheduled
  BY <1>1 DEF Scheduled
<1> QED
  BY <1>4, <1>5

(* AddFetchJob keeps the types of what it writes.                          *)
LEMMA AddFetchJobType ==
    ASSUME TypeOK, NEW d \in Defs, AddFetchJob(d)
    PROVE  /\ results' \in Seq(Defs)
           /\ sheduledFetchDefinitionNames' \subseteq Names
           /\ activeJobs' \in Nat
           /\ pc' \in [Defs -> Phases]
<1>1. CASE isAlreadyScheduled(d)
  BY <1>1 DEF AddFetchJob, TypeOK
<1>2. CASE ~isAlreadyScheduled(d)
  <2>1. /\ results' = Append(results, d)
        /\ sheduledFetchDefinitionNames' =
              sheduledFetchDefinitionNames \cup {Name[d]}
        /\ activeJobs' = activeJobs + 1
        /\ pc' = [pc EXCEPT ![d] = "expand"]
    BY <1>2 DEF AddFetchJob
  <2>2. results' \in Seq(Defs) /\ activeJobs' \in Nat
    BY <2>1 DEF TypeOK
  <2>3. Name[d] \in Names
    BY AttributesAssumption
  <2>4. sheduledFetchDefinitionNames' \subseteq Names
    BY <2>1, <2>3 DEF TypeOK
  <2>5. pc' \in [Defs -> Phases]
    BY <2>1 DEF TypeOK, Phases
  <2> QED
    BY <2>2, <2>4, <2>5
<1> QED
  BY <1>1, <1>2

(* Every step keeps the types, as long as Done finds a running job.        *)
LEMMA NextTypeOK ==
    ASSUME TypeOK, WorkIsReferenced, [Next]_vars,
           \A d \in Defs : JobIsOver(d) => activeJobs > 0
    PROVE  TypeOK'
<1>1. CASE CallerAdds
  <2>1. Head(toAdd) \in Defs /\ Tail(toAdd) \in Seq(Defs)
    BY <1>1 DEF CallerAdds, TypeOK
  <2>2. AddFetchJob(Head(toAdd))
    BY <1>1 DEF CallerAdds
  <2> QED
    BY <1>1, <2>1, <2>2, AddFetchJobType DEF CallerAdds, TypeOK
<1>2. CASE CallerWaits
  BY <1>2 DEF CallerWaits, TypeOK
<1>3. CASE WaitReturns
  BY <1>3 DEF WaitReturns, TypeOK
<1>4. CASE CollectResults
  <2>1. results' \in Seq(Defs)
    BY <1>4, SortResultsEffect DEF CollectResults, TypeOK
  <2> QED
    BY <1>4, <2>1 DEF CollectResults, TypeOK
<1>5. ASSUME NEW d \in Defs, ExpandURL(d)
      PROVE  TypeOK'
  BY <1>5 DEF ExpandURL, TypeOK, Phases
<1>6. ASSUME NEW d \in Defs, ExpandURLFails(d)
      PROVE  TypeOK'
  BY <1>6 DEF ExpandURLFails, TypeOK, Phases
<1>7. ASSUME NEW d \in Defs, LoadReturns(d)
      PROVE  TypeOK'
  <2>1. PICK c \in Pages[d] :
           /\ page' = [page EXCEPT ![d] = c]
           /\ answer' = [answer EXCEPT ![d] = "loaded"]
           /\ pc' = [pc EXCEPT ![d] = "meta"]
    BY <1>7 DEF LoadReturns
  <2>2. c \in Page
    BY LoadAssumption
  <2> QED
    BY <1>7, <2>1, <2>2 DEF LoadReturns, TypeOK, Phases, Answers
<1>8. ASSUME NEW d \in Defs, LoadFails(d)
      PROVE  TypeOK'
  BY <1>8 DEF LoadFails, TypeOK, Phases, Answers
<1>9. ASSUME NEW d \in Defs, AddMeta(d)
      PROVE  TypeOK'
  <2>1. /\ page[d].required \in Seq(Defs)
        /\ DependencyNames(d) \subseteq Names
        /\ page[d].meta \in MetaJSON
    BY PageType DEF TypeOK, DependencyNames
  <2>2. meta' \in MetaJSON
    BY <1>9, <2>1, OverwrittenType DEF AddMeta, TypeOK
  <2>3. published' \in Seq(Defs)
    BY <1>9, AppendProperties DEF AddMeta, TypeOK
  <2> QED
    BY <1>9, <2>1, <2>2, <2>3 DEF AddMeta, TypeOK, Phases
<1>10. ASSUME NEW d \in Defs, AddRequired(d)
       PROVE  TypeOK'
  <2>1. /\ Head(required[d]) \in Defs
        /\ Tail(required[d]) \in Seq(Defs)
    BY <1>10 DEF AddRequired, TypeOK
  <2>2. AddFetchJob(Head(required[d]))
    BY <1>10 DEF AddRequired
  <2> QED
    BY <1>10, <2>1, <2>2, AddFetchJobType DEF AddRequired, TypeOK
<1>11. ASSUME NEW d \in Defs, LookUpDependency(d)
       PROVE  TypeOK'
  <2>1. PICK n \in dependencies[d] :
           /\ dependencies' = [dependencies EXCEPT ![d] = @ \ {n}]
           /\ lazyFd' = IF n \in sheduledFetchDefinitionNames THEN lazyFd
                        ELSE [lazyFd EXCEPT ![d] = Lazily(d, n)]
    BY <1>11 DEF LookUpDependency
  <2>2. Lazily(d, n) \in Defs \cup {NoFd}
    BY LazilyType DEF WorkIsReferenced, OwesReferences
  <2> QED
    BY <1>11, <2>1, <2>2 DEF LookUpDependency, TypeOK
<1>12. ASSUME NEW d \in Defs, AddLazy(d)
       PROVE  TypeOK'
  <2>1. lazyFd[d] \in Defs /\ AddFetchJob(lazyFd[d])
    BY <1>12 DEF AddLazy, TypeOK
  <2> QED
    BY <1>12, <2>1, AddFetchJobType DEF AddLazy, TypeOK
<1>13. ASSUME NEW d \in Defs, Done(d)
       PROVE  TypeOK'
  <2>1. activeJobs' \in Nat
    BY <1>13 DEF Done, TypeOK
  <2> QED
    BY <1>13, <2>1 DEF Done, TypeOK, Phases
<1>14. CASE UNCHANGED vars
  BY <1>14 DEF vars, TypeOK
<1> QED
  BY <1>1, <1>2, <1>3, <1>4, <1>5, <1>6, <1>7, <1>8, <1>9, <1>10, <1>11,
     <1>12, <1>13, <1>14 DEF Next, Caller, JobStep, Load, Returned

-----------------------------------------------------------------------------
(* The results, the names and the jobs describe the same definitions.      *)
Schedule == JobsAreScheduled /\ NamesAreScheduled /\ HashesAreUnique

LEMMA AddFetchJobSchedule ==
    ASSUME TypeOK, Schedule, NEW d \in Defs, AddFetchJob(d)
    PROVE  Schedule'
<1>1. CASE UNCHANGED <<results, sheduledFetchDefinitionNames, activeJobs, pc>>
  BY <1>1 DEF Schedule, JobsAreScheduled, NamesAreScheduled, HashesAreUnique,
     Scheduled
<1>2. CASE /\ ~IsResult(d) /\ d \notin Scheduled /\ pc[d] = "none"
           /\ results' = Append(results, d)
           /\ Scheduled' = Scheduled \cup {d}
           /\ activeJobs' = activeJobs + 1
           /\ sheduledFetchDefinitionNames' =
                 sheduledFetchDefinitionNames \cup {Name[d]}
           /\ pc' = [pc EXCEPT ![d] = "expand"]
  <2>1. JobsAreScheduled'
    BY <1>2 DEF Schedule, JobsAreScheduled, TypeOK
  <2>2. NamesAreScheduled'
    BY <1>2 DEF Schedule, NamesAreScheduled
  <2>3. HashesAreUnique'
    BY <1>2 DEF Schedule, HashesAreUnique, IsResult
  <2> QED
    BY <2>1, <2>2, <2>3 DEF Schedule
<1> QED
  BY <1>1, <1>2, AddFetchJobEffect DEF Schedule

LEMMA NextSchedule ==
    ASSUME TypeOK, Schedule, [Next]_vars
    PROVE  Schedule'
<1> USE DEF Schedule
<1>1. CASE CallerAdds
  BY <1>1, AddFetchJobSchedule, AddFetchJobArguments DEF CallerAdds
<1>2. ASSUME NEW d \in Defs, AddRequired(d) PROVE Schedule'
  BY <1>2, AddFetchJobSchedule, AddFetchJobArguments DEF AddRequired
<1>3. ASSUME NEW d \in Defs, AddLazy(d) PROVE Schedule'
  BY <1>3, AddFetchJobSchedule, AddFetchJobArguments DEF AddLazy
<1>4. CASE CollectResults
  <2>1. Scheduled' = Scheduled
    BY <1>4, SortResultsEffect DEF CollectResults, Scheduled
  <2> QED
    BY <1>4, <2>1 DEF CollectResults, JobsAreScheduled, NamesAreScheduled,
       HashesAreUnique
<1>5. ASSUME NEW d \in Defs, pc[d] # "none", UNCHANGED <<results, sheduledFetchDefinitionNames>>,
             pc' = pc \/ \E q \in Phases \ {"none"} : pc' = [pc EXCEPT ![d] = q]
      PROVE  Schedule'
  <2>1. Scheduled' = Scheduled
    BY <1>5 DEF Scheduled
  <2> QED
    BY <1>5, <2>1 DEF TypeOK, JobsAreScheduled, NamesAreScheduled,
       HashesAreUnique
<1>6. ASSUME NEW d \in Defs,
             ExpandURL(d) \/ ExpandURLFails(d) \/ Load(d) \/ AddMeta(d)
                \/ LookUpDependency(d) \/ Done(d)
      PROVE  Schedule'
  <2>1. pc[d] # "none" /\ UNCHANGED <<results, sheduledFetchDefinitionNames>>
    BY <1>6 DEF ExpandURL, ExpandURLFails, Load, LoadReturns, LoadFails,
       AddMeta, LookUpDependency, Done, JobIsOver
  <2>2. pc' = pc \/ \E q \in Phases \ {"none"} : pc' = [pc EXCEPT ![d] = q]
    BY <1>6 DEF ExpandURL, ExpandURLFails, Load, LoadReturns, LoadFails,
       AddMeta, LookUpDependency, Done, Phases
  <2> QED
    BY <1>5, <2>1, <2>2
<1>7. CASE CallerWaits \/ WaitReturns \/ UNCHANGED vars
  BY <1>7 DEF CallerWaits, WaitReturns, vars, JobsAreScheduled,
     NamesAreScheduled, HashesAreUnique, Scheduled
<1> QED
  BY <1>1, <1>2, <1>3, <1>4, <1>6, <1>7
     DEF Next, Caller, JobStep, Returned

-----------------------------------------------------------------------------
(* The wait group counts the running jobs, and none is left after Wait.    *)
Running == {d \in Defs : Live(d)}

LEMMA AddFetchJobCounts ==
    ASSUME TypeOK, JobsAreScheduled, JobsAreCounted, NEW d \in Defs,
           AddFetchJob(d)
    PROVE  JobsAreCounted'
<1>1. CASE UNCHANGED <<results, sheduledFetchDefinitionNames, activeJobs, pc>>
  BY <1>1 DEF JobsAreCounted, Live
<1>2. CASE /\ pc[d] = "none"
           /\ activeJobs' = activeJobs + 1
           /\ pc' = [pc EXCEPT ![d] = "expand"]
  <2>1. Running' = Running \cup {d} /\ d \notin Running
    BY <1>2 DEF Running, Live, TypeOK
  <2>2. IsFiniteSet(Running) /\ activeJobs = Cardinality(Running)
    BY DEF JobsAreCounted, Running
  <2>3. IsFiniteSet(Running') /\ Cardinality(Running') = Cardinality(Running) + 1
    BY <2>1, <2>2, FS_AddElement
  <2> QED
    BY <1>2, <2>2, <2>3 DEF JobsAreCounted, Running
<1> QED
  BY <1>1, <1>2, AddFetchJobEffect

LEMMA NextCounted ==
    ASSUME TypeOK, JobsAreScheduled, JobsAreCounted, [Next]_vars
    PROVE  JobsAreCounted'
<1>1. CASE CallerAdds
  BY <1>1, AddFetchJobCounts, AddFetchJobArguments DEF CallerAdds
<1>2. ASSUME NEW d \in Defs, AddRequired(d) PROVE JobsAreCounted'
  BY <1>2, AddFetchJobCounts, AddFetchJobArguments DEF AddRequired
<1>3. ASSUME NEW d \in Defs, AddLazy(d) PROVE JobsAreCounted'
  BY <1>3, AddFetchJobCounts, AddFetchJobArguments DEF AddLazy
<1>4. ASSUME NEW d \in Defs, Done(d) PROVE JobsAreCounted'
  <2>1. Running' = Running \ {d} /\ d \in Running
    BY <1>4 DEF Done, JobIsOver, Running, Live, TypeOK
  <2>2. IsFiniteSet(Running) /\ activeJobs = Cardinality(Running)
    BY DEF JobsAreCounted, Running
  <2>3. IsFiniteSet(Running') /\ Cardinality(Running') = Cardinality(Running) - 1
    BY <2>1, <2>2, FS_RemoveElement
  <2> QED
    BY <1>4, <2>2, <2>3 DEF Done, JobsAreCounted, Running
<1>5. ASSUME NEW d \in Defs,
             ExpandURL(d) \/ ExpandURLFails(d) \/ Load(d) \/ AddMeta(d)
                \/ LookUpDependency(d)
      PROVE  JobsAreCounted'
  <2>1. Running' = Running
    BY <1>5 DEF ExpandURL, ExpandURLFails, Load, LoadReturns, LoadFails,
       AddMeta, LookUpDependency, Running, Live, TypeOK
  <2>2. activeJobs' = activeJobs
    BY <1>5 DEF ExpandURL, ExpandURLFails, Load, LoadReturns, LoadFails,
       AddMeta, LookUpDependency
  <2> QED
    BY <2>1, <2>2 DEF JobsAreCounted, Running
<1>6. CASE CallerWaits \/ WaitReturns \/ CollectResults \/ UNCHANGED vars
  BY <1>6 DEF CallerWaits, WaitReturns, CollectResults, vars, JobsAreCounted,
     Live
<1> QED
  BY <1>1, <1>2, <1>3, <1>4, <1>5, <1>6 DEF Next, Caller, JobStep, Returned

LEMMA NextNoJobOutlivesWait ==
    ASSUME TypeOK, JobsAreCounted, NoJobOutlivesWait, [Next]_vars
    PROVE  NoJobOutlivesWait'
<1>1. CASE WaitReturns
  <2>1. Running = {}
    BY <1>1, FS_EmptySet DEF WaitReturns, JobsAreCounted, Running
  <2> QED
    BY <1>1, <2>1 DEF WaitReturns, NoJobOutlivesWait, Running, Live
<1>2. CASE CollectResults
  BY <1>2 DEF CollectResults, NoJobOutlivesWait, Live
<1>3. CASE CallerAdds \/ CallerWaits
  BY <1>3 DEF CallerAdds, CallerWaits, NoJobOutlivesWait
<1>4. ASSUME NEW d \in Defs, JobStep(d) \/ Load(d)
      PROVE  NoJobOutlivesWait'
  <2>1. Live(d) /\ caller' = caller
    BY <1>4 DEF JobStep, Load, ExpandURL, ExpandURLFails, LoadReturns,
       LoadFails, AddMeta, AddRequired, LookUpDependency, AddLazy, Done,
       JobIsOver, Live
  <2> QED
    BY <2>1 DEF NoJobOutlivesWait
<1>5. CASE UNCHANGED vars
  BY <1>5 DEF vars, NoJobOutlivesWait, Live
<1> QED
  BY <1>1, <1>2, <1>3, <1>4, <1>5 DEF Next, Caller, Returned

-----------------------------------------------------------------------------
(* What was scheduled stays scheduled; AddFetchJob leaves a result for the *)
(* resource it was given, whether or not it has started a job.             *)
LEMMA AddFetchJobResult ==
    ASSUME TypeOK, JobsAreScheduled, NEW d \in Defs, AddFetchJob(d)
    PROVE  /\ Scheduled \subseteq Scheduled'
           /\ sheduledFetchDefinitionNames \subseteq sheduledFetchDefinitionNames'
           /\ IsResult(d)'
           /\ Scheduled' \subseteq Scheduled \cup {d}
           /\ pc' = pc \/ (pc[d] = "none" /\ pc' = [pc EXCEPT ![d] = "expand"])
<1>1. CASE IsResult(d) /\ UNCHANGED <<results, sheduledFetchDefinitionNames,
                                      activeJobs, pc>>
  BY <1>1 DEF IsResult, Scheduled
<1>2. CASE /\ Scheduled' = Scheduled \cup {d}
           /\ sheduledFetchDefinitionNames' =
                 sheduledFetchDefinitionNames \cup {Name[d]}
           /\ pc[d] = "none" /\ pc' = [pc EXCEPT ![d] = "expand"]
  BY <1>2 DEF IsResult
<1> QED
  BY <1>1, <1>2, AddFetchJobEffect

LEMMA NextGrows ==
    ASSUME TypeOK, JobsAreScheduled, [Next]_vars
    PROVE  /\ Scheduled \subseteq Scheduled'
           /\ sheduledFetchDefinitionNames \subseteq sheduledFetchDefinitionNames'
<1>1. CASE CallerAdds
  BY <1>1, AddFetchJobResult, AddFetchJobArguments DEF CallerAdds
<1>2. ASSUME NEW d \in Defs, AddRequired(d) \/ AddLazy(d)
      PROVE  /\ Scheduled \subseteq Scheduled'
             /\ sheduledFetchDefinitionNames \subseteq sheduledFetchDefinitionNames'
  BY <1>2, AddFetchJobResult, AddFetchJobArguments DEF AddRequired, AddLazy
<1>3. CASE CollectResults
  BY <1>3, SortResultsEffect DEF CollectResults, Scheduled
<1>4. ASSUME NEW d \in Defs, AddMeta(d)
      PROVE  UNCHANGED <<results, sheduledFetchDefinitionNames>>
  BY <1>4 DEF AddMeta
<1>5. ASSUME NEW d \in Defs,
             ExpandURL(d) \/ ExpandURLFails(d) \/ Load(d)
                \/ LookUpDependency(d) \/ Done(d)
      PROVE  UNCHANGED <<results, sheduledFetchDefinitionNames>>
  BY <1>5 DEF ExpandURL, ExpandURLFails, Load, LoadReturns, LoadFails,
     LookUpDependency, Done
<1>6. CASE CallerWaits \/ WaitReturns \/ UNCHANGED vars
  BY <1>6 DEF CallerWaits, WaitReturns, vars, Scheduled
<1> QED
  BY <1>1, <1>2, <1>3, <1>4, <1>5, <1>6
     DEF Next, Caller, JobStep, Returned, Scheduled

(* The steps that add a job, or none, touch no page and no answer.         *)
LEMMA AddStep ==
    ASSUME TypeOK, JobsAreScheduled,
           CallerAdds \/ \E d \in Defs : AddRequired(d) \/ AddLazy(d)
    PROVE  /\ UNCHANGED <<answer, page, seen, metas>>
           /\ \A e \in Defs : \/ pc'[e] = pc[e]
                              \/ pc[e] = "none" /\ pc'[e] = "expand"
<1>1. ASSUME NEW d \in Defs, AddFetchJob(d)
      PROVE  \A e \in Defs : \/ pc'[e] = pc[e]
                             \/ pc[e] = "none" /\ pc'[e] = "expand"
  BY <1>1, AddFetchJobResult DEF TypeOK
<1>2. CASE CallerAdds
  BY <1>1, <1>2, AddFetchJobArguments DEF CallerAdds
<1>3. ASSUME NEW d \in Defs, AddRequired(d)
      PROVE  /\ UNCHANGED <<answer, page, seen, metas>>
             /\ \A e \in Defs : \/ pc'[e] = pc[e]
                                \/ pc[e] = "none" /\ pc'[e] = "expand"
  BY <1>1, <1>3, AddFetchJobArguments DEF AddRequired
<1>4. ASSUME NEW d \in Defs, AddLazy(d)
      PROVE  /\ UNCHANGED <<answer, page, seen, metas>>
             /\ \A e \in Defs : \/ pc'[e] = pc[e]
                                \/ pc[e] = "none" /\ pc'[e] = "expand"
  BY <1>1, <1>4, AddFetchJobArguments DEF AddLazy
<1> QED
  BY <1>2, <1>3, <1>4

(* The caller's other steps, and stuttering, leave the jobs alone.         *)
LEMMA QuietStep ==
    ASSUME CallerWaits \/ WaitReturns \/ CollectResults \/ UNCHANGED vars
    PROVE  UNCHANGED <<sheduledFetchDefinitionNames, activeJobs, metas, pc,
                       answer, page, seen, required, dependencies, lazyFd,
                       toAdd>>
  BY DEF CallerWaits, WaitReturns, CollectResults, vars

LEMMA NextLoadsRecorded ==
    ASSUME TypeOK, JobsAreScheduled, LoadsAreRecorded, [Next]_vars
    PROVE  LoadsAreRecorded'
<1>1. CASE CallerAdds \/ \E d \in Defs : AddRequired(d) \/ AddLazy(d)
  BY <1>1, AddStep DEF LoadsAreRecorded, Settled
<1>2. CASE CallerWaits \/ WaitReturns \/ CollectResults \/ UNCHANGED vars
  BY <1>2, QuietStep DEF LoadsAreRecorded, Settled
<1>3. ASSUME NEW d \in Defs, LoadReturns(d)
      PROVE  LoadsAreRecorded'
  BY <1>3 DEF LoadReturns, LoadsAreRecorded, Settled, TypeOK
<1>4. ASSUME NEW d \in Defs, LoadFails(d)
      PROVE  LoadsAreRecorded'
  BY <1>4 DEF LoadFails, LoadsAreRecorded, Settled, TypeOK
<1>5. ASSUME NEW d \in Defs, ExpandURL(d) \/ ExpandURLFails(d)
      PROVE  LoadsAreRecorded'
  BY <1>5 DEF ExpandURL, ExpandURLFails, LoadsAreRecorded, Settled, TypeOK
<1>6. ASSUME NEW d \in Defs, AddMeta(d) \/ LookUpDependency(d) \/ Done(d)
      PROVE  LoadsAreRecorded'
  BY <1>6 DEF AddMeta, LookUpDependency, Done, JobIsOver, LoadsAreRecorded,
     Settled, TypeOK
<1> QED
  BY <1>1, <1>2, <1>3, <1>4, <1>5, <1>6
     DEF Next, Caller, JobStep, Load, Returned

(* What a step does to the pages that have been published: nothing, but    *)
(* that there may be one more.                                             *)
PagesAreKept ==
    /\ \A h \in Defs : pc[h] \in {"children", "ended"} =>
          pc'[h] \in {"children", "ended"} /\ page'[h] = page[h]
    /\ published' = published \/ \E d \in Defs : published' = Append(published, d)

LEMMA NextKeepsPages ==
    ASSUME TypeOK, JobsAreScheduled, [Next]_vars
    PROVE  PagesAreKept
<1>1. CASE CallerAdds \/ \E d \in Defs : AddRequired(d) \/ AddLazy(d)
  BY <1>1, AddStep DEF PagesAreKept
<1>2. CASE CallerWaits \/ WaitReturns \/ CollectResults \/ UNCHANGED vars
  BY <1>2, QuietStep DEF PagesAreKept
<1>3. ASSUME NEW d \in Defs,
             ExpandURL(d) \/ ExpandURLFails(d) \/ Load(d) \/ AddMeta(d)
                \/ LookUpDependency(d) \/ Done(d)
      PROVE  PagesAreKept
  BY <1>3 DEF ExpandURL, ExpandURLFails, Load, LoadReturns, LoadFails, AddMeta,
     LookUpDependency, Done, JobIsOver, PagesAreKept, TypeOK
<1> QED
  BY <1>1, <1>2, <1>3 DEF Next, Caller, JobStep, Returned

(* What was published stays so, and the pages after it stay after it.      *)
LEMMA PublishedStays ==
    ASSUME TypeOK, MetaIsPublished, PagesAreKept, NEW g \in Defs, Published(g)
    PROVE  /\ Published(g)' /\ page'[g] = page[g]
           /\ NotBefore(g) \subseteq NotBefore(g)'
           /\ \A h \in NotBefore(g) : page'[h] = page[h]
<1>1. DOMAIN published = 1 .. Len(published) /\ published \in Seq(Defs)
  BY DEF TypeOK
<1>2. /\ DOMAIN published \subseteq DOMAIN published'
      /\ \A i \in DOMAIN published : published'[i] = published[i]
  <2>1. ASSUME NEW d \in Defs, published' = Append(published, d)
        PROVE  /\ DOMAIN published \subseteq DOMAIN published'
               /\ \A i \in DOMAIN published : published'[i] = published[i]
    BY <1>1, <2>1, AppendProperties
  <2> QED
    BY <2>1 DEF PagesAreKept
<1>3. Published(g)' /\ NotBefore(g) \subseteq NotBefore(g)'
  BY <1>2 DEF Published, NotBefore
<1>4. \A h \in Defs : Published(h) => page'[h] = page[h]
  BY DEF MetaIsPublished, PagesAreKept
<1>5. \A h \in NotBefore(g) : h \in Defs /\ Published(h)
  BY <1>1 DEF NotBefore, Published
<1> QED
  BY <1>3, <1>4, <1>5

(* What a step publishes is there after it, over what was there before.    *)
LEMMA AddMetaPublishes ==
    ASSUME TypeOK, MetaIsPublished, PagesAreKept, NEW d \in Defs, AddMeta(d)
    PROVE  \A g \in Defs : Published(g)' =>
              /\ g = d \/ Published(g)
              /\ HoldsMetaOf(meta, g)'
<1>1. /\ published' = Append(published, d) /\ page' = page
      /\ meta' = Overwritten(meta, page[d].meta)
  BY DEF AddMeta
<1>2. /\ published \in Seq(Defs) /\ DOMAIN published = 1 .. Len(published)
      /\ Len(published) \in Nat
  BY DEF TypeOK
<1> DEFINE n == Len(published) + 1
<1>3. /\ DOMAIN published' = 1 .. n /\ published'[n] = d
      /\ \A i \in DOMAIN published : published'[i] = published[i]
  BY <1>1, <1>2, AppendProperties
<1>4. \A g \in Defs : Published(g)' => g = d \/ Published(g)
  BY <1>2, <1>3 DEF Published
<1>5. \A g \in Defs : Published(g)' => d \in NotBefore(g)'
  BY <1>2, <1>3 DEF Published, NotBefore
<1>6. /\ \A k \in DOMAIN page[d].meta :
            k \in DOMAIN meta' /\ meta'[k] = page[d].meta[k]
      /\ \A k \in DOMAIN meta \ DOMAIN page[d].meta :
            k \in DOMAIN meta' /\ meta'[k] = meta[k]
  BY <1>1 DEF Overwritten
<1>7. ASSUME NEW g \in Defs, Published(g)', NEW k \in DOMAIN page'[g].meta
      PROVE  /\ k \in DOMAIN meta'
             /\ \E h \in NotBefore(g)' :
                   k \in DOMAIN page'[h].meta /\ meta'[k] = page'[h].meta[k]
  <2>1. CASE k \in DOMAIN page[d].meta
    BY <1>1, <1>5, <1>6, <1>7, <2>1
  <2>2. CASE k \notin DOMAIN page[d].meta
    <3>1. g # d /\ Published(g)
      BY <1>1, <1>4, <1>7, <2>2
    <3>2. NotBefore(g) \subseteq NotBefore(g)'
      BY <3>1, PublishedStays
    <3>3. PICK h \in NotBefore(g) :
             k \in DOMAIN page[h].meta /\ meta[k] = page[h].meta[k]
      BY <1>1, <1>7, <3>1 DEF MetaIsPublished, HoldsMetaOf
    <3>4. k \in DOMAIN meta
      BY <1>1, <1>7, <3>1 DEF MetaIsPublished, HoldsMetaOf
    <3> QED
      BY <1>1, <1>6, <2>2, <3>2, <3>3, <3>4
  <2> QED
    BY <2>1, <2>2
<1> QED
  BY <1>4, <1>7 DEF HoldsMetaOf

LEMMA NextMetaPublished ==
    ASSUME TypeOK, JobsAreScheduled, MetaIsPublished, [Next]_vars
    PROVE  MetaIsPublished'
<1>p. PagesAreKept
  BY NextKeepsPages
<1>1. ASSUME NEW d \in Defs, AddMeta(d)
      PROVE  MetaIsPublished'
  <2>1. /\ pc' = [pc EXCEPT ![d] = "children"] /\ pc[d] = "meta"
        /\ published' = Append(published, d)
    BY <1>1 DEF AddMeta
  <2>2. /\ Published(d)'
        /\ \A g \in Defs : Published(g) => Published(g)'
    <3>1. published \in Seq(Defs) /\ Len(published) + 1 \in 1 .. Len(published')
      BY <2>1, AppendProperties DEF TypeOK
    <3>2. DOMAIN published' = 1 .. Len(published')
      BY <2>1, <3>1, AppendProperties
    <3>3. published'[Len(published) + 1] = d
      BY <2>1, <3>1, AppendProperties
    <3>4. Published(d)'
      BY <3>1, <3>2, <3>3 DEF Published
    <3> QED
      BY <1>p, <3>4, PublishedStays
  <2> QED
    BY <1>1, <1>p, <2>1, <2>2, AddMetaPublishes DEF MetaIsPublished, TypeOK
<1>2. ASSUME published' = published, meta' = meta,
             \A d \in Defs : pc'[d] = "children" => pc[d] = "children"
      PROVE  MetaIsPublished'
  <2>1. \A g \in Defs : Published(g)' <=> Published(g)
    BY <1>2 DEF Published
  <2>2. ASSUME NEW g \in Defs, Published(g)
        PROVE  pc'[g] \in {"children", "ended"} /\ HoldsMetaOf(meta, g)'
    <3>1. /\ page'[g] = page[g] /\ NotBefore(g) \subseteq NotBefore(g)'
          /\ \A h \in NotBefore(g) : page'[h] = page[h]
      BY <1>p, <2>2, PublishedStays
    <3>2. pc[g] \in {"children", "ended"} /\ HoldsMetaOf(meta, g)
      BY <2>2 DEF MetaIsPublished
    <3>3. HoldsMetaOf(meta, g)'
      BY <1>2, <3>1, <3>2 DEF HoldsMetaOf
    <3> QED
      BY <1>p, <3>2, <3>3 DEF PagesAreKept
  <2> QED
    BY <1>2, <2>1, <2>2 DEF MetaIsPublished
<1>3. CASE CallerAdds \/ \E d \in Defs : AddRequired(d) \/ AddLazy(d)
  BY <1>2, <1>3, AddStep
<1>4. CASE CallerWaits \/ WaitReturns \/ CollectResults \/ UNCHANGED vars
  BY <1>2, <1>4, QuietStep
<1>5. ASSUME NEW d \in Defs,
             ExpandURL(d) \/ ExpandURLFails(d) \/ Load(d)
                \/ LookUpDependency(d) \/ Done(d)
      PROVE  MetaIsPublished'
  BY <1>2, <1>5 DEF ExpandURL, ExpandURLFails, Load, LoadReturns, LoadFails,
     LookUpDependency, Done, JobIsOver, TypeOK
<1> QED
  BY <1>1, <1>3, <1>4, <1>5 DEF Next, Caller, JobStep, Returned

LEMMA NextInitialIsAdded ==
    ASSUME TypeOK, InitialIsAdded, [Next]_vars
    PROVE  InitialIsAdded'
<1>1. CASE CallerAdds
  <2>1. /\ toAdd' = Tail(toAdd) /\ toAdd # << >> /\ toAdd \in Seq(Defs)
    BY <1>1 DEF CallerAdds, TypeOK
  <2>2. \A i \in DOMAIN toAdd' : i + 1 \in DOMAIN toAdd /\ toAdd'[i] = toAdd[i + 1]
    BY <2>1
  <2> QED
    BY <2>2 DEF InitialIsAdded, IsInitial
<1>2. CASE toAdd' = toAdd
  BY <1>2 DEF InitialIsAdded, IsInitial
<1>3. CallerAdds \/ toAdd' = toAdd
  BY DEF Next, Caller, JobStep, Load, Returned, vars, CallerWaits,
     WaitReturns, CollectResults, ExpandURL, ExpandURLFails, LoadReturns,
     LoadFails, AddMeta, AddRequired, LookUpDependency, AddLazy, Done
<1> QED
  BY <1>1, <1>2, <1>3

-----------------------------------------------------------------------------
(* A sequence without its head.                                            *)
LEMMA TailElements ==
    ASSUME NEW S, NEW q \in Seq(S), q # << >>
    PROVE  /\ Tail(q) \in Seq(S) /\ Head(q) = q[1] /\ 1 \in DOMAIN q
           /\ \A i \in DOMAIN Tail(q) : i + 1 \in DOMAIN q /\ Tail(q)[i] = q[i + 1]
           /\ \A i \in DOMAIN q : i # 1 => /\ i - 1 \in DOMAIN Tail(q)
                                          /\ Tail(q)[i - 1] = q[i]
  OBVIOUS

(* What a job has still to add is what its page refers to.                 *)
LEMMA SameWork ==
    ASSUME NEW d \in Defs, OwesReferences(d), page'[d] = page[d],
           required'[d] = required[d], dependencies'[d] = dependencies[d],
           lazyFd'[d] = lazyFd[d], pc'[d] # "children" => pc[d] # "children"
    PROVE  OwesReferences(d)'
  BY SamePage DEF OwesReferences

LEMMA NextWorkReferenced ==
    ASSUME TypeOK, JobsAreScheduled, LoadsAreRecorded, WorkIsReferenced,
           [Next]_vars
    PROVE  WorkIsReferenced'
<1>a. \A d \in Defs : OwesReferences(d)
  BY DEF WorkIsReferenced
<1>b. ASSUME \A d \in Defs : OwesReferences(d)'
      PROVE  WorkIsReferenced'
  BY <1>b DEF WorkIsReferenced
<1>1. CASE CallerAdds
  <2>1. UNCHANGED <<required, dependencies, lazyFd>>
    BY <1>1 DEF CallerAdds
  <2> QED
    BY <1>a, <1>b, <1>1, <2>1, AddStep, SameWork
<1>2. ASSUME NEW d \in Defs, AddRequired(d)
      PROVE  WorkIsReferenced'
  <2>1. /\ required' = [required EXCEPT ![d] = Tail(@)]
        /\ required[d] # << >> /\ pc[d] = "children"
        /\ UNCHANGED <<dependencies, lazyFd>>
    BY <1>2 DEF AddRequired
  <2>2. UNCHANGED page /\ \A e \in Defs : pc'[e] # "children" => pc[e] # "children"
    BY <1>2, AddStep
  <2>3. \A i \in DOMAIN required'[d] :
           i + 1 \in DOMAIN required[d] /\ required'[d][i] = required[d][i + 1]
    BY <2>1, TailElements DEF TypeOK
  <2>4. OwesReferences(d)'
    BY <1>a, <2>1, <2>2, <2>3, SamePage DEF OwesReferences
  <2>5. \A e \in Defs \ {d} : required'[e] = required[e]
    BY <2>1 DEF TypeOK
  <2>6. \A e \in Defs \ {d} : OwesReferences(e)'
    BY <1>a, <2>1, <2>2, <2>5, SameWork
  <2> QED
    BY <1>b, <2>4, <2>6
<1>3. ASSUME NEW d \in Defs, AddLazy(d)
      PROVE  WorkIsReferenced'
  <2>1. /\ lazyFd' = [lazyFd EXCEPT ![d] = NoFd]
        /\ UNCHANGED <<dependencies, required, page>>
    BY <1>3 DEF AddLazy
  <2>2. \A e \in Defs : pc'[e] # "children" => pc[e] # "children"
    BY <1>3, AddStep
  <2>3. lazyFd'[d] = NoFd /\ \A e \in Defs \ {d} : lazyFd'[e] = lazyFd[e]
    BY <2>1 DEF TypeOK
  <2>4. OwesReferences(d)'
    BY <1>a, <2>1, <2>2, <2>3, SamePage DEF OwesReferences
  <2>5. \A e \in Defs \ {d} : OwesReferences(e)'
    BY <1>a, <2>1, <2>2, <2>3, SameWork
  <2> QED
    BY <1>b, <2>4, <2>5
<1>4. CASE CallerWaits \/ WaitReturns \/ CollectResults \/ UNCHANGED vars
  BY <1>a, <1>b, <1>4, QuietStep, SameWork
<1>5. ASSUME NEW d \in Defs, AddMeta(d)
      PROVE  WorkIsReferenced'
  <2>1. /\ pc[d] = "meta" /\ pc' = [pc EXCEPT ![d] = "children"]
        /\ required' = [required EXCEPT ![d] = page[d].required]
        /\ dependencies' = [dependencies EXCEPT ![d] = DependencyNames(d)]
        /\ UNCHANGED <<page, lazyFd>>
    BY <1>5 DEF AddMeta
  <2>2. /\ lazyFd'[d] = NoFd /\ required'[d] = page[d].required
        /\ dependencies'[d] = DependencyNames(d) /\ pc'[d] = "children"
    BY <1>a, <2>1 DEF OwesReferences, TypeOK
  <2>3. \A i \in DOMAIN required'[d] : required'[d][i] \in RequiredBy(d)
    BY <2>2 DEF RequiredBy
  <2>4. OwesReferences(d)'
    BY <2>1, <2>2, <2>3, SamePage DEF OwesReferences
  <2>5. \A e \in Defs \ {d} :
           /\ required'[e] = required[e] /\ dependencies'[e] = dependencies[e]
           /\ pc'[e] = pc[e]
    BY <2>1 DEF TypeOK
  <2>6. \A e \in Defs \ {d} : OwesReferences(e)'
    BY <1>a, <2>1, <2>5, SameWork
  <2> QED
    BY <1>b, <2>4, <2>6
<1>6. ASSUME NEW d \in Defs, LookUpDependency(d)
      PROVE  WorkIsReferenced'
  <2>1. PICK n \in dependencies[d] :
           /\ dependencies' = [dependencies EXCEPT ![d] = @ \ {n}]
           /\ lazyFd' = IF n \in sheduledFetchDefinitionNames THEN lazyFd
                        ELSE [lazyFd EXCEPT ![d] = Lazily(d, n)]
    BY <1>6 DEF LookUpDependency
  <2>2. pc[d] = "children" /\ UNCHANGED <<pc, page, required>>
    BY <1>6 DEF LookUpDependency
  <2>3. n \in DependencyNames(d)
    BY <1>a DEF OwesReferences
  <2>4. Lazily(d, n) # NoFd => Lazily(d, n) \in LazyBy(d)
    BY <2>3, LazilyType DEF LazyBy
  <2>5. /\ lazyFd'[d] # NoFd => lazyFd'[d] \in LazyBy(d)
        /\ dependencies'[d] \subseteq dependencies[d]
    BY <1>a, <2>1, <2>4 DEF OwesReferences, TypeOK
  <2>6. OwesReferences(d)'
    BY <1>a, <2>2, <2>5, SamePage DEF OwesReferences
  <2>7. \A e \in Defs \ {d} :
           dependencies'[e] = dependencies[e] /\ lazyFd'[e] = lazyFd[e]
    BY <2>1 DEF TypeOK
  <2>8. \A e \in Defs \ {d} : OwesReferences(e)'
    BY <1>a, <2>2, <2>7, SameWork
  <2> QED
    BY <1>b, <2>6, <2>8
<1>7. ASSUME NEW d \in Defs, LoadReturns(d)
      PROVE  WorkIsReferenced'
  <2>1. PICK c \in Pages[d] : page' = [page EXCEPT ![d] = c]
    BY <1>7 DEF LoadReturns
  <2>2. /\ pc[d] = "load" /\ pc' = [pc EXCEPT ![d] = "meta"]
        /\ UNCHANGED <<required, dependencies, lazyFd>>
    BY <1>7 DEF LoadReturns
  <2>3. required[d] = << >> /\ dependencies[d] = {} /\ lazyFd[d] = NoFd
    BY <1>a, <2>2 DEF OwesReferences
  <2>4. OwesReferences(d)'
    BY <2>2, <2>3 DEF OwesReferences
  <2>5. \A e \in Defs \ {d} : page'[e] = page[e] /\ pc'[e] = pc[e]
    BY <2>1, <2>2 DEF TypeOK
  <2>6. \A e \in Defs \ {d} : OwesReferences(e)'
    BY <1>a, <2>2, <2>5, SameWork
  <2> QED
    BY <1>b, <2>4, <2>6
<1>8. ASSUME NEW d \in Defs,
             ExpandURL(d) \/ ExpandURLFails(d) \/ LoadFails(d) \/ Done(d)
      PROVE  WorkIsReferenced'
  <2>1. /\ UNCHANGED <<page, required, dependencies, lazyFd>>
        /\ required[d] = << >> /\ dependencies[d] = {} /\ lazyFd[d] = NoFd
    BY <1>a, <1>8 DEF ExpandURL, ExpandURLFails, LoadFails, Done, JobIsOver,
       OwesReferences
  <2>2. \A e \in Defs \ {d} : pc'[e] = pc[e]
    BY <1>8 DEF ExpandURL, ExpandURLFails, LoadFails, Done, TypeOK
  <2>3. OwesReferences(d)'
    BY <2>1 DEF OwesReferences
  <2>4. \A e \in Defs \ {d} : OwesReferences(e)'
    BY <1>a, <2>1, <2>2, SameWork
  <2> QED
    BY <1>b, <2>3, <2>4
<1> QED
  BY <1>1, <1>2, <1>3, <1>4, <1>5, <1>6, <1>7, <1>8
     DEF Next, Caller, JobStep, Load, Returned

(* Nothing a page refers to is forgotten.                                  *)
Handled(d) == /\ RequiredIsHandled(d)
              /\ \A n \in DependencyNames(d) : DependencyIsHandled(d, n)

LEMMA SameHandled ==
    ASSUME TypeOK, JobsAreScheduled, [Next]_vars, NEW d \in Defs, Handled(d),
           page'[d] = page[d], required'[d] = required[d],
           dependencies'[d] = dependencies[d], lazyFd'[d] = lazyFd[d]
    PROVE  Handled(d)'
<1>1. /\ Scheduled \subseteq Scheduled'
      /\ sheduledFetchDefinitionNames \subseteq sheduledFetchDefinitionNames'
  BY NextGrows
<1>2. RequiredIsHandled(d)'
  BY <1>1, SamePage DEF Handled, RequiredIsHandled, IsResult
<1>3. ASSUME NEW n \in DependencyNames(d)
      PROVE  DependencyIsHandled(d, n)'
  <2>1. DependencyIsHandled(d, n) /\ Lazily(d, n)' = Lazily(d, n)
    BY SamePage DEF Handled
  <2> QED
    BY <1>1, <2>1 DEF DependencyIsHandled, IsResult
<1> QED
  BY <1>2, <1>3, SamePage DEF Handled

LEMMA NextReferencesHandled ==
    ASSUME TypeOK, Schedule, LoadsAreRecorded, WorkIsReferenced,
           ReferencesAreHandled, [Next]_vars
    PROVE  ReferencesAreHandled'
<1>a. \A d \in Defs : pc[d] # "meta" => Handled(d)
  BY DEF ReferencesAreHandled, Handled
<1>b. ASSUME \A d \in Defs : pc'[d] # "meta" => Handled(d)'
      PROVE  ReferencesAreHandled'
  BY <1>b DEF ReferencesAreHandled, Handled
<1>c. JobsAreScheduled /\ \A d \in Defs : OwesReferences(d)
  BY DEF Schedule, WorkIsReferenced
<1>g. /\ Scheduled \subseteq Scheduled'
      /\ sheduledFetchDefinitionNames \subseteq sheduledFetchDefinitionNames'
  BY <1>c, NextGrows
<1>1. CASE CallerAdds
  <2>1. UNCHANGED <<required, dependencies, lazyFd>>
    BY <1>1 DEF CallerAdds
  <2>2. UNCHANGED page /\ \A e \in Defs : pc'[e] # "meta" => pc[e] # "meta"
    BY <1>c, <1>1, AddStep
  <2> QED
    BY <1>a, <1>b, <1>c, <2>1, <2>2, SameHandled
<1>2. ASSUME NEW d \in Defs, AddRequired(d)
      PROVE  ReferencesAreHandled'
  <2>1. /\ required' = [required EXCEPT ![d] = Tail(@)]
        /\ required[d] # << >> /\ pc[d] = "children"
        /\ UNCHANGED <<dependencies, lazyFd>>
        /\ AddFetchJob(Head(required[d])) /\ Head(required[d]) \in Defs
    BY <1>2, AddFetchJobArguments DEF AddRequired
  <2>2. UNCHANGED page /\ \A e \in Defs : pc'[e] # "meta" => pc[e] # "meta"
    BY <1>c, <1>2, AddStep
  <2>3. \E e \in Scheduled' : Hash[e] = Hash[Head(required[d])]
    BY <1>c, <2>1, AddFetchJobResult DEF IsResult
  <2>4. /\ Head(required[d]) = required[d][1]
        /\ \A i \in DOMAIN required[d] : i # 1 =>
              /\ i - 1 \in DOMAIN required'[d]
              /\ required'[d][i - 1] = required[d][i]
    BY <2>1, TailElements DEF TypeOK
  <2>5. RequiredIsHandled(d)'
    <3>1. ASSUME NEW r \in RequiredBy(d)
          PROVE  \/ \E e \in Scheduled' : Hash[e] = Hash[r]
                 \/ \E i \in DOMAIN required'[d] : required'[d][i] = r
      <4>1. \/ \E e \in Scheduled : Hash[e] = Hash[r]
            \/ \E i \in DOMAIN required[d] : required[d][i] = r
        BY <1>a, <2>1 DEF Handled, RequiredIsHandled, IsResult
      <4> QED
        BY <1>g, <2>3, <2>4, <4>1
    <3> QED
      BY <2>2, <3>1, SamePage DEF RequiredIsHandled, IsResult
  <2>6. ASSUME NEW n \in DependencyNames(d)
        PROVE  DependencyIsHandled(d, n)'
    <3>1. DependencyIsHandled(d, n) /\ Lazily(d, n)' = Lazily(d, n)
      BY <1>a, <2>1, <2>2, SamePage DEF Handled
    <3> QED
      BY <1>g, <2>1, <3>1 DEF DependencyIsHandled, IsResult
  <2>7. Handled(d)'
    BY <2>2, <2>5, <2>6, SamePage DEF Handled
  <2>8. \A e \in Defs \ {d} : required'[e] = required[e]
    BY <2>1 DEF TypeOK
  <2>9. \A e \in Defs \ {d} : pc'[e] # "meta" => Handled(e)'
    BY <1>a, <1>c, <2>1, <2>2, <2>8, SameHandled
  <2> QED
    BY <1>b, <2>7, <2>9
<1>3. ASSUME NEW d \in Defs, AddLazy(d)
      PROVE  ReferencesAreHandled'
  <2>1. /\ lazyFd' = [lazyFd EXCEPT ![d] = NoFd]
        /\ UNCHANGED <<required, dependencies>> /\ pc[d] = "children"
        /\ AddFetchJob(lazyFd[d]) /\ lazyFd[d] \in Defs
    BY <1>3, AddFetchJobArguments DEF AddLazy
  <2>2. UNCHANGED page /\ \A e \in Defs : pc'[e] # "meta" => pc[e] # "meta"
    BY <1>c, <1>3, AddStep
  <2>3. \E e \in Scheduled' : Hash[e] = Hash[lazyFd[d]]
    BY <1>c, <2>1, AddFetchJobResult DEF IsResult
  <2>4. RequiredIsHandled(d)'
    BY <1>a, <1>g, <2>1, <2>2, SamePage DEF Handled, RequiredIsHandled, IsResult
  <2>5. ASSUME NEW n \in DependencyNames(d)
        PROVE  DependencyIsHandled(d, n)'
    <3>1. DependencyIsHandled(d, n) /\ Lazily(d, n)' = Lazily(d, n)
      BY <1>a, <2>1, <2>2, SamePage DEF Handled
    <3>2. CASE lazyFd[d] = Lazily(d, n)
      BY <2>3, <3>1, <3>2 DEF DependencyIsHandled, IsResult
    <3>3. CASE lazyFd[d] # Lazily(d, n)
      BY <1>g, <2>1, <3>1, <3>3 DEF DependencyIsHandled, IsResult
    <3> QED
      BY <3>2, <3>3
  <2>6. Handled(d)'
    BY <2>2, <2>4, <2>5, SamePage DEF Handled
  <2>7. \A e \in Defs \ {d} : lazyFd'[e] = lazyFd[e]
    BY <2>1 DEF TypeOK
  <2>8. \A e \in Defs \ {d} : pc'[e] # "meta" => Handled(e)'
    BY <1>a, <1>c, <2>1, <2>2, <2>7, SameHandled
  <2> QED
    BY <1>b, <2>6, <2>8
<1>4. CASE CallerWaits \/ WaitReturns \/ CollectResults \/ UNCHANGED vars
  BY <1>a, <1>b, <1>c, <1>4, QuietStep, SameHandled
<1>5. ASSUME NEW d \in Defs, AddMeta(d)
      PROVE  ReferencesAreHandled'
  <2>1. /\ pc[d] = "meta" /\ pc' = [pc EXCEPT ![d] = "children"]
        /\ required' = [required EXCEPT ![d] = page[d].required]
        /\ dependencies' = [dependencies EXCEPT ![d] = DependencyNames(d)]
        /\ UNCHANGED <<page, lazyFd>>
    BY <1>5 DEF AddMeta
  <2>2. /\ required'[d] = page[d].required
        /\ dependencies'[d] = DependencyNames(d)
    BY <2>1 DEF TypeOK
  <2>3. RequiredIsHandled(d)'
    BY <2>1, <2>2 DEF RequiredIsHandled, RequiredBy
  <2>4. \A n \in DependencyNames(d) : DependencyIsHandled(d, n)'
    BY <2>2 DEF DependencyIsHandled
  <2>5. Handled(d)'
    BY <2>1, <2>3, <2>4, SamePage DEF Handled
  <2>6. \A e \in Defs \ {d} :
           /\ required'[e] = required[e] /\ dependencies'[e] = dependencies[e]
           /\ pc'[e] = pc[e]
    BY <2>1 DEF TypeOK
  <2>7. \A e \in Defs \ {d} : pc'[e] # "meta" => Handled(e)'
    BY <1>a, <1>c, <2>1, <2>6, SameHandled
  <2> QED
    BY <1>b, <2>5, <2>7
<1>6. ASSUME NEW d \in Defs, LookUpDependency(d)
      PROVE  ReferencesAreHandled'
  <2>1. PICK m \in dependencies[d] :
           /\ dependencies' = [dependencies EXCEPT ![d] = @ \ {m}]
           /\ lazyFd' = IF m \in sheduledFetchDefinitionNames THEN lazyFd
                        ELSE [lazyFd EXCEPT ![d] = Lazily(d, m)]
    BY <1>6 DEF LookUpDependency
  <2>2. /\ pc[d] = "children" /\ lazyFd[d] = NoFd
        /\ UNCHANGED <<pc, page, required>>
    BY <1>6 DEF LookUpDependency
  <2>3. /\ dependencies'[d] = dependencies[d] \ {m}
        /\ m \in sheduledFetchDefinitionNames \/ lazyFd'[d] = Lazily(d, m)
    BY <2>1 DEF TypeOK
  <2>4. RequiredIsHandled(d)'
    BY <1>a, <1>g, <2>2, SamePage DEF Handled, RequiredIsHandled, IsResult
  <2>5. ASSUME NEW n \in DependencyNames(d)
        PROVE  DependencyIsHandled(d, n)'
    <3>1. DependencyIsHandled(d, n) /\ Lazily(d, n)' = Lazily(d, n)
      BY <1>a, <2>2, SamePage DEF Handled
    <3>2. CASE n = m
      BY <1>g, <2>3, <3>1, <3>2 DEF DependencyIsHandled
    <3>3. CASE n # m
      BY <1>g, <2>2, <2>3, <3>1, <3>3 DEF DependencyIsHandled, IsResult
    <3> QED
      BY <3>2, <3>3
  <2>6. Handled(d)'
    BY <2>2, <2>4, <2>5, SamePage DEF Handled
  <2>7. \A e \in Defs \ {d} :
           dependencies'[e] = dependencies[e] /\ lazyFd'[e] = lazyFd[e]
    BY <2>1 DEF TypeOK
  <2>8. \A e \in Defs \ {d} : pc'[e] # "meta" => Handled(e)'
    BY <1>a, <1>c, <2>2, <2>7, SameHandled
  <2> QED
    BY <1>b, <2>6, <2>8
<1>7. ASSUME NEW d \in Defs, LoadReturns(d)
      PROVE  ReferencesAreHandled'
  <2>1. PICK c \in Pages[d] : page' = [page EXCEPT ![d] = c]
    BY <1>7 DEF LoadReturns
  <2>2. /\ pc[d] = "load" /\ pc' = [pc EXCEPT ![d] = "meta"]
        /\ UNCHANGED <<required, dependencies, lazyFd>>
    BY <1>7 DEF LoadReturns
  <2>3. /\ pc'[d] = "meta"
        /\ \A e \in Defs \ {d} : page'[e] = page[e] /\ pc'[e] = pc[e]
    BY <2>1, <2>2 DEF TypeOK
  <2>4. \A e \in Defs \ {d} : pc'[e] # "meta" => Handled(e)'
    BY <1>a, <1>c, <2>2, <2>3, SameHandled
  <2> QED
    BY <1>b, <2>3, <2>4
<1>8. ASSUME NEW d \in Defs,
             ExpandURL(d) \/ ExpandURLFails(d) \/ LoadFails(d) \/ Done(d)
      PROVE  ReferencesAreHandled'
  <2>1. UNCHANGED <<page, required, dependencies, lazyFd>>
    BY <1>8 DEF ExpandURL, ExpandURLFails, LoadFails, Done
  <2>2. \A e \in Defs : pc'[e] # "meta" => pc[e] # "meta"
    BY <1>8 DEF ExpandURL, ExpandURLFails, LoadFails, Done, JobIsOver, TypeOK
  <2> QED
    BY <1>a, <1>b, <1>c, <2>1, <2>2, SameHandled
<1> QED
  BY <1>1, <1>2, <1>3, <1>4, <1>5, <1>6, <1>7, <1>8
     DEF Next, Caller, JobStep, Load, Returned

-----------------------------------------------------------------------------
(* Whoever brought in a definition has published its meta data before.     *)
LEMMA SameRequester ==
    ASSUME TypeOK, MetaIsPublished, PagesAreKept,
           NEW g \in Defs, NEW d \in Defs, BroughtInBy(g, d),
           \/ pc'[d] = pc[d] /\ seen'[d] = seen[d]
           \/ d \in MalformedURL
           \/ pc[d] # "expand" /\ seen'[d] = seen[d]
           \/ seen'[d] = meta
    PROVE  BroughtInBy(g, d)'
<1>1. /\ Published(g)' /\ page'[g] = page[g]
      /\ NotBefore(g) \subseteq NotBefore(g)'
      /\ \A h \in NotBefore(g) : page'[h] = page[h]
  BY PublishedStays DEF BroughtInBy
<1>2. References(g, d)'
  BY <1>1, SamePage DEF BroughtInBy, References
<1>3. HoldsMetaOf(meta, g)
  BY DEF BroughtInBy, MetaIsPublished
<1>4. CASE d \in MalformedURL \/ (pc[d] = "expand" /\ pc'[d] = "expand")
  BY <1>1, <1>2, <1>4 DEF BroughtInBy
<1>5. CASE HoldsMetaOf(seen[d], g) /\ seen'[d] = seen[d]
  <2>1. HoldsMetaOf(seen[d], g)'
    BY <1>1, <1>5 DEF HoldsMetaOf
  <2> QED
    BY <1>1, <1>2, <2>1 DEF BroughtInBy
<1>6. CASE seen'[d] = meta
  <2>1. HoldsMetaOf(seen[d], g)'
    BY <1>1, <1>3, <1>6 DEF HoldsMetaOf
  <2> QED
    BY <1>1, <1>2, <2>1 DEF BroughtInBy
<1> QED
  BY <1>4, <1>5, <1>6 DEF BroughtInBy

(* A step that schedules nothing new.                                      *)
LEMMA SameRequesters ==
    ASSUME TypeOK, MetaIsPublished, PagesAreKept, RequestersHavePublished,
           Scheduled' = Scheduled,
           \A d \in Defs :
              \/ pc'[d] = pc[d] /\ seen'[d] = seen[d]
              \/ d \in MalformedURL
              \/ pc[d] # "expand" /\ seen'[d] = seen[d]
              \/ seen'[d] = meta
    PROVE  RequestersHavePublished'
<1>1. ASSUME NEW d \in Scheduled, NEW g \in Scheduled, BroughtInBy(g, d)
      PROVE  BroughtInBy(g, d)'
  <2>1. g \in Defs /\ d \in Defs
    BY DEF Scheduled, TypeOK
  <2> QED
    BY <1>1, <2>1, SameRequester
<1>3. \A d : IsInitial(d)' <=> IsInitial(d)
  BY DEF IsInitial
<1> QED
  BY <1>1, <1>3 DEF RequestersHavePublished

(* A step that adds a job for e, at the request of g or of the caller.     *)
LEMMA AddedRequesters ==
    ASSUME TypeOK, JobsAreScheduled, MetaIsPublished, PagesAreKept,
           RequestersHavePublished, NEW e \in Defs,
           AddFetchJob(e), UNCHANGED <<page, seen>>,
           IsInitial(e) \/ \E g \in Defs : pc[g] = "children" /\ References(g, e)
    PROVE  RequestersHavePublished'
<1>1. /\ Scheduled \subseteq Scheduled' /\ Scheduled' \subseteq Scheduled \cup {e}
      /\ pc' = pc \/ (pc[e] = "none" /\ pc' = [pc EXCEPT ![e] = "expand"])
  BY AddFetchJobResult
<1>2. \A d \in Scheduled : d \in Defs /\ pc'[d] = pc[d]
  BY <1>1 DEF JobsAreScheduled, Scheduled, TypeOK
<1>3. ASSUME NEW d \in Scheduled, NEW g \in Scheduled, BroughtInBy(g, d)
      PROVE  BroughtInBy(g, d)'
  BY <1>2, <1>3, SameRequester
<1>4. ASSUME NEW d \in Scheduled
      PROVE  IsInitial(d) \/ \E g \in Scheduled' : BroughtInBy(g, d)'
  BY <1>1, <1>3 DEF RequestersHavePublished
<1>5. ASSUME e \notin Scheduled, e \in Scheduled'
      PROVE  IsInitial(e) \/ \E g \in Scheduled' : BroughtInBy(g, e)'
  <2>1. pc' = [pc EXCEPT ![e] = "expand"] /\ pc[e] = "none"
    <3>1. Scheduled' # Scheduled
      BY <1>5
    <3> QED
      BY <3>1, AddFetchJobEffect DEF Scheduled
  <2>2. ASSUME NEW g \in Defs, pc[g] = "children", References(g, e)
        PROVE  g \in Scheduled' /\ BroughtInBy(g, e)'
    <3>1. g \in Scheduled'
      BY <1>1, <2>2 DEF JobsAreScheduled
    <3>2. Published(g)' /\ pc'[e] = "expand"
      BY <2>1, <2>2, PublishedStays DEF TypeOK, MetaIsPublished
    <3>3. References(g, e)'
      BY <2>2, SamePage DEF References
    <3> QED
      BY <3>1, <3>2, <3>3 DEF BroughtInBy
  <2> QED
    BY <2>2
<1>6. \A d : IsInitial(d)' <=> IsInitial(d)
  BY DEF IsInitial
<1> QED
  BY <1>1, <1>4, <1>5, <1>6 DEF RequestersHavePublished

LEMMA NextRequestersPublished ==
    ASSUME TypeOK, JobsAreScheduled, WorkIsReferenced, MetaIsPublished,
           RequestersHavePublished, InitialIsAdded, [Next]_vars
    PROVE  RequestersHavePublished'
<1>p. PagesAreKept
  BY NextKeepsPages
<1>1. CASE CallerAdds
  <2>1. /\ AddFetchJob(Head(toAdd)) /\ Head(toAdd) \in Defs
        /\ toAdd # << >> /\ UNCHANGED <<page, seen>>
    BY <1>1, AddFetchJobArguments DEF CallerAdds
  <2>2. IsInitial(Head(toAdd))
    BY <2>1, TailElements DEF InitialIsAdded, TypeOK
  <2> QED
    BY <1>p, <2>1, <2>2, AddedRequesters
<1>2. ASSUME NEW d \in Defs, AddRequired(d)
      PROVE  RequestersHavePublished'
  <2>1. /\ AddFetchJob(Head(required[d])) /\ Head(required[d]) \in Defs
        /\ pc[d] = "children" /\ required[d] # << >>
        /\ UNCHANGED <<page, seen>>
    BY <1>2, AddFetchJobArguments DEF AddRequired
  <2>2. References(d, Head(required[d]))
    BY <2>1, TailElements
       DEF WorkIsReferenced, OwesReferences, References, TypeOK
  <2> QED
    BY <1>p, <2>1, <2>2, AddedRequesters
<1>3. ASSUME NEW d \in Defs, AddLazy(d)
      PROVE  RequestersHavePublished'
  <2>1. /\ AddFetchJob(lazyFd[d]) /\ lazyFd[d] \in Defs
        /\ pc[d] = "children" /\ lazyFd[d] # NoFd
        /\ UNCHANGED <<page, seen>>
    BY <1>3, AddFetchJobArguments DEF AddLazy
  <2>2. References(d, lazyFd[d])
    BY <2>1 DEF WorkIsReferenced, OwesReferences, References
  <2> QED
    BY <1>p, <2>1, <2>2, AddedRequesters
<1>4. CASE CallerWaits \/ WaitReturns \/ CollectResults \/ UNCHANGED vars
  <2>1. Scheduled' = Scheduled
    BY <1>4, SortResultsEffect
       DEF CallerWaits, WaitReturns, CollectResults, vars, Scheduled
  <2> QED
    BY <1>4, <1>p, <2>1, QuietStep, SameRequesters
<1>5. ASSUME NEW d \in Defs, ExpandURL(d)
      PROVE  RequestersHavePublished'
  <2>1. /\ seen' = [seen EXCEPT ![d] = meta] /\ pc[d] = "expand"
        /\ pc' = [pc EXCEPT ![d] = "load"] /\ UNCHANGED <<results, page>>
    BY <1>5 DEF ExpandURL
  <2>2. seen'[d] = meta
    BY <2>1 DEF TypeOK
  <2>3. \A e \in Defs \ {d} : pc'[e] = pc[e] /\ seen'[e] = seen[e]
    BY <2>1 DEF TypeOK
  <2>4. Scheduled' = Scheduled
    BY <2>1 DEF Scheduled
  <2> QED
    BY <1>p, <2>2, <2>3, <2>4, SameRequesters
<1>6. ASSUME NEW d \in Defs,
             ExpandURLFails(d) \/ Load(d) \/ AddMeta(d)
                \/ LookUpDependency(d) \/ Done(d)
      PROVE  RequestersHavePublished'
  <2>1. UNCHANGED <<results, seen>>
    BY <1>6 DEF ExpandURLFails, Load, LoadReturns, LoadFails, AddMeta,
       LookUpDependency, Done
  <2>2. /\ \A e \in Defs \ {d} : pc'[e] = pc[e]
        /\ d \in MalformedURL \/ pc[d] # "expand"
    BY <1>6 DEF ExpandURLFails, Load, LoadReturns, LoadFails, AddMeta,
       LookUpDependency, Done, JobIsOver, TypeOK
  <2>3. Scheduled' = Scheduled
    BY <2>1 DEF Scheduled
  <2> QED
    BY <1>p, <2>1, <2>2, <2>3, SameRequesters
<1> QED
  BY <1>1, <1>2, <1>3, <1>4, <1>5, <1>6
     DEF Next, Caller, JobStep, Load, Returned

-----------------------------------------------------------------------------
(* The inductive invariant.                                                *)
LEMMA RunningJobIsCounted ==
    ASSUME TypeOK, JobsAreCounted, NEW d \in Defs, JobIsOver(d)
    PROVE  activeJobs > 0
<1>1. d \in Running
  BY DEF JobIsOver, Running, Live
<1>2. IsFiniteSet(Running) /\ activeJobs = Cardinality(Running)
  BY DEF JobsAreCounted, Running
<1>3. activeJobs # 0
  BY <1>1, <1>2, FS_EmptySet
<1> QED
  BY <1>3 DEF TypeOK

LEMMA InitInvariant == Init => IInv
<1> SUFFICES ASSUME Init PROVE IInv
  OBVIOUS
<1>1. TypeOK
  BY InitTypeOK
<1>a. \A d \in Defs : pc[d] = "none" /\ page[d] = NoPage
  BY DEF Init
<1>b. Scheduled = {}
  <2>1. results = << >>
    BY DEF Init
  <2>2. DOMAIN results = {}
    BY <2>1
  <2> QED
    BY <2>2 DEF Scheduled
<1>2. Scheduled = {} /\ \A d \in Defs : pc[d] = "none" /\ page[d] = NoPage
  BY <1>a, <1>b
<1>3. JobsAreScheduled /\ NamesAreScheduled /\ HashesAreUnique
  BY <1>2 DEF Init, JobsAreScheduled, NamesAreScheduled, HashesAreUnique
<1>4. JobsAreCounted
  <2>1. Running = {}
    BY <1>2 DEF Running, Live
  <2> QED
    BY <2>1, FS_EmptySet DEF Init, JobsAreCounted, Running
<1>5. NoJobOutlivesWait /\ LoadsAreRecorded /\ RequestersHavePublished
  BY <1>2 DEF Init, NoJobOutlivesWait, LoadsAreRecorded, Settled,
     RequestersHavePublished
<1>6. \A d \in Defs : RequiredBy(d) = {} /\ DependencyNames(d) = {}
  BY <1>2 DEF RequiredBy, DependencyNames, NoPage
<1>7. WorkIsReferenced
  <2>1. ASSUME NEW d \in Defs
        PROVE  required[d] = << >> /\ dependencies[d] = {} /\ lazyFd[d] = NoFd
    BY DEF Init
  <2>2. ASSUME NEW d \in Defs PROVE DOMAIN required[d] = {}
    BY <2>1
  <2> QED
    BY <2>1, <2>2 DEF WorkIsReferenced, OwesReferences
<1>8. ReferencesAreHandled
  BY <1>6 DEF ReferencesAreHandled, RequiredIsHandled
<1>9. MetaIsPublished
  <2>1. published = << >>
    BY DEF Init
  <2>2. DOMAIN published = {}
    BY <2>1
  <2> QED
    BY <1>2, <2>2 DEF MetaIsPublished, Published
<1>10. InitialIsAdded
  BY DEF Init, InitialIsAdded, IsInitial
<1> QED
  BY <1>1, <1>3, <1>4, <1>5, <1>7, <1>8, <1>9, <1>10 DEF IInv

LEMMA NextInvariant == IInv /\ [Next]_vars => IInv'
<1> SUFFICES ASSUME IInv, [Next]_vars PROVE IInv'
  OBVIOUS
<1>1. TypeOK'
  BY NextTypeOK, RunningJobIsCounted DEF IInv
<1>2. Schedule'
  BY NextSchedule DEF IInv, Schedule
<1>3. JobsAreCounted' /\ NoJobOutlivesWait'
  BY NextCounted, NextNoJobOutlivesWait DEF IInv
<1>4. LoadsAreRecorded' /\ WorkIsReferenced'
  BY NextLoadsRecorded, NextWorkReferenced DEF IInv
<1>5. ReferencesAreHandled'
  BY NextReferencesHandled DEF IInv, Schedule
<1>6. MetaIsPublished' /\ RequestersHavePublished' /\ InitialIsAdded'
  BY NextMetaPublished, NextRequestersPublished, NextInitialIsAdded DEF IInv
<1> QED
  BY <1>1, <1>2, <1>3, <1>4, <1>5, <1>6 DEF IInv, Schedule

(* Each part of IInv describes the state between any two steps of the      *)
(* caller and the jobs (content_fetcher.go:78-174).                        *)
THEOREM Invariant == Spec => []IInv
<1>1. Init => IInv
  BY InitInvariant
<1>2. IInv /\ [Next]_vars => IInv'
  BY NextInvariant
<1> QED
  BY <1>1, <1>2, PTL DEF Spec

(* The variables keep their types; in particular the wait group's counter  *)
(* never becomes negative, which would panic (content_fetcher.go:114).     *)
THEOREM TypeCorrect == Spec => []TypeOK
<1>1. IInv => TypeOK
  BY DEF IInv
<1> QED
  BY <1>1, Invariant, PTL

(* When WaitForResults goes on after Wait, no goroutine of the fetcher is  *)
(* running or will be started (content_fetcher.go:78-93).                  *)
THEOREM NoJobLeft == Spec => []NoJobOutlivesWait
<1>1. IInv => NoJobOutlivesWait
  BY DEF IInv
<1> QED
  BY <1>1, Invariant, PTL

LEMMA EndedWhenReturned ==
    ASSUME IInv, caller \in {"collecting", "returned"}
           \/ (caller = "waiting" /\ activeJobs = 0)
    PROVE  /\ \A d \in Defs : pc[d] = "none" \/ pc[d] = "ended"
           /\ \A d \in Scheduled : d \in Defs /\ pc[d] = "ended"
<1>1. \A d \in Defs : ~Live(d)
  <2>1. CASE caller \in {"collecting", "returned"}
    BY <2>1 DEF IInv, NoJobOutlivesWait
  <2>2. CASE activeJobs = 0
    <3>1. Running = {}
      BY <2>2, FS_EmptySet DEF IInv, JobsAreCounted, Running
    <3> QED
      BY <3>1 DEF Running
  <2> QED
    BY <2>1, <2>2
<1>2. \A d \in Scheduled : d \in Defs
  BY DEF IInv, TypeOK, Scheduled
<1> QED
  BY <1>1, <1>2 DEF Live, IInv, JobsAreScheduled

(* Every result says what became of its load (content_fetcher.go:117-130). *)
THEOREM AllAnswered == Spec => []NoAnswerMissing
<1>1. IInv => NoAnswerMissing
  BY EndedWhenReturned DEF NoAnswerMissing, IInv, LoadsAreRecorded, Settled
<1> QED
  BY <1>1, Invariant, PTL

LEMMA ResolvedWhenEnded ==
    ASSUME IInv, NEW d \in Defs, pc[d] = "ended"
    PROVE  /\ \A r \in RequiredBy(d) : IsResult(r)
           /\ \A n \in DependencyNames(d) :
                 \/ \E e \in Scheduled : Name[e] = n
                 \/ Lazily(d, n) = NoFd
                 \/ IsResult(Lazily(d, n))
<1>1. /\ required[d] = << >> /\ dependencies[d] = {} /\ lazyFd[d] = NoFd
  BY DEF IInv, WorkIsReferenced, OwesReferences
<1>2. /\ RequiredIsHandled(d)
      /\ \A n \in DependencyNames(d) : DependencyIsHandled(d, n)
  BY DEF IInv, ReferencesAreHandled
<1>3. \A r \in RequiredBy(d) : IsResult(r)
  BY <1>1, <1>2 DEF RequiredIsHandled
<1>4. ASSUME NEW n \in DependencyNames(d)
      PROVE  \/ \E e \in Scheduled : Name[e] = n
             \/ Lazily(d, n) = NoFd
             \/ IsResult(Lazily(d, n))
  BY <1>1, <1>2 DEF DependencyIsHandled, IInv, NamesAreScheduled
<1> QED
  BY <1>3, <1>4

(* The results contain what the loaded pages refer to                      *)
(* (content_fetcher.go:138-163).                                           *)
THEOREM AllReferencesResolved == Spec => []ReferencesResolved
<1>1. IInv => ReferencesResolved
  BY EndedWhenReturned, ResolvedWhenEnded DEF ReferencesResolved
<1> QED
  BY <1>1, Invariant, PTL

(* The template of a URL sees the meta data of a page that asked for it,   *)
(* each field as that page or one published after it has set it            *)
(* (content_fetcher.go:116, 132-133, 200-206).                             *)
THEOREM RequesterMetaSeen == Spec => []UrlSeesRequesterMeta
<1>1. IInv => UrlSeesRequesterMeta
  BY DEF IInv, RequestersHavePublished, BroughtInBy, UrlSeesRequesterMeta
<1> QED
  BY <1>1, Invariant, PTL

(* What the handler reads without a lock is not written any more           *)
(* (composition_handler.go:75-82).                                         *)
THEOREM SettledForReaders == Spec => SettledAfterWait
<1>1. ASSUME IInv, Next, caller \in {"collecting", "returned"}
      PROVE  Scheduled' = Scheduled /\ UNCHANGED <<meta, answer, page>>
  <2>1. \A d \in Defs : ~(JobStep(d) \/ Load(d))
    BY <1>1 DEF IInv, NoJobOutlivesWait, Live, JobStep, Load, ExpandURL,
       ExpandURLFails, LoadReturns, LoadFails, AddMeta, AddRequired,
       LookUpDependency, AddLazy, Done, JobIsOver
  <2>2. CollectResults \/ Returned
    BY <1>1, <2>1 DEF Next, Caller, CallerAdds, CallerWaits, WaitReturns
  <2>3. Scheduled' = Scheduled
    BY <1>1, <2>2, SortResultsEffect
       DEF IInv, CollectResults, Returned, vars, Scheduled
  <2> QED
    BY <2>2, <2>3 DEF CollectResults, Returned, vars
<1>2. IInv /\ [Next]_vars =>
         [(caller \in {"collecting", "returned"}) =>
            (Scheduled' = Scheduled /\ UNCHANGED <<meta, answer, page>>)]_vars
  BY <1>1
<1> QED
  BY <1>2, Invariant, PTL DEF Spec, SettledAfterWait

-----------------------------------------------------------------------------
(* The refinement of FetchPlan.                                            *)
PlanSame == UNCHANGED <<Answered, Requires, LeadsTo>>

LEMMA InPairs ==
    ASSUME NEW d \in Defs, NEW r \in RequiredBy(d) \cup LazyBy(d)
    PROVE  <<Hash[d], Hash[r]>> \in LeadsTo
  BY DEF LeadsTo

(* Only a load that returns changes what the pages refer to.               *)
LEMMA SamePlan ==
    ASSUME page' = page, \A d \in Defs : Settled(d)' <=> Settled(d)
    PROVE  PlanSame
<1>1. \A d \in Defs : RequiredBy(d)' = RequiredBy(d) /\ LazyBy(d)' = LazyBy(d)
  BY SamePage
<1>2. Requires' = Requires /\ LeadsTo' = LeadsTo
  BY <1>1 DEF Requires, LeadsTo
<1>3. Answered' = Answered
  BY DEF Answered
<1> QED
  BY <1>2, <1>3 DEF PlanSame

(* Adding a job asks for the resource, or for nothing.                     *)
LEMMA AddAsks ==
    ASSUME IInv, NEW d \in Defs, AddFetchJob(d), page' = page
    PROVE  /\ PlanSame
           /\ Asked' = Asked \/ (Hash[d] \notin Asked /\ Asked' = Asked \cup {Hash[d]})
<1>1. TypeOK /\ JobsAreScheduled
  BY DEF IInv
<1>2. pc' = pc \/ (pc[d] = "none" /\ pc' = [pc EXCEPT ![d] = "expand"])
  BY <1>1, AddFetchJobResult
<1>3. PlanSame
  BY <1>1, <1>2, SamePlan DEF Settled, TypeOK
<1>4. CASE UNCHANGED results
  BY <1>3, <1>4 DEF Asked, Scheduled
<1>5. CASE ~IsResult(d) /\ Scheduled' = Scheduled \cup {d}
  BY <1>3, <1>5 DEF Asked, IsResult
<1> QED
  BY <1>1, <1>4, <1>5, AddFetchJobEffect

(* A load that returns settles its resource and reveals what its page      *)
(* refers to; one that fails, or cannot be started, only settles it.       *)
LEMMA LoadSettles ==
    ASSUME IInv, NEW d \in Defs, ~Settled(d), Live(d), Settled(d)',
           results' = results,
           \A e \in Defs \ {d} : pc'[e] = pc[e] /\ page'[e] = page[e]
    PROVE  /\ Hash[d] \in Asked \ Answered /\ Asked' = Asked
           /\ Answered' = Answered \cup {Hash[d]}
           /\ Requires' = Requires \cup
                 ({Hash[d]} \X {Hash[e] : e \in RequiredBy(d)'})
           /\ LeadsTo' = LeadsTo \cup
                 ({Hash[d]} \X {Hash[e] : e \in RequiredBy(d)' \cup LazyBy(d)'})
<1>1. d \in Scheduled /\ \A e \in Defs : Settled(e) => e \in Scheduled
  BY DEF Settled, Live, IInv, JobsAreScheduled
<1>2. Asked' = Asked /\ Hash[d] \in Asked
  BY <1>1 DEF Asked, Scheduled
<1>3. Hash[d] \notin Answered
  BY <1>1 DEF Answered, IInv, HashesAreUnique
<1>4. Answered' = Answered \cup {Hash[d]}
  BY DEF Answered, Settled
<1>5. \A e \in Defs \ {d} : RequiredBy(e)' = RequiredBy(e) /\ LazyBy(e)' = LazyBy(e)
  BY SamePage
<1>6. RequiredBy(d) = {} /\ LazyBy(d) = {}
  <2>1. page[d] = NoPage
    BY DEF Settled, Live, IInv, TypeOK, Phases, LoadsAreRecorded
  <2>2. DOMAIN NoPage.required = {} /\ DOMAIN NoPage.dependencies = {}
    BY DEF NoPage
  <2> QED
    BY <2>1, <2>2 DEF RequiredBy, LazyBy, DependencyNames
<1>7. Requires' = Requires \cup ({Hash[d]} \X {Hash[e] : e \in RequiredBy(d)'})
  BY <1>5, <1>6 DEF Requires
<1>8. LeadsTo' = LeadsTo \cup
         ({Hash[d]} \X {Hash[e] : e \in RequiredBy(d)' \cup LazyBy(d)'})
  BY <1>5, <1>6 DEF LeadsTo
<1> QED
  BY <1>2, <1>3, <1>4, <1>7, <1>8

LEMMA InitPlan == Init => Plan!Init
<1> SUFFICES ASSUME Init PROVE Plan!Init
  OBVIOUS
<1>1. Asked = {}
  <2>1. results = << >>
    BY DEF Init
  <2>2. DOMAIN results = {}
    BY <2>1
  <2> QED
    BY <2>2 DEF Asked, Scheduled
<1>2. Answered = {}
  BY DEF Init, Answered, Settled
<1>3. DOMAIN NoPage.required = {} /\ DOMAIN NoPage.dependencies = {}
  BY DEF NoPage
<1>4. \A d \in Defs : page[d] = NoPage
  BY DEF Init
<1>5. \A d \in Defs : RequiredBy(d) = {} /\ LazyBy(d) = {}
  BY <1>3, <1>4 DEF RequiredBy, LazyBy, DependencyNames
<1>6. Requires = {} /\ LeadsTo = {}
  BY <1>5 DEF Requires, LeadsTo
<1>7. caller = "adding"
  BY DEF Init
<1> QED
  BY <1>1, <1>2, <1>6, <1>7 DEF Plan!Init

LEMMA NextPlan == IInv /\ [Next]_vars => [Plan!Next]_(Plan!vars)
<1> SUFFICES ASSUME IInv, [Next]_vars PROVE [Plan!Next]_(Plan!vars)
  OBVIOUS
<1>t. TypeOK /\ \A e \in Defs : Hash[e] \in Hashes
  BY AttributesAssumption DEF IInv
<1>1. CASE CallerAdds
  <2>1. /\ AddFetchJob(Head(toAdd)) /\ Head(toAdd) \in Defs
        /\ caller = "adding" /\ UNCHANGED <<caller, page>>
    BY <1>1, <1>t, AddFetchJobArguments DEF CallerAdds
  <2> DEFINE h == Hash[Head(toAdd)]
  <2>2. /\ PlanSame /\ h \in Hashes
        /\ Asked' = Asked \/ (h \notin Asked /\ Asked' = Asked \cup {h})
    BY <2>1, <1>t, AddAsks
  <2> QED
    BY <2>1, <2>2 DEF PlanSame, Plan!Next, Plan!Ask, Plan!vars
<1>2. ASSUME NEW d \in Defs, AddRequired(d) \/ AddLazy(d)
      PROVE  [Plan!Next]_(Plan!vars)
  <2>1. PICK r \in Defs : /\ AddFetchJob(r) /\ References(d, r)
                          /\ pc[d] = "children" /\ UNCHANGED <<caller, page>>
    <3>1. CASE AddRequired(d)
      <4>1. /\ required[d] # << >> /\ required[d] \in Seq(Defs)
            /\ AddFetchJob(Head(required[d]))
            /\ pc[d] = "children" /\ UNCHANGED <<caller, page>>
        BY <3>1, <1>t DEF AddRequired, TypeOK
      <4>2. Head(required[d]) \in RequiredBy(d)
        BY <4>1, TailElements DEF IInv, WorkIsReferenced, OwesReferences
      <4> QED
        BY <4>1, <4>2 DEF References
    <3>2. CASE AddLazy(d)
      <4>1. lazyFd[d] \in LazyBy(d) /\ lazyFd[d] \in Defs
        BY <3>2, <1>t, AddFetchJobArguments
           DEF AddLazy, IInv, WorkIsReferenced, OwesReferences
      <4> QED
        BY <3>2, <4>1 DEF AddLazy, References
    <3> QED
      BY <1>2, <3>1, <3>2
  <2>2. Hash[d] \in Answered /\ <<Hash[d], Hash[r]>> \in LeadsTo
    BY <2>1, InPairs DEF Answered, Settled, References
  <2>3. /\ PlanSame /\ Hash[r] \in Hashes
        /\ Asked' = Asked \/ (Hash[r] \notin Asked /\ Asked' = Asked \cup {Hash[r]})
    BY <2>1, <1>t, AddAsks
  <2> QED
    BY <2>1, <2>2, <2>3 DEF PlanSame, Plan!Next, Plan!Ask, Plan!vars
<1>3. ASSUME NEW d \in Defs, ExpandURLFails(d) \/ Load(d)
      PROVE  [Plan!Next]_(Plan!vars)
  <2>1. /\ ~Settled(d) /\ Live(d) /\ Settled(d)' /\ results' = results
        /\ \A e \in Defs \ {d} : pc'[e] = pc[e] /\ page'[e] = page[e]
        /\ caller' = caller
    BY <1>3, <1>t DEF ExpandURLFails, Load, LoadReturns, LoadFails, Settled,
       Live, TypeOK
  <2> DEFINE h == Hash[d]
             M == {Hash[e] : e \in RequiredBy(d)'}
             L == {Hash[e] : e \in RequiredBy(d)' \cup LazyBy(d)'}
  <2>2. /\ h \in Asked \ Answered /\ Asked' = Asked
        /\ Answered' = Answered \cup {h}
        /\ Requires' = Requires \cup ({h} \X M)
        /\ LeadsTo' = LeadsTo \cup ({h} \X L)
    BY <2>1, LoadSettles
  <2>3. TypeOK'
    BY NextTypeOK, RunningJobIsCounted DEF IInv
  <2>4. RequiredBy(d)' \subseteq Defs /\ LazyBy(d)' \subseteq Defs
    BY <2>3, PageType DEF RequiredBy, LazyBy, TypeOK
  <2>5. M \in SUBSET Hashes /\ L \in SUBSET Hashes
    BY <2>4, <1>t
  <2>6. h \in Hashes
    BY <1>t
  <2>8. Requires' \subseteq LeadsTo'
    BY DEF Requires, LeadsTo
  <2> HIDE DEF h, M, L
  <2>7. Plan!Settle(h)
    BY <2>1, <2>2, <2>5, <2>8 DEF Plan!Settle
  <2> QED
    BY <2>6, <2>7 DEF Plan!Next
<1>4. CASE CallerWaits
  <2>1. PlanSame /\ Asked' = Asked
    BY <1>4, SamePlan DEF CallerWaits, Settled, Asked, Scheduled
  <2> QED
    BY <1>4, <2>1 DEF CallerWaits, PlanSame, Plan!Next, Plan!Close
<1>5. CASE WaitReturns
  <2>1. PlanSame /\ Asked' = Asked
    BY <1>5, SamePlan DEF WaitReturns, Settled, Asked, Scheduled
  <2>2. /\ \A d \in Defs : pc[d] = "none" \/ pc[d] = "ended"
        /\ \A d \in Scheduled : d \in Defs /\ pc[d] = "ended"
    BY <1>5, EndedWhenReturned DEF WaitReturns
  <2>3. Answered = Asked
    BY <2>2 DEF Answered, Asked, Settled, IInv, JobsAreScheduled
  <2>4. ASSUME NEW d \in Defs, NEW r \in RequiredBy(d)
        PROVE  Hash[r] \in Asked
    <3>1. required[d] = << >> /\ RequiredIsHandled(d)
      BY <2>2 DEF IInv, ReferencesAreHandled, WorkIsReferenced, OwesReferences
    <3>2. IsResult(r)
      BY <3>1 DEF RequiredIsHandled
    <3> QED
      BY <3>2 DEF IsResult, Asked
  <2>5. \A p \in Requires : p[2] \in Asked
    BY <2>4 DEF Requires
  <2>6. caller = "waiting" /\ caller' = "collecting"
    BY <1>5 DEF WaitReturns
  <2>7. Plan!Return
    BY <2>1, <2>3, <2>5, <2>6 DEF PlanSame, Plan!Return
  <2> QED
    BY <2>7 DEF Plan!Next
<1>6. CASE CollectResults
  <2>1. Scheduled' = Scheduled
    BY <1>6, <1>t, SortResultsEffect DEF CollectResults, Scheduled
  <2>2. PlanSame /\ Asked' = Asked
    BY <1>6, <2>1, SamePlan DEF CollectResults, Settled, Asked
  <2> QED
    BY <1>6, <2>2 DEF CollectResults, PlanSame, Plan!vars
<1>7. ASSUME NEW d \in Defs,
             ExpandURL(d) \/ AddMeta(d) \/ LookUpDependency(d) \/ Done(d)
      PROVE  [Plan!Next]_(Plan!vars)
  <2>1. /\ UNCHANGED <<results, page, caller>>
        /\ \A e \in Defs : Settled(e)' <=> Settled(e)
    BY <1>7, <1>t DEF ExpandURL, AddMeta, LookUpDependency, Done, JobIsOver,
       Settled, TypeOK
  <2>2. PlanSame /\ Asked' = Asked
    BY <2>1, SamePlan DEF Asked, Scheduled
  <2> QED
    BY <2>1, <2>2 DEF PlanSame, Plan!vars
<1>8. CASE UNCHANGED vars
  <2>1. PlanSame /\ Asked' = Asked
    BY <1>8, SamePlan DEF vars, Settled, Asked, Scheduled
  <2> QED
    BY <1>8, <2>1 DEF vars, PlanSame, Plan!vars
<1> QED
  BY <1>1, <1>2, <1>3, <1>4, <1>5, <1>6, <1>7, <1>8
     DEF Next, Caller, JobStep, Returned

(* The fetcher implements FetchPlan: no resource is asked for twice or     *)
(* without a reason, and Wait returns with nothing left to ask or to       *)
(* settle (content_fetcher.go:78-163).                                     *)
THEOREM Refinement == Spec => ImplementsPlan
<1>1. Init => Plan!Init
  BY InitPlan
<1>2. IInv /\ [Next]_vars => [Plan!Next]_(Plan!vars)
  BY NextPlan
<1> QED
  BY <1>1, <1>2, Invariant, PTL DEF Spec, ImplementsPlan, Plan!Spec

=============================================================================
