-------------------------------- MODULE Cache --------------------------------
(***************************************************************************)
(* cache/cache.go: the LRU cache with a limit on its entries, a limit on   *)
(* its memory and a maximal age, over hashicorp's simplelru.               *)
(*                                                                         *)
(* Goroutines call Get, Set and Invalidate, the handler of a failed merge  *)
(* calls PurgeEntries, and a goroutine of the cache sweeps old entries.    *)
(* A critical section of the RWMutex is one step, with one exception: the  *)
(* eviction loop of Set runs step by step with the lock held, because      *)
(* whether it ends is a question.  What runs outside the lock (building    *)
(* the entry of a Set, looking at what a purge has peeked) are steps too.  *)
(*                                                                         *)
(* Get answers with what it finds unless that is too old; the answer is    *)
(* what the refinement of VolatileStore is about.                          *)
(*                                                                         *)
(* Left out: labels, and the counters that are only logged.                *)
(***************************************************************************)
EXTENDS Integers, Sequences, FiniteSets, SequencesExt

CONSTANTS
    Keys,
    Sizes,          \* the sizes MemorySize may report
    Setters,        \* goroutines that call Set
    Purgers,        \* goroutines that purge
    MaxEntries, MaxSizeBytes, MaxAge,   \* the parameters of NewCache
    NoEntry, NoOne,
    MaxSets,        \* bound: how often Set is called
    MaxTime         \* bound: how far the clock runs

\* NewCache panics unless maxEntries > 0; it takes any maxSizeMB, and with a
\* negative one the first Set never returns.
ASSUME LimitsAssumption ==
    /\ MaxEntries \in Nat \ {0}
    /\ MaxSizeBytes \in Nat
    /\ MaxAge \in Nat

ASSUME SizesAssumption == Sizes \subseteq Nat

ASSUME BoundsAssumption == MaxSets \in Nat /\ MaxTime \in Nat

Entry == [key : Keys, size : Sizes, fetchTime : Nat, id : Nat]

ASSUME NoneAssumption == NoEntry \notin Entry /\ NoOne \notin Setters

VARIABLES
    lru,                \* the entries of lruBackend, oldest first
    currentSizeBytes,
    writer,             \* the Set that holds the lock, or NoOne
    now,                \* the clock
    pending,            \* the entry each Set in progress has built
    sets,               \* how many entries have been built
    purge,              \* what each purger does: "idle", "old" or "given"
    todo,               \* the keys it has still to visit
    peeked,             \* the entry it has found and not yet dealt with
    targets             \* history: the entries its purge is to remove

lruVars   == <<lru, currentSizeBytes>>
setVars   == <<pending, sets>>
purgeVars == <<purge, todo, peeked, targets>>
vars      == <<lruVars, writer, now, setVars, purgeVars>>

Unlocked == writer = NoOne

Entries == ToSet(lru)
Expired(e) == now - e.fetchTime > MaxAge

-----------------------------------------------------------------------------
(* simplelru.                                                              *)

\* The places of a key in the list: none or one.
At(s, k) == {i \in DOMAIN s : s[i].key = k}

\* The entry of a key that is in the list.
Find(s, k) == s[CHOOSE i \in At(s, k) : TRUE]

\* Remove: the entry leaves the list and is handed to onEvicted.
Without(s, k) == IF At(s, k) = {} THEN s
                 ELSE RemoveAt(s, CHOOSE i \in At(s, k) : TRUE)

\* Get moves the entry it finds to the front, whatever its age.
Promoted(s, k) == IF At(s, k) = {} THEN s
                  ELSE Append(Without(s, k), Find(s, k))

\* Bytes onEvicted subtracts when the entry of k is removed.
onEvicted(s, k) == IF At(s, k) = {} THEN 0 ELSE Find(s, k).size

\* What Get answers for k at the time t: the entry, unless it is too old.
Answer(s, t, k) ==
    IF At(s, k) # {} /\ t - Find(s, k).fetchTime < MaxAge
    THEN Find(s, k).id ELSE NoEntry

-----------------------------------------------------------------------------
Init ==
    /\ lru = << >>
    /\ currentSizeBytes = 0
    /\ writer = NoOne
    /\ now = 0
    /\ pending = [p \in Setters |-> NoEntry]
    /\ sets = 0
    /\ purge = [p \in Purgers |-> "idle"]
    /\ todo = [p \in Purgers |-> {}]
    /\ peeked = [p \in Purgers |-> NoEntry]
    /\ targets = [p \in Purgers |-> {}]

Tick ==
    /\ now < MaxTime
    /\ now' = now + 1
    /\ UNCHANGED <<lruVars, writer, setVars, purgeVars>>

\* Faulty variant: an entry that is found is as good as new.
GetRenewing(k) ==
    /\ Unlocked
    /\ lru' = IF At(lru, k) = {} THEN lru
              ELSE Append(Without(lru, k),
                          [Find(lru, k) EXCEPT !.fetchTime = now])
    /\ UNCHANGED <<currentSizeBytes, writer, now, setVars, purgeVars>>

(* An entry that is too old to be handed out is promoted too.              *)
Get(k) ==
    /\ Unlocked
    /\ lru' = Promoted(lru, k)
    /\ UNCHANGED <<currentSizeBytes, writer, now, setVars, purgeVars>>

(* The entry, with its fetch time, is built before the lock is taken.      *)
SetBuildsEntry(p) ==
    /\ pending[p] = NoEntry
    /\ sets < MaxSets
    /\ \E k \in Keys, size \in Sizes :
          pending' = [pending EXCEPT ![p] =
             [key |-> k, size |-> size, fetchTime |-> now, id |-> sets + 1]]
    /\ sets' = sets + 1
    /\ UNCHANGED <<lruVars, writer, now, purgeVars>>

\* Faulty variant: Add replaces an entry of the key without counting it out.
SetStoresWithoutRemove(p) ==
    LET e    == pending[p]
        rest == Without(lru, e.key)
        size == currentSizeBytes + e.size
    IN  /\ e # NoEntry /\ Unlocked
        /\ writer' = p
        /\ IF Len(rest) < MaxEntries
           THEN lru' = Append(rest, e) /\ currentSizeBytes' = size
           ELSE /\ lru' = Append(Tail(rest), e)
                /\ currentSizeBytes' = size - Head(rest).size
        /\ UNCHANGED <<now, setVars, purgeVars>>

(* Remove, then Add, which drops the oldest entry of an overfull list.     *)
SetStores(p) ==
    LET e    == pending[p]
        rest == Without(lru, e.key)
        size == currentSizeBytes - onEvicted(lru, e.key) + e.size
    IN  /\ e # NoEntry /\ Unlocked
        /\ writer' = p
        /\ IF Len(rest) < MaxEntries
           THEN lru' = Append(rest, e) /\ currentSizeBytes' = size
           ELSE /\ lru' = Append(Tail(rest), e)
                /\ currentSizeBytes' = size - Head(rest).size
        /\ UNCHANGED <<now, setVars, purgeVars>>

\* Faulty variant: the newest entry is evicted.
EvictNewest(p) ==
    /\ writer = p
    /\ currentSizeBytes > MaxSizeBytes
    /\ IF lru = << >> THEN UNCHANGED lruVars
       ELSE /\ lru' = Front(lru)
            /\ currentSizeBytes' = currentSizeBytes - Last(lru).size
    /\ UNCHANGED <<writer, now, setVars, purgeVars>>

\* Faulty variant: onEvicted has not been registered.
EvictUncounted(p) ==
    /\ writer = p
    /\ currentSizeBytes > MaxSizeBytes
    /\ lru' = IF lru = << >> THEN lru ELSE Tail(lru)
    /\ UNCHANGED <<currentSizeBytes, writer, now, setVars, purgeVars>>

(* RemoveOldest does nothing on an empty list: the loop would spin.        *)
EvictOldest(p) ==
    /\ writer = p
    /\ currentSizeBytes > MaxSizeBytes
    /\ IF lru = << >> THEN UNCHANGED lruVars
       ELSE /\ lru' = Tail(lru)
            /\ currentSizeBytes' = currentSizeBytes - Head(lru).size
    /\ UNCHANGED <<writer, now, setVars, purgeVars>>

\* Faulty variant: Set does not wait for the evictions.
SetReturnsEarly(p) ==
    /\ writer = p
    /\ writer' = NoOne
    /\ pending' = [pending EXCEPT ![p] = NoEntry]
    /\ UNCHANGED <<lruVars, now, sets, purgeVars>>

SetReturns(p) ==
    /\ writer = p
    /\ currentSizeBytes <= MaxSizeBytes
    /\ writer' = NoOne
    /\ pending' = [pending EXCEPT ![p] = NoEntry]
    /\ UNCHANGED <<lruVars, now, sets, purgeVars>>

\* Faulty variant: the counter is reset before the callbacks count down.
InvalidateResetsFirst ==
    /\ Unlocked
    /\ lru' = << >>
    /\ currentSizeBytes' = 0 - currentSizeBytes
    /\ UNCHANGED <<writer, now, setVars, purgeVars>>

Invalidate ==
    /\ Unlocked
    /\ lru' = << >>
    /\ currentSizeBytes' = 0
    /\ UNCHANGED <<writer, now, setVars, purgeVars>>

-----------------------------------------------------------------------------
(* The two purges.  The keys are visited in the order of a slice; here in  *)
(* any order.                                                              *)

PurgeOldEntries(p) ==
    /\ purge[p] = "idle" /\ Unlocked
    /\ purge' = [purge EXCEPT ![p] = "old"]
    /\ todo' = [todo EXCEPT ![p] = {e.key : e \in Entries}]
    /\ targets' = [targets EXCEPT ![p] =
                     {e.id : e \in {f \in Entries : Expired(f)}}]
    /\ UNCHANGED <<lruVars, writer, now, setVars, peeked>>

PurgeEntries(p) ==
    /\ purge[p] = "idle"
    /\ \E K \in SUBSET Keys :
          /\ K # {}
          /\ todo' = [todo EXCEPT ![p] = K]
          /\ targets' = [targets EXCEPT ![p] =
                           {e.id : e \in {f \in Entries : f.key \in K}}]
    /\ purge' = [purge EXCEPT ![p] = "given"]
    /\ UNCHANGED <<lruVars, writer, now, setVars, peeked>>

\* Faulty variant: the loop ends at the first key that is not found.
PeekUntilMissing(p) ==
    /\ peeked[p] = NoEntry /\ Unlocked
    /\ \E k \in todo[p] :
          IF At(lru, k) = {}
          THEN todo' = [todo EXCEPT ![p] = {}] /\ UNCHANGED peeked
          ELSE /\ todo' = [todo EXCEPT ![p] = @ \ {k}]
               /\ peeked' = [peeked EXCEPT ![p] = Find(lru, k)]
    /\ UNCHANGED <<lruVars, writer, now, setVars, purge, targets>>

Peek(p) ==
    /\ peeked[p] = NoEntry /\ Unlocked
    /\ \E k \in todo[p] :
          /\ todo' = [todo EXCEPT ![p] = @ \ {k}]
          /\ peeked' = [peeked EXCEPT ![p] =
                          IF At(lru, k) = {} THEN NoEntry ELSE Find(lru, k)]
    /\ UNCHANGED <<lruVars, writer, now, setVars, purge, targets>>

(* What is removed is the entry the key has by now.  The age of the peeked *)
(* entry is tested before the lock is taken; it only grows.                *)
RemovePeeked(p) ==
    /\ peeked[p] # NoEntry /\ Unlocked
    /\ purge[p] = "old" => Expired(peeked[p])
    /\ lru' = Without(lru, peeked[p].key)
    /\ currentSizeBytes' = currentSizeBytes - onEvicted(lru, peeked[p].key)
    /\ peeked' = [peeked EXCEPT ![p] = NoEntry]
    /\ UNCHANGED <<writer, now, setVars, purge, todo, targets>>

KeepPeeked(p) ==
    /\ peeked[p] # NoEntry
    /\ purge[p] = "old" /\ ~Expired(peeked[p])
    /\ peeked' = [peeked EXCEPT ![p] = NoEntry]
    /\ UNCHANGED <<lruVars, writer, now, setVars, purge, todo, targets>>

PurgeIsOver(p) == purge[p] # "idle" /\ todo[p] = {} /\ peeked[p] = NoEntry

PurgeReturns(p) ==
    /\ PurgeIsOver(p)
    /\ purge' = [purge EXCEPT ![p] = "idle"]
    /\ targets' = [targets EXCEPT ![p] = {}]
    /\ UNCHANGED <<lruVars, writer, now, setVars, todo, peeked>>

-----------------------------------------------------------------------------
SetStep(p) == SetStores(p) \/ EvictOldest(p) \/ SetReturns(p)

PurgeStep(p) == Peek(p) \/ RemovePeeked(p) \/ KeepPeeked(p) \/ PurgeReturns(p)

Next ==
    \/ Tick \/ Invalidate
    \/ \E k \in Keys : Get(k)
    \/ \E p \in Setters : SetBuildsEntry(p) \/ SetStep(p)
    \/ \E p \in Purgers : PurgeOldEntries(p) \/ PurgeEntries(p) \/ PurgeStep(p)

Spec == Init /\ [][Next]_vars

(* A goroutine that is inside Set or a purge is scheduled, and gets the    *)
(* lock: the RWMutex starves nobody.                                       *)
FairSpec ==
    /\ Spec
    /\ \A p \in Setters : WF_vars(SetStep(p))
    /\ \A p \in Purgers : WF_vars(PurgeStep(p))

-----------------------------------------------------------------------------
TypesOK ==
    /\ lru \in Seq(Entry)
    /\ currentSizeBytes \in Int
    /\ writer \in Setters \cup {NoOne}
    /\ now \in Nat
    /\ pending \in [Setters -> Entry \cup {NoEntry}]
    /\ sets \in 0 .. MaxSets
    /\ purge \in [Purgers -> {"idle", "old", "given"}]
    /\ todo \in [Purgers -> SUBSET Keys]
    /\ peeked \in [Purgers -> Entry \cup {NoEntry}]
    /\ targets \in [Purgers -> SUBSET Nat]

(* Type invariant; the size in bytes never becomes negative.               *)
TypeOK == TypesOK /\ currentSizeBytes >= 0

\* The bytes of the entries of a list.
SizeOf(s) ==
    LET total[n \in 0 .. Len(s)] ==
            IF n = 0 THEN 0 ELSE total[n - 1] + s[n].size
    IN  total[Len(s)]

(* currentSizeBytes is the size of what the cache holds, also between the  *)
(* steps of an eviction: every path into and out of the list counts.       *)
SizeIsAccounted == currentSizeBytes = SizeOf(lru)

(* Whoever has the lock finds the cache within both of its limits and one  *)
(* entry per key.                                                          *)
WithinLimits ==
    /\ Len(lru) <= MaxEntries
    /\ Unlocked => currentSizeBytes <= MaxSizeBytes
    /\ \A i, j \in DOMAIN lru : lru[i].key = lru[j].key => i = j

(* What a Set has stored survives the evictions of that Set, if it can fit *)
(* into the cache at all.                                                  *)
NewEntrySurvives ==
    \A p \in Setters :
       writer = p /\ pending[p].size <= MaxSizeBytes => pending[p] \in Entries

(* When a purge is over, none of the entries it was called for is left:    *)
(* those that were out of their ttl, or those of the given keys.  This is  *)
(* so although others set, get and purge while it looks at the keys.       *)
PurgeIsComplete ==
    \A p \in Purgers :
       PurgeIsOver(p) => \A e \in Entries : e.id \notin targets[p]

(* Each call of Set and of a purge returns.                                *)
CallsReturn ==
    /\ \A p \in Setters : pending[p] # NoEntry ~> pending[p] = NoEntry
    /\ \A p \in Purgers : purge[p] # "idle" ~> purge[p] = "idle"

\* A Set has built its entry and has not stored it yet.
Waiting(p) == pending[p] # NoEntry /\ writer # p

Used == (1 .. sets) \ {pending[p].id : p \in {q \in Setters : Waiting(q)}}

Store == INSTANCE VolatileStore WITH
    Ids   <- 1 .. MaxSets,
    NoId  <- NoEntry,
    store <- [k \in Keys |-> Answer(lru, now, k)],
    used  <- Used

(* Get answers with the entry that was set last or with nothing, and once  *)
(* with nothing it does so until the next Set: an entry that was evicted,  *)
(* purged, replaced or has become too old is never handed out again,       *)
(* although one that is too old stays in the list, and a Get makes it the  *)
(* newest (cache.go:94-108).                                               *)
ImplementsStore == Store!Spec

-----------------------------------------------------------------------------
(* The inductive invariant.                                                *)

\* Identities are given out once: a Set that waits for the lock has one that
\* is neither in the list, nor another Set's, nor the target of a purge.
IdentitiesAreFresh ==
    /\ \A e \in Entries : e.id <= sets /\ \A f \in Entries : e.id = f.id => e = f
    /\ \A p \in Purgers : \A id \in targets[p] : id <= sets
    /\ \A q \in Setters : pending[q] # NoEntry => pending[q].id \in 1 .. sets
    /\ \A q \in Setters : Waiting(q) =>
          /\ \A e \in Entries : e.id # pending[q].id
          /\ \A p \in Purgers : pending[q].id \notin targets[p]
          /\ \A r \in Setters \ {q} :
                Waiting(r) => pending[r].id # pending[q].id

\* A target that is still in the list will be visited or has been peeked,
\* and a sweep only has expired targets.
TargetsAreAhead ==
    \A p \in Purgers, e \in Entries : e.id \in targets[p] =>
       /\ e.key \in todo[p] \/ peeked[p] = e
       /\ purge[p] = "old" => Expired(e)

\* The lock is held by a Set that has an entry.
WriterHasEntry == Unlocked \/ pending[writer] # NoEntry

\* While a Set evicts, what it has stored is the newest entry, unless it alone
\* is too big; the oldest ones go first.
NewEntryIsNewest ==
    \A p \in Setters :
       writer = p /\ pending[p].size <= MaxSizeBytes =>
          lru # << >> /\ Last(lru) = pending[p]

\* What every step of Set, Get, Invalidate and the purges preserves.
IInv == TypesOK /\ WithinLimits /\ WriterHasEntry
        /\ IdentitiesAreFresh /\ TargetsAreAhead
        /\ SizeIsAccounted /\ NewEntryIsNewest

-----------------------------------------------------------------------------
(* cache.go:141 says a sweep removes the entries which are out of their    *)
(* ttl; it also removes one that is not.                                   *)
SweepRemovesOnlyExpired ==
    [][\A p \in Purgers : purge[p] = "old" /\ RemovePeeked(p) =>
          \A e \in Entries : e \in Entries' \/ Expired(e)]_vars

(* The eviction loop of Set, which runs with the lock held, never meets an *)
(* empty list: each of its steps makes the list shorter.                   *)
EvictionsShorten ==
    [][\A p \in Setters : EvictOldest(p) => Len(lru') < Len(lru)]_vars

=============================================================================
