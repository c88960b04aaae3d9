------------------------------ MODULE FetchPlan ------------------------------
(***************************************************************************)
(* What a ContentFetcher promises its caller, without goroutines, mutexes  *)
(* or wait groups.  Resources are identified by their hash.                *)
(*                                                                         *)
(*  - A resource is asked for at most once, by the caller while the plan   *)
(*    is open or because a resource that was settled before referred to it.*)
(*  - Every resource that was asked for is settled at most once; settling  *)
(*    it may reveal further resources: some that must be asked for and     *)
(*    some that may be.                                                    *)
(*  - The plan returns when all that was asked for is settled and all that *)
(*    must be asked for has been.                                          *)
(***************************************************************************)
CONSTANT Hashes

VARIABLES
    asked,      \* resources somebody asked for
    settled,    \* those that have been loaded, or have failed
    must,       \* <<g, h>>: the page of g requires h
    may,        \* <<g, h>>: the page of g may lead to asking for h
    phase       \* "open", "closed" for the caller, or "returned"

vars == <<asked, settled, must, may, phase>>

(* Types of the plan.                                                      *)
TypeOK ==
    /\ asked \subseteq Hashes
    /\ settled \subseteq asked
    /\ must \subseteq may
    /\ may \subseteq settled \X Hashes
    /\ phase \in {"open", "closed", "returned"}

Init ==
    /\ asked = {} /\ settled = {}
    /\ must = {} /\ may = {}
    /\ phase = "open"

Ask(h) ==
    /\ h \notin asked
    /\ phase = "open" \/ \E g \in settled : <<g, h>> \in may
    /\ asked' = asked \cup {h}
    /\ UNCHANGED <<settled, must, may, phase>>

Settle(h) ==
    /\ h \in asked \ settled
    /\ settled' = settled \cup {h}
    /\ must' \in {must \cup ({h} \X M) : M \in SUBSET Hashes}
    /\ may' \in {may \cup ({h} \X M) : M \in SUBSET Hashes}
    /\ must' \subseteq may'
    /\ UNCHANGED <<asked, phase>>

Close ==
    /\ phase = "open"
    /\ phase' = "closed"
    /\ UNCHANGED <<asked, settled, must, may>>

Return ==
    /\ phase = "closed"
    /\ settled = asked
    /\ \A p \in must : p[2] \in asked
    /\ phase' = "returned"
    /\ UNCHANGED <<asked, settled, must, may>>

Next == (\E h \in Hashes : Ask(h) \/ Settle(h)) \/ Close \/ Return

Spec == Init /\ [][Next]_vars

=============================================================================
