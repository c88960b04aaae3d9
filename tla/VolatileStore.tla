---------------------------- MODULE VolatileStore ----------------------------
(***************************************************************************)
(* What a cache promises those who fill and read it: under a key there is  *)
(* nothing or the entry that was put there last; an entry may be forgotten *)
(* at any time, and one that was forgotten or replaced never comes back.   *)
(* An entry is known by its identity.                                      *)
(***************************************************************************)
CONSTANTS Keys, Ids, NoId

VARIABLES
    store,      \* the entry under each key, or NoId
    used        \* the entries that have been put

vars == <<store, used>>

(* An entry in the store is one that was put there.                        *)
TypeOK ==
    /\ used \subseteq Ids
    /\ store \in [Keys -> used \cup {NoId}]

Init ==
    /\ store = [k \in Keys |-> NoId]
    /\ used = {}

Forgetting(s, K) == [k \in Keys |-> IF k \in K THEN NoId ELSE s[k]]

(* A new entry may displace others, and may be forgotten at once.          *)
Put(k, id) ==
    /\ id \notin used
    /\ used' = used \cup {id}
    /\ \E K \in SUBSET Keys :
          store' = Forgetting([store EXCEPT ![k] = id], K)

Forget ==
    /\ \E K \in SUBSET {k \in Keys : store[k] # NoId} :
          store' = Forgetting(store, K)
    /\ UNCHANGED used

Next == Forget \/ \E k \in Keys, id \in Ids : Put(k, id)

Spec == Init /\ [][Next]_vars

=============================================================================
