------------------------- MODULE HeadPriorityProofs -------------------------
(***************************************************************************)
(* Proofs about HeadPriority, for any requests, heads and priorities.      *)
(***************************************************************************)
EXTENDS HeadPriority, FiniteSetTheorems, SequenceTheorems, WellFoundedInduction, TLAPS

-----------------------------------------------------------------------------
(* The texts and their order.                                              *)

LEMMA LeastOf ==
    ASSUME NEW T, T \subseteq Nat, T # {}
    PROVE  \E m \in T : \A k \in T : m <= k
<1>1. PICK m \in T : \A k \in T : <<k, m>> \notin OpToRel(<, Nat)
  BY NatLessThanWellFounded, WFMin
<1>2. \A k \in T : k < m => <<k, m>> \in OpToRel(<, Nat)
  BY DEF OpToRel
<1>3. \A k \in T : ~(k < m)
  BY <1>1, <1>2
<1>4. \A k \in T : ~(k < m) => m <= k
  OBVIOUS
<1> QED
  BY <1>3, <1>4

LEMMA OrderFields ==
    ASSUME TypeOK, NEW r \in Requests
    PROVE  /\ order[r] \in Seq(HeadsOf[r]) /\ Len(order[r]) \in Nat
           /\ DOMAIN order[r] = 1 .. Len(order[r])
           /\ \A i \in DOMAIN order[r] :
                 order[r][i] \in HeadsOf[r] /\ order[r][i] \in Heads
           /\ \A i, j \in DOMAIN order[r] : order[r][i] = order[r][j] => i = j
<1>1. Cardinality(HeadsOf[r]) \in Nat
  BY RequestsAssumption, FS_CardinalityType
<1>2. /\ order[r] \in [1 .. Cardinality(HeadsOf[r]) -> HeadsOf[r]]
      /\ \A i, j \in DOMAIN order[r] : order[r][i] = order[r][j] => i = j
  BY DEF TypeOK, Orders
<1>3. order[r] \in Seq(HeadsOf[r])
  BY <1>1, <1>2, SeqDef
<1>4. HeadsOf[r] \subseteq Heads
  BY RequestsAssumption
<1> QED
  BY <1>2, <1>3, <1>4, LenProperties, ElementOfSeq

LEMMA TextFields ==
    ASSUME TypeOK, NEW h \in Heads
    PROVE  /\ Len(loaded[h]) \in Nat /\ Tags(h) = 1 .. Len(loaded[h])
           /\ Tags(h) \subseteq Nat
           /\ \A k \in Tags(h) : loaded[h][k] \in Tag
<1>1. loaded[h] \in Seq(Tag)
  BY TextsAssumption DEF TypeOK
<1> QED
  BY <1>1, LenProperties, ElementOfSeq DEF Tags

LEMMA TagFields ==
    ASSUME TypeOK, NEW h \in Heads, NEW k \in Tags(h)
    PROVE  /\ PropertyOf(h, k) \in STRING
           /\ Records(h, k) \subseteq {PropertyOf(h, k)}
           /\ Records(h, k) # {} => PropertyOf(h, k) # NoProperty
<1>1. loaded[h][k] \in Tag /\ k # Garbled
  BY TextFields DEF Garbled
<1> QED
  BY <1>1 DEF PropertyOf, TagAt, Tag, Records

LEMMA ValuedIsKnown ==
    ASSUME TypeOK
    PROVE  /\ \A h \in Heads : AllValued(h) \subseteq STRING
           /\ \A h \in Heads : \A n \in Nat : ValuedIn(h, n) \subseteq STRING
           /\ \A r \in Requests : \A i \in Int : ValuedAbove(r, i) \subseteq STRING
<1>1. \A h \in Heads : \A k \in Tags(h) : Records(h, k) \subseteq STRING
  BY TagFields
<1>2. \A h \in Heads : AllValued(h) \subseteq STRING
  BY <1>1 DEF AllValued
<1>3. \A h \in Heads : \A n \in Nat : ValuedIn(h, n) \subseteq STRING
  BY <1>1 DEF ValuedIn
<1> QED
  BY <1>2, <1>3, OrderFields DEF ValuedAbove

(* One more tag, or one more head, adds what it has a value for.           *)
LEMMA ValuedGrows ==
    ASSUME TypeOK, NEW h \in Heads, NEW n \in Nat, n + 1 \in Tags(h)
    PROVE  ValuedIn(h, n + 1) = ValuedIn(h, n) \cup Records(h, n + 1)
<1>1. Tags(h) \cap (1 .. n + 1) = (Tags(h) \cap (1 .. n)) \cup {n + 1}
  OBVIOUS
<1> QED
  BY <1>1 DEF ValuedIn

LEMMA ValuedEnds ==
    ASSUME TypeOK, NEW h \in Heads
    PROVE  ValuedIn(h, 0) = {} /\ ValuedIn(h, Len(loaded[h])) = AllValued(h)
<1>1. Tags(h) \cap (1 .. 0) = {} /\ Tags(h) \cap (1 .. Len(loaded[h])) = Tags(h)
  BY TextFields
<1> QED
  BY <1>1 DEF ValuedIn, AllValued

LEMMA AboveGrows ==
    ASSUME TypeOK, NEW r \in Requests, NEW i \in DOMAIN order[r]
    PROVE  ValuedAbove(r, i - 1) = ValuedAbove(r, i) \cup AllValued(order[r][i])
<1>1. {l \in DOMAIN order[r] : l > i - 1} = {l \in DOMAIN order[r] : l > i} \cup {i}
  BY OrderFields
<1> QED
  BY <1>1 DEF ValuedAbove

LEMMA NothingAbove ==
    ASSUME TypeOK, NEW r \in Requests
    PROVE  ValuedAbove(r, Len(order[r])) = {}
<1>1. {l \in DOMAIN order[r] : l > Len(order[r])} = {}
  BY OrderFields
<1> QED
  BY <1>1 DEF ValuedAbove

-----------------------------------------------------------------------------
(* The steps of one request leave the heads of the others alone.           *)

OnlyMoves(r) ==
    /\ loaded' = loaded /\ order' = order
    /\ \A s \in Requests \ {r} :
          /\ stage'[s] = stage[s] /\ at'[s] = at[s] /\ rest'[s] = rest[s]
          /\ headBuff'[s] = headBuff[s]
          /\ headPropertyMap'[s] = headPropertyMap[s]
          /\ unwritten'[s] = unwritten[s] /\ page'[s] = page[s]
    /\ \A h \in Heads : h \notin HeadsOf[r] => words'[h] = words[h]

(* What is said of the texts as they were loaded does not change.          *)
LEMMA TextsStay ==
    ASSUME loaded' = loaded, order' = order
    PROVE  /\ \A h, k : PropertyOf(h, k)' = PropertyOf(h, k)
           /\ \A h, k : Records(h, k)' = Records(h, k)
           /\ \A h : Tags(h)' = Tags(h)
           /\ \A h, n : ValuedIn(h, n)' = ValuedIn(h, n)
           /\ \A h : AllValued(h)' = AllValued(h)
           /\ \A r, i : ValuedAbove(r, i)' = ValuedAbove(r, i)
           /\ \A r, i, k : Repeats(r, i, k)' = Repeats(r, i, k)
           /\ \A r, i : Unrepeated(r, i)' = Unrepeated(r, i)
           /\ \A r, i : ParsedText(r, i)' = ParsedText(r, i)
<1>1. /\ \A h, k : PropertyOf(h, k)' = PropertyOf(h, k)
      /\ \A h, k : Records(h, k)' = Records(h, k)
      /\ \A h : Tags(h)' = Tags(h)
  BY DEF PropertyOf, Records, TagAt, Tags
<1>2. /\ \A h, n : ValuedIn(h, n)' = ValuedIn(h, n)
      /\ \A h : AllValued(h)' = AllValued(h)
  BY <1>1 DEF ValuedIn, AllValued
<1>3. \A r, i : ValuedAbove(r, i)' = ValuedAbove(r, i)
  BY <1>2 DEF ValuedAbove
<1>4. \A r, i, k : Repeats(r, i, k)' = Repeats(r, i, k)
  BY <1>1, <1>2, <1>3 DEF Repeats
<1>5. \A r, i : Unrepeated(r, i)' = Unrepeated(r, i)
  BY <1>1, <1>4 DEF Unrepeated
<1> QED
  BY <1>1, <1>2, <1>3, <1>4, <1>5 DEF ParsedText, IsRedundant

LEMMA OthersStaySound ==
    ASSUME IInv, NEW r \in Requests, OnlyMoves(r), TypeOK', PlaceIsSound(r)',
           IsOwn(r) => HeadsAreSound(r)'
    PROVE  IInv'
<1>1. ASSUME NEW s \in Requests, s # r
      PROVE  PlaceIsSound(s)'
  BY <1>1 DEF IInv, OnlyMoves, PlaceIsSound
<1>2. ASSUME NEW s \in Requests, s # r, IsOwn(s)
      PROVE  HeadsAreSound(s)'
  <2>1. HeadsAreSound(s)
    BY <1>2 DEF IInv
  <2>2. \A i \in DOMAIN order[s] :
           order[s][i] \in Heads /\ order[s][i] \notin HeadsOf[r]
    BY <1>2, OrderFields DEF IInv, IsOwn
  <2>3. /\ order' = order /\ loaded' = loaded
        /\ stage'[s] = stage[s] /\ at'[s] = at[s] /\ rest'[s] = rest[s]
        /\ headBuff'[s] = headBuff[s]
        /\ headPropertyMap'[s] = headPropertyMap[s]
        /\ unwritten'[s] = unwritten[s] /\ page'[s] = page[s]
    BY <1>2 DEF OnlyMoves
  <2>4. \A i \in DOMAIN order[s] : words'[order[s][i]] = words[order[s][i]]
    BY <2>2 DEF OnlyMoves
  <2>5. MapIsSound(s)'
    BY <2>1, <2>3, TextsStay DEF HeadsAreSound, MapIsSound, IsReadUpTo, Current
  <2>6. ASSUME NEW i \in DOMAIN order[s]
        PROVE  TextIsSound(s, i)'
    <3>1. TextIsSound(s, i)
      BY <2>1, <2>6 DEF HeadsAreSound
    <3> QED
      BY <2>3, <2>4, <2>6, <3>1, TextsStay DEF TextIsSound
  <2>7. \A i \in DOMAIN page'[s] : page'[s][i] = ParsedText(s, i)'
    BY <2>1, <2>3, TextsStay DEF HeadsAreSound
  <2> QED
    BY <2>3, <2>5, <2>6, <2>7 DEF HeadsAreSound
<1>3. \A s \in Requests : IsOwn(s)' = IsOwn(s)
  BY DEF IsOwn
<1> QED
  BY <1>1, <1>2, <1>3 DEF IInv

LEMMA Types ==
    ASSUME IInv
    PROVE  /\ words \in [Heads -> [Words -> SUBSET Nat]]
           /\ stage \in [Requests -> {"new", "heads", "tags", "writing",
                                      "rendering", "done"}]
           /\ at \in [Requests -> Nat]
           /\ rest \in [Requests -> SUBSET Nat]
           /\ headBuff \in [Requests -> SUBSET Nat]
           /\ headPropertyMap \in [Requests -> SUBSET STRING]
           /\ unwritten \in [Requests -> SUBSET Words]
           /\ page \in [Requests -> Seq(SUBSET Nat)]
           /\ TypeOK
  BY DEF IInv, TypeOK

(* The head that a request is at.                                          *)
LEMMA CurrentHead ==
    ASSUME IInv, NEW r \in Requests, at[r] \in DOMAIN order[r]
    PROVE  /\ Current(r) \in Heads /\ Current(r) \in HeadsOf[r]
           /\ Current(r) = order[r][at[r]]
           /\ Content(Current(r)) \in SUBSET Nat
           /\ Content(Current(r)) \subseteq DOMAIN loaded[Current(r)] \cup {Garbled}
<1>1. Current(r) \in Heads /\ Current(r) \in HeadsOf[r]
  BY OrderFields DEF Current, IInv
<1>2. /\ words[Current(r)] \in [Words -> SUBSET Nat]
      /\ \A w \in Words :
            words[Current(r)][w] \subseteq DOMAIN loaded[Current(r)] \cup {Garbled}
  BY <1>1, Types DEF TypeOK
<1>3. {Garbled} \in SUBSET Nat
  BY DEF Garbled
<1> QED
  BY <1>1, <1>2, <1>3 DEF Current, Content, Words

(* As long as a text is not touched, it is what it was loaded with.        *)
LEMMA TextOf ==
    ASSUME IInv, NEW r \in Requests, IsOwn(r), NEW i \in DOMAIN order[r]
    PROVE  /\ ((stage[r] = "heads" /\ i = at[r]) \/ stage[r] = "new")
                 => Content(order[r][i]) = Tags(order[r][i])
           /\ stage[r] = "rendering" => Content(order[r][i]) = ParsedText(r, i)
<1>1. TextIsSound(r, i) /\ at[r] \in Nat /\ i \in Nat
  BY OrderFields, Types DEF IInv, HeadsAreSound
<1> QED
  BY <1>1 DEF TextIsSound, Content, Words

(* Steps that only move GetHtml on.                                        *)
LEMMA GetHtmlKeeps ==
    ASSUME IInv, NEW r \in Requests, GetHtml(r)
    PROVE  IInv'
<1> USE Types
<1> DEFINE N == Len(order[r])
<1>1. /\ stage[r] = "new"
      /\ UNCHANGED <<loaded, words, order, rest, headBuff, headPropertyMap,
                     unwritten, page>>
  BY DEF GetHtml, parseVars
<1>2. N \in Nat /\ DOMAIN order[r] = 1 .. N
  BY OrderFields
<1>3. \/ /\ r \in Prioritized
         /\ stage' = [stage EXCEPT ![r] = "heads"] /\ at' = [at EXCEPT ![r] = N]
      \/ /\ r \notin Prioritized
         /\ stage' = [stage EXCEPT ![r] = "rendering"] /\ at' = [at EXCEPT ![r] = 1]
  BY DEF GetHtml, Goes
<1>4. OnlyMoves(r)
  BY <1>1, <1>3 DEF OnlyMoves
<1>5. TypeOK'
  <2>0. N \in 0 .. N + 1 /\ 1 \in 0 .. N + 1 /\ 1 \in Nat
    BY <1>2
  <2> HIDE DEF N
  <2>1. /\ at' \in [Requests -> Nat]
        /\ stage' \in [Requests -> {"new", "heads", "tags", "writing",
                                    "rendering", "done"}]
    <3>1. \A n \in Nat : [at EXCEPT ![r] = n] \in [Requests -> Nat]
      OBVIOUS
    <3> QED
      BY <1>2, <1>3, <2>0, <3>1
  <2>2. \A q \in Requests : at'[q] \in 0 .. Len(order[q]) + 1
    BY <1>3, <2>0 DEF TypeOK, N
  <2> QED
    BY <1>1, <2>1, <2>2 DEF TypeOK
<1>6. PlaceIsSound(r)'
  <2>1. Len(page'[r]) = 0
    BY <1>1 DEF IInv, PlaceIsSound
  <2>2. \/ r \in Prioritized /\ stage'[r] = "heads" /\ at'[r] = N
        \/ stage'[r] = "rendering" /\ at'[r] = 1
    BY <1>3
  <2> QED
    BY <1>1, <1>2, <2>1, <2>2 DEF PlaceIsSound
<1>7. ASSUME IsOwn(r)
      PROVE  HeadsAreSound(r)'
  <2>0. page[r] \in Seq(SUBSET Nat) /\ Len(page[r]) = 0
    BY <1>1 DEF IInv, PlaceIsSound
  <2>1. /\ HeadsAreSound(r) /\ DOMAIN page[r] = {}
        /\ headPropertyMap[r] = {}
    BY <1>1, <1>7, <2>0, LenProperties DEF IInv, HeadsAreSound, MapIsSound
  <2>2. MapIsSound(r)'
    <3>1. ValuedAbove(r, N) = {} /\ headPropertyMap'[r] = {}
      BY <1>1, <2>1, NothingAbove
    <3>2. /\ stage'[r] \in {"heads", "rendering"}
          /\ stage'[r] = "heads" => at'[r] = N
      BY <1>3
    <3> QED
      BY <1>1, <3>1, <3>2, TextsStay DEF MapIsSound
  <2>3. ASSUME NEW i \in DOMAIN order[r]
        PROVE  TextIsSound(r, i)'
    <3>1. TextIsSound(r, i) /\ i \in 1 .. N
      BY <1>2, <2>1, <2>3 DEF HeadsAreSound
    <3>2. words[order[r][i]] = [w \in Words |-> Tags(order[r][i])]
      BY <1>1, <3>1 DEF TextIsSound
    <3> QED
      BY <1>1, <1>3, <3>1, <3>2, TextsStay DEF TextIsSound, ParsedText
  <2> QED
    BY <1>1, <2>1, <2>2, <2>3 DEF HeadsAreSound
<1> QED
  BY <1>4, <1>5, <1>6, <1>7, OthersStaySound

LEMMA HeadsAreParsedKeeps ==
    ASSUME IInv, NEW r \in Requests, HeadsAreParsed(r)
    PROVE  IInv'
<1> USE Types
<1>1. /\ stage[r] = "heads" /\ at[r] = 0
      /\ stage' = [stage EXCEPT ![r] = "rendering"] /\ at' = [at EXCEPT ![r] = 1]
      /\ UNCHANGED <<loaded, words, order, rest, headBuff, headPropertyMap,
                     unwritten, page>>
  BY DEF HeadsAreParsed, parseVars, Goes
<1>2. Len(order[r]) \in Nat /\ DOMAIN order[r] = 1 .. Len(order[r])
  BY OrderFields
<1>3. OnlyMoves(r)
  BY <1>1 DEF OnlyMoves
<1>4. TypeOK'
  BY <1>1, <1>2 DEF TypeOK
<1>5. PlaceIsSound(r)'
  <2>1. Len(page'[r]) = 0
    BY <1>1 DEF IInv, PlaceIsSound
  <2>2. stage'[r] = "rendering" /\ at'[r] = 1
    BY <1>1
  <2> QED
    BY <2>1, <2>2 DEF PlaceIsSound
<1>6. ASSUME IsOwn(r)
      PROVE  HeadsAreSound(r)'
  <2>1. HeadsAreSound(r)
    BY <1>6 DEF IInv
  <2>2. ASSUME NEW i \in DOMAIN order[r]
        PROVE  TextIsSound(r, i)'
    <3>1. TextIsSound(r, i) /\ i > at[r]
      BY <1>1, <1>2, <2>1, <2>2 DEF HeadsAreSound
    <3> QED
      BY <1>1, <3>1, TextsStay DEF TextIsSound
  <2>3. MapIsSound(r)'
    BY <1>1 DEF MapIsSound
  <2> QED
    BY <1>1, <2>1, <2>2, <2>3, TextsStay DEF HeadsAreSound
<1> QED
  BY <1>3, <1>4, <1>5, <1>6, OthersStaySound

LEMMA ReadHeadKeeps ==
    ASSUME IInv, NEW r \in Requests, ReadHead(r)
    PROVE  IInv'
<1> USE Types
<1>1. /\ stage[r] = "heads" /\ at[r] > 0
      /\ stage' = [stage EXCEPT ![r] = "tags"] /\ at' = [at EXCEPT ![r] = at[r]]
      /\ rest' = [rest EXCEPT ![r] = Content(Current(r))]
      /\ headBuff' = [headBuff EXCEPT ![r] = {}]
      /\ UNCHANGED <<loaded, words, order, headPropertyMap, unwritten, page>>
  BY DEF ReadHead, Goes
<1>2. /\ Len(order[r]) \in Nat /\ DOMAIN order[r] = 1 .. Len(order[r])
      /\ at[r] \in DOMAIN order[r] /\ at' = at
  BY <1>1, OrderFields DEF IInv, PlaceIsSound
<1>3. /\ Content(Current(r)) \in SUBSET Nat /\ Current(r) \in Heads
      /\ Content(Current(r)) \subseteq DOMAIN loaded[Current(r)] \cup {Garbled}
      /\ Current(r) = order[r][at[r]]
  BY <1>2, CurrentHead
<1>4. OnlyMoves(r)
  BY <1>1 DEF OnlyMoves
<1>5. TypeOK'
  BY <1>1, <1>2, <1>3 DEF TypeOK
<1>6. PlaceIsSound(r)'
  BY <1>1, <1>2, <1>3 DEF IInv, PlaceIsSound
<1>7. ASSUME IsOwn(r)
      PROVE  HeadsAreSound(r)'
  <2> DEFINE h == Current(r)
  <2>1. HeadsAreSound(r)
    BY <1>7 DEF IInv
  <2>2. ASSUME NEW i \in DOMAIN order[r]
        PROVE  TextIsSound(r, i)'
    <3>1. words[order[r][i]] =
             [w \in Words |-> IF i > at[r] THEN ParsedText(r, i)
                             ELSE Tags(order[r][i])]
      BY <1>1, <2>1, <2>2 DEF HeadsAreSound, TextIsSound
    <3>2. stage'[r] = "tags" /\ at'[r] = at[r]
      BY <1>1, <1>2
    <3> QED
      BY <1>1, <3>1, <3>2, TextsStay DEF TextIsSound
  <2>3. MapIsSound(r)'
    <3>1. /\ rest'[r] = (0 + 1) .. Len(loaded[h]) /\ Len(loaded[h]) \in Nat
          /\ headBuff'[r] = {k \in 1 .. 0 : ~Repeats(r, at[r], k)}
      BY <1>1, <1>2, <1>3, <1>7, TextOf, TextFields
    <3>2. headPropertyMap'[r] = ValuedAbove(r, at[r]) \cup ValuedIn(h, 0)
      BY <1>1, <1>3, <2>1, ValuedEnds DEF HeadsAreSound, MapIsSound
    <3>3. IsReadUpTo(r, 0)'
      BY <1>1, <1>2, <3>1, <3>2, TextsStay DEF IsReadUpTo, Current
    <3>4. 0 \in 0 .. Len(loaded'[Current(r)']) /\ stage'[r] = "tags"
      BY <1>1, <1>2, <3>1 DEF Current
    <3> QED
      BY <3>3, <3>4 DEF MapIsSound
  <2> QED
    BY <1>1, <2>1, <2>2, <2>3, TextsStay DEF HeadsAreSound
<1> QED
  BY <1>4, <1>5, <1>6, <1>7, OthersStaySound

(* The steps of ParseHeadFragment; the texts stay as they are.             *)
LEMMA ReadingKeeps ==
    ASSUME IInv, NEW r \in Requests, stage[r] = "tags",
           rest' \in [Requests -> SUBSET Nat],
           headBuff' \in [Requests -> SUBSET Nat],
           headPropertyMap' \in [Requests -> SUBSET STRING],
           \A s \in Requests \ {r} :
              /\ rest'[s] = rest[s] /\ headBuff'[s] = headBuff[s]
              /\ headPropertyMap'[s] = headPropertyMap[s],
           UNCHANGED <<loaded, words, order, stage, at, unwritten, page>>,
           rest'[r] \cup headBuff'[r] \subseteq rest[r] \cup headBuff[r],
           IsOwn(r) => \E n \in 0 .. Len(loaded[Current(r)]) : IsReadUpTo(r, n)'
    PROVE  IInv'
<1> USE Types
<1>1. OnlyMoves(r)
  BY DEF OnlyMoves
<1>2. TypeOK'
  BY DEF TypeOK
<1>3. PlaceIsSound(r)'
  BY DEF IInv, PlaceIsSound
<1>4. ASSUME IsOwn(r)
      PROVE  HeadsAreSound(r)'
  <2>1. HeadsAreSound(r)
    BY <1>4 DEF IInv
  <2>2. Current(r)' = Current(r)
    BY DEF Current
  <2>3. MapIsSound(r)'
    BY <1>4, <2>2 DEF MapIsSound
  <2>4. ASSUME NEW i \in DOMAIN order[r]
        PROVE  TextIsSound(r, i)'
    <3>1. words[order[r][i]] =
             [w \in Words |-> IF i > at[r] THEN ParsedText(r, i)
                             ELSE Tags(order[r][i])]
      <4>1. TextIsSound(r, i) /\ stage[r] = "tags"
        BY <2>1, <2>4 DEF HeadsAreSound
      <4> QED
        BY <4>1 DEF TextIsSound
    <3>2. stage'[r] = "tags" /\ at' = at /\ words' = words /\ order' = order
      OBVIOUS
    <3> QED
      BY <3>1, <3>2, TextsStay DEF TextIsSound
  <2> QED
    BY <2>1, <2>3, <2>4, TextsStay DEF HeadsAreSound
<1> QED
  BY <1>1, <1>2, <1>3, <1>4, OthersStaySound

(* The tag that is next, and what the map then has seen.                   *)
LEMMA NextTag ==
    ASSUME IInv, NEW r \in Requests, stage[r] = "tags", IsOwn(r),
           NEW k \in rest[r], IsNext(r, k)
    PROVE  LET h == Current(r)
           IN  /\ h \in Heads /\ h = order[r][at[r]] /\ at[r] \in DOMAIN order[r]
               /\ \E n \in 0 .. Len(loaded[h]) :
                     /\ IsReadUpTo(r, n) /\ n \in Nat
                     /\ k = n + 1 /\ k \in Tags(h) /\ k \in 1 .. Len(loaded[h])
                     /\ Repeats(r, at[r], k)
                           <=> ~IsKept(h, k, headPropertyMap[r])
                     /\ ValuedIn(h, k) = ValuedIn(h, n) \cup Records(h, k)
                     /\ rest[r] \ {k} = (k + 1) .. Len(loaded[h])
<1> USE Types
<1> DEFINE h == Current(r)
<1>1. at[r] \in DOMAIN order[r]
  BY DEF IInv, PlaceIsSound
<1>2. h \in Heads /\ h = order[r][at[r]]
  BY <1>1, CurrentHead
<1>3. PICK n \in 0 .. Len(loaded[h]) : IsReadUpTo(r, n)
  BY DEF IInv, HeadsAreSound, MapIsSound
<1>4. /\ Len(loaded[h]) \in Nat /\ Tags(h) = 1 .. Len(loaded[h])
  BY <1>2, TextFields
<1>5. rest[r] = (n + 1) .. Len(loaded[h])
  BY <1>3 DEF IsReadUpTo
<1> HIDE DEF h
<1>6. /\ n \in Nat /\ k = n + 1 /\ k \in 1 .. Len(loaded[h])
      /\ rest[r] \ {k} = (k + 1) .. Len(loaded[h])
  <2> DEFINE L == Len(loaded[h])
  <2>1. L \in Nat /\ n \in Nat /\ k \in (n + 1) .. L
    BY <1>4, <1>5
  <2>2. \A l \in (n + 1) .. L : k <= l
    BY <1>5 DEF IsNext
  <2> HIDE DEF L
  <2>3. k = n + 1
    <3>1. n + 1 \in (n + 1) .. L
      BY <2>1
    <3>2. k <= n + 1
      BY <2>2, <3>1
    <3> QED
      BY <2>1, <3>2
  <2>4. ((n + 1) .. L) \ {n + 1} = (n + 2) .. L
    BY <2>1
  <2>5. n + 2 = k + 1 /\ k \in 1 .. L
    BY <2>1, <2>3
  <2> QED
    BY <1>5, <2>1, <2>3, <2>4, <2>5 DEF L
<1>7. ValuedIn(h, k) = ValuedIn(h, n) \cup Records(h, k)
  BY <1>2, <1>4, <1>6, ValuedGrows
<1>8. headPropertyMap[r] = ValuedAbove(r, at[r]) \cup ValuedIn(h, n)
  BY <1>3 DEF IsReadUpTo, h
<1>9. k - 1 = n
  BY <1>6
<1>10. Repeats(r, at[r], k) <=> ~IsKept(h, k, headPropertyMap[r])
  BY <1>2, <1>8, <1>9 DEF Repeats, IsKept
<1> QED
  BY <1>1, <1>2, <1>3, <1>4, <1>6, <1>7, <1>10 DEF h

LEMMA RecordsAreProperties ==
    ASSUME IInv, NEW r \in Requests, stage[r] = "tags", NEW k \in rest[r]
    PROVE  Records(Current(r), k) \subseteq STRING
<1>1. /\ at[r] \in DOMAIN order[r] /\ k \in DOMAIN loaded[Current(r)] \cup {Garbled}
  BY DEF IInv, PlaceIsSound, Current
<1>2. CASE k = Garbled
  BY <1>2 DEF Records, PropertyOf
<1>3. CASE k \in Tags(Current(r))
  BY <1>1, <1>3, CurrentHead, TagFields, Types
<1> QED
  BY <1>1, <1>2, <1>3 DEF Tags

LEMMA KeepTagKeeps ==
    ASSUME IInv, NEW r \in Requests, KeepTag(r)
    PROVE  IInv'
<1> USE Types
<1> DEFINE h == Current(r)
<1>1. PICK k \in rest[r] :
         /\ IsNext(r, k) /\ IsKept(h, k, headPropertyMap[r])
         /\ rest' = [rest EXCEPT ![r] = @ \ {k}]
         /\ headBuff' = [headBuff EXCEPT ![r] = @ \cup {k}]
         /\ headPropertyMap' = [headPropertyMap EXCEPT ![r] = @ \cup Records(h, k)]
  BY DEF KeepTag
<1>2. /\ stage[r] = "tags"
      /\ UNCHANGED <<loaded, words, order, stage, at, unwritten, page>>
  BY DEF KeepTag
<1>3. Records(h, k) \subseteq STRING
  BY <1>1, <1>2, RecordsAreProperties
<1>4. /\ rest' \in [Requests -> SUBSET Nat] /\ headBuff' \in [Requests -> SUBSET Nat]
      /\ headPropertyMap' \in [Requests -> SUBSET STRING]
  BY <1>1, <1>3
<1>5. ASSUME IsOwn(r)
      PROVE  \E n \in 0 .. Len(loaded[h]) : IsReadUpTo(r, n)'
  <2>1. PICK n \in 0 .. Len(loaded[h]) :
           /\ IsReadUpTo(r, n) /\ n \in Nat
           /\ k = n + 1 /\ k \in Tags(h) /\ k \in 1 .. Len(loaded[h])
           /\ Repeats(r, at[r], k) <=> ~IsKept(h, k, headPropertyMap[r])
           /\ ValuedIn(h, k) = ValuedIn(h, n) \cup Records(h, k)
           /\ rest[r] \ {k} = (k + 1) .. Len(loaded[h])
    BY <1>1, <1>2, <1>5, NextTag
  <2>2. {l \in 1 .. k : ~Repeats(r, at[r], l)}
           = {l \in 1 .. n : ~Repeats(r, at[r], l)} \cup {k}
    <3>1. 1 .. k = (1 .. n) \cup {k}
      BY <2>1
    <3>2. ~Repeats(r, at[r], k)
      BY <1>1, <2>1
    <3> QED
      BY <3>1, <3>2
  <2>3. /\ rest'[r] = (k + 1) .. Len(loaded[h])
        /\ headBuff'[r] = {l \in 1 .. k : ~Repeats(r, at[r], l)}
    BY <1>1, <2>1, <2>2 DEF IsReadUpTo
  <2>4. headPropertyMap'[r] = ValuedAbove(r, at[r]) \cup ValuedIn(h, k)
    BY <1>1, <2>1 DEF IsReadUpTo
  <2>5. IsReadUpTo(r, k)'
    BY <1>2, <2>3, <2>4, TextsStay DEF IsReadUpTo, Current
  <2> QED
    BY <2>1, <2>5
<1> HIDE DEF h
<1>6. \A s \in Requests \ {r} :
         /\ rest'[s] = rest[s] /\ headBuff'[s] = headBuff[s]
         /\ headPropertyMap'[s] = headPropertyMap[s]
  BY <1>1
<1>7. rest'[r] \cup headBuff'[r] \subseteq rest[r] \cup headBuff[r]
  BY <1>1
<1> QED
  BY <1>2, <1>4, <1>5, <1>6, <1>7, ReadingKeeps DEF h

LEMMA DropTagKeeps ==
    ASSUME IInv, NEW r \in Requests, DropTag(r)
    PROVE  IInv'
<1> USE Types
<1> DEFINE h == Current(r)
<1>1. PICK k \in rest[r] :
         /\ IsNext(r, k) /\ ~IsKept(h, k, headPropertyMap[r])
         /\ rest' = [rest EXCEPT ![r] = @ \ {k}]
  BY DEF DropTag
<1>2. /\ stage[r] = "tags"
      /\ UNCHANGED <<loaded, words, order, stage, at, headBuff,
                     headPropertyMap, unwritten, page>>
  BY DEF DropTag
<1>3. rest' \in [Requests -> SUBSET Nat]
  BY <1>1
<1>4. ASSUME IsOwn(r)
      PROVE  \E n \in 0 .. Len(loaded[h]) : IsReadUpTo(r, n)'
  <2>1. PICK n \in 0 .. Len(loaded[h]) :
           /\ IsReadUpTo(r, n) /\ n \in Nat
           /\ k = n + 1 /\ k \in Tags(h) /\ k \in 1 .. Len(loaded[h])
           /\ Repeats(r, at[r], k) <=> ~IsKept(h, k, headPropertyMap[r])
           /\ ValuedIn(h, k) = ValuedIn(h, n) \cup Records(h, k)
           /\ rest[r] \ {k} = (k + 1) .. Len(loaded[h])
    BY <1>1, <1>2, <1>4, NextTag
  <2>2. {l \in 1 .. k : ~Repeats(r, at[r], l)}
           = {l \in 1 .. n : ~Repeats(r, at[r], l)}
    <3>1. 1 .. k = (1 .. n) \cup {k}
      BY <2>1
    <3>2. Repeats(r, at[r], k)
      BY <1>1, <2>1
    <3> QED
      BY <3>1, <3>2
  <2>3. /\ rest'[r] = (k + 1) .. Len(loaded[h])
        /\ headBuff'[r] = {l \in 1 .. k : ~Repeats(r, at[r], l)}
    BY <1>1, <1>2, <2>1, <2>2 DEF IsReadUpTo
  <2>4. Records(h, k) \subseteq headPropertyMap[r]
    <3>1. h \in Heads
      BY <1>1, <1>2, <1>4, NextTag
    <3>2. Records(h, k) \subseteq {PropertyOf(h, k)}
      BY <2>1, <3>1, TagFields
    <3> QED
      BY <1>1, <3>2 DEF IsKept
  <2>5. headPropertyMap'[r] = ValuedAbove(r, at[r]) \cup ValuedIn(h, k)
    BY <1>2, <2>1, <2>4 DEF IsReadUpTo
  <2>6. IsReadUpTo(r, k)'
    BY <1>2, <2>3, <2>5, TextsStay DEF IsReadUpTo, Current
  <2> QED
    BY <2>1, <2>6
<1> HIDE DEF h
<1>5. \A s \in Requests \ {r} : rest'[s] = rest[s]
  BY <1>1
<1>6. rest'[r] \cup headBuff'[r] \subseteq rest[r] \cup headBuff[r]
  BY <1>1, <1>2
<1> QED
  BY <1>2, <1>3, <1>4, <1>5, <1>6, ReadingKeeps DEF h

(* When the last tag has been read, what is kept is what does not repeat.  *)
LEMMA ReadToTheEnd ==
    ASSUME IInv, NEW r \in Requests, stage[r] = "tags", IsOwn(r), rest[r] = {}
    PROVE  /\ headBuff[r] = Unrepeated(r, at[r])
           /\ headPropertyMap[r] = ValuedAbove(r, at[r] - 1)
<1> USE Types
<1> DEFINE h == Current(r)
<1>1. at[r] \in DOMAIN order[r]
  BY DEF IInv, PlaceIsSound
<1>2. h \in Heads /\ h = order[r][at[r]]
  BY <1>1, CurrentHead
<1>3. PICK n \in 0 .. Len(loaded[h]) : IsReadUpTo(r, n)
  BY DEF IInv, HeadsAreSound, MapIsSound
<1>4. Len(loaded[h]) \in Nat /\ Tags(h) = 1 .. Len(loaded[h])
  BY <1>2, TextFields
<1>5. (n + 1) .. Len(loaded[h]) = {}
  BY <1>3 DEF IsReadUpTo
<1> HIDE DEF h
<1>6. n = Len(loaded[h])
  <2>1. n \in Nat /\ n <= Len(loaded[h])
    BY <1>3, <1>4
  <2>2. n + 1 <= Len(loaded[h]) => n + 1 \in (n + 1) .. Len(loaded[h])
    BY <1>4, <2>1
  <2>3. ~(n + 1 <= Len(loaded[h]))
    BY <1>5, <2>2, Zenon
  <2> QED
    BY <1>4, <2>1, <2>3
<1>7. headBuff[r] = Unrepeated(r, at[r])
  BY <1>2, <1>3, <1>4, <1>6 DEF IsReadUpTo, Unrepeated
<1>8. headPropertyMap[r] = ValuedAbove(r, at[r]) \cup AllValued(h)
  BY <1>2, <1>3, <1>6, ValuedEnds DEF IsReadUpTo, h
<1> QED
  BY <1>1, <1>2, <1>7, <1>8, AboveGrows

LEMMA EndHeadKeeps ==
    ASSUME IInv, NEW r \in Requests, EndHead(r)
    PROVE  IInv'
<1> USE Types
<1>1. /\ stage[r] = "tags" /\ rest[r] = {}
      /\ UNCHANGED <<loaded, words, order, rest, headBuff, headPropertyMap, page>>
  BY DEF EndHead
<1>2. \/ /\ headBuff[r] = {} /\ unwritten' = unwritten
         /\ stage' = [stage EXCEPT ![r] = "heads"]
         /\ at' = [at EXCEPT ![r] = at[r] - 1]
      \/ /\ headBuff[r] # {} /\ unwritten' = [unwritten EXCEPT ![r] = Words]
         /\ stage' = [stage EXCEPT ![r] = "writing"] /\ at' = at
  BY DEF EndHead, Goes
<1>3. /\ Len(order[r]) \in Nat /\ DOMAIN order[r] = 1 .. Len(order[r])
      /\ at[r] \in DOMAIN order[r] /\ r \in Prioritized
      /\ rest[r] \cup headBuff[r] \subseteq
            DOMAIN loaded[order[r][at[r]]] \cup {Garbled}
  BY <1>1, OrderFields DEF IInv, PlaceIsSound
<1>4. /\ at[r] - 1 \in Nat /\ at[r] - 1 \in 0 .. Len(order[r])
      /\ at[r] - 1 \in 0 .. Len(order[r]) + 1 /\ at[r] \in Nat
  BY <1>3
<1>5. OnlyMoves(r)
  BY <1>1, <1>2 DEF OnlyMoves
<1>6. TypeOK'
  <2>1. /\ stage' \in [Requests -> {"new", "heads", "tags", "writing",
                                     "rendering", "done"}]
        /\ at' \in [Requests -> Nat] /\ unwritten' \in [Requests -> SUBSET Words]
    BY <1>2, <1>4
  <2>2. \A q \in Requests : at'[q] \in 0 .. Len(order[q]) + 1
    BY <1>2, <1>4 DEF TypeOK
  <2> QED
    BY <1>1, <2>1, <2>2 DEF TypeOK
<1>7. PlaceIsSound(r)'
  <2>1. Len(page'[r]) = 0
    BY <1>1 DEF IInv, PlaceIsSound
  <2>2. \/ stage'[r] = "heads" /\ at'[r] = at[r] - 1
        \/ stage'[r] = "writing" /\ at'[r] = at[r]
    BY <1>2
  <2> QED
    BY <1>1, <1>3, <1>4, <2>1, <2>2 DEF PlaceIsSound
<1>8. ASSUME IsOwn(r)
      PROVE  HeadsAreSound(r)'
  <2>1. HeadsAreSound(r)
    BY <1>8 DEF IInv
  <2>2. /\ headBuff[r] = Unrepeated(r, at[r])
        /\ headPropertyMap[r] = ValuedAbove(r, at[r] - 1)
    BY <1>1, <1>8, ReadToTheEnd
  <2>3. MapIsSound(r)'
    <3>1. \/ stage'[r] = "heads" /\ at'[r] = at[r] - 1
          \/ /\ stage'[r] = "writing" /\ at'[r] = at[r] /\ headBuff[r] # {}
      BY <1>2
    <3> QED
      BY <1>1, <2>2, <3>1, TextsStay DEF MapIsSound
  <2>4. ASSUME NEW i \in DOMAIN order[r]
        PROVE  TextIsSound(r, i)'
    <3>1. words[order[r][i]] =
             [w \in Words |-> IF i > at[r] THEN ParsedText(r, i)
                             ELSE Tags(order[r][i])]
      BY <1>1, <2>1, <2>4 DEF HeadsAreSound, TextIsSound
    <3>2. i \in Nat /\ at[r] \in Nat
      BY <1>3
    <3>3. CASE headBuff[r] = {}
      <4>1. stage'[r] = "heads" /\ at'[r] = at[r] - 1
        BY <1>2, <3>3
      <4>2. ParsedText(r, at[r]) = Tags(order[r][at[r]])
        BY <2>2, <3>3 DEF ParsedText, IsRedundant
      <4>3. i > at[r] - 1 <=> i > at[r] \/ i = at[r]
        BY <3>2
      <4>4. words[order[r][i]] =
               [w \in Words |-> IF i > at[r] - 1 THEN ParsedText(r, i)
                               ELSE Tags(order[r][i])]
        BY <3>1, <4>2, <4>3
      <4> QED
        BY <1>1, <4>1, <4>4, TextsStay DEF TextIsSound
    <3>4. CASE headBuff[r] # {}
      <4>1. /\ stage'[r] = "writing" /\ at'[r] = at[r] /\ unwritten'[r] = Words
        BY <1>2, <3>4
      <4> QED
        BY <1>1, <3>1, <4>1, TextsStay DEF TextIsSound
    <3> QED
      BY <3>3, <3>4
  <2> QED
    BY <1>1, <2>1, <2>3, <2>4, TextsStay DEF HeadsAreSound
<1> QED
  BY <1>5, <1>6, <1>7, <1>8, OthersStaySound

(* A word of the text of the current head is assigned.                     *)
LEMMA SetContentKeeps ==
    ASSUME IInv, NEW r \in Requests, SetContent(r)
    PROVE  IInv'
<1> USE Types
<1> DEFINE h == Current(r)
<1>1. /\ stage[r] = "writing"
      /\ UNCHANGED <<loaded, order, rest, headBuff, headPropertyMap, page>>
  BY DEF SetContent
<1>2. PICK w \in unwritten[r] :
         /\ words' = [words EXCEPT ![h][w] = headBuff[r]]
         /\ unwritten' = [unwritten EXCEPT ![r] = @ \ {w}]
         /\ IF unwritten[r] = {w}
            THEN /\ stage' = [stage EXCEPT ![r] = "heads"]
                 /\ at' = [at EXCEPT ![r] = at[r] - 1]
            ELSE stage' = stage /\ at' = at
  BY DEF SetContent, Goes
<1>3. /\ Len(order[r]) \in Nat /\ DOMAIN order[r] = 1 .. Len(order[r])
      /\ at[r] \in DOMAIN order[r] /\ r \in Prioritized
      /\ headBuff[r] \subseteq DOMAIN loaded[order[r][at[r]]] \cup {Garbled}
      /\ rest[r] \cup headBuff[r] \subseteq
            DOMAIN loaded[order[r][at[r]]] \cup {Garbled}
  BY <1>1, OrderFields DEF IInv, PlaceIsSound
<1>4. /\ at[r] - 1 \in Nat /\ at[r] - 1 \in 0 .. Len(order[r])
      /\ at[r] - 1 \in 0 .. Len(order[r]) + 1 /\ at[r] \in Nat
  BY <1>3
<1>5. /\ h \in Heads /\ h \in HeadsOf[r] /\ h = order[r][at[r]]
      /\ w \in Words /\ headBuff[r] \in SUBSET Nat
  BY <1>2, <1>3, CurrentHead
<1> HIDE DEF h
<1>6. /\ \A g \in Heads \ {h} : words'[g] = words[g]
      /\ words'[h] \in [Words -> SUBSET Nat]
      /\ \A v \in Words : words'[h][v] = IF v = w THEN headBuff[r] ELSE words[h][v]
      /\ words' \in [Heads -> [Words -> SUBSET Nat]]
  BY <1>2, <1>5
<1>7. OnlyMoves(r)
  BY <1>1, <1>2, <1>5, <1>6 DEF OnlyMoves
<1>8. TypeOK'
  <2>1. /\ stage' \in [Requests -> {"new", "heads", "tags", "writing",
                                     "rendering", "done"}]
        /\ at' \in [Requests -> Nat] /\ unwritten' \in [Requests -> SUBSET Words]
    BY <1>2, <1>4
  <2>2. \A q \in Requests : at'[q] \in 0 .. Len(order[q]) + 1
    BY <1>2, <1>4 DEF TypeOK
  <2>3. \A g \in Heads, v \in Words :
           words'[g][v] \subseteq DOMAIN loaded[g] \cup {Garbled}
    BY <1>3, <1>5, <1>6 DEF TypeOK
  <2> QED
    BY <1>1, <1>6, <2>1, <2>2, <2>3 DEF TypeOK
<1>9. \/ unwritten[r] = {w} /\ stage'[r] = "heads" /\ at'[r] = at[r] - 1
      \/ unwritten[r] # {w} /\ stage'[r] = "writing" /\ at'[r] = at[r]
  BY <1>1, <1>2
<1>10. PlaceIsSound(r)'
  <2>1. Len(page'[r]) = 0
    BY <1>1 DEF IInv, PlaceIsSound
  <2> QED
    BY <1>1, <1>3, <1>4, <1>9, <2>1 DEF PlaceIsSound
<1>11. ASSUME IsOwn(r)
       PROVE  HeadsAreSound(r)'
  <2>1. HeadsAreSound(r)
    BY <1>11 DEF IInv
  <2>2. /\ headBuff[r] = Unrepeated(r, at[r]) /\ headBuff[r] # {}
        /\ headPropertyMap[r] = ValuedAbove(r, at[r] - 1)
    BY <1>1, <2>1 DEF HeadsAreSound, MapIsSound
  <2>3. MapIsSound(r)'
    BY <1>1, <1>9, <2>2, TextsStay DEF MapIsSound
  <2>4. ParsedText(r, at[r]) = headBuff[r]
    BY <1>3, <2>2 DEF ParsedText, IsRedundant
  <2>5. ASSUME NEW i \in DOMAIN order[r]
        PROVE  TextIsSound(r, i)'
    <3> DEFINE g == order[r][i]
    <3>1. words[g] =
             [v \in Words |-> IF i > at[r] THEN ParsedText(r, i)
                             ELSE IF i = at[r] /\ v \notin unwritten[r]
                             THEN headBuff[r] ELSE Tags(g)]
      BY <1>1, <2>1, <2>5 DEF HeadsAreSound, TextIsSound
    <3>2. i \in Nat /\ at[r] \in Nat
      BY <1>3
    <3>3. words'[g] =
             [v \in Words |-> IF i > at[r] THEN ParsedText(r, i)
                             ELSE IF i = at[r] /\ v \notin unwritten[r] \ {w}
                             THEN headBuff[r] ELSE Tags(g)]
      <4>1. CASE i = at[r]
        <5>1. g = h /\ ~(i > at[r])
          BY <1>5, <3>2, <4>1
        <5>2. \A v \in Words : words'[g][v] =
                 IF v \notin unwritten[r] \ {w} THEN headBuff[r] ELSE Tags(g)
          BY <1>6, <3>1, <4>1, <5>1
        <5> QED
          BY <1>6, <4>1, <5>1, <5>2
      <4>2. CASE i # at[r]
        <5>1. g # h /\ g \in Heads
          BY <1>3, <1>5, <2>5, <4>2, OrderFields
        <5>2. words'[g] = words[g]
          BY <1>6, <5>1
        <5> QED
          BY <3>1, <4>2, <5>2
      <4> QED
        BY <4>1, <4>2
    <3> HIDE DEF g
    <3>4. CASE unwritten[r] = {w}
      <4>1. stage'[r] = "heads" /\ at'[r] = at[r] - 1 /\ unwritten[r] \ {w} = {}
        BY <1>9, <3>4
      <4>2. i > at[r] - 1 <=> i > at[r] \/ i = at[r]
        BY <3>2
      <4>3. words'[g] = [v \in Words |-> IF i > at[r] - 1 THEN ParsedText(r, i)
                                         ELSE Tags(g)]
        BY <2>4, <3>3, <4>1, <4>2
      <4> QED
        BY <1>1, <4>1, <4>3, TextsStay DEF TextIsSound, g
    <3>5. CASE unwritten[r] # {w}
      <4>1. /\ stage'[r] = "writing" /\ at'[r] = at[r]
            /\ unwritten'[r] = unwritten[r] \ {w}
        BY <1>2, <1>9, <3>5
      <4> QED
        BY <1>1, <3>3, <4>1, TextsStay DEF TextIsSound, g
    <3> QED
      BY <3>4, <3>5
  <2> QED
    BY <1>1, <2>1, <2>3, <2>5, TextsStay DEF HeadsAreSound
<1> QED
  BY <1>7, <1>8, <1>10, <1>11, OthersStaySound

LEMMA RenderHeadKeeps ==
    ASSUME IInv, NEW r \in Requests, RenderHead(r)
    PROVE  IInv'
<1> USE Types
<1> DEFINE c == Content(Current(r))
<1>1. /\ stage[r] = "rendering" /\ at[r] <= Len(order[r])
      /\ page' = [page EXCEPT ![r] = Append(page[r], c)]
      /\ at' = [at EXCEPT ![r] = at[r] + 1]
      /\ UNCHANGED <<loaded, words, order, stage, rest, headBuff,
                     headPropertyMap, unwritten>>
  BY DEF RenderHead, parseVars
<1>2. /\ Len(order[r]) \in Nat /\ DOMAIN order[r] = 1 .. Len(order[r])
      /\ at[r] \in Nat /\ at[r] > 0 /\ Len(page[r]) = at[r] - 1
  BY <1>1, OrderFields DEF IInv, PlaceIsSound
<1>3. at[r] \in DOMAIN order[r] /\ at[r] + 1 \in 0 .. Len(order[r]) + 1
  BY <1>1, <1>2
<1>4. c \in SUBSET Nat /\ Current(r) = order[r][at[r]]
  BY <1>3, CurrentHead
<1> HIDE DEF c
<1>5. /\ page'[r] = Append(page[r], c) /\ page[r] \in Seq(SUBSET Nat)
      /\ page'[r] \in Seq(SUBSET Nat) /\ Len(page'[r]) = at[r]
      /\ DOMAIN page[r] = 1 .. at[r] - 1 /\ DOMAIN page'[r] = 1 .. at[r]
      /\ \A i \in 1 .. at[r] - 1 : page'[r][i] = page[r][i]
      /\ page'[r][at[r]] = c
  <2>1. page[r] \in Seq(SUBSET Nat) /\ page'[r] = Append(page[r], c)
    BY <1>1
  <2>2. (at[r] - 1) + 1 = at[r]
    BY <1>2
  <2> QED
    BY <1>2, <1>4, <2>1, <2>2, AppendProperties, LenProperties
<1>6. OnlyMoves(r)
  BY <1>1 DEF OnlyMoves
<1>7. TypeOK'
  <2>1. /\ page' \in [Requests -> Seq(SUBSET Nat)] /\ at' \in [Requests -> Nat]
    BY <1>1, <1>2, <1>5
  <2>2. \A q \in Requests : at'[q] \in 0 .. Len(order[q]) + 1
    BY <1>1, <1>3 DEF TypeOK
  <2> QED
    BY <1>1, <2>1, <2>2 DEF TypeOK
<1>8. PlaceIsSound(r)'
  <2>1. at'[r] = at[r] + 1 /\ at'[r] > 0 /\ at'[r] - 1 = at[r]
    BY <1>1, <1>2
  <2> QED
    BY <1>1, <1>5, <2>1 DEF PlaceIsSound
<1>9. ASSUME IsOwn(r)
      PROVE  HeadsAreSound(r)'
  <2>1. HeadsAreSound(r)
    BY <1>9 DEF IInv
  <2>2. c = ParsedText(r, at[r])
    BY <1>1, <1>3, <1>4, <1>9, TextOf DEF c
  <2>3. ASSUME NEW i \in DOMAIN page'[r]
        PROVE  page'[r][i] = ParsedText(r, i)
    <3>1. CASE i = at[r]
      BY <1>5, <2>2, <3>1
    <3>2. CASE i # at[r]
      <4>1. i \in 1 .. at[r] - 1
        BY <1>2, <1>5, <2>3, <3>2
      <4> QED
        BY <1>5, <2>1, <4>1 DEF HeadsAreSound
    <3> QED
      BY <3>1, <3>2
  <2>4. MapIsSound(r)'
    BY <1>1 DEF MapIsSound
  <2>5. ASSUME NEW i \in DOMAIN order[r]
        PROVE  TextIsSound(r, i)'
    <3>1. TextIsSound(r, i)
      BY <2>1, <2>5 DEF HeadsAreSound
    <3> QED
      BY <1>1, <3>1, TextsStay DEF TextIsSound
  <2> QED
    BY <1>1, <2>3, <2>4, <2>5, TextsStay DEF HeadsAreSound
<1> QED
  BY <1>6, <1>7, <1>8, <1>9, OthersStaySound

LEMMA GetHtmlReturnsKeeps ==
    ASSUME IInv, NEW r \in Requests, GetHtmlReturns(r)
    PROVE  IInv'
<1> USE Types
<1>1. /\ stage[r] = "rendering" /\ at[r] > Len(order[r])
      /\ stage' = [stage EXCEPT ![r] = "done"]
      /\ UNCHANGED <<loaded, words, order, at, rest, headBuff,
                     headPropertyMap, unwritten, page>>
  BY DEF GetHtmlReturns, parseVars
<1>2. /\ Len(order[r]) \in Nat /\ at[r] \in 0 .. Len(order[r]) + 1
      /\ Len(page[r]) = at[r] - 1
  BY <1>1, OrderFields DEF IInv, PlaceIsSound, TypeOK
<1>3. OnlyMoves(r)
  BY <1>1 DEF OnlyMoves
<1>4. TypeOK'
  BY <1>1 DEF TypeOK
<1>5. PlaceIsSound(r)'
  BY <1>1, <1>2 DEF PlaceIsSound
<1>6. ASSUME IsOwn(r)
      PROVE  HeadsAreSound(r)'
  <2>1. HeadsAreSound(r)
    BY <1>6 DEF IInv
  <2>2. ASSUME NEW i \in DOMAIN order[r]
        PROVE  TextIsSound(r, i)'
    <3>1. TextIsSound(r, i)
      BY <2>1, <2>2 DEF HeadsAreSound
    <3> QED
      BY <1>1, <3>1, TextsStay DEF TextIsSound
  <2>3. MapIsSound(r)'
    BY <1>1 DEF MapIsSound
  <2> QED
    BY <1>1, <2>1, <2>2, <2>3, TextsStay DEF HeadsAreSound
<1> QED
  BY <1>3, <1>4, <1>5, <1>6, OthersStaySound

-----------------------------------------------------------------------------
(* The invariant.                                                          *)

LEMMA OrderIsASequence ==
    ASSUME NEW H, IsFiniteSet(H), NEW s \in Orders(H)
    PROVE  Len(s) \in Nat
<1>1. /\ s \in [1 .. Cardinality(H) -> H] /\ Cardinality(H) \in Nat
  BY FS_CardinalityType DEF Orders
<1>2. s \in Seq(H)
  BY <1>1, SeqDef
<1> QED
  BY <1>2, LenProperties

LEMMA InitEstablishes == Init => IInv
<1> SUFFICES ASSUME Init PROVE IInv
  OBVIOUS
<1> USE DEF Init
<1>1. \A r \in Requests : order[r] \in Orders(HeadsOf[r])
  OBVIOUS
<1>2. \A h \in Heads : DOMAIN loaded[h] \in SUBSET Nat
  <2> TAKE h \in Heads
  <2>1. loaded[h] \in Seq(Tag)
    BY TextsAssumption
  <2> QED
    BY <2>1, LenProperties
<1>3. \A r \in Requests : Len(order[r]) \in Nat
  BY <1>1, RequestsAssumption, OrderIsASequence
<1>4. TypeOK
  <2>1. words \in [Heads -> [Words -> SUBSET Nat]]
    BY <1>2
  <2>2. \A h \in Heads, w \in Words :
           words[h][w] \subseteq DOMAIN loaded[h] \cup {Garbled}
    OBVIOUS
  <2>3. /\ at \in [Requests -> Nat]
        /\ \A r \in Requests : at[r] \in 0 .. Len(order[r]) + 1
    BY <1>3
  <2>4. << >> \in Seq(SUBSET Nat)
    BY EmptySeq
  <2>5. /\ rest \in [Requests -> SUBSET Nat] /\ headBuff \in [Requests -> SUBSET Nat]
        /\ headPropertyMap \in [Requests -> SUBSET STRING]
        /\ unwritten \in [Requests -> SUBSET Words]
        /\ page \in [Requests -> Seq(SUBSET Nat)]
    BY <2>4
  <2>6. /\ DOMAIN loaded = Heads /\ \A h \in Heads : loaded[h] \in Texts[h]
        /\ DOMAIN order = Requests
        /\ stage \in [Requests -> {"new", "heads", "tags", "writing",
                                   "rendering", "done"}]
    OBVIOUS
  <2> QED
    BY <1>1, <2>1, <2>2, <2>3, <2>5, <2>6 DEF TypeOK
<1>5. ASSUME NEW r \in Requests
      PROVE  PlaceIsSound(r) /\ HeadsAreSound(r)
  <2>1. /\ stage[r] = "new" /\ headPropertyMap[r] = {} /\ page[r] = << >>
    BY <1>5
  <2>2. Len(page[r]) = 0 /\ DOMAIN page[r] = {}
    BY <2>1, EmptySeq, LenProperties
  <2>3. PlaceIsSound(r)
    BY <2>1, <2>2 DEF PlaceIsSound
  <2>4. MapIsSound(r)
    BY <2>1 DEF MapIsSound
  <2>5. ASSUME NEW i \in DOMAIN order[r]
        PROVE  TextIsSound(r, i)
    <3>1. order[r][i] \in Heads
      BY <1>4, <1>5, <2>5, OrderFields
    <3>2. words[order[r][i]] = [w \in Words |-> Tags(order[r][i])]
      BY <3>1 DEF Tags
    <3> QED
      BY <2>1, <3>2 DEF TextIsSound
  <2> QED
    BY <2>2, <2>3, <2>4, <2>5 DEF HeadsAreSound
<1> QED
  BY <1>4, <1>5 DEF IInv

LEMMA StepKeeps == IInv /\ [Next]_vars => IInv'
<1> SUFFICES ASSUME IInv, [Next]_vars PROVE IInv'
  OBVIOUS
<1>1. ASSUME NEW r \in Requests, Step(r)
      PROVE  IInv'
  <2>1. CASE GetHtml(r)
    BY <2>1, GetHtmlKeeps
  <2>2. CASE ReadHead(r)
    BY <2>2, ReadHeadKeeps
  <2>3. CASE HeadsAreParsed(r)
    BY <2>3, HeadsAreParsedKeeps
  <2>4. CASE KeepTag(r)
    BY <2>4, KeepTagKeeps
  <2>5. CASE DropTag(r)
    BY <2>5, DropTagKeeps
  <2>6. CASE EndHead(r)
    BY <2>6, EndHeadKeeps
  <2>7. CASE SetContent(r)
    BY <2>7, SetContentKeeps
  <2>8. CASE RenderHead(r)
    BY <2>8, RenderHeadKeeps
  <2>9. CASE GetHtmlReturns(r)
    BY <2>9, GetHtmlReturnsKeeps
  <2> QED
    BY <1>1, <2>1, <2>2, <2>3, <2>4, <2>5, <2>6, <2>7, <2>8, <2>9 DEF Step
<1>2. CASE UNCHANGED vars
  <2>1. UNCHANGED <<loaded, words, order, stage, at, rest, headBuff,
                    headPropertyMap, unwritten, page>>
    BY <1>2 DEF vars, parseVars
  <2>2. TypeOK'
    BY <2>1, Types DEF TypeOK
  <2>3. \A r \in Requests : PlaceIsSound(r)'
    BY <2>1 DEF IInv, PlaceIsSound
  <2>4. ASSUME NEW r \in Requests, IsOwn(r)
        PROVE  HeadsAreSound(r)'
    <3>1. HeadsAreSound(r)
      BY <2>4 DEF IInv
    <3>2. MapIsSound(r)'
      BY <2>1, <3>1, TextsStay DEF HeadsAreSound, MapIsSound, IsReadUpTo, Current
    <3>3. \A i \in DOMAIN order'[r] : TextIsSound(r, i)'
      BY <2>1, <3>1, TextsStay DEF HeadsAreSound, TextIsSound
    <3> QED
      BY <2>1, <3>1, <3>2, <3>3, TextsStay DEF HeadsAreSound
  <2> QED
    BY <2>2, <2>3, <2>4 DEF IInv, IsOwn
<1> QED
  BY <1>1, <1>2 DEF Next, AllDone

(* Every step of GetHtml leaves the heads of a request that shares none of *)
(* them as the invariant says: those that have been parsed without their   *)
(* repeats, the others as they were loaded.                                *)
THEOREM Invariant == Spec => []IInv
<1>1. Init => IInv
  BY InitEstablishes
<1>2. IInv /\ [Next]_vars => IInv'
  BY StepKeeps
<1> QED
  BY <1>1, <1>2, PTL DEF Spec

(* What GetHtml keeps has its type.                                        *)
THEOREM TypeCorrect == Spec => []TypeOK
<1>1. IInv => TypeOK
  BY DEF IInv
<1> QED
  BY <1>1, Invariant, PTL

-----------------------------------------------------------------------------
(* What is rendered.                                                       *)

LEMMA RenderedIsParsed ==
    ASSUME IInv, NEW r \in Requests, IsOwn(r), stage[r] = "done"
    PROVE  /\ DOMAIN page[r] = DOMAIN order[r]
           /\ DOMAIN order[r] = 1 .. Len(order[r]) /\ Len(order[r]) \in Nat
           /\ \A i \in DOMAIN page[r] : page[r][i] = ParsedText(r, i)
           /\ \A i \in DOMAIN order[r] : order[r][i] \in Heads
<1> USE Types
<1>1. HeadsAreSound(r) /\ Len(page[r]) = Len(order[r])
  BY DEF IInv, PlaceIsSound
<1>2. page[r] \in Seq(SUBSET Nat)
  OBVIOUS
<1> QED
  BY <1>1, <1>2, OrderFields, LenProperties DEF HeadsAreSound

(* A tag that does not repeat has a property that none above has.          *)
LEMMA UnrepeatedIsFirst ==
    ASSUME TypeOK, NEW r \in Requests, NEW i \in DOMAIN order[r],
           NEW k \in Unrepeated(r, i), Records(order[r][i], k) # {}
    PROVE  /\ \A m \in DOMAIN order[r] :
                 m > i => Records(order[r][i], k) \cap AllValued(order[r][m]) = {}
           /\ \A l \in Tags(order[r][i]) :
                 l < k => Records(order[r][i], l) # Records(order[r][i], k)
<1> DEFINE h == order[r][i]
           p == PropertyOf(h, k)
<1>1. h \in Heads /\ k \in Tags(h) /\ ~Repeats(r, i, k)
  BY OrderFields DEF Unrepeated
<1>2. p # NoProperty /\ Records(h, k) = {p}
  BY <1>1 DEF Records
<1>3. p \notin ValuedAbove(r, i) /\ p \notin ValuedIn(h, k - 1)
  BY <1>1, <1>2 DEF Repeats
<1> HIDE DEF h, p
<1>4. ASSUME NEW m \in DOMAIN order[r], m > i
      PROVE  p \notin AllValued(order[r][m])
  BY <1>3, <1>4 DEF ValuedAbove
<1>5. ASSUME NEW l \in Tags(h), l < k
      PROVE  p \notin Records(h, l)
  <2>1. l \in 1 .. k - 1
    BY <1>1, <1>5, TextFields
  <2> QED
    BY <1>3, <2>1 DEF ValuedIn
<1> QED
  BY <1>2, <1>4, <1>5 DEF h

(* The first head from the top, and the first tag in it, that has a value  *)
(* for a property stays.                                                   *)
LEMMA FirstIsUnrepeated ==
    ASSUME TypeOK, NEW r \in Requests, NEW j \in DOMAIN order[r], NEW p,
           p \in AllValued(order[r][j]), p \notin ValuedAbove(r, j)
    PROVE  \E l \in Unrepeated(r, j) :
              /\ Records(order[r][j], l) = {p}
              /\ \A k \in Tags(order[r][j]) :
                    p \in Records(order[r][j], k) => l <= k
<1> DEFINE h == order[r][j]
           T == {k \in Tags(h) : p \in Records(h, k)}
<1>1. h \in Heads
  BY OrderFields
<1>2. T # {} /\ T \subseteq Nat
  BY <1>1, TextFields DEF AllValued
<1>3. PICK l \in T : \A k \in T : l <= k
  BY <1>2, LeastOf
<1>4. Records(h, l) = {p} /\ PropertyOf(h, l) = p
  BY <1>3 DEF Records
<1>5. p \notin ValuedIn(h, l - 1)
  <2> SUFFICES ASSUME NEW k \in Tags(h) \cap (1 .. l - 1), p \in Records(h, k)
               PROVE  FALSE
    BY DEF ValuedIn
  <2>1. k \in T /\ k \in Nat /\ l \in Nat
    BY <1>2, <1>3
  <2> QED
    BY <1>3, <2>1
<1>6. l \in Unrepeated(r, j)
  BY <1>3, <1>4, <1>5 DEF Unrepeated, Repeats
<1> QED
  BY <1>3, <1>4, <1>6

(* The highest head that has a value for a property.                       *)
LEMMA HighestOf ==
    ASSUME TypeOK, NEW r \in Requests, NEW i \in DOMAIN order[r], NEW p,
           p \in ValuedAbove(r, i)
    PROVE  \E j \in DOMAIN order[r] :
              /\ j > i /\ p \in AllValued(order[r][j])
              /\ p \notin ValuedAbove(r, j)
<1> DEFINE N == Len(order[r])
           J == {l \in DOMAIN order[r] : l > i /\ p \in AllValued(order[r][l])}
           T == {N - l : l \in J}
<1>1. N \in Nat /\ DOMAIN order[r] = 1 .. N
  BY OrderFields
<1>2. J # {} /\ J \subseteq 1 .. N
  BY <1>1 DEF ValuedAbove
<1> HIDE DEF N, J
<1>3. T # {} /\ T \subseteq Nat
  <2>1. \A l \in J : N - l \in Nat
    BY <1>1, <1>2
  <2> QED
    BY <1>2, <2>1
<1>4. PICK m \in T : \A k \in T : m <= k
  BY <1>3, LeastOf
<1>5. PICK j \in J : m = N - j
  BY <1>4
<1>6. ASSUME NEW l \in J
      PROVE  l <= j
  <2>1. N - l \in T
    OBVIOUS
  <2>2. N - j <= N - l
    BY <1>4, <1>5, <2>1
  <2>3. l \in Nat /\ j \in Nat
    BY <1>1, <1>2
  <2> QED
    BY <1>1, <2>2, <2>3
<1>7. p \notin ValuedAbove(r, j)
  <2> SUFFICES ASSUME NEW l \in DOMAIN order[r], l > j, p \in AllValued(order[r][l])
               PROVE  FALSE
    BY DEF ValuedAbove
  <2>1. l \in Nat /\ j \in Nat /\ i \in Nat /\ j > i
    BY <1>1, <1>2 DEF J
  <2>2. l <= j
    BY <1>6, <2>1 DEF J
  <2> QED
    BY <2>1, <2>2
<1> QED
  BY <1>5, <1>7 DEF J

LEMMA OneTagOfAHead ==
    ASSUME TypeOK, NEW r \in Requests, NEW i \in DOMAIN order[r],
           NEW k \in Unrepeated(r, i), NEW l \in Unrepeated(r, i),
           Records(order[r][i], k) # {},
           Records(order[r][i], k) = Records(order[r][i], l)
    PROVE  k = l
<1>1. order[r][i] \in Heads
  BY OrderFields
<1>2. k \in Tags(order[r][i]) /\ l \in Tags(order[r][i]) /\ k \in Nat /\ l \in Nat
  BY <1>1, TextFields DEF Unrepeated
<1>3. ~(k < l) /\ ~(l < k)
  BY <1>2, UnrepeatedIsFirst
<1> QED
  BY <1>2, <1>3

LEMMA Decides == IInv => HighestPriorityWins
<1> SUFFICES ASSUME IInv, NEW r \in Requests, IsDone(r)
             PROVE  \A i, j \in DOMAIN page[r] :
                       \A k \in page[r][i], l \in page[r][j] :
                          LET g == order[r][i]
                              h == order[r][j]
                          IN  /\ Records(g, k) # {} /\ Records(g, k) = Records(h, l)
                              /\ ~IsRedundant(r, i) /\ ~IsRedundant(r, j)
                              => /\ <<i, k>> = <<j, l>>
                                 /\ \A m \in DOMAIN order[r] :
                                       m > i => Records(g, k)
                                                   \cap AllValued(order[r][m]) = {}
  BY DEF HighestPriorityWins
<1> SUFFICES ASSUME NEW i \in DOMAIN page[r], NEW j \in DOMAIN page[r],
                    NEW k \in page[r][i], NEW l \in page[r][j],
                    Records(order[r][i], k) # {},
                    Records(order[r][i], k) = Records(order[r][j], l),
                    ~IsRedundant(r, i), ~IsRedundant(r, j)
             PROVE  /\ i = j /\ k = l
                    /\ \A m \in DOMAIN order[r] :
                          m > i => Records(order[r][i], k)
                                      \cap AllValued(order[r][m]) = {}
  OBVIOUS
<1> USE Types
<1>1. r \in Prioritized /\ stage[r] = "done" /\ IsOwn(r)
  BY DEF IsDone
<1>2. /\ i \in DOMAIN order[r] /\ j \in DOMAIN order[r]
      /\ k \in Unrepeated(r, i) /\ l \in Unrepeated(r, j)
  BY <1>1, RenderedIsParsed DEF ParsedText
<1>3. /\ \A m \in DOMAIN order[r] :
            m > i => Records(order[r][i], k) \cap AllValued(order[r][m]) = {}
      /\ \A m \in DOMAIN order[r] :
            m > j => Records(order[r][j], l) \cap AllValued(order[r][m]) = {}
  BY <1>2, UnrepeatedIsFirst
<1>4. /\ Records(order[r][i], k) \subseteq AllValued(order[r][i])
      /\ Records(order[r][j], l) \subseteq AllValued(order[r][j])
  BY <1>2 DEF AllValued, Unrepeated
<1>5. ~(j > i) /\ ~(i > j)
  BY <1>2, <1>3, <1>4
<1>6. i \in Nat /\ j \in Nat
  BY <1>1, <1>2, RenderedIsParsed
<1>7. i = j
  BY <1>5, <1>6
<1>8. k = l
  BY <1>2, <1>7, OneTagOfAHead
<1> QED
  BY <1>3, <1>7, <1>8

(* The property of a page's heads that more than one sets is that of the   *)
(* highest priority (processMetaPriorityParsing), whatever the heads are.  *)
THEOREM PriorityDecides == Spec => []HighestPriorityWins
<1>1. IInv => HighestPriorityWins
  BY Decides
<1> QED
  BY <1>1, Invariant, PTL

LEMMA DropsRepeats == IInv => OnlyRepeatsAreDropped
<1> SUFFICES ASSUME IInv, NEW r \in Requests, stage[r] = "done", IsOwn(r)
             PROVE  /\ DOMAIN page[r] = DOMAIN order[r]
                    /\ \A i \in DOMAIN order[r] :
                          \A k \in Tags(order[r][i]) \ page[r][i] :
                             \E j \in DOMAIN page[r] : \E l \in page[r][j] :
                                /\ j > i \/ (j = i /\ l < k)
                                /\ Records(order[r][j], l)
                                      = {PropertyOf(order[r][i], k)}
  BY DEF OnlyRepeatsAreDropped
<1> USE Types
<1>1. DOMAIN page[r] = DOMAIN order[r]
  BY RenderedIsParsed
<1>2. ASSUME NEW i \in DOMAIN order[r], NEW k \in Tags(order[r][i]) \ page[r][i]
      PROVE  \E j \in DOMAIN page[r] : \E l \in page[r][j] :
                /\ j > i \/ (j = i /\ l < k)
                /\ Records(order[r][j], l) = {PropertyOf(order[r][i], k)}
  <2> DEFINE h == order[r][i]
             p == PropertyOf(h, k)
  <2>1. page[r][i] = ParsedText(r, i) /\ h \in Heads /\ i \in Nat
    BY <1>1, <1>2, RenderedIsParsed
  <2>2. /\ r \in Prioritized /\ Repeats(r, i, k)
        /\ page[r][i] = Unrepeated(r, i)
    BY <1>2, <2>1 DEF ParsedText, Unrepeated
  <2> HIDE DEF h, p
  <2>3. \A j \in DOMAIN order[r] : Unrepeated(r, j) # {} =>
           page[r][j] = Unrepeated(r, j)
    BY <1>1, <2>2, RenderedIsParsed DEF ParsedText, IsRedundant
  <2>4. CASE p \in ValuedAbove(r, i)
    <3>1. PICK j \in DOMAIN order[r] :
             /\ j > i /\ p \in AllValued(order[r][j])
             /\ p \notin ValuedAbove(r, j)
      BY <1>2, <2>4, HighestOf
    <3>2. PICK l \in Unrepeated(r, j) : Records(order[r][j], l) = {p}
      <4>1. TypeOK /\ p \in AllValued(order[r][j]) /\ p \notin ValuedAbove(r, j)
        BY <3>1
      <4>2. \E l \in Unrepeated(r, j) :
               /\ Records(order[r][j], l) = {p}
               /\ \A m \in Tags(order[r][j]) :
                     p \in Records(order[r][j], m) => l <= m
        BY <3>1, <4>1, FirstIsUnrepeated
      <4> QED
        BY <4>2
    <3>3. l \in page[r][j]
      BY <2>3, <3>2
    <3> QED
      BY <1>1, <3>1, <3>2, <3>3 DEF h, p
  <2>5. CASE p \notin ValuedAbove(r, i)
    <3>1. p \in ValuedIn(h, k - 1)
      BY <2>2, <2>5 DEF Repeats, h, p
    <3>2. PICK m \in Tags(h) \cap (1 .. k - 1) : p \in Records(h, m)
      BY <3>1 DEF ValuedIn
    <3>3. p \in AllValued(h)
      BY <3>2 DEF AllValued
    <3>4. PICK l \in Unrepeated(r, i) :
             Records(h, l) = {p} /\ l <= m
      BY <1>2, <2>5, <3>2, <3>3, FirstIsUnrepeated DEF h
    <3>5. l \in Tags(h) /\ l < k
      <4>1. l \in Nat /\ k \in Nat
        BY <1>2, <2>1, <3>4, TextFields DEF Unrepeated, h
      <4> QED
        BY <3>2, <3>4, <4>1 DEF Unrepeated, h
    <3>6. l \in page[r][i]
      BY <2>2, <3>4
    <3> QED
      BY <1>1, <1>2, <3>4, <3>5, <3>6 DEF h, p
  <2> QED
    BY <2>4, <2>5
<1> QED
  BY <1>1, <1>2

(* A tag that a page misses has been given by a higher head, or before it  *)
(* in its own (ParseHeadFragment leaves out what repeats and no more).     *)
THEOREM NothingElseIsDropped == Spec => []OnlyRepeatsAreDropped
<1>1. IInv => OnlyRepeatsAreDropped
  BY DropsRepeats
<1> QED
  BY <1>1, Invariant, PTL

=============================================================================
