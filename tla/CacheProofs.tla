---------------------------- MODULE CacheProofs ----------------------------
(***************************************************************************)
(* Proofs about Cache for any keys, sizes, goroutines and limits.          *)
(***************************************************************************)
EXTENDS Cache, Inductions, SequenceTheorems, TLAPS

USE LimitsAssumption, BoundsAssumption

UniqueKeys(s) == \A i, j \in DOMAIN s : s[i].key = s[j].key => i = j

-----------------------------------------------------------------------------
LEMMA EntryType ==
    ASSUME NEW e \in Entry
    PROVE  /\ e.key \in Keys /\ e.size \in Nat
           /\ e.fetchTime \in Nat /\ e.id \in Nat
<1>1. /\ e.key \in Keys /\ e.size \in Sizes
      /\ e.fetchTime \in Nat /\ e.id \in Nat
  BY DEF Entry
<1> QED
  BY <1>1, SizesAssumption

LEMMA RemoveAtElements ==
    ASSUME NEW s \in Seq(Entry), NEW i \in DOMAIN s
    PROVE  /\ RemoveAt(s, i) \in Seq(Entry)
           /\ Len(RemoveAt(s, i)) = Len(s) - 1
           /\ \A j \in 1 .. Len(s) - 1 :
                 RemoveAt(s, i)[j] = IF j < i THEN s[j] ELSE s[j + 1]
<1>1. /\ SubSeq(s, 1, i - 1) \in Seq(Entry)
      /\ Len(SubSeq(s, 1, i - 1)) = i - 1
      /\ \A j \in 1 .. i - 1 : SubSeq(s, 1, i - 1)[j] = s[j]
  OBVIOUS
<1>2. /\ SubSeq(s, i + 1, Len(s)) \in Seq(Entry)
      /\ Len(SubSeq(s, i + 1, Len(s))) = Len(s) - i
      /\ \A j \in 1 .. Len(s) - i : SubSeq(s, i + 1, Len(s))[j] = s[i + j]
  OBVIOUS
<1> DEFINE u == SubSeq(s, 1, i - 1)
           v == SubSeq(s, i + 1, Len(s))
<1>3. RemoveAt(s, i) = u \o v
  BY DEF RemoveAt
<1> HIDE DEF u, v
<1>4. /\ u \o v \in Seq(Entry) /\ Len(u \o v) = Len(u) + Len(v)
      /\ \A j \in 1 .. Len(u) + Len(v) :
            (u \o v)[j] = IF j <= Len(u) THEN u[j] ELSE v[j - Len(u)]
  BY <1>1, <1>2, ConcatProperties DEF u, v
<1>5. Len(u) = i - 1 /\ Len(v) = Len(s) - i /\ i \in 1 .. Len(s)
  BY <1>1, <1>2 DEF u, v
<1>6. /\ \A j \in 1 .. i - 1 : u[j] = s[j]
      /\ \A j \in 1 .. Len(s) - i : v[j] = s[i + j]
  BY <1>1, <1>2 DEF u, v
<1>7. ASSUME NEW j \in 1 .. Len(s) - 1, j < i
      PROVE  RemoveAt(s, i)[j] = s[j]
  <2>1. j \in 1 .. Len(u) + Len(v) /\ j <= Len(u) /\ j \in 1 .. i - 1
    BY <1>5, <1>7
  <2>2. (u \o v)[j] = u[j]
    BY <1>4, <2>1
  <2> QED
    BY <1>3, <1>6, <2>1, <2>2
<1>8. ASSUME NEW j \in 1 .. Len(s) - 1, j >= i
      PROVE  RemoveAt(s, i)[j] = s[j + 1]
  <2>1. j - (i - 1) \in 1 .. Len(s) - i /\ i + (j - (i - 1)) = j + 1
    BY <1>5, <1>8
  <2>2. v[j - (i - 1)] = s[j + 1]
    BY <1>6, <2>1
  <2>3. (u \o v)[j] = v[j - (i - 1)]
    <3>1. j \in 1 .. Len(u) + Len(v) /\ ~(j <= Len(u))
      BY <1>5, <1>8
    <3>2. (u \o v)[j] = v[j - Len(u)]
      BY <1>4, <3>1
    <3> QED
      BY <1>5, <3>2
  <2> QED
    BY <1>3, <2>2, <2>3
<1>9. /\ RemoveAt(s, i) \in Seq(Entry)
      /\ Len(RemoveAt(s, i)) = Len(s) - 1
  BY <1>3, <1>4, <1>5
<1> QED
  <2>1. \A j \in 1 .. Len(s) - 1 :
           /\ j < i => RemoveAt(s, i)[j] = s[j]
           /\ ~(j < i) => RemoveAt(s, i)[j] = s[j + 1]
    BY <1>5, <1>7, <1>8
  <2> QED
    BY <1>9, <2>1

LEMMA FindElement ==
    ASSUME NEW s \in Seq(Entry), UniqueKeys(s), NEW i \in DOMAIN s
    PROVE  /\ At(s, s[i].key) = {i}
           /\ (CHOOSE j \in At(s, s[i].key) : TRUE) = i
           /\ Find(s, s[i].key) = s[i]
<1>1. At(s, s[i].key) = {i}
  BY DEF At, UniqueKeys
<1>2. (CHOOSE j \in At(s, s[i].key) : TRUE) = i
  BY <1>1
<1> QED
  BY <1>1, <1>2 DEF Find

LEMMA NotFound ==
    ASSUME NEW s, NEW k
    PROVE  At(s, k) = {} <=> \A e \in ToSet(s) : e.key # k
  BY DEF At, ToSet

(* The entry found for a key is the one that has it.                       *)
LEMMA FindIsElement ==
    ASSUME NEW s \in Seq(Entry), UniqueKeys(s), NEW k, At(s, k) # {}
    PROVE  Find(s, k) \in ToSet(s) /\ Find(s, k).key = k
<1>1. PICK i \in DOMAIN s : s[i].key = k
  BY DEF At
<1> QED
  BY <1>1, FindElement DEF ToSet

LEMMA WithoutElements ==
    ASSUME NEW s \in Seq(Entry), UniqueKeys(s), NEW k
    PROVE  /\ Without(s, k) \in Seq(Entry)
           /\ UniqueKeys(Without(s, k))
           /\ Len(Without(s, k)) =
                 IF At(s, k) = {} THEN Len(s) ELSE Len(s) - 1
           /\ ToSet(Without(s, k)) = {e \in ToSet(s) : e.key # k}
<1>1. CASE At(s, k) = {}
  BY <1>1, NotFound DEF Without
<1>2. CASE At(s, k) # {}
  <2>1. PICK i \in DOMAIN s : s[i].key = k
    BY <1>2 DEF At
  <2> DEFINE w == RemoveAt(s, i)
  <2>2. Without(s, k) = w
    <3>1. (CHOOSE j \in At(s, k) : TRUE) = i
      BY <2>1, FindElement
    <3> QED
      BY <1>2, <3>1 DEF Without
  <2>3. /\ w \in Seq(Entry) /\ Len(w) = Len(s) - 1
        /\ \A j \in 1 .. Len(s) - 1 :
              w[j] = IF j < i THEN s[j] ELSE s[j + 1]
    BY RemoveAtElements
  <2>4. DOMAIN w = 1 .. Len(s) - 1 /\ DOMAIN s = 1 .. Len(s)
    BY <2>3
  <2> HIDE DEF w
  <2>5. \A j \in DOMAIN w : /\ j < i => w[j] = s[j]
                            /\ ~(j < i) => w[j] = s[j + 1]
    BY <2>3, <2>4
  <2>6. UniqueKeys(w)
    BY <2>4, <2>5 DEF UniqueKeys
  <2>7. ASSUME NEW e \in ToSet(w) PROVE e \in ToSet(s) /\ e.key # k
    <3>1. PICK j \in DOMAIN w : e = w[j]
      BY DEF ToSet
    <3>2. CASE j < i
      BY <2>1, <2>4, <2>5, <3>1, <3>2 DEF ToSet, UniqueKeys
    <3>3. CASE ~(j < i)
      BY <2>1, <2>4, <2>5, <3>1, <3>3 DEF ToSet, UniqueKeys
    <3> QED
      BY <3>2, <3>3
  <2>8. ASSUME NEW e \in ToSet(s), e.key # k PROVE e \in ToSet(w)
    <3>1. PICK j \in DOMAIN s : e = s[j]
      BY DEF ToSet
    <3>2. CASE j < i
      <4>1. j \in DOMAIN w /\ w[j] = e
        BY <2>4, <2>5, <3>1, <3>2
      <4> QED
        BY <4>1 DEF ToSet
    <3>3. CASE j > i
      <4>1. j - 1 \in DOMAIN w /\ ~(j - 1 < i) /\ (j - 1) + 1 = j
        BY <2>4, <3>3
      <4>2. w[j - 1] = e
        BY <2>5, <3>1, <4>1
      <4> QED
        BY <4>1, <4>2 DEF ToSet
    <3> QED
      BY <2>1, <2>4, <2>8, <3>1, <3>2, <3>3
  <2>9. ToSet(w) = {e \in ToSet(s) : e.key # k}
    BY <2>7, <2>8
  <2> QED
    BY <1>2, <2>2, <2>3, <2>6, <2>9
<1> QED
  BY <1>1, <1>2

LEMMA AppendElements ==
    ASSUME NEW s \in Seq(Entry), UniqueKeys(s), NEW e \in Entry,
           \A f \in ToSet(s) : f.key # e.key
    PROVE  /\ Append(s, e) \in Seq(Entry)
           /\ UniqueKeys(Append(s, e))
           /\ Len(Append(s, e)) = Len(s) + 1
           /\ ToSet(Append(s, e)) = ToSet(s) \cup {e}
<1> DEFINE t == Append(s, e)
<1>1. /\ t \in Seq(Entry) /\ Len(t) = Len(s) + 1
      /\ \A i \in 1 .. Len(s) : t[i] = s[i]
      /\ t[Len(s) + 1] = e
  BY AppendProperties
<1>2. DOMAIN t = DOMAIN s \cup {Len(s) + 1} /\ DOMAIN s = 1 .. Len(s)
  BY <1>1
<1> HIDE DEF t
<1>3. ToSet(t) = ToSet(s) \cup {e}
  BY <1>1, <1>2 DEF ToSet
<1>4. UniqueKeys(t)
  BY <1>1, <1>2 DEF ToSet, UniqueKeys
<1> QED
  BY <1>1, <1>3, <1>4 DEF t

LEMMA TailIsRest ==
    ASSUME NEW s \in Seq(Entry), UniqueKeys(s), s # << >>
    PROVE  /\ Tail(s) \in Seq(Entry)
           /\ UniqueKeys(Tail(s))
           /\ Len(Tail(s)) = Len(s) - 1
           /\ Head(s) \in ToSet(s)
           /\ ToSet(Tail(s)) = {e \in ToSet(s) : e.key # Head(s).key}
<1> DEFINE t == Tail(s)
<1>1. /\ t \in Seq(Entry) /\ Len(t) = Len(s) - 1 /\ Len(s) > 0
      /\ \A i \in 1 .. Len(s) - 1 : t[i] = s[i + 1]
      /\ Head(s) = s[1]
  OBVIOUS
<1>2. DOMAIN t = 1 .. Len(s) - 1 /\ DOMAIN s = 1 .. Len(s)
  BY <1>1
<1> HIDE DEF t
<1>3. ASSUME NEW i \in DOMAIN t, NEW j \in DOMAIN t, t[i].key = t[j].key
      PROVE  i = j
  <2>1. i + 1 \in DOMAIN s /\ j + 1 \in DOMAIN s /\ i \in Int /\ j \in Int
    BY <1>1, <1>2
  <2>2. s[i + 1].key = s[j + 1].key
    BY <1>1, <1>2, <1>3
  <2>3. i + 1 = j + 1
    BY <2>1, <2>2 DEF UniqueKeys
  <2> QED
    BY <2>1, <2>3
<1>4. ASSUME NEW e \in ToSet(t)
      PROVE  e \in ToSet(s) /\ e.key # Head(s).key
  BY <1>1, <1>2 DEF ToSet, UniqueKeys
<1>5. ASSUME NEW e \in ToSet(s), e.key # Head(s).key
      PROVE  e \in ToSet(t)
  <2>1. PICK i \in DOMAIN s : e = s[i]
    BY DEF ToSet
  <2>2. i - 1 \in DOMAIN t /\ (i - 1) + 1 = i
    BY <1>1, <1>2, <1>5, <2>1
  <2>3. t[i - 1] = e
    BY <1>1, <1>2, <2>1, <2>2
  <2> QED
    BY <2>2, <2>3 DEF ToSet
<1>6. Head(s) \in ToSet(s)
  BY <1>1, <1>2 DEF ToSet
<1> QED
  BY <1>1, <1>3, <1>4, <1>5, <1>6 DEF t, UniqueKeys

-----------------------------------------------------------------------------
(* The bytes of a list.                                                    *)

\* The sums of the first entries of a list.
AreTotals(total, s) ==
    /\ total \in [0 .. Len(s) -> Nat]
    /\ total[0] = 0
    /\ \A n \in 1 .. Len(s) : total[n] = total[n - 1] + s[n].size

LEMMA TotalsExist ==
    ASSUME NEW s \in Seq(Entry)
    PROVE  \E total : AreTotals(total, s) /\ SizeOf(s) = total[Len(s)]
<1> DEFINE Equals(f) == f = [n \in 0 .. Len(s) |->
                               IF n = 0 THEN 0 ELSE f[n - 1] + s[n].size]
           F == CHOOSE f : Equals(f)
           size == [n \in 1 .. Len(s) |-> s[n].size]
<1>l. Len(s) \in Nat /\ \A n \in 1 .. Len(s) : s[n] \in Entry /\ s[n].size \in Nat
  BY EntryType
<1>1. size \in [1 .. Len(s) -> Nat]
  BY <1>l
<1>2. \A n \in 1 .. Len(s) : size[n] = s[n].size
  OBVIOUS
<1> HIDE DEF size
<1>3. PICK f \in [0 .. Len(s) -> Nat] :
         /\ f[0] = 0
         /\ \A n \in 1 .. Len(s) : f[n] = f[n - 1] + size[n]
  BY <1>l, <1>1, PartialSums
<1>4. \A n \in 1 .. Len(s) : f[n] = f[n - 1] + s[n].size
  BY <1>2, <1>3
<1>5. Equals(f)
  BY <1>l, <1>3, <1>4
<1>6. Equals(F)
  BY <1>5
<1>7. SizeOf(s) = F[Len(s)]
  BY DEF SizeOf
<1> HIDE DEF F
<1>8. DOMAIN F = 0 .. Len(s) /\ F[0] = 0
  BY <1>l, <1>6
<1>9. \A n \in 1 .. Len(s) : F[n] = F[n - 1] + s[n].size
  BY <1>l, <1>6
<1> HIDE DEF Equals
<1> DEFINE U == {n \in Nat : F[n] \in Nat}
<1>10. 0 \in U
  BY <1>8
<1>11. ASSUME NEW n \in 0 .. Len(s) - 1, n \in U PROVE n + 1 \in U
  <2>1. n + 1 \in 1 .. Len(s) /\ (n + 1) - 1 = n
    BY <1>l
  <2> QED
    BY <1>l, <1>9, <1>11, <2>1
<1> HIDE DEF U
<1>12. \A n \in 0 .. Len(s) : n \in U
  BY <1>l, <1>10, <1>11, BoundedInduction
<1>13. F \in [0 .. Len(s) -> Nat]
  <2>1. \A n \in 0 .. Len(s) : F[n] \in Nat
    BY <1>12 DEF U
  <2>2. F = [n \in 0 .. Len(s) |-> F[n]]
    BY <1>6 DEF Equals
  <2> QED
    BY <2>1, <2>2
<1> QED
  BY <1>7, <1>8, <1>9, <1>13 DEF AreTotals

LEMMA TotalsAreUnique ==
    ASSUME NEW s \in Seq(Entry), NEW total, AreTotals(total, s)
    PROVE  SizeOf(s) = total[Len(s)]
<1>1. PICK f : AreTotals(f, s) /\ SizeOf(s) = f[Len(s)]
  BY TotalsExist
<1> DEFINE U == {n \in Nat : f[n] = total[n]}
<1>2. 0 \in U
  BY <1>1 DEF AreTotals
<1>3. ASSUME NEW n \in 0 .. Len(s) - 1, n \in U PROVE n + 1 \in U
  <2>1. n + 1 \in 1 .. Len(s) /\ (n + 1) - 1 = n /\ n + 1 \in Nat
    OBVIOUS
  <2>2. /\ f[n + 1] = f[n] + s[n + 1].size
        /\ total[n + 1] = total[n] + s[n + 1].size
    BY <1>1, <2>1 DEF AreTotals
  <2> QED
    BY <1>3, <2>1, <2>2
<1>4. Len(s) \in Nat
  OBVIOUS
<1> HIDE DEF U
<1>5. \A n \in 0 .. Len(s) : n \in U
  BY <1>2, <1>3, <1>4, BoundedInduction
<1> QED
  BY <1>1, <1>4, <1>5 DEF U

LEMMA SizeOfEmpty == SizeOf(<< >>) = 0
<1>1. << >> \in Seq(Entry) /\ Len(<< >>) = 0
  OBVIOUS
<1> QED
  BY <1>1, TotalsExist DEF AreTotals

LEMMA SizeOfIsNatural ==
    ASSUME NEW s \in Seq(Entry) PROVE SizeOf(s) \in Nat
<1>1. PICK f : AreTotals(f, s) /\ SizeOf(s) = f[Len(s)]
  BY TotalsExist
<1>2. Len(s) \in 0 .. Len(s)
  OBVIOUS
<1> QED
  BY <1>1, <1>2 DEF AreTotals

LEMMA SizeOfAppend ==
    ASSUME NEW s \in Seq(Entry), NEW e \in Entry
    PROVE  SizeOf(Append(s, e)) = SizeOf(s) + e.size
<1> DEFINE t == Append(s, e)
<1>1. PICK f : AreTotals(f, s) /\ SizeOf(s) = f[Len(s)]
  BY TotalsExist
<1>2. /\ t \in Seq(Entry) /\ Len(t) = Len(s) + 1 /\ Len(s) \in Nat
      /\ \A n \in 1 .. Len(s) : t[n] = s[n]
      /\ t[Len(s) + 1] = e
  BY AppendProperties
<1>3. e.size \in Nat
  BY EntryType
<1> HIDE DEF t
<1> DEFINE g == [n \in 0 .. Len(t) |->
                   IF n <= Len(s) THEN f[n] ELSE f[Len(s)] + e.size]
<1>4. g \in [0 .. Len(t) -> Nat]
  BY <1>1, <1>2, <1>3 DEF AreTotals
<1>5. g[0] = 0
  BY <1>1, <1>2 DEF AreTotals
<1>6. ASSUME NEW n \in 1 .. Len(t) PROVE g[n] = g[n - 1] + t[n].size
  <2>1. CASE n <= Len(s)
    <3>1. n \in 1 .. Len(s) /\ n - 1 \in 0 .. Len(t) /\ n - 1 <= Len(s)
      BY <1>2, <2>1
    <3>2. g[n] = f[n] /\ g[n - 1] = f[n - 1] /\ t[n] = s[n]
      BY <1>2, <2>1, <3>1
    <3> QED
      BY <1>1, <3>1, <3>2 DEF AreTotals
  <2>2. CASE ~(n <= Len(s))
    <3>1. n = Len(s) + 1 /\ n - 1 = Len(s) /\ n - 1 \in 0 .. Len(t)
      BY <1>2, <2>2
    <3>2. g[n] = f[Len(s)] + e.size /\ g[n - 1] = f[Len(s)] /\ t[n] = e
      BY <1>2, <2>2, <3>1
    <3> QED
      BY <3>2
  <2> QED
    BY <2>1, <2>2
<1>7. g[Len(t)] = f[Len(s)] + e.size
  BY <1>2
<1> HIDE DEF g
<1>8. AreTotals(g, t)
  BY <1>4, <1>5, <1>6 DEF AreTotals
<1>9. SizeOf(t) = g[Len(t)]
  BY <1>2, <1>8, TotalsAreUnique
<1> QED
  BY <1>1, <1>7, <1>9 DEF t

(* The list without an entry at any place is smaller by that entry.        *)
LEMMA SizeOfShorter ==
    ASSUME NEW s \in Seq(Entry), NEW i \in 1 .. Len(s), NEW t \in Seq(Entry),
           Len(t) = Len(s) - 1,
           \A n \in 1 .. Len(s) - 1 : t[n] = IF n < i THEN s[n] ELSE s[n + 1]
    PROVE  SizeOf(t) = SizeOf(s) - s[i].size
<1>1. PICK f : AreTotals(f, s) /\ SizeOf(s) = f[Len(s)]
  BY TotalsExist
<1>2. PICK g : AreTotals(g, t) /\ SizeOf(t) = g[Len(t)]
  BY TotalsExist
<1>l. Len(s) \in Nat /\ Len(t) \in Nat /\ s[i].size \in Nat
  BY EntryType
<1>f. \A n \in 0 .. Len(s) : f[n] \in Nat
  BY <1>1 DEF AreTotals
<1>g. \A n \in 0 .. Len(t) : g[n] \in Nat
  BY <1>2 DEF AreTotals
<1> DEFINE U == {n \in Nat : g[n] = IF n < i THEN f[n] ELSE f[n + 1] - s[i].size}
<1>3. 0 \in U
  BY <1>1, <1>2 DEF AreTotals
<1>4. ASSUME NEW n \in 0 .. Len(t) - 1, n \in U PROVE n + 1 \in U
  <2>1. n + 1 \in 1 .. Len(t) /\ (n + 1) - 1 = n /\ n \in Nat /\ n + 1 \in 1 .. Len(s) - 1
    BY <1>l
  <2>2. g[n + 1] = g[n] + t[n + 1].size
    BY <1>2, <2>1 DEF AreTotals
  <2>3. CASE n + 1 < i
    <3>1. t[n + 1] = s[n + 1] /\ g[n] = f[n]
      BY <1>4, <2>1, <2>3
    <3>2. f[n + 1] = f[n] + s[n + 1].size
      BY <1>1, <2>1 DEF AreTotals
    <3> QED
      BY <2>1, <2>2, <2>3, <3>1, <3>2
  <2>4. CASE n + 1 = i
    <3>1. t[n + 1] = s[n + 2] /\ g[n] = f[n] /\ n + 2 \in 1 .. Len(s)
      BY <1>l, <1>4, <2>1, <2>4
    <3>2. /\ f[n + 1] = f[n] + s[n + 1].size
          /\ f[n + 2] = f[n + 1] + s[n + 2].size
      <4>1. (n + 2) - 1 = n + 1
        OBVIOUS
      <4> QED
        BY <1>1, <2>1, <3>1, <4>1 DEF AreTotals
    <3>3. f[n] \in Nat /\ s[n + 1].size \in Nat /\ s[n + 2].size \in Nat
      BY <1>f, <1>l, <2>1, <3>1, EntryType
    <3>4. f[n + 2] - s[i].size = f[n] + s[n + 2].size
      BY <2>4, <3>2, <3>3
    <3>5. g[n + 1] = f[n + 2] - s[i].size
      BY <2>2, <3>1, <3>4
    <3>6. (n + 1) + 1 = n + 2 /\ ~(n + 1 < i) /\ n + 1 \in Nat
      BY <2>4
    <3> QED
      BY <3>5, <3>6
  <2>5. CASE n + 1 > i
    <3>1. t[n + 1] = s[n + 2] /\ g[n] = f[n + 1] - s[i].size /\ n + 2 \in 1 .. Len(s)
      BY <1>l, <1>4, <2>1, <2>5
    <3>2. f[n + 2] = f[n + 1] + s[n + 2].size
      <4>1. (n + 2) - 1 = n + 1
        OBVIOUS
      <4> QED
        BY <1>1, <3>1, <4>1 DEF AreTotals
    <3>3. f[n + 1] \in Nat /\ s[n + 2].size \in Nat
      BY <1>f, <1>l, <2>1, <3>1, EntryType
    <3>4. g[n + 1] = f[n + 2] - s[i].size
      BY <1>l, <2>2, <3>1, <3>2, <3>3
    <3>6. (n + 1) + 1 = n + 2 /\ ~(n + 1 < i) /\ n + 1 \in Nat
      BY <2>1, <2>5
    <3> QED
      BY <3>4, <3>6
  <2> QED
    BY <2>1, <2>3, <2>4, <2>5
<1> HIDE DEF U
<1>5. \A n \in 0 .. Len(t) : n \in U
  BY <1>3, <1>4, <1>l, BoundedInduction
<1>6. g[Len(t)] = f[Len(s)] - s[i].size
  <2>1. Len(t) \in 0 .. Len(t) /\ Len(t) + 1 = Len(s)
    BY <1>l
  <2>2. g[Len(t)] = IF Len(t) < i THEN f[Len(t)] ELSE f[Len(t) + 1] - s[i].size
    BY <1>5, <2>1 DEF U
  <2>3. CASE Len(t) < i
    <3>1. i = Len(s) /\ i - 1 = Len(t)
      BY <1>l, <2>1, <2>3
    <3>2. f[Len(s)] = f[Len(t)] + s[i].size
      BY <1>1, <3>1 DEF AreTotals
    <3>3. f[Len(t)] \in Nat
      BY <1>f, <1>l, <2>1
    <3> QED
      BY <1>l, <2>2, <2>3, <3>2, <3>3
  <2>4. CASE ~(Len(t) < i)
    BY <2>1, <2>2, <2>4
  <2> QED
    BY <2>3, <2>4
<1> QED
  BY <1>1, <1>2, <1>6

LEMMA SizeOfTail ==
    ASSUME NEW s \in Seq(Entry), s # << >>
    PROVE  SizeOf(Tail(s)) = SizeOf(s) - Head(s).size
<1>1. /\ Tail(s) \in Seq(Entry) /\ Len(Tail(s)) = Len(s) - 1
      /\ \A n \in 1 .. Len(s) - 1 : Tail(s)[n] = s[n + 1]
      /\ Head(s) = s[1] /\ 1 \in 1 .. Len(s)
  OBVIOUS
<1>2. \A n \in 1 .. Len(s) - 1 : ~(n < 1)
  OBVIOUS
<1>3. \A n \in 1 .. Len(s) - 1 : Tail(s)[n] = IF n < 1 THEN s[n] ELSE s[n + 1]
  BY <1>1, <1>2
<1> QED
  BY <1>1, <1>3, SizeOfShorter

(* What onEvicted counts is the size of what leaves the list.              *)
LEMMA SizeOfWithout ==
    ASSUME NEW s \in Seq(Entry), UniqueKeys(s), NEW k
    PROVE  SizeOf(Without(s, k)) = SizeOf(s) - onEvicted(s, k)
<1>1. CASE At(s, k) = {}
  BY <1>1, SizeOfIsNatural DEF Without, onEvicted
<1>2. CASE At(s, k) # {}
  <2>1. PICK i \in DOMAIN s : s[i].key = k
    BY <1>2 DEF At
  <2>2. (CHOOSE j \in At(s, k) : TRUE) = i /\ Find(s, k) = s[i]
    BY <2>1, FindElement
  <2>3. Without(s, k) = RemoveAt(s, i) /\ onEvicted(s, k) = s[i].size
    BY <1>2, <2>2 DEF Without, onEvicted
  <2> DEFINE t == RemoveAt(s, i)
  <2>4. i \in 1 .. Len(s)
    OBVIOUS
  <2>5. /\ t \in Seq(Entry) /\ Len(t) = Len(s) - 1
        /\ \A j \in 1 .. Len(s) - 1 : t[j] = IF j < i THEN s[j] ELSE s[j + 1]
    BY RemoveAtElements
  <2> HIDE DEF t
  <2>6. SizeOf(t) = SizeOf(s) - s[i].size
    BY <2>4, <2>5, SizeOfShorter
  <2> QED
    BY <2>3, <2>6 DEF t
<1> QED
  BY <1>1, <1>2

-----------------------------------------------------------------------------
(* What the steps do to the list.                                          *)
Fits(s) == s \in Seq(Entry) /\ UniqueKeys(s) /\ Len(s) <= MaxEntries

Lacking(S, K) == {e \in S : e.key \notin K}

LEMMA FitsNow ==
    ASSUME TypesOK, WithinLimits
    PROVE  Fits(lru)
  BY DEF TypesOK, WithinLimits, Fits, UniqueKeys

(* A hit keeps the entries and changes their order only.                   *)
LEMMA PromotedEffect ==
    ASSUME NEW s, Fits(s), NEW k
    PROVE  Fits(Promoted(s, k)) /\ ToSet(Promoted(s, k)) = ToSet(s)
<1>1. CASE At(s, k) = {}
  BY <1>1 DEF Promoted
<1>2. CASE At(s, k) # {}
  <2> DEFINE w == Without(s, k)
             e == Find(s, k)
  <2>1. /\ w \in Seq(Entry) /\ UniqueKeys(w) /\ Len(w) = Len(s) - 1
        /\ ToSet(w) = {f \in ToSet(s) : f.key # k}
    BY <1>2, WithoutElements DEF Fits
  <2>2. e \in ToSet(s) /\ e.key = k
    BY <1>2, FindIsElement DEF Fits
  <2>3. e \in Entry /\ Len(s) \in Nat
    BY <2>2 DEF Fits, ToSet
  <2>4. Promoted(s, k) = Append(w, e)
    BY <1>2 DEF Promoted
  <2> HIDE DEF w, e
  <2>5. /\ Append(w, e) \in Seq(Entry) /\ UniqueKeys(Append(w, e))
        /\ Len(Append(w, e)) = Len(w) + 1
        /\ ToSet(Append(w, e)) = ToSet(w) \cup {e}
    BY <2>1, <2>2, <2>3, AppendElements
  <2>6. ToSet(Append(w, e)) = ToSet(s)
    <3>1. \A f \in ToSet(s) : f.key = k => f = e
      BY <2>2 DEF Fits, UniqueKeys, ToSet
    <3> QED
      BY <2>1, <2>2, <2>5, <3>1
  <2> QED
    BY <2>1, <2>3, <2>4, <2>5, <2>6 DEF Fits
<1> QED
  BY <1>1, <1>2

LEMMA WithoutEffect ==
    ASSUME NEW s, Fits(s), NEW k
    PROVE  Fits(Without(s, k)) /\ ToSet(Without(s, k)) = Lacking(ToSet(s), {k})
<1>1. /\ Without(s, k) \in Seq(Entry) /\ UniqueKeys(Without(s, k))
      /\ Len(Without(s, k)) <= Len(s)
      /\ ToSet(Without(s, k)) = {e \in ToSet(s) : e.key # k}
  BY WithoutElements DEF Fits
<1> QED
  BY <1>1 DEF Fits, Lacking

(* A new entry displaces the old one of its key, and the oldest of all if  *)
(* the list is full.                                                       *)
LEMMA SetStoresEffect ==
    ASSUME TypesOK, WithinLimits, NEW p \in Setters, SetStores(p)
    PROVE  /\ Fits(lru') /\ currentSizeBytes' \in Int /\ pending[p] \in Entry
           /\ \E K \in SUBSET (Keys \ {pending[p].key}) :
                 Entries' = Lacking(Entries, K \cup {pending[p].key})
                               \cup {pending[p]}
<1> DEFINE e == pending[p]
           rest == Without(lru, e.key)
<1>1. e \in Entry
  BY DEF SetStores, TypesOK
<1>2. /\ Fits(rest) /\ ToSet(rest) = Lacking(Entries, {e.key})
  BY FitsNow, WithoutEffect DEF Entries
<1>3. onEvicted(lru, e.key) \in Int
  <2>1. CASE At(lru, e.key) = {}
    BY <2>1 DEF onEvicted
  <2>2. CASE At(lru, e.key) # {}
    <3>1. Find(lru, e.key) \in ToSet(lru) /\ lru \in Seq(Entry)
      BY <2>2, FitsNow, FindIsElement DEF Fits
    <3>2. Find(lru, e.key) \in Entry
      BY <3>1 DEF ToSet
    <3> QED
      BY <2>2, <3>2, EntryType DEF onEvicted
  <2> QED
    BY <2>1, <2>2
<1>4. e.size \in Int /\ currentSizeBytes \in Int
  BY <1>1, EntryType DEF TypesOK
<1>5. \A f \in ToSet(rest) : f \in Entry /\ f.key # e.key
  BY <1>2 DEF Fits, Lacking, ToSet
<1>6. CASE Len(rest) < MaxEntries
  <2>1. lru' = Append(rest, e)
    BY <1>6 DEF SetStores
  <2>2. currentSizeBytes' = currentSizeBytes - onEvicted(lru, e.key) + e.size
    BY <1>6 DEF SetStores
  <2> HIDE DEF e, rest
  <2>3. /\ lru' \in Seq(Entry) /\ UniqueKeys(lru') /\ Len(lru') = Len(rest) + 1
        /\ ToSet(lru') = ToSet(rest) \cup {e}
    BY <1>1, <1>2, <1>5, <2>1, AppendElements DEF Fits
  <2>4. Fits(lru')
    BY <1>2, <1>6, <2>3 DEF Fits
  <2>5. Entries' = Lacking(Entries, {} \cup {e.key}) \cup {e}
    BY <1>2, <2>3 DEF Entries, Lacking
  <2>6. currentSizeBytes' \in Int
    BY <1>3, <1>4, <2>2
  <2>7. {} \in SUBSET (Keys \ {e.key})
    OBVIOUS
  <2> QED
    BY <1>1, <2>4, <2>5, <2>6, <2>7 DEF e
<1>7. CASE ~(Len(rest) < MaxEntries)
  <2>1. lru' = Append(Tail(rest), e)
    BY <1>7 DEF SetStores
  <2> DEFINE size == currentSizeBytes - onEvicted(lru, e.key) + e.size
  <2>2. currentSizeBytes' = size - Head(rest).size
    <3> HIDE DEF e
    <3> QED
      BY <1>7 DEF SetStores, e
  <2> HIDE DEF e, rest
  <2>3. rest \in Seq(Entry) /\ rest # << >> /\ Len(rest) <= MaxEntries
    BY <1>2, <1>7 DEF Fits
  <2>4. /\ Tail(rest) \in Seq(Entry) /\ UniqueKeys(Tail(rest))
        /\ Len(Tail(rest)) = Len(rest) - 1 /\ Head(rest) \in ToSet(rest)
        /\ ToSet(Tail(rest)) = {f \in ToSet(rest) : f.key # Head(rest).key}
    BY <1>2, <2>3, TailIsRest DEF Fits
  <2>5. Head(rest) \in Entry /\ Head(rest).key \in Keys \ {e.key}
        /\ Head(rest).size \in Int
    BY <1>5, <2>4, EntryType
  <2>6. /\ lru' \in Seq(Entry) /\ UniqueKeys(lru')
        /\ Len(lru') = Len(Tail(rest)) + 1
        /\ ToSet(lru') = ToSet(Tail(rest)) \cup {e}
    BY <1>1, <1>5, <2>1, <2>4, AppendElements
  <2>7. Fits(lru')
    BY <2>3, <2>4, <2>6 DEF Fits
  <2>8. Entries' = Lacking(Entries, {Head(rest).key} \cup {e.key}) \cup {e}
    BY <1>2, <2>4, <2>6 DEF Entries, Lacking
  <2>9. currentSizeBytes' \in Int
    BY <1>3, <1>4, <2>2, <2>5
  <2>10. {Head(rest).key} \in SUBSET (Keys \ {e.key})
    BY <2>5
  <2> QED
    BY <1>1, <2>7, <2>8, <2>9, <2>10 DEF e
<1> QED
  BY <1>6, <1>7

LEMMA EvictOldestEffect ==
    ASSUME TypesOK, WithinLimits, NEW p \in Setters, EvictOldest(p)
    PROVE  /\ Fits(lru') /\ currentSizeBytes' \in Int
           /\ \E K \in SUBSET Keys : Entries' = Lacking(Entries, K)
<1>1. CASE lru = << >>
  <2>1. UNCHANGED lruVars
    BY <1>1 DEF EvictOldest
  <2>2. Entries' = Lacking(Entries, {})
    BY <2>1 DEF lruVars, Entries, Lacking
  <2> QED
    BY <2>1, <2>2, FitsNow DEF lruVars, TypesOK, Fits
<1>2. CASE lru # << >>
  <2>1. lru' = Tail(lru) /\ currentSizeBytes' = currentSizeBytes - Head(lru).size
    BY <1>2 DEF EvictOldest
  <2>2. /\ Tail(lru) \in Seq(Entry) /\ UniqueKeys(Tail(lru))
        /\ Len(Tail(lru)) = Len(lru) - 1 /\ Head(lru) \in ToSet(lru)
        /\ ToSet(Tail(lru)) = {f \in ToSet(lru) : f.key # Head(lru).key}
    BY <1>2, FitsNow, TailIsRest DEF Fits
  <2>3. Head(lru) \in Entry
    BY <2>2 DEF TypesOK, ToSet
  <2>4. Head(lru).key \in Keys /\ Head(lru).size \in Int
    BY <2>3, EntryType
  <2>5. Fits(lru')
    BY <2>1, <2>2, FitsNow DEF Fits
  <2>6. Entries' = Lacking(Entries, {Head(lru).key})
    BY <2>1, <2>2 DEF Entries, Lacking
  <2> QED
    BY <2>1, <2>4, <2>5, <2>6 DEF TypesOK
<1> QED
  BY <1>1, <1>2

LEMMA RemovePeekedEffect ==
    ASSUME TypesOK, WithinLimits, NEW p \in Purgers, RemovePeeked(p)
    PROVE  /\ Fits(lru') /\ currentSizeBytes' \in Int
           /\ currentSizeBytes' <= currentSizeBytes
           /\ peeked[p] \in Entry
           /\ Entries' = Lacking(Entries, {peeked[p].key})
<1> DEFINE k == peeked[p].key
<1>1. peeked[p] \in Entry
  BY DEF RemovePeeked, TypesOK
<1>2. /\ lru' = Without(lru, k)
      /\ currentSizeBytes' = currentSizeBytes - onEvicted(lru, k)
  BY DEF RemovePeeked
<1> HIDE DEF k
<1>3. onEvicted(lru, k) \in Nat
  <2>1. CASE At(lru, k) = {}
    BY <2>1 DEF onEvicted
  <2>2. CASE At(lru, k) # {}
    <3>1. Find(lru, k) \in ToSet(lru) /\ lru \in Seq(Entry)
      BY <2>2, FitsNow, FindIsElement DEF Fits
    <3>2. Find(lru, k) \in Entry
      BY <3>1 DEF ToSet
    <3> QED
      BY <2>2, <3>2, EntryType DEF onEvicted
  <2> QED
    BY <2>1, <2>2
<1>4. Fits(lru') /\ Entries' = Lacking(Entries, {k})
  BY <1>2, FitsNow, WithoutEffect DEF Entries
<1> QED
  BY <1>1, <1>2, <1>3, <1>4 DEF k, TypesOK

-----------------------------------------------------------------------------
(* Types and limits.                                                       *)

\* The steps that leave the list and the lock alone.
OtherStep ==
    \/ Tick \/ UNCHANGED vars
    \/ \E p \in Setters : SetBuildsEntry(p)
    \/ \E p \in Purgers : PurgeOldEntries(p) \/ PurgeEntries(p) \/ Peek(p)
                            \/ KeepPeeked(p) \/ PurgeReturns(p)

LEMMA NextCases ==
    ASSUME [Next]_vars
    PROVE  \/ OtherStep \/ Invalidate
           \/ \E k \in Keys : Get(k)
           \/ \E p \in Setters : SetStores(p) \/ EvictOldest(p) \/ SetReturns(p)
           \/ \E p \in Purgers : RemovePeeked(p)
  BY DEF Next, OtherStep, SetStep, PurgeStep

LEMMA OtherStepEffect ==
    ASSUME OtherStep
    PROVE  UNCHANGED <<lru, currentSizeBytes, writer>>
  BY DEF OtherStep, Tick, vars, lruVars, SetBuildsEntry, PurgeOldEntries,
     PurgeEntries, Peek, KeepPeeked, PurgeReturns

LEMMA NextFits ==
    ASSUME TypesOK, WithinLimits, [Next]_vars
    PROVE  Fits(lru') /\ currentSizeBytes' \in Int
<1>t. Fits(lru) /\ currentSizeBytes \in Int
  BY FitsNow DEF TypesOK
<1>1. CASE OtherStep
  BY <1>t, <1>1, OtherStepEffect
<1>2. CASE Invalidate
  <2>1. lru' = << >> /\ currentSizeBytes' = 0
    BY <1>2 DEF Invalidate
  <2>2. lru' \in Seq(Entry) /\ Len(lru') = 0 /\ DOMAIN lru' = {}
    BY <2>1
  <2> QED
    BY <2>1, <2>2 DEF Fits, UniqueKeys
<1>3. ASSUME NEW k \in Keys, Get(k)
      PROVE  Fits(lru') /\ currentSizeBytes' \in Int
  BY <1>t, <1>3, PromotedEffect DEF Get
<1>4. ASSUME NEW p \in Setters, SetStores(p) \/ EvictOldest(p)
      PROVE  Fits(lru') /\ currentSizeBytes' \in Int
  BY <1>4, SetStoresEffect, EvictOldestEffect
<1>5. ASSUME NEW p \in Setters, SetReturns(p)
      PROVE  Fits(lru') /\ currentSizeBytes' \in Int
  BY <1>t, <1>5 DEF SetReturns, lruVars
<1>6. ASSUME NEW p \in Purgers, RemovePeeked(p)
      PROVE  Fits(lru') /\ currentSizeBytes' \in Int
  BY <1>6, RemovePeekedEffect
<1> QED
  BY <1>1, <1>2, <1>3, <1>4, <1>5, <1>6, NextCases

LEMMA NextWithinLimits ==
    ASSUME TypesOK, WithinLimits, [Next]_vars
    PROVE  WithinLimits'
<1>1. Len(lru') <= MaxEntries /\ UniqueKeys(lru')
  BY NextFits DEF Fits
<1>2. ASSUME Unlocked' PROVE currentSizeBytes' <= MaxSizeBytes
  <2>1. CASE UNCHANGED <<currentSizeBytes, writer>>
    BY <1>2, <2>1 DEF WithinLimits, Unlocked
  <2>2. CASE Invalidate
    BY <2>2 DEF Invalidate
  <2>3. ASSUME NEW p \in Setters, SetStores(p) \/ EvictOldest(p) PROVE FALSE
    BY <1>2, <2>3, NoneAssumption DEF SetStores, EvictOldest, Unlocked
  <2>4. ASSUME NEW p \in Setters, SetReturns(p)
        PROVE  currentSizeBytes' <= MaxSizeBytes
    BY <2>4 DEF SetReturns, lruVars
  <2>5. ASSUME NEW p \in Purgers, RemovePeeked(p)
        PROVE  currentSizeBytes' <= MaxSizeBytes
    <3>1. currentSizeBytes' <= currentSizeBytes /\ currentSizeBytes' \in Int
      BY <2>5, RemovePeekedEffect
    <3>2. currentSizeBytes \in Int /\ currentSizeBytes <= MaxSizeBytes
      BY <2>5 DEF RemovePeeked, WithinLimits, TypesOK
    <3> QED
      BY <3>1, <3>2
  <2>6. ASSUME NEW k \in Keys, Get(k)
        PROVE  UNCHANGED <<currentSizeBytes, writer>>
    BY <2>6 DEF Get
  <2> QED
    BY <2>1, <2>2, <2>3, <2>4, <2>5, <2>6, NextCases, OtherStepEffect
<1> QED
  BY <1>1, <1>2 DEF WithinLimits, UniqueKeys

LEMMA NextTypesOK ==
    ASSUME TypesOK, WithinLimits, [Next]_vars
    PROVE  TypesOK'
<1>t. lru' \in Seq(Entry) /\ currentSizeBytes' \in Int
  BY NextFits DEF Fits
<1>e. \A e \in Entries : e \in Entry
  BY DEF Entries, ToSet, TypesOK
<1>1. CASE Tick
  BY <1>t, <1>1 DEF Tick, setVars, purgeVars, TypesOK
<1>2. CASE Invalidate \/ UNCHANGED vars
  BY <1>t, <1>2 DEF Invalidate, vars, setVars, purgeVars, TypesOK
<1>3. ASSUME NEW k \in Keys, Get(k) PROVE TypesOK'
  BY <1>t, <1>3 DEF Get, setVars, purgeVars, TypesOK
<1>4. ASSUME NEW p \in Setters, SetBuildsEntry(p) PROVE TypesOK'
  <2>1. PICK k \in Keys, size \in Sizes :
           pending' = [pending EXCEPT ![p] =
             [key |-> k, size |-> size, fetchTime |-> now, id |-> sets + 1]]
    BY <1>4 DEF SetBuildsEntry
  <2> DEFINE e == [key |-> k, size |-> size, fetchTime |-> now, id |-> sets + 1]
  <2>2. e \in Entry /\ sets' = sets + 1 /\ sets < MaxSets
    BY <1>4 DEF SetBuildsEntry, Entry, TypesOK
  <2> HIDE DEF e
  <2>3. pending' \in [Setters -> Entry \cup {NoEntry}]
    BY <2>1, <2>2 DEF TypesOK, e
  <2>4. sets' \in 0 .. MaxSets
    BY <2>2 DEF TypesOK
  <2> QED
    BY <1>t, <1>4, <2>3, <2>4 DEF SetBuildsEntry, purgeVars, TypesOK
<1>5. ASSUME NEW p \in Setters, SetStores(p) \/ EvictOldest(p) \/ SetReturns(p)
      PROVE  TypesOK'
  <2>1. pending' \in [Setters -> Entry \cup {NoEntry}]
    BY <1>5 DEF SetStores, EvictOldest, SetReturns, setVars, TypesOK
  <2>2. writer' \in Setters \cup {NoOne} /\ UNCHANGED <<now, sets, purgeVars>>
    BY <1>5 DEF SetStores, EvictOldest, SetReturns, setVars, TypesOK
  <2> QED
    BY <1>t, <2>1, <2>2 DEF purgeVars, TypesOK
<1>6. ASSUME NEW p \in Purgers, PurgeOldEntries(p) PROVE TypesOK'
  <2>1. {e.key : e \in Entries} \in SUBSET Keys
    BY <1>e, EntryType
  <2>2. {e.id : e \in {f \in Entries : Expired(f)}} \in SUBSET Nat
    BY <1>e, EntryType
  <2> QED
    BY <1>t, <1>6, <2>1, <2>2 DEF PurgeOldEntries, setVars, TypesOK
<1>7. ASSUME NEW p \in Purgers, PurgeEntries(p) PROVE TypesOK'
  <2>1. PICK K \in SUBSET Keys :
           /\ todo' = [todo EXCEPT ![p] = K]
           /\ targets' = [targets EXCEPT ![p] =
                            {e.id : e \in {f \in Entries : f.key \in K}}]
    BY <1>7 DEF PurgeEntries
  <2>2. {e.id : e \in {f \in Entries : f.key \in K}} \in SUBSET Nat
    BY <1>e, EntryType
  <2> QED
    BY <1>t, <1>7, <2>1, <2>2 DEF PurgeEntries, setVars, TypesOK
<1>8. ASSUME NEW p \in Purgers, Peek(p) PROVE TypesOK'
  <2>1. PICK k \in todo[p] :
           /\ todo' = [todo EXCEPT ![p] = @ \ {k}]
           /\ peeked' = [peeked EXCEPT ![p] =
                           IF At(lru, k) = {} THEN NoEntry ELSE Find(lru, k)]
    BY <1>8 DEF Peek
  <2> DEFINE e == IF At(lru, k) = {} THEN NoEntry ELSE Find(lru, k)
  <2>2. At(lru, k) # {} => Find(lru, k) \in ToSet(lru)
    BY FitsNow, FindIsElement DEF Fits
  <2>3. e \in Entry \cup {NoEntry}
    BY <1>e, <2>2 DEF Entries
  <2> HIDE DEF e
  <2>4. peeked' \in [Purgers -> Entry \cup {NoEntry}]
    BY <2>1, <2>3 DEF TypesOK, e
  <2>5. todo' \in [Purgers -> SUBSET Keys]
    BY <2>1 DEF TypesOK
  <2> QED
    BY <1>t, <1>8, <2>4, <2>5 DEF Peek, setVars, TypesOK
<1>9. ASSUME NEW p \in Purgers,
             RemovePeeked(p) \/ KeepPeeked(p) \/ PurgeReturns(p)
      PROVE  TypesOK'
  BY <1>t, <1>9 DEF RemovePeeked, KeepPeeked, PurgeReturns, setVars, TypesOK
<1> QED
  BY <1>1, <1>2, <1>3, <1>4, <1>5, <1>6, <1>7, <1>8, <1>9
     DEF Next, SetStep, PurgeStep

LEMMA NextWriterHasEntry ==
    ASSUME TypesOK, WriterHasEntry, [Next]_vars
    PROVE  WriterHasEntry'
<1>1. CASE UNCHANGED <<pending, writer>>
  BY <1>1 DEF WriterHasEntry, Unlocked
<1>2. ASSUME NEW p \in Setters, SetBuildsEntry(p)
      PROVE  WriterHasEntry'
  BY <1>2 DEF SetBuildsEntry, WriterHasEntry, Unlocked, TypesOK
<1>3. ASSUME NEW p \in Setters, SetStores(p)
      PROVE  WriterHasEntry'
  BY <1>3 DEF SetStores, setVars, WriterHasEntry, Unlocked
<1>4. ASSUME NEW p \in Setters, SetReturns(p)
      PROVE  WriterHasEntry'
  BY <1>4 DEF SetReturns, WriterHasEntry, Unlocked
<1> QED
  BY <1>1, <1>2, <1>3, <1>4
     DEF Next, SetStep, PurgeStep, Tick, Invalidate, Get, EvictOldest,
         PurgeOldEntries, PurgeEntries, Peek, RemovePeeked, KeepPeeked,
         PurgeReturns, vars, setVars

-----------------------------------------------------------------------------
(* Identities and targets.                                                 *)

(* Only SetStores brings an entry into the list.                           *)
LEMMA NextEntries ==
    ASSUME TypesOK, WithinLimits, [Next]_vars
    PROVE  \/ \E K \in SUBSET Keys : Entries' = Lacking(Entries, K)
           \/ \E p \in Setters : SetStores(p)
<1>1. ASSUME Entries' = Entries
      PROVE  \E K \in SUBSET Keys : Entries' = Lacking(Entries, K)
  <2>1. Entries' = Lacking(Entries, {})
    BY <1>1 DEF Lacking
  <2> QED
    BY <2>1
<1>2. CASE OtherStep
  BY <1>1, <1>2, OtherStepEffect DEF Entries
<1>3. CASE Invalidate
  <2>1. lru' = << >>
    BY <1>3 DEF Invalidate
  <2>2. Entries' = {}
    <3>1. DOMAIN lru' = {}
      BY <2>1
    <3> QED
      BY <3>1 DEF Entries, ToSet
  <2>3. \A e \in Entries : e.key \in Keys
    BY EntryType DEF Entries, ToSet, TypesOK
  <2>4. Entries' = Lacking(Entries, Keys)
    BY <2>2, <2>3 DEF Lacking
  <2> QED
    BY <2>4
<1>4. ASSUME NEW k \in Keys, Get(k) PROVE Entries' = Entries
  BY <1>4, FitsNow, PromotedEffect DEF Get, Entries
<1>5. ASSUME NEW p \in Setters, EvictOldest(p)
      PROVE  \E K \in SUBSET Keys : Entries' = Lacking(Entries, K)
  BY <1>5, EvictOldestEffect
<1>6. ASSUME NEW p \in Setters, SetReturns(p) PROVE Entries' = Entries
  BY <1>6 DEF SetReturns, lruVars, Entries
<1>7. ASSUME NEW p \in Purgers, RemovePeeked(p)
      PROVE  \E K \in SUBSET Keys : Entries' = Lacking(Entries, K)
  <2>1. peeked[p].key \in Keys /\ Entries' = Lacking(Entries, {peeked[p].key})
    BY <1>7, RemovePeekedEffect, EntryType
  <2> QED
    BY <2>1
<1> QED
  BY <1>1, <1>2, <1>3, <1>4, <1>5, <1>6, <1>7, NextCases

LEMMA FreshKept ==
    ASSUME IdentitiesAreFresh, Entries' \subseteq Entries, sets' = sets,
           \A q \in Setters : pending'[q] = pending[q] \/ pending'[q] = NoEntry,
           \A q \in Setters : Waiting(q)' => Waiting(q) /\ pending'[q] = pending[q],
           \A p \in Purgers : \A id \in targets'[p] :
               id \in targets[p] \/ \E e \in Entries : id = e.id
    PROVE  IdentitiesAreFresh'
<1>1. /\ \A e \in Entries' :
            e.id <= sets' /\ \A f \in Entries' : e.id = f.id => e = f
      /\ \A p \in Purgers : \A id \in targets'[p] : id <= sets'
      /\ \A q \in Setters : pending'[q] # NoEntry => pending'[q].id \in 1 .. sets'
  BY DEF IdentitiesAreFresh
<1>2. ASSUME NEW q \in Setters, Waiting(q)'
      PROVE  /\ \A e \in Entries' : e.id # pending'[q].id
             /\ \A p \in Purgers : pending'[q].id \notin targets'[p]
             /\ \A r \in Setters \ {q} :
                   Waiting(r)' => pending'[r].id # pending'[q].id
  BY <1>2 DEF IdentitiesAreFresh
<1> QED
  BY <1>1, <1>2 DEF IdentitiesAreFresh

LEMMA NextFresh ==
    ASSUME TypesOK, WithinLimits, WriterHasEntry, IdentitiesAreFresh, [Next]_vars
    PROVE  IdentitiesAreFresh'
<1>1. ASSUME NEW p \in Setters, SetBuildsEntry(p)
      PROVE  IdentitiesAreFresh'
  <2>1. PICK k \in Keys, size \in Sizes :
           pending' = [pending EXCEPT ![p] =
             [key |-> k, size |-> size, fetchTime |-> now, id |-> sets + 1]]
    BY <1>1 DEF SetBuildsEntry
  <2>2. /\ pending'[p].id = sets + 1
        /\ \A q \in Setters \ {p} : pending'[q] = pending[q]
        /\ UNCHANGED <<lru, writer, targets>> /\ sets' = sets + 1
    BY <1>1, <2>1 DEF SetBuildsEntry, lruVars, purgeVars, TypesOK
  <2>3. Entries' = Entries /\ sets \in Nat
    BY <2>2 DEF Entries, TypesOK
  <2>4. \A q \in Setters \ {p} : Waiting(q)' <=> Waiting(q)
    BY <2>2 DEF Waiting
  <2>5. /\ \A e \in Entries' :
              /\ e.id <= sets' /\ e.id # sets + 1
              /\ \A f \in Entries' : e.id = f.id => e = f
        /\ \A r \in Purgers : \A id \in targets'[r] : id <= sets' /\ id # sets + 1
    <3>1. \A e \in Entries : e.id \in Nat
      BY EntryType DEF Entries, ToSet, TypesOK
    <3>2. \A r \in Purgers : targets[r] \subseteq Nat
      BY DEF TypesOK
    <3> QED
      BY <2>2, <2>3, <3>1, <3>2 DEF IdentitiesAreFresh
  <2>6. \A q \in Setters : pending'[q] # NoEntry => pending'[q].id \in 1 .. sets'
    BY <2>2, <2>3 DEF IdentitiesAreFresh
  <2>7. \A q \in Setters \ {p} : pending[q] # NoEntry => pending[q].id # sets + 1
    BY <2>3 DEF IdentitiesAreFresh
  <2>8. ASSUME NEW q \in Setters, Waiting(q)'
        PROVE  /\ \A e \in Entries' : e.id # pending'[q].id
               /\ \A r \in Purgers : pending'[q].id \notin targets'[r]
               /\ \A r \in Setters \ {q} :
                     Waiting(r)' => pending'[r].id # pending'[q].id
    <3>1. CASE q = p
      BY <2>2, <2>4, <2>5, <2>7, <3>1 DEF Waiting
    <3>2. CASE q # p
      <4>1. Waiting(q) /\ pending'[q] = pending[q] /\ pending[q].id # sets + 1
        BY <2>2, <2>4, <2>7, <2>8, <3>2 DEF Waiting
      <4>2. \A r \in Setters \ {q} :
               Waiting(r)' => pending'[r].id # pending'[q].id
        BY <2>2, <2>4, <4>1 DEF IdentitiesAreFresh
      <4> QED
        BY <2>2, <2>3, <4>1, <4>2 DEF IdentitiesAreFresh
    <3> QED
      BY <3>1, <3>2
  <2> QED
    BY <2>5, <2>6, <2>8 DEF IdentitiesAreFresh
<1>2. ASSUME NEW p \in Setters, SetStores(p)
      PROVE  IdentitiesAreFresh'
  <2>1. /\ writer = NoOne /\ writer' = p /\ pending[p] # NoEntry
        /\ UNCHANGED <<pending, sets, targets>>
    BY <1>2 DEF SetStores, Unlocked, setVars, purgeVars
  <2>2. \A e \in Entries' : e \in Entries \/ e = pending[p]
    BY <1>2, SetStoresEffect DEF Lacking
  <2>3. \A q \in Setters : Waiting(q)' => Waiting(q) /\ q # p
    BY <2>1, NoneAssumption DEF Waiting
  <2>4. Waiting(p) /\ pending[p].id \in 1 .. sets
    BY <2>1, NoneAssumption DEF Waiting, IdentitiesAreFresh
  <2>5. \A e \in Entries' :
           e.id <= sets' /\ \A f \in Entries' : e.id = f.id => e = f
    BY <2>1, <2>2, <2>4 DEF IdentitiesAreFresh
  <2>6. ASSUME NEW q \in Setters, Waiting(q)'
        PROVE  \A e \in Entries' : e.id # pending'[q].id
    BY <2>1, <2>2, <2>3, <2>4, <2>6 DEF IdentitiesAreFresh
  <2> QED
    BY <2>1, <2>3, <2>5, <2>6 DEF IdentitiesAreFresh
<1>3. CASE ~(\E p \in Setters : SetBuildsEntry(p) \/ SetStores(p))
  <2>1. Entries' \subseteq Entries
    BY <1>3, NextEntries DEF Lacking
  <2>2. /\ sets' = sets
        /\ \A q \in Setters : pending'[q] = pending[q] \/ pending'[q] = NoEntry
        /\ \A q \in Setters : Waiting(q)' => Waiting(q) /\ pending'[q] = pending[q]
    <3>1. CASE UNCHANGED <<sets, pending, writer>>
      BY <3>1 DEF Waiting
    <3>2. ASSUME NEW p \in Setters, SetReturns(p)
          PROVE  /\ sets' = sets
                 /\ \A q \in Setters : pending'[q] = pending[q] \/ pending'[q] = NoEntry
                 /\ \A q \in Setters :
                       Waiting(q)' => Waiting(q) /\ pending'[q] = pending[q]
      BY <3>2 DEF SetReturns, Waiting, TypesOK
    <3> QED
      BY <1>3, <3>1, <3>2
         DEF Next, SetStep, PurgeStep, Tick, Invalidate, Get, EvictOldest,
             PurgeOldEntries, PurgeEntries, Peek, RemovePeeked, KeepPeeked,
             PurgeReturns, vars, setVars
  <2>3. \A p \in Purgers : \A id \in targets'[p] :
           id \in targets[p] \/ \E e \in Entries : id = e.id
    <3>1. CASE UNCHANGED targets
      BY <3>1
    <3>2. ASSUME NEW p \in Purgers,
                 PurgeOldEntries(p) \/ PurgeEntries(p) \/ PurgeReturns(p)
          PROVE  \A r \in Purgers : \A id \in targets'[r] :
                    id \in targets[r] \/ \E e \in Entries : id = e.id
      BY <3>2 DEF PurgeOldEntries, PurgeEntries, PurgeReturns, TypesOK
    <3> QED
      BY <1>3, <3>1, <3>2
         DEF Next, SetStep, PurgeStep, Tick, Invalidate, Get, EvictOldest,
             SetReturns, Peek, RemovePeeked, KeepPeeked, vars, purgeVars
  <2> QED
    BY <2>1, <2>2, <2>3, FreshKept
<1> QED
  BY <1>1, <1>2, <1>3

LEMMA NextTargetsAhead ==
    ASSUME TypesOK, WithinLimits, WriterHasEntry, IdentitiesAreFresh,
           TargetsAreAhead, [Next]_vars
    PROVE  TargetsAreAhead'
<1>n. now \in Nat /\ now' \in Nat /\ now' >= now
  BY DEF TypesOK, Next, SetStep, PurgeStep, Tick, Invalidate, Get,
     SetBuildsEntry, SetStores, EvictOldest, SetReturns, PurgeOldEntries,
     PurgeEntries, Peek, RemovePeeked, KeepPeeked, PurgeReturns, vars
<1>e. \A e \in Entries : e \in Entry
  BY DEF Entries, ToSet, TypesOK
<1>x. \A e \in Entry : Expired(e) => Expired(e)'
  BY <1>n, EntryType DEF Expired
<1>1. CASE UNCHANGED purgeVars
  <2>1. \A p \in Purgers, e \in Entries' : e.id \in targets[p] => e \in Entries
    <3>1. CASE \E K \in SUBSET Keys : Entries' = Lacking(Entries, K)
      BY <3>1 DEF Lacking
    <3>2. ASSUME NEW q \in Setters, SetStores(q)
          PROVE  \A p \in Purgers, e \in Entries' :
                    e.id \in targets[p] => e \in Entries
      <4>1. \A e \in Entries' : e \in Entries \/ e = pending[q]
        BY <3>2, SetStoresEffect DEF Lacking
      <4>2. Waiting(q)
        BY <3>2, NoneAssumption DEF SetStores, Waiting, Unlocked
      <4> QED
        BY <4>1, <4>2 DEF IdentitiesAreFresh
    <3> QED
      BY <3>1, <3>2, NextEntries
  <2> QED
    BY <1>1, <1>e, <1>x, <2>1 DEF purgeVars, TargetsAreAhead
<1>2. ASSUME NEW p \in Purgers, PurgeOldEntries(p) PROVE TargetsAreAhead'
  <2>1. Entries' = Entries /\ now' = now
    BY <1>2 DEF PurgeOldEntries, lruVars, Entries
  <2>2. /\ todo'[p] = {e.key : e \in Entries} /\ purge'[p] = "old"
        /\ targets'[p] = {e.id : e \in {f \in Entries : Expired(f)}}
        /\ UNCHANGED peeked
        /\ \A q \in Purgers \ {p} : /\ todo'[q] = todo[q]
                                   /\ targets'[q] = targets[q]
                                   /\ purge'[q] = purge[q]
    BY <1>2 DEF PurgeOldEntries, TypesOK
  <2>3. ASSUME NEW e \in Entries', e.id \in targets'[p]
        PROVE  e.key \in todo'[p] /\ Expired(e)'
    BY <1>e, <1>x, <2>1, <2>2, <2>3 DEF IdentitiesAreFresh
  <2> QED
    BY <1>e, <1>x, <2>1, <2>2, <2>3 DEF TargetsAreAhead
<1>3. ASSUME NEW p \in Purgers, PurgeEntries(p) PROVE TargetsAreAhead'
  <2>1. Entries' = Entries /\ now' = now
    BY <1>3 DEF PurgeEntries, lruVars, Entries
  <2>2. PICK K \in SUBSET Keys :
           /\ todo' = [todo EXCEPT ![p] = K]
           /\ targets' = [targets EXCEPT ![p] =
                            {e.id : e \in {f \in Entries : f.key \in K}}]
    BY <1>3 DEF PurgeEntries
  <2>3. /\ todo'[p] = K /\ purge'[p] = "given"
        /\ targets'[p] = {e.id : e \in {f \in Entries : f.key \in K}}
        /\ UNCHANGED peeked
        /\ \A q \in Purgers \ {p} : /\ todo'[q] = todo[q]
                                   /\ targets'[q] = targets[q]
                                   /\ purge'[q] = purge[q]
    BY <1>3, <2>2 DEF PurgeEntries, TypesOK
  <2>4. ASSUME NEW e \in Entries', e.id \in targets'[p]
        PROVE  e.key \in todo'[p]
    BY <2>1, <2>3, <2>4 DEF IdentitiesAreFresh
  <2> QED
    BY <1>e, <1>x, <2>1, <2>3, <2>4 DEF TargetsAreAhead
<1>4. ASSUME NEW p \in Purgers, Peek(p) PROVE TargetsAreAhead'
  <2>1. Entries' = Entries /\ now' = now /\ UNCHANGED <<targets, purge>>
    BY <1>4 DEF Peek, lruVars, Entries
  <2>2. PICK k \in todo[p] :
           /\ todo' = [todo EXCEPT ![p] = @ \ {k}]
           /\ peeked' = [peeked EXCEPT ![p] =
                           IF At(lru, k) = {} THEN NoEntry ELSE Find(lru, k)]
    BY <1>4 DEF Peek
  <2>3. /\ todo'[p] = todo[p] \ {k} /\ peeked[p] = NoEntry
        /\ peeked'[p] = IF At(lru, k) = {} THEN NoEntry ELSE Find(lru, k)
        /\ \A q \in Purgers \ {p} : todo'[q] = todo[q] /\ peeked'[q] = peeked[q]
    BY <1>4, <2>2 DEF Peek, TypesOK
  <2>4. ASSUME NEW e \in Entries, e.key = k PROVE peeked'[p] = e
    <3>1. PICK i \in DOMAIN lru : e = lru[i]
      BY DEF Entries, ToSet
    <3>2. At(lru, k) # {} /\ Find(lru, k) = e
      BY <2>4, <3>1, FitsNow, FindElement DEF Fits
    <3> QED
      BY <2>3, <3>2
  <2>5. ASSUME NEW e \in Entries', e.id \in targets'[p]
        PROVE  e.key \in todo'[p] \/ peeked'[p] = e
    <3>1. e \in Entries /\ e \in Entry /\ e.id \in targets[p]
      BY <1>e, <2>1, <2>5
    <3>2. e.key \in todo[p]
      BY <2>3, <3>1, NoneAssumption DEF TargetsAreAhead
    <3> QED
      BY <2>3, <2>4, <3>1, <3>2
  <2> QED
    BY <1>e, <1>x, <2>1, <2>3, <2>5 DEF TargetsAreAhead
<1>5. ASSUME NEW p \in Purgers, RemovePeeked(p) PROVE TargetsAreAhead'
  <2>1. Entries' = Lacking(Entries, {peeked[p].key})
    BY <1>5, RemovePeekedEffect
  <2>2. /\ UNCHANGED <<now, todo, targets, purge>> /\ peeked'[p] = NoEntry
        /\ \A q \in Purgers \ {p} : peeked'[q] = peeked[q]
    BY <1>5 DEF RemovePeeked, TypesOK
  <2>3. ASSUME NEW e \in Entries', e.id \in targets[p]
        PROVE  e.key \in todo[p]
    BY <2>1, <2>3 DEF Lacking, TargetsAreAhead
  <2> QED
    BY <1>e, <1>x, <2>1, <2>2, <2>3 DEF TargetsAreAhead, Lacking
<1>6. ASSUME NEW p \in Purgers, KeepPeeked(p) PROVE TargetsAreAhead'
  <2>1. Entries' = Entries
    BY <1>6 DEF KeepPeeked, lruVars, Entries
  <2>2. /\ UNCHANGED <<now, todo, targets, purge>> /\ peeked'[p] = NoEntry
        /\ \A q \in Purgers \ {p} : peeked'[q] = peeked[q]
        /\ purge[p] = "old" /\ ~Expired(peeked[p])
    BY <1>6 DEF KeepPeeked, TypesOK
  <2>3. ASSUME NEW e \in Entries', e.id \in targets[p]
        PROVE  e.key \in todo[p]
    BY <2>1, <2>2, <2>3 DEF TargetsAreAhead
  <2> QED
    BY <1>e, <1>x, <2>1, <2>2, <2>3 DEF TargetsAreAhead
<1>7. ASSUME NEW p \in Purgers, PurgeReturns(p) PROVE TargetsAreAhead'
  <2>1. Entries' = Entries
    BY <1>7 DEF PurgeReturns, lruVars, Entries
  <2>2. /\ UNCHANGED <<now, todo, peeked>> /\ targets'[p] = {}
        /\ \A q \in Purgers \ {p} : /\ targets'[q] = targets[q]
                                   /\ purge'[q] = purge[q]
    BY <1>7 DEF PurgeReturns, TypesOK
  <2> QED
    BY <1>e, <1>x, <2>1, <2>2 DEF TargetsAreAhead
<1> QED
  BY <1>1, <1>2, <1>3, <1>4, <1>5, <1>6, <1>7
     DEF Next, SetStep, PurgeStep, Tick, Invalidate, Get, SetBuildsEntry,
         SetStores, EvictOldest, SetReturns, vars

-----------------------------------------------------------------------------
(* The byte counter, and what an eviction leaves.                          *)
LEMMA SetStoresSize ==
    ASSUME TypesOK, WithinLimits, SizeIsAccounted,
           NEW p \in Setters, SetStores(p)
    PROVE  currentSizeBytes' = SizeOf(lru')
<1> DEFINE e == pending[p]
           rest == Without(lru, e.key)
           size == currentSizeBytes - onEvicted(lru, e.key) + e.size
<1>1. e \in Entry /\ e.size \in Nat
  BY EntryType DEF SetStores, TypesOK
<1>2. Fits(rest) /\ SizeOf(rest) = SizeOf(lru) - onEvicted(lru, e.key)
  BY FitsNow, WithoutEffect, SizeOfWithout DEF Fits
<1>3. SizeOf(rest) \in Nat /\ rest \in Seq(Entry)
  BY <1>2, SizeOfIsNatural DEF Fits
<1>4. size = SizeOf(rest) + e.size
  BY <1>2 DEF SizeIsAccounted
<1>5. CASE Len(rest) < MaxEntries
  <2>1. lru' = Append(rest, e) /\ currentSizeBytes' = size
    BY <1>5 DEF SetStores
  <2> HIDE DEF e, rest, size
  <2> QED
    BY <1>1, <1>3, <1>4, <2>1, SizeOfAppend
<1>6. CASE ~(Len(rest) < MaxEntries)
  <2>1. lru' = Append(Tail(rest), e) /\ currentSizeBytes' = size - Head(rest).size
    BY <1>6 DEF SetStores
  <2> HIDE DEF e, rest, size
  <2>2. rest # << >>
    BY <1>6
  <2>3. /\ Tail(rest) \in Seq(Entry) /\ Head(rest) \in Entry
        /\ SizeOf(Tail(rest)) = SizeOf(rest) - Head(rest).size
    BY <1>3, <2>2, SizeOfTail
  <2>4. Head(rest).size \in Nat
    BY <2>3, EntryType
  <2>5. SizeOf(Append(Tail(rest), e)) = SizeOf(Tail(rest)) + e.size
    BY <1>1, <2>3, SizeOfAppend
  <2> QED
    BY <1>1, <1>3, <1>4, <2>1, <2>3, <2>4, <2>5
<1> QED
  BY <1>5, <1>6

LEMMA PromotedSize ==
    ASSUME NEW s, Fits(s), NEW k
    PROVE  SizeOf(Promoted(s, k)) = SizeOf(s)
<1>1. CASE At(s, k) = {}
  BY <1>1 DEF Promoted
<1>2. CASE At(s, k) # {}
  <2>1. Find(s, k) \in ToSet(s) /\ s \in Seq(Entry)
    BY <1>2, FindIsElement DEF Fits
  <2>2. Find(s, k) \in Entry /\ Find(s, k).size \in Nat
    BY <2>1, EntryType DEF ToSet
  <2>3. /\ Without(s, k) \in Seq(Entry)
        /\ SizeOf(Without(s, k)) = SizeOf(s) - Find(s, k).size
    BY <1>2, WithoutElements, SizeOfWithout DEF Fits, onEvicted
  <2>4. SizeOf(Append(Without(s, k), Find(s, k)))
           = SizeOf(Without(s, k)) + Find(s, k).size
    BY <2>2, <2>3, SizeOfAppend
  <2>5. SizeOf(s) \in Nat
    BY <2>1, SizeOfIsNatural
  <2>6. Promoted(s, k) = Append(Without(s, k), Find(s, k))
    BY <1>2 DEF Promoted
  <2> QED
    BY <2>2, <2>3, <2>4, <2>5, <2>6
<1> QED
  BY <1>1, <1>2

LEMMA NextSizeIsAccounted ==
    ASSUME TypesOK, WithinLimits, SizeIsAccounted, [Next]_vars
    PROVE  SizeIsAccounted'
<1>1. CASE OtherStep
  BY <1>1, OtherStepEffect DEF SizeIsAccounted
<1>2. CASE Invalidate
  BY <1>2, SizeOfEmpty DEF Invalidate, SizeIsAccounted
<1>3. ASSUME NEW k \in Keys, Get(k) PROVE SizeIsAccounted'
  BY <1>3, FitsNow, PromotedSize DEF Get, SizeIsAccounted
<1>4. ASSUME NEW p \in Setters, SetStores(p) PROVE SizeIsAccounted'
  BY <1>4, SetStoresSize DEF SizeIsAccounted
<1>5. ASSUME NEW p \in Setters, EvictOldest(p) PROVE SizeIsAccounted'
  <2>1. CASE lru = << >>
    BY <1>5, <2>1 DEF EvictOldest, lruVars, SizeIsAccounted
  <2>2. CASE lru # << >>
    BY <1>5, <2>2, SizeOfTail DEF EvictOldest, TypesOK, SizeIsAccounted
  <2> QED
    BY <2>1, <2>2
<1>6. ASSUME NEW p \in Setters, SetReturns(p) PROVE SizeIsAccounted'
  BY <1>6 DEF SetReturns, lruVars, SizeIsAccounted
<1>7. ASSUME NEW p \in Purgers, RemovePeeked(p) PROVE SizeIsAccounted'
  BY <1>7, FitsNow, SizeOfWithout DEF RemovePeeked, SizeIsAccounted, Fits
<1> QED
  BY <1>1, <1>2, <1>3, <1>4, <1>5, <1>6, <1>7, NextCases

(* More bytes than one entry may have are those of more than one entry.    *)
LEMMA EvictionFindsOther ==
    ASSUME TypesOK, SizeIsAccounted, NEW p \in Setters, EvictOldest(p)
    PROVE  /\ lru # << >>
           /\ Last(lru).size <= MaxSizeBytes => Len(lru) > 1
<1>1. currentSizeBytes > MaxSizeBytes /\ lru \in Seq(Entry)
  BY DEF EvictOldest, TypesOK
<1>2. lru # << >>
  BY <1>1, SizeOfEmpty DEF SizeIsAccounted
<1>3. Len(lru) \in Nat /\ Len(lru) > 0
      /\ \A n \in 1 .. Len(lru) : lru[n] \in Entry
  BY <1>1, <1>2
<1>4. ASSUME Len(lru) = 1 PROVE lru[Len(lru)].size > MaxSizeBytes
  <2>1. Tail(lru) = << >>
    <3>1. Tail(lru) \in Seq(Entry) /\ Len(Tail(lru)) = 0
      BY <1>1, <1>2, <1>4
    <3> QED
      BY <3>1, EmptySeq
  <2>2. SizeOf(Tail(lru)) = SizeOf(lru) - Head(lru).size
    BY <1>1, <1>2, SizeOfTail
  <2>3. Head(lru) = lru[Len(lru)]
    BY <1>1, <1>4
  <2>4. SizeOf(lru) \in Nat /\ Head(lru).size \in Nat
    BY <1>1, <1>3, <1>4, <2>3, SizeOfIsNatural, EntryType
  <2>5. SizeOf(lru) = Head(lru).size
    <3>1. 0 = SizeOf(lru) - Head(lru).size
      BY <2>1, <2>2, SizeOfEmpty
    <3> QED
      BY <2>4, <3>1
  <2> QED
    BY <1>1, <2>3, <2>5 DEF SizeIsAccounted
<1>5. lru[Len(lru)].size \in Nat
  BY <1>3, EntryType
<1>6. ASSUME lru[Len(lru)].size <= MaxSizeBytes PROVE Len(lru) > 1
  <2>1. Len(lru) # 1
    BY <1>4, <1>5, <1>6
  <2> QED
    BY <1>3, <2>1
<1> QED
  BY <1>2, <1>6 DEF Last

LEMMA NextEntryIsNewest ==
    ASSUME TypesOK, WithinLimits, WriterHasEntry, SizeIsAccounted,
           NewEntryIsNewest, [Next]_vars
    PROVE  NewEntryIsNewest'
<1>1. CASE UNCHANGED <<lru, writer, pending>>
  BY <1>1 DEF NewEntryIsNewest
<1>2. CASE writer' = NoOne
  BY <1>2, NoneAssumption DEF NewEntryIsNewest
<1>3. ASSUME NEW q \in Setters, SetBuildsEntry(q) PROVE NewEntryIsNewest'
  <2>1. /\ UNCHANGED <<lru, writer>> /\ writer # q
        /\ \A p \in Setters \ {q} : pending'[p] = pending[p]
    BY <1>3, NoneAssumption
       DEF SetBuildsEntry, lruVars, WriterHasEntry, Unlocked, TypesOK
  <2> QED
    BY <2>1 DEF NewEntryIsNewest
<1>4. ASSUME NEW q \in Setters, SetStores(q) PROVE NewEntryIsNewest'
  <2>1. /\ writer' = q /\ pending' = pending
        /\ \E s : lru' = Append(s, pending[q]) /\ s \in Seq(Entry)
    <3> DEFINE rest == Without(lru, pending[q].key)
    <3>1. rest \in Seq(Entry)
      BY FitsNow, WithoutEffect DEF Fits
    <3>2. Len(rest) < MaxEntries \/ rest # << >>
      BY <3>1
    <3>3. lru' = Append(rest, pending[q]) \/
          (rest # << >> /\ lru' = Append(Tail(rest), pending[q]))
      BY <1>4, <3>2 DEF SetStores
    <3> HIDE DEF rest
    <3>4. rest # << >> => Tail(rest) \in Seq(Entry)
      BY <3>1
    <3> QED
      BY <1>4, <3>1, <3>3, <3>4 DEF SetStores, setVars
  <2>2. lru' # << >> /\ Last(lru') = pending'[q]
    <3>1. PICK s : lru' = Append(s, pending[q]) /\ s \in Seq(Entry)
      BY <2>1
    <3>2. /\ Len(Append(s, pending[q])) = Len(s) + 1 /\ Len(s) \in Nat
          /\ Append(s, pending[q])[Len(s) + 1] = pending[q]
      BY <3>1
    <3> QED
      BY <2>1, <3>1, <3>2 DEF Last
  <2> QED
    BY <2>1, <2>2 DEF NewEntryIsNewest
<1>5. ASSUME NEW q \in Setters, EvictOldest(q) PROVE NewEntryIsNewest'
  <2>1. /\ writer = q /\ writer' = q /\ pending' = pending /\ lru # << >>
        /\ lru' = Tail(lru) /\ lru \in Seq(Entry)
    BY <1>5, EvictionFindsOther DEF EvictOldest, setVars, TypesOK
  <2>2. ASSUME pending[q].size <= MaxSizeBytes
        PROVE  lru' # << >> /\ Last(lru') = pending[q]
    <3>1. Last(lru) = pending[q]
      BY <2>1, <2>2 DEF NewEntryIsNewest
    <3>2. Len(lru) > 1
      BY <1>5, <2>2, <3>1, EvictionFindsOther
    <3>3. Tail(lru) # << >> /\ Last(Tail(lru)) = Last(lru)
      <4> DEFINE t == Tail(lru)
      <4>1. /\ t \in Seq(Entry) /\ Len(t) = Len(lru) - 1 /\ Len(lru) \in Nat
            /\ \A n \in 1 .. Len(lru) - 1 : t[n] = lru[n + 1]
        BY <2>1
      <4> HIDE DEF t
      <4>2. Len(lru) - 1 \in 1 .. Len(lru) - 1 /\ (Len(lru) - 1) + 1 = Len(lru)
        BY <3>2, <4>1
      <4>3. t[Len(t)] = lru[Len(lru)]
        BY <4>1, <4>2
      <4>4. t # << >>
        BY <4>1, <4>2
      <4> QED
        BY <4>3, <4>4 DEF Last, t
    <3> QED
      BY <2>1, <3>1, <3>3
  <2> QED
    BY <2>1, <2>2 DEF NewEntryIsNewest
<1>6. ASSUME NEW q \in Setters, SetReturns(q) PROVE writer' = NoOne
  BY <1>6 DEF SetReturns
<1>7. ASSUME Invalidate \/ (\E k \in Keys : Get(k))
             \/ (\E p \in Purgers : RemovePeeked(p))
      PROVE  writer' = NoOne
  BY <1>7 DEF Invalidate, Get, RemovePeeked, Unlocked
<1>8. CASE OtherStep /\ ~ \E q \in Setters : SetBuildsEntry(q)
  <2>1. UNCHANGED pending
    BY <1>8 DEF OtherStep, Tick, vars, setVars, PurgeOldEntries,
       PurgeEntries, Peek, KeepPeeked, PurgeReturns
  <2> QED
    BY <1>1, <1>8, <2>1, OtherStepEffect
<1> QED
  BY <1>2, <1>3, <1>4, <1>5, <1>6, <1>7, <1>8, NextCases

-----------------------------------------------------------------------------
(* The inductive invariant.                                                *)
LEMMA InitInvariant == Init => IInv
<1> SUFFICES ASSUME Init PROVE IInv
  OBVIOUS
<1>1. lru = << >> /\ currentSizeBytes = 0 /\ writer = NoOne
  BY DEF Init
<1>2. lru \in Seq(Entry) /\ Len(lru) = 0 /\ DOMAIN lru = {}
  BY <1>1
<1>3. TypesOK
  BY <1>1, <1>2 DEF Init, TypesOK
<1>4. Entries = {}
  BY <1>2 DEF Entries, ToSet
<1>5. WithinLimits
  BY <1>1, <1>2 DEF WithinLimits
<1>6. WriterHasEntry
  BY <1>1 DEF WriterHasEntry, Unlocked
<1>7. IdentitiesAreFresh /\ TargetsAreAhead
  BY <1>4 DEF Init, IdentitiesAreFresh, TargetsAreAhead, Waiting
<1>8. SizeIsAccounted /\ NewEntryIsNewest
  BY <1>1, SizeOfEmpty, NoneAssumption DEF SizeIsAccounted, NewEntryIsNewest
<1> QED
  BY <1>3, <1>5, <1>6, <1>7, <1>8 DEF IInv

LEMMA NextInvariant == IInv /\ [Next]_vars => IInv'
  BY NextTypesOK, NextWithinLimits, NextWriterHasEntry, NextFresh,
     NextTargetsAhead, NextSizeIsAccounted, NextEntryIsNewest DEF IInv

(* Each part of IInv describes the state between any two steps of the      *)
(* goroutines that use the cache (cache.go:85-199).                        *)
THEOREM Invariant == Spec => []IInv
<1>1. Init => IInv
  BY InitInvariant
<1>2. IInv /\ [Next]_vars => IInv'
  BY NextInvariant
<1> QED
  BY <1>1, <1>2, PTL DEF Spec

(* Whoever takes the lock finds the cache within its limits, with one      *)
(* entry for each key (cache.go:108-130).                                  *)
THEOREM LimitsAreKept == Spec => []WithinLimits
<1>1. IInv => WithinLimits
  BY DEF IInv
<1> QED
  BY <1>1, Invariant, PTL

(* The byte counter is the size of what the cache holds after every step,  *)
(* also of an eviction: Set, eviction by count and by size, and the purges *)
(* count whatever enters or leaves the list (cache.go:108-130, 145-199).   *)
THEOREM BytesAreAccounted == Spec => []SizeIsAccounted
<1>1. IInv => SizeIsAccounted
  BY DEF IInv
<1> QED
  BY <1>1, Invariant, PTL

(* Types, and the byte counter is never negative.                          *)
THEOREM TypeCorrect == Spec => []TypeOK
<1>1. IInv => TypeOK
  <2> SUFFICES ASSUME IInv PROVE TypeOK
    OBVIOUS
  <2>1. TypesOK /\ currentSizeBytes = SizeOf(lru) /\ lru \in Seq(Entry)
    BY DEF IInv, SizeIsAccounted, TypesOK
  <2>2. SizeOf(lru) \in Nat
    BY <2>1, SizeOfIsNatural
  <2> QED
    BY <2>1, <2>2 DEF TypeOK
<1> QED
  BY <1>1, Invariant, PTL

(* What a Set has stored survives the evictions of that Set, if it can fit *)
(* into the cache at all (cache.go:122-129).                               *)
THEOREM NewEntriesSurvive == Spec => []NewEntrySurvives
<1>1. ASSUME IInv, NEW p \in Setters, writer = p, pending[p].size <= MaxSizeBytes
      PROVE  pending[p] \in Entries
  <2>1. lru # << >> /\ Last(lru) = pending[p] /\ lru \in Seq(Entry)
    BY <1>1 DEF IInv, NewEntryIsNewest, TypesOK
  <2>2. Len(lru) \in DOMAIN lru
    BY <2>1
  <2> QED
    BY <2>1, <2>2 DEF Entries, ToSet, Last
<1>2. IInv => NewEntrySurvives
  BY <1>1 DEF NewEntrySurvives
<1> QED
  BY <1>2, Invariant, PTL

(* The eviction loop, which runs with the lock held, cannot spin on an     *)
(* empty list: each of its steps removes an entry, so Set returns after at *)
(* most maxEntries of them (cache.go:127-129).                             *)
THEOREM EvictionsEnd == Spec => EvictionsShorten
<1> DEFINE Shorter ==
      \A p \in Setters : EvictOldest(p) => Len(lru') < Len(lru)
<1>1. IInv /\ [Next]_vars => [Shorter]_vars
  <2> SUFFICES ASSUME IInv, NEW p \in Setters, EvictOldest(p)
               PROVE  Len(lru') < Len(lru)
    OBVIOUS
  <2>1. lru # << >> /\ lru \in Seq(Entry)
    BY EvictionFindsOther DEF IInv, TypesOK
  <2>2. lru' = Tail(lru)
    BY <2>1 DEF EvictOldest
  <2> QED
    BY <2>1, <2>2
<1> HIDE DEF Shorter
<1>2. Spec => [][Shorter]_vars
  BY <1>1, Invariant, PTL DEF Spec
<1> QED
  BY <1>2 DEF EvictionsShorten, Shorter

(* A purge leaves none of the entries it was called for, whatever others   *)
(* do to the cache meanwhile (cache.go:141-199).                           *)
THEOREM PurgesAreComplete == Spec => []PurgeIsComplete
<1>1. ASSUME IInv, NEW p \in Purgers, PurgeIsOver(p),
             NEW e \in Entries, e.id \in targets[p]
      PROVE  FALSE
  <2>1. e \in Entry
    BY <1>1 DEF IInv, TypesOK, Entries, ToSet
  <2>2. e.key \in todo[p] \/ peeked[p] = e
    BY <1>1 DEF IInv, TargetsAreAhead
  <2> QED
    BY <1>1, <2>1, <2>2, NoneAssumption DEF PurgeIsOver
<1>2. IInv => PurgeIsComplete
  BY <1>1 DEF PurgeIsComplete
<1> QED
  BY <1>2, Invariant, PTL

-----------------------------------------------------------------------------
(* The refinement of VolatileStore.                                        *)
LEMMA AnswerEntry ==
    ASSUME NEW s, Fits(s), NEW t
    PROVE  /\ \A e \in ToSet(s) :
                 Answer(s, t, e.key) =
                    IF t - e.fetchTime < MaxAge THEN e.id ELSE NoEntry
           /\ \A k : (\A e \in ToSet(s) : e.key # k) => Answer(s, t, k) = NoEntry
<1>1. ASSUME NEW e \in ToSet(s)
      PROVE  Answer(s, t, e.key) =
                IF t - e.fetchTime < MaxAge THEN e.id ELSE NoEntry
  <2>1. PICK i \in DOMAIN s : e = s[i]
    BY DEF ToSet
  <2>2. At(s, e.key) # {} /\ Find(s, e.key) = e
    BY <2>1, FindElement DEF Fits
  <2> QED
    BY <2>2 DEF Answer
<1>2. ASSUME NEW k, \A e \in ToSet(s) : e.key # k
      PROVE  Answer(s, t, k) = NoEntry
  BY <1>2, NotFound DEF Answer
<1> QED
  BY <1>1, <1>2

\* As time goes by an answer can only turn into none.
LEMMA AnswerForgets ==
    ASSUME NEW s, NEW u, Fits(s), Fits(u), NEW K,
           NEW t \in Nat, NEW v \in Nat, t <= v,
           ToSet(u) = Lacking(ToSet(s), K), NEW k
    PROVE  Answer(u, v, k) \in {NoEntry, Answer(s, t, k)}
<1>1. CASE \A e \in ToSet(u) : e.key # k
  BY <1>1, AnswerEntry
<1>2. ASSUME NEW e \in ToSet(u), e.key = k
      PROVE  Answer(u, v, k) \in {NoEntry, Answer(s, t, k)}
  <2>1. e \in ToSet(s)
    BY DEF Lacking
  <2>2. e.fetchTime \in Nat
    BY <2>1, EntryType DEF Fits, ToSet
  <2>3. v - e.fetchTime < MaxAge => t - e.fetchTime < MaxAge
    BY <2>2, LimitsAssumption
  <2>4. Answer(u, v, k) = IF v - e.fetchTime < MaxAge THEN e.id ELSE NoEntry
    BY <1>2, AnswerEntry
  <2>5. Answer(s, t, k) = IF t - e.fetchTime < MaxAge THEN e.id ELSE NoEntry
    BY <1>2, <2>1, AnswerEntry
  <2> QED
    BY <2>3, <2>4, <2>5
<1> QED
  BY <1>1, <1>2

LEMMA AnswerPut ==
    ASSUME NEW s, NEW u, Fits(s), Fits(u), NEW e \in Entry,
           NEW K, NEW t,
           ToSet(u) = Lacking(ToSet(s), K \cup {e.key}) \cup {e}, NEW k
    PROVE  Answer(u, t, k) \in
              {NoEntry, IF k = e.key THEN e.id ELSE Answer(s, t, k)}
<1>1. CASE k = e.key
  BY <1>1, AnswerEntry
<1>2. CASE k # e.key /\ \A f \in ToSet(u) : f.key # k
  BY <1>2, AnswerEntry
<1>3. ASSUME k # e.key, NEW f \in ToSet(u), f.key = k
      PROVE  Answer(u, t, k) = Answer(s, t, k)
  <2>1. f \in ToSet(s)
    BY <1>3 DEF Lacking
  <2> QED
    BY <1>3, <2>1, AnswerEntry
<1> QED
  BY <1>1, <1>2, <1>3

LEMMA TimeGrows ==
    ASSUME TypesOK, WithinLimits, [Next]_vars
    PROVE  now \in Nat /\ now' \in Nat /\ now <= now'
<1>1. now \in Nat /\ now' \in Nat
  BY NextTypesOK DEF TypesOK
<1>2. now' = now \/ now' = now + 1
  BY DEF Next, vars, Tick, Invalidate, Get, SetBuildsEntry, SetStep, SetStores,
     EvictOldest, SetReturns, PurgeOldEntries, PurgeEntries, PurgeStep, Peek,
     RemovePeeked, KeepPeeked, PurgeReturns
<1> QED
  BY <1>1, <1>2

\* What is forgotten is what has been answered and is not any more.
LEMMA ForgettingSome ==
    ASSUME NEW f, NEW g, g = [k \in Keys |-> g[k]],
           \A k \in Keys : g[k] \in {NoEntry, f[k]}
    PROVE  \E K \in SUBSET {k \in Keys : f[k] # NoEntry} :
              g = Store!Forgetting(f, K)
<1> DEFINE K == {k \in Keys : f[k] # NoEntry /\ g[k] = NoEntry}
<1>1. g = Store!Forgetting(f, K)
  BY DEF Store!Forgetting
<1>2. K \in SUBSET {k \in Keys : f[k] # NoEntry}
  OBVIOUS
<1> HIDE DEF K
<1> QED
  BY <1>1, <1>2

LEMMA ForgetStep ==
    ASSUME TypesOK, WithinLimits, [Next]_vars, Used' = Used,
           NEW K \in SUBSET Keys, Entries' = Lacking(Entries, K)
    PROVE  Store!Forget
<1>1. Fits(lru) /\ Fits(lru')
  BY FitsNow, NextFits
<1>2. now \in Nat /\ now' \in Nat /\ now <= now'
  BY TimeGrows
<1>3. \A k \in Keys : Answer(lru', now', k) \in {NoEntry, Answer(lru, now, k)}
  BY <1>1, <1>2, AnswerForgets DEF Entries
<1> DEFINE before == [k \in Keys |-> Answer(lru, now, k)]
           after  == [k \in Keys |-> Answer(lru', now', k)]
<1>4. /\ after = [k \in Keys |-> after[k]]
      /\ \A k \in Keys : after[k] \in {NoEntry, before[k]}
  BY <1>3
<1> HIDE DEF before, after
<1>5. \E S \in SUBSET {k \in Keys : before[k] # NoEntry} :
         after = Store!Forgetting(before, S)
  BY <1>4, ForgettingSome
<1> QED
  BY <1>5 DEF Store!Forget, before, after

LEMMA InitStore == Init => Store!Init
<1> SUFFICES ASSUME Init PROVE Store!Init
  OBVIOUS
<1>1. lru = << >> /\ sets = 0
  BY DEF Init
<1>2. DOMAIN lru = {}
  BY <1>1
<1>3. \A k \in Keys : Answer(lru, now, k) = NoEntry
  BY <1>2 DEF Answer, At
<1>4. Used = {}
  BY <1>1 DEF Used
<1> QED
  BY <1>3, <1>4 DEF Store!Init

LEMMA NextStore == IInv /\ [Next]_vars => [Store!Next]_(Store!vars)
<1> SUFFICES ASSUME IInv, [Next]_vars PROVE [Store!Next]_(Store!vars)
  OBVIOUS
<1>t. TypesOK /\ WithinLimits
  BY DEF IInv
<1>1. ASSUME NEW p \in Setters, SetStores(p)
      PROVE  Store!Next
  <2> DEFINE e == pending[p]
  <2>1. PICK K \in SUBSET (Keys \ {e.key}) :
           Entries' = Lacking(Entries, K \cup {e.key}) \cup {e}
    BY <1>t, <1>1, SetStoresEffect
  <2>2. e \in Entry /\ Fits(lru) /\ Fits(lru')
    BY <1>t, <1>1, SetStoresEffect, FitsNow
  <2>3. /\ writer = NoOne /\ writer' = p /\ e # NoEntry
        /\ UNCHANGED <<pending, sets>>
    BY <1>1 DEF SetStores, Unlocked, setVars
  <2>4. Waiting(p) /\ \A q \in Setters : Waiting(q)' <=> Waiting(q) /\ q # p
    BY <2>3, NoneAssumption DEF Waiting
  <2>5. e.id \in 1 .. sets /\ e.id \in 1 .. MaxSets
    BY <1>t, <2>3 DEF IInv, IdentitiesAreFresh, TypesOK
  <2>6. \A q \in Setters \ {p} : Waiting(q) => pending[q].id # e.id
    BY <2>4 DEF IInv, IdentitiesAreFresh
  <2>7. e.id \notin Used /\ Used' = Used \cup {e.id}
    BY <2>3, <2>4, <2>5, <2>6 DEF Used
  <2>8. e.key \in Keys
    BY <2>2, EntryType
  <2> HIDE DEF e
  <2> DEFINE before == [k \in Keys |-> Answer(lru, now, k)]
             put    == [before EXCEPT ![e.key] = e.id]
             after  == [k \in Keys |-> Answer(lru', now', k)]
  <2>9. now' = now
    BY <1>1 DEF SetStores
  <2>10. \A k \in Keys : Answer(lru', now', k) \in
            {NoEntry, IF k = e.key THEN e.id ELSE Answer(lru, now, k)}
    BY <2>1, <2>2, <2>9, AnswerPut DEF Entries
  <2>11. /\ after = [k \in Keys |-> after[k]]
         /\ \A k \in Keys : after[k] \in {NoEntry, put[k]}
    BY <2>8, <2>10
  <2> HIDE DEF put, after
  <2>12. \E S \in SUBSET Keys : after = Store!Forgetting(put, S)
    BY <2>11, ForgettingSome
  <2>13. Store!Put(e.key, e.id)
    BY <2>7, <2>12 DEF Store!Put, put, after, before
  <2> QED
    BY <2>5, <2>8, <2>13 DEF Store!Next
<1>2. CASE Used' = Used /\ ~(\E p \in Setters : SetStores(p))
  <2>1. PICK K \in SUBSET Keys : Entries' = Lacking(Entries, K)
    BY <1>t, <1>2, NextEntries
  <2>2. Store!Forget
    BY <1>t, <1>2, <2>1, ForgetStep
  <2> QED
    BY <2>2 DEF Store!Next
<1>3. ASSUME NEW p \in Setters, SetBuildsEntry(p)
      PROVE  Used' = Used
  <2>1. /\ pending'[p].id = sets + 1 /\ pending'[p] # NoEntry
        /\ pending[p] = NoEntry
        /\ \A q \in Setters \ {p} : pending'[q] = pending[q]
        /\ sets' = sets + 1 /\ writer' = writer /\ sets \in Nat
    <3>1. PICK k \in Keys, size \in Sizes :
             pending' = [pending EXCEPT ![p] =
               [key |-> k, size |-> size, fetchTime |-> now, id |-> sets + 1]]
      BY <1>3 DEF SetBuildsEntry
    <3>2. TypesOK'
      BY <1>t, NextTypesOK
    <3>3. [key |-> k, size |-> size, fetchTime |-> now, id |-> sets + 1] \in Entry
      BY <1>t DEF Entry, TypesOK
    <3> QED
      BY <1>t, <1>3, <3>1, <3>3, NoneAssumption DEF SetBuildsEntry, TypesOK
  <2>2. writer # p
    BY <2>1, NoneAssumption DEF IInv, WriterHasEntry, Unlocked
  <2>3. /\ Waiting(p)' /\ ~Waiting(p)
        /\ \A q \in Setters \ {p} : Waiting(q)' <=> Waiting(q)
    BY <2>1, <2>2 DEF Waiting
  <2>4. {pending'[q].id : q \in {r \in Setters : Waiting(r)'}} =
           {pending[q].id : q \in {r \in Setters : Waiting(r)}} \cup {sets + 1}
    BY <2>1, <2>3
  <2>5. \A n \in 1 .. sets + 1 : n \in 1 .. sets \/ n = sets + 1
    BY <2>1
  <2>6. \A n \in 1 .. sets : n \in 1 .. sets + 1 /\ n # sets + 1
    BY <2>1
  <2> QED
    BY <2>1, <2>4, <2>5, <2>6 DEF Used
<1>4. ASSUME NEW p \in Setters, SetReturns(p)
      PROVE  Used' = Used
  <2>1. \A q \in Setters : /\ Waiting(q)' <=> Waiting(q)
                           /\ Waiting(q) => pending'[q] = pending[q]
    BY <1>t, <1>4, NoneAssumption DEF SetReturns, Waiting, TypesOK
  <2>2. {pending'[q].id : q \in {r \in Setters : Waiting(r)'}} =
           {pending[q].id : q \in {r \in Setters : Waiting(r)}}
    BY <2>1
  <2> QED
    BY <1>4, <2>2 DEF SetReturns, Used
<1>5. ASSUME UNCHANGED <<pending, sets, writer>>
      PROVE  Used' = Used
  BY <1>5 DEF Used, Waiting
<1>6. ASSUME ~(\E p \in Setters : SetStores(p))
      PROVE  Used' = Used
  <2>1. CASE OtherStep /\ ~(\E p \in Setters : SetBuildsEntry(p))
    <3>1. UNCHANGED <<pending, sets, writer>>
      BY <2>1 DEF OtherStep, Tick, PurgeOldEntries, PurgeEntries, Peek,
         KeepPeeked, PurgeReturns, vars, setVars
    <3> QED
      BY <1>5, <3>1
  <2>2. CASE \/ Invalidate
             \/ \E k \in Keys : Get(k)
             \/ \E p \in Setters : EvictOldest(p)
             \/ \E p \in Purgers : RemovePeeked(p)
    <3>1. UNCHANGED <<pending, sets, writer>>
      BY <2>2 DEF Invalidate, Get, EvictOldest, RemovePeeked, setVars
    <3> QED
      BY <1>5, <3>1
  <2> QED
    BY <1>3, <1>4, <1>6, <2>1, <2>2, NextCases
<1>7. CASE \E p \in Setters : SetStores(p)
  BY <1>1, <1>7
<1>8. CASE ~(\E p \in Setters : SetStores(p))
  BY <1>2, <1>6, <1>8
<1> QED
  BY <1>7, <1>8

(* The cache implements VolatileStore: a hit is the entry stored last, and *)
(* what was evicted, replaced or purged, or has become too old, is gone    *)
(* for good (cache.go:94-199).                                             *)
THEOREM Refinement == Spec => ImplementsStore
<1>1. Init => Store!Init
  BY InitStore
<1>2. IInv /\ [Next]_vars => [Store!Next]_(Store!vars)
  BY NextStore
<1> QED
  BY <1>1, <1>2, Invariant, PTL DEF Spec, ImplementsStore, Store!Spec

=============================================================================
