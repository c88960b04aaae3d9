----------------------------- MODULE Inductions -----------------------------
(***************************************************************************)
(* Induction over the natural numbers and definitions by recursion, for    *)
(* sets and functions: they are what proofs about lists of any length use. *)
(* That every set of natural numbers has a least element comes from the    *)
(* well-foundedness of their order.                                        *)
(***************************************************************************)
EXTENDS Integers, WellFoundedInduction, TLAPS

LEMMA LeastNatural ==
    ASSUME NEW S \in SUBSET Nat, S # {}
    PROVE  \E n \in S : \A m \in S : n <= m
<1> DEFINE R == OpToRel(<, Nat)
<1>1. \A m, n \in Nat : m < n => <<m, n>> \in R
  BY DEF OpToRel
<1>2. IsWellFoundedOn(R, Nat)
  BY NatLessThanWellFounded
<1> HIDE DEF R
<1>3. PICK n \in S : \A m \in S : ~ (<<m, n>> \in R)
  BY <1>2, WFMin, Zenon
<1>4. ASSUME NEW m \in S PROVE n <= m
  <2>1. m \in Nat /\ n \in Nat /\ ~ (m < n)
    BY <1>1, <1>3
  <2> QED
    BY <2>1
<1> QED
  BY <1>4

(* A set that has 0, and with a number the next one, has all of them.      *)
LEMMA Induction ==
    ASSUME NEW S, 0 \in S, \A n \in Nat : n \in S => n + 1 \in S
    PROVE  \A n \in Nat : n \in S
<1> SUFFICES ASSUME Nat \ S # {} PROVE FALSE
  OBVIOUS
<1>1. PICK n \in Nat \ S : \A m \in Nat \ S : n <= m
  BY LeastNatural
<1>2. n # 0 /\ n - 1 \in Nat /\ (n - 1) + 1 = n /\ n - 1 \notin Nat \ S
  BY <1>1
<1> QED
  BY <1>1, <1>2

(* The same up to some number.                                             *)
LEMMA BoundedInduction ==
    ASSUME NEW N \in Nat, NEW S, 0 \in S,
           \A n \in 0 .. N - 1 : n \in S => n + 1 \in S
    PROVE  \A n \in 0 .. N : n \in S
<1> DEFINE U == {n \in Nat : n <= N => n \in S}
<1>1. 0 \in U
  OBVIOUS
<1>2. ASSUME NEW n \in Nat, n \in U PROVE n + 1 \in U
  <2>1. CASE n + 1 <= N
    <3>1. n \in 0 .. N - 1 /\ n \in S
      BY <1>2, <2>1
    <3> QED
      BY <3>1
  <2>2. CASE ~(n + 1 <= N)
    BY <2>2
  <2> QED
    BY <2>1, <2>2
<1> HIDE DEF U
<1>3. \A n \in Nat : n \in U
  BY <1>1, <1>2, Induction
<1> QED
  BY <1>3 DEF U

(* f is what a step function makes of a beginning, in n steps.             *)
Iterates(f, n, S, start, step) ==
    /\ f \in [0 .. n -> S]
    /\ f[0] = start
    /\ \A m \in 1 .. n : f[m] = step[m][f[m - 1]]

(* Every step function over a set can be iterated, from any beginning.     *)
LEMMA Iteration ==
    ASSUME NEW N \in Nat, NEW S, NEW start \in S,
           NEW step, \A n \in 1 .. N, x \in S : step[n][x] \in S
    PROVE  \E f : Iterates(f, N, S, start, step)
<1> DEFINE U == {n \in Nat : \E f : Iterates(f, n, S, start, step)}
<1>1. 0 \in U
  <2>1. Iterates([m \in 0 .. 0 |-> start], 0, S, start, step)
    BY DEF Iterates
  <2> QED
    BY <2>1
<1>2. ASSUME NEW n \in 0 .. N - 1, n \in U PROVE n + 1 \in U
  <2>1. PICK f : Iterates(f, n, S, start, step)
    BY <1>2
  <2> DEFINE g == [m \in 0 .. n + 1 |->
                     IF m <= n THEN f[m] ELSE step[n + 1][f[n]]]
  <2>2. n \in Nat /\ n + 1 \in 1 .. N /\ f[n] \in S
    BY <2>1 DEF Iterates
  <2>3. step[n + 1][f[n]] \in S
    BY <2>2
  <2>4. g \in [0 .. n + 1 -> S]
    BY <2>1, <2>3 DEF Iterates
  <2>5. g[0] = start
    BY <2>1, <2>2 DEF Iterates
  <2>6. ASSUME NEW m \in 1 .. n + 1 PROVE g[m] = step[m][g[m - 1]]
    <3>1. CASE m <= n
      <4>1. m \in 1 .. n /\ m - 1 \in 0 .. n
        BY <3>1
      <4> QED
        BY <2>1, <4>1 DEF Iterates
    <3>2. CASE ~(m <= n)
      <4>1. m = n + 1 /\ m - 1 = n /\ n \in 0 .. n + 1
        BY <2>2, <3>2
      <4>2. g[m - 1] = f[n]
        BY <2>2, <4>1
      <4>3. g[m] = step[n + 1][f[n]]
        BY <3>2
      <4> QED
        BY <4>1, <4>2, <4>3
    <3> QED
      BY <3>1, <3>2
  <2> HIDE DEF g
  <2>7. Iterates(g, n + 1, S, start, step)
    BY <2>4, <2>5, <2>6 DEF Iterates
  <2> QED
    BY <2>2, <2>7
<1> HIDE DEF U
<1>3. \A n \in 0 .. N : n \in U
  BY <1>1, <1>2, BoundedInduction
<1>4. N \in U
  BY <1>3
<1> QED
  BY <1>4 DEF U

(* The sums of the first elements of a list of numbers.                    *)
LEMMA PartialSums ==
    ASSUME NEW N \in Nat, NEW size \in [1 .. N -> Nat]
    PROVE  \E f \in [0 .. N -> Nat] :
              /\ f[0] = 0
              /\ \A n \in 1 .. N : f[n] = f[n - 1] + size[n]
<1> DEFINE step == [n \in 1 .. N |-> [x \in Nat |-> x + size[n]]]
<1>1. \A n \in 1 .. N, x \in Nat : step[n][x] = x + size[n]
  OBVIOUS
<1>2. 0 \in Nat /\ \A n \in 1 .. N, x \in Nat : step[n][x] \in Nat
  BY <1>1
<1> HIDE DEF step
<1>3. PICK f : Iterates(f, N, Nat, 0, step)
  BY <1>2, Iteration
<1>4. \A n \in 1 .. N : f[n] = f[n - 1] + size[n]
  <2>1. \A n \in 1 .. N : n - 1 \in 0 .. N /\ f[n - 1] \in Nat
    BY <1>3 DEF Iterates
  <2> QED
    BY <1>1, <1>3, <2>1 DEF Iterates
<1> QED
  BY <1>3, <1>4 DEF Iterates

-----------------------------------------------------------------------------
(* Things that have a rank, such as lists their length.                    *)

LEMMA RankInduction ==
    ASSUME NEW D, NEW rank \in [D -> Nat], NEW U,
           \A x \in D : (\A y \in D : rank[y] < rank[x] => y \in U) => x \in U
    PROVE  \A x \in D : x \in U
<1> DEFINE V == {n \in Nat : \A x \in D : rank[x] < n => x \in U}
<1>1. 0 \in V
  OBVIOUS
<1>2. ASSUME NEW n \in Nat, n \in V PROVE n + 1 \in V
  <2>1. ASSUME NEW x \in D, rank[x] < n + 1 PROVE x \in U
    <3>1. ASSUME NEW y \in D, rank[y] < rank[x] PROVE y \in U
      <4>1. rank[y] < n
        BY <2>1, <3>1
      <4> QED
        BY <1>2, <4>1
    <3> QED
      BY <3>1
  <2> QED
    BY <2>1
<1> HIDE DEF V
<1>3. \A n \in Nat : n \in V
  BY <1>1, <1>2, Induction
<1>4. ASSUME NEW x \in D PROVE x \in U
  <2>1. rank[x] + 1 \in V /\ rank[x] < rank[x] + 1
    BY <1>3
  <2> QED
    BY <2>1 DEF V
<1> QED
  BY <1>4

(* What is defined at each thing from its values at those of lower ranks   *)
(* is defined.                                                             *)
Follows(f, step, x) == f[x] = step[x][f]

LooksBelow(step, rank, D, S) ==
    \A x \in D, f, g \in [D -> S] :
       (\A y \in D : rank[y] < rank[x] => f[y] = g[y]) => step[x][f] = step[x][g]

StaysIn(step, D, S) == \A x \in D, f \in [D -> S] : step[x][f] \in S

LEMMA RankedRecursion ==
    ASSUME NEW D, NEW rank \in [D -> Nat], NEW S, S # {}, NEW step,
           StaysIn(step, D, S), LooksBelow(step, rank, D, S)
    PROVE  \E f \in [D -> S] : \A x \in D : Follows(f, step, x)
<1>a. \A x \in D, f \in [D -> S] : step[x][f] \in S
  BY DEF StaysIn
<1>b. \A x \in D, f, g \in [D -> S] :
         (\A y \in D : rank[y] < rank[x] => f[y] = g[y]) => step[x][f] = step[x][g]
  BY DEF LooksBelow
<1> DEFINE UpTo(f, n) ==
             f \in [D -> S] /\ \A x \in D : rank[x] < n => Follows(f, step, x)
           U == {n \in Nat : \E f : UpTo(f, n)}
           T == {x \in D : \A f, g : UpTo(f, rank[x] + 1) /\ UpTo(g, rank[x] + 1) =>
                                     f[x] = g[x]}
<1>1. 0 \in U
  <2>1. PICK s \in S : TRUE
    OBVIOUS
  <2>2. UpTo([x \in D |-> s], 0)
    OBVIOUS
  <2> QED
    BY <2>2
<1>2. ASSUME NEW n \in Nat, n \in U PROVE n + 1 \in U
  <2>1. PICK f : UpTo(f, n)
    BY <1>2
  <2> DEFINE g == [x \in D |-> IF rank[x] < n THEN f[x] ELSE step[x][f]]
  <2>2. g \in [D -> S] /\ \A x \in D : rank[x] < n => g[x] = f[x]
    BY <1>a, <2>1
  <2>3. ASSUME NEW x \in D, rank[x] < n + 1 PROVE Follows(g, step, x)
    <3>1. \A y \in D : rank[y] < rank[x] => rank[y] < n
      BY <2>3
    <3>2. \A y \in D : rank[y] < rank[x] => g[y] = f[y]
      BY <2>2, <3>1
    <3>3. step[x][g] = step[x][f]
      BY <1>b, <2>1, <2>2, <3>2
    <3>4. g[x] = step[x][f]
      BY <2>1 DEF Follows
    <3> QED
      BY <3>3, <3>4 DEF Follows
  <2> HIDE DEF g
  <2>4. UpTo(g, n + 1)
    BY <2>2, <2>3
  <2> QED
    BY <2>4
<1>3. \A x \in D : (\A y \in D : rank[y] < rank[x] => y \in T) => x \in T
  <2> SUFFICES ASSUME NEW x \in D, \A y \in D : rank[y] < rank[x] => y \in T,
                      NEW f, NEW g, UpTo(f, rank[x] + 1), UpTo(g, rank[x] + 1)
               PROVE  f[x] = g[x]
    OBVIOUS
  <2>1. ASSUME NEW y \in D, rank[y] < rank[x] PROVE f[y] = g[y]
    <3>1. \A z \in D : rank[z] < rank[y] + 1 => rank[z] < rank[x] + 1
      BY <2>1
    <3>2. UpTo(f, rank[y] + 1) /\ UpTo(g, rank[y] + 1)
      BY <3>1
    <3> QED
      BY <2>1, <3>2
  <2>2. step[x][f] = step[x][g]
    BY <1>b, <2>1
  <2>3. Follows(f, step, x) /\ Follows(g, step, x)
    OBVIOUS
  <2> QED
    BY <2>2, <2>3 DEF Follows
<1> HIDE DEF U, T
<1>4. \A n \in Nat : n \in U
  BY <1>1, <1>2, Induction
<1>5. \A x \in D : x \in T
  BY <1>3, RankInduction
<1> DEFINE A(n) == CHOOSE f : UpTo(f, n)
           h == [x \in D |-> A(rank[x] + 1)[x]]
<1>6. \A n \in Nat : UpTo(A(n), n)
  BY <1>4 DEF U
<1> HIDE DEF A
<1>7. h \in [D -> S]
  BY <1>6
<1>8. ASSUME NEW x \in D PROVE Follows(h, step, x)
  <2> DEFINE a == A(rank[x] + 1)
  <2>1. UpTo(a, rank[x] + 1)
    BY <1>6
  <2> HIDE DEF a
  <2>2. ASSUME NEW y \in D, rank[y] < rank[x] PROVE h[y] = a[y]
    <3>1. \A z \in D : rank[z] < rank[y] + 1 => rank[z] < rank[x] + 1
      BY <2>2
    <3>2. UpTo(a, rank[y] + 1) /\ UpTo(A(rank[y] + 1), rank[y] + 1)
      BY <1>6, <2>1, <3>1
    <3>3. A(rank[y] + 1)[y] = a[y]
      BY <1>5, <3>2 DEF T
    <3> QED
      BY <3>3
  <2>3. h[x] = a[x]
    BY DEF a
  <2> HIDE DEF h
  <2>4. step[x][h] = step[x][a]
    BY <1>b, <1>7, <2>1, <2>2
  <2>5. Follows(a, step, x)
    BY <2>1
  <2> QED
    BY <2>3, <2>4, <2>5 DEF Follows
<1> QED
  BY <1>7, <1>8

=============================================================================
