------------------------- MODULE ContentMergeProofs -------------------------
(***************************************************************************)
(* Proofs about ContentMerge, and about what it has in common with         *)
(* Rendering, for any pages, templates and stylesheets.                    *)
(***************************************************************************)
EXTENDS Rendering, Inductions, FiniteSetTheorems, SequenceTheorems

Sheet  == [href : STRING, media : STRING]
Sheets == Seq(Sheet)

-----------------------------------------------------------------------------
(* Sequences as sets.                                                      *)

LEMMA ConcatToSet ==
    ASSUME NEW S, NEW s \in Seq(S), NEW t \in Seq(S)
    PROVE  s \o t \in Seq(S) /\ ToSet(s \o t) = ToSet(s) \cup ToSet(t)
<1>1. /\ s \o t \in Seq(S) /\ Len(s \o t) = Len(s) + Len(t)
      /\ \A i \in 1 .. Len(s) + Len(t) :
            (s \o t)[i] = IF i <= Len(s) THEN s[i] ELSE t[i - Len(s)]
  BY ConcatProperties
<1>2. ASSUME NEW i \in 1 .. Len(s)
      PROVE  s[i] \in ToSet(s \o t)
  <2>1. i \in DOMAIN (s \o t) /\ (s \o t)[i] = s[i]
    BY <1>1
  <2> QED
    BY <2>1 DEF ToSet
<1>3. ASSUME NEW i \in 1 .. Len(t)
      PROVE  t[i] \in ToSet(s \o t)
  <2>1. i + Len(s) \in DOMAIN (s \o t) /\ (s \o t)[i + Len(s)] = t[i]
    BY <1>1
  <2> QED
    BY <2>1 DEF ToSet
<1>4. ASSUME NEW i \in 1 .. Len(s) + Len(t)
      PROVE  (s \o t)[i] \in ToSet(s) \cup ToSet(t)
  BY <1>1 DEF ToSet
<1> DEFINE u == s \o t
<1>5. /\ DOMAIN u = 1 .. Len(s) + Len(t) /\ u \in Seq(S)
      /\ DOMAIN s = 1 .. Len(s) /\ DOMAIN t = 1 .. Len(t)
  BY <1>1
<1>6. /\ \A i \in 1 .. Len(s) : s[i] \in ToSet(u)
      /\ \A i \in 1 .. Len(t) : t[i] \in ToSet(u)
      /\ \A i \in 1 .. Len(s) + Len(t) : u[i] \in ToSet(s) \cup ToSet(t)
  BY <1>2, <1>3, <1>4
<1> HIDE DEF u
<1>7. ToSet(u) = ToSet(s) \cup ToSet(t)
  BY <1>5, <1>6, Zenon DEF ToSet
<1> QED
  BY <1>1, <1>7 DEF u

LEMMA LeastNumber ==
    ASSUME NEW T, T \subseteq Nat, T # {}
    PROVE  \E m \in T : \A k \in T : ~(k < m)
<1>1. PICK m \in T : \A k \in T : <<k, m>> \notin OpToRel(<, Nat)
  BY NatLessThanWellFounded, WFMin
<1>2. \A k \in T : k < m => <<k, m>> \in OpToRel(<, Nat)
  BY DEF OpToRel
<1> QED
  BY <1>1, <1>2

LEMMA FirstOccurrence ==
    ASSUME NEW S, NEW s \in Seq(S), NEW x \in ToSet(s)
    PROVE  \E i \in DOMAIN s : /\ s[i] = x
                               /\ \A j \in DOMAIN s : j < i => s[j] # x
<1> DEFINE T == {i \in DOMAIN s : s[i] = x}
<1>1. DOMAIN s \subseteq Nat /\ T # {}
  BY DEF ToSet
<1>2. PICK i \in T : \A k \in T : ~(k < i)
  BY <1>1, LeastNumber
<1> QED
  BY <1>2

LEMMA EmptyToSet ==
    ToSet(<< >>) = {}
  BY DEF ToSet

LEMMA SubSeqToSet ==
    ASSUME NEW S, NEW s \in Seq(S), NEW i \in Nat \ {0}, NEW j \in Int,
           j <= Len(s)
    PROVE  SubSeq(s, i, j) \in Seq(S) /\ ToSet(SubSeq(s, i, j)) \subseteq ToSet(s)
<1> DEFINE u == SubSeq(s, i, j)
<1>1. /\ u \in Seq(S) /\ Len(u) = IF i <= j THEN j - i + 1 ELSE 0
      /\ \A k \in 1 .. Len(u) : u[k] = s[i + k - 1]
  OBVIOUS
<1>2. ASSUME NEW k \in 1 .. Len(u)
      PROVE  u[k] \in ToSet(s)
  <2>1. i + k - 1 \in DOMAIN s
    BY <1>1
  <2> QED
    BY <1>1, <2>1 DEF ToSet
<1> QED
  BY <1>1, <1>2 DEF ToSet

LEMMA TailToSet ==
    ASSUME NEW S, NEW s \in Seq(S), s # << >>
    PROVE  /\ Tail(s) \in Seq(S) /\ Head(s) \in S /\ Head(s) \in ToSet(s)
           /\ ToSet(Tail(s)) \subseteq ToSet(s)
<1>1. Tail(s) \in Seq(S) /\ Head(s) \in S /\ Len(s) > 0 /\ Head(s) = s[1]
      /\ Len(Tail(s)) = Len(s) - 1
      /\ \A k \in 1 .. Len(s) - 1 : Tail(s)[k] = s[k + 1]
  BY EmptySeq, HeadTailProperties
<1> QED
  BY <1>1 DEF ToSet
-----------------------------------------------------------------------------
(* The stack: what the invariant says of it, and what its operations keep. *)

GoodStack(s, sheets, ps) ==
    /\ s \in Seq(Frame)
    /\ \A i \in 1 .. Len(s) :
          /\ ToSet(s[i].rest) \subseteq ToSet(Template[s[i].fragment])
          /\ IF i = 1 THEN s[i].alt = << >>
             ELSE ToSet(s[i].alt) \subseteq ToSet(Template[s[i - 1].fragment])
          /\ ToSet(Stylesheets[s[i].fragment]) \subseteq ToSet(sheets)
          /\ i # 1 => MayInclude(ps, s[i - 1].fragment, s[i].fragment)

LEMMA StackInvariant ==
    stack \in Seq(Frame) =>
       (FramesAreParts /\ FramesAreStyled /\ IncludesNest
           <=> GoodStack(stack, stylesheets, pages))
<1> SUFFICES ASSUME stack \in Seq(Frame)
             PROVE  FramesAreParts /\ FramesAreStyled /\ IncludesNest
                       <=> GoodStack(stack, stylesheets, pages)
  OBVIOUS
<1>1. DOMAIN stack = 1 .. Len(stack)
  OBVIOUS
<1> QED
  BY <1>1, Zenon DEF FramesAreParts, FramesAreStyled, IncludesNest, GoodStack

LEMMA FrameType ==
    ASSUME NEW f \in Frame
    PROVE  /\ f.fragment \in Fragments /\ f.rest \in Seq(Token)
           /\ f.optional \in BOOLEAN /\ f.alt \in Seq(Token)
           /\ Template[f.fragment] \in Seq(Token)
           /\ Stylesheets[f.fragment] \in Sheets
  BY TemplateAssumption DEF Frame, Sheets, Sheet

LEMMA ReturningIsGood ==
    ASSUME NEW s, NEW sheets, NEW ps, GoodStack(s, sheets, ps), s # << >>,
           NEW rest \in Seq(Token), ToSet(rest) \subseteq ToSet(Last(s).rest)
    PROVE  LET r == [s EXCEPT ![Len(s)].rest = rest]
           IN  /\ GoodStack(r, sheets, ps) /\ Len(r) = Len(s) /\ Len(s) > 0
               /\ r[Len(r)].fragment = s[Len(s)].fragment
<1> DEFINE r == [s EXCEPT ![Len(s)].rest = rest]
<1>1. s \in Seq(Frame) /\ Len(s) \in Nat /\ Len(s) > 0
  BY EmptySeq DEF GoodStack
<1>2. r \in [1 .. Len(s) -> Frame]
  <2>1. s \in [1 .. Len(s) -> Frame]
    BY <1>1
  <2>2. ASSUME NEW f \in Frame
        PROVE  [f EXCEPT !.rest = rest] \in Frame
    BY DEF Frame
  <2>3. [s[Len(s)] EXCEPT !.rest = rest] \in Frame
    BY <1>1, <2>1, <2>2
  <2> QED
    BY <1>1, <2>1, <2>3
<1>3. r \in Seq(Frame) /\ Len(r) = Len(s)
  BY <1>1, <1>2
<1>4. \A i \in 1 .. Len(s) :
         /\ r[i].fragment = s[i].fragment /\ r[i].alt = s[i].alt
         /\ r[i].rest = IF i = Len(s) THEN rest ELSE s[i].rest
  <2>1. s \in [1 .. Len(s) -> Frame]
    BY <1>1
  <2>2. ASSUME NEW i \in 1 .. Len(s)
        PROVE  r[i] = IF i = Len(s) THEN [s[i] EXCEPT !.rest = rest] ELSE s[i]
    BY <2>1
  <2>3. ASSUME NEW f \in Frame
        PROVE  /\ [f EXCEPT !.rest = rest].fragment = f.fragment
               /\ [f EXCEPT !.rest = rest].alt = f.alt
               /\ [f EXCEPT !.rest = rest].rest = rest
    BY DEF Frame
  <2> HIDE DEF r
  <2>4. \A i \in 1 .. Len(s) : s[i] \in Frame
    BY <2>1
  <2> QED
    BY <2>2, <2>3, <2>4
<1>5. ToSet(rest) \subseteq ToSet(s[Len(s)].rest)
  BY DEF Last
<1> HIDE DEF r
<1>6. \A i \in 1 .. Len(s) : r[i].fragment = s[i].fragment
  BY <1>4
<1>7. ASSUME NEW i \in 1 .. Len(r)
      PROVE  /\ ToSet(r[i].rest) \subseteq ToSet(Template[r[i].fragment])
             /\ IF i = 1 THEN r[i].alt = << >>
                ELSE ToSet(r[i].alt) \subseteq ToSet(Template[r[i - 1].fragment])
             /\ ToSet(Stylesheets[r[i].fragment]) \subseteq ToSet(sheets)
             /\ i # 1 => MayInclude(ps, r[i - 1].fragment, r[i].fragment)
  <2>1. i \in 1 .. Len(s) /\ (i # 1 => i - 1 \in 1 .. Len(s))
    BY <1>1, <1>3
  <2>2. ToSet(r[i].rest) \subseteq ToSet(s[i].rest)
    BY <1>4, <1>5, <2>1
  <2>3. /\ ToSet(s[i].rest) \subseteq ToSet(Template[s[i].fragment])
        /\ IF i = 1 THEN s[i].alt = << >>
           ELSE ToSet(s[i].alt) \subseteq ToSet(Template[s[i - 1].fragment])
        /\ ToSet(Stylesheets[s[i].fragment]) \subseteq ToSet(sheets)
        /\ i # 1 => MayInclude(ps, s[i - 1].fragment, s[i].fragment)
    BY <2>1, Zenon DEF GoodStack
  <2> QED
    BY <1>4, <2>1, <2>2, <2>3
<1>8. GoodStack(r, sheets, ps)
  BY <1>3, <1>7, Zenon DEF GoodStack
<1>9. Len(r) \in 1 .. Len(s)
  BY <1>1, <1>3
<1> QED
  BY <1>1, <1>3, <1>6, <1>8, <1>9 DEF r

LEMMA PushIsGood ==
    ASSUME NEW s, NEW sheets \in Sheets, NEW ps, GoodStack(s, sheets, ps),
           NEW f \in Fragments, NEW optional \in BOOLEAN, NEW alt \in Seq(Token),
           IF s = << >> THEN alt = << >>
           ELSE /\ ToSet(alt) \subseteq ToSet(Template[s[Len(s)].fragment])
                /\ MayInclude(ps, s[Len(s)].fragment, f)
    PROVE  GoodStack(Append(s, Executing(f, optional, alt)),
                     sheets \o Stylesheets[f], ps)
<1> DEFINE g == Executing(f, optional, alt)
           p == Append(s, g)
           more == sheets \o Stylesheets[f]
           n == Len(s)
<1>1. s \in Seq(Frame) /\ n \in Nat /\ (s # << >> => n > 0)
      /\ (s = << >> => n = 0)
  BY EmptySeq DEF GoodStack
<1>2. /\ g \in Frame /\ g.fragment = f /\ g.rest = Template[f] /\ g.alt = alt
      /\ Stylesheets[f] \in Sheets
  BY TemplateAssumption DEF Executing, Frame, Sheets, Sheet
<1>3. ToSet(more) = ToSet(sheets) \cup ToSet(Stylesheets[f])
  BY <1>2, ConcatToSet DEF Sheets
<1> HIDE DEF g, more
<1>4. /\ p \in Seq(Frame) /\ Len(p) = n + 1 /\ p[n + 1] = g
      /\ \A i \in 1 .. n : p[i] = s[i] /\ s[i] \in Frame
  <2>1. \A i \in 1 .. n : s[i] \in Frame
    BY <1>1
  <2> QED
    BY <1>1, <1>2, <2>1, AppendProperties
<1> HIDE DEF p
<1>5. ASSUME NEW i \in 1 .. n
      PROVE  /\ ToSet(s[i].rest) \subseteq ToSet(Template[s[i].fragment])
             /\ IF i = 1 THEN s[i].alt = << >>
                ELSE ToSet(s[i].alt) \subseteq ToSet(Template[s[i - 1].fragment])
             /\ ToSet(Stylesheets[s[i].fragment]) \subseteq ToSet(sheets)
             /\ i # 1 => MayInclude(ps, s[i - 1].fragment, s[i].fragment)
  BY Zenon DEF GoodStack
<1>6. ASSUME NEW i \in 1 .. n + 1
      PROVE  /\ ToSet(p[i].rest) \subseteq ToSet(Template[p[i].fragment])
             /\ IF i = 1 THEN p[i].alt = << >>
                ELSE ToSet(p[i].alt) \subseteq ToSet(Template[p[i - 1].fragment])
             /\ ToSet(Stylesheets[p[i].fragment]) \subseteq ToSet(more)
             /\ i # 1 => MayInclude(ps, p[i - 1].fragment, p[i].fragment)
  <2>1. CASE i \in 1 .. n
    <3>1. i = 1 \/ i - 1 \in 1 .. n
      BY <1>1, <2>1
    <3>2. p[i] = s[i] /\ (i # 1 => p[i - 1] = s[i - 1])
      BY <1>4, <2>1, <3>1
    <3> QED
      BY <1>3, <1>5, <2>1, <3>2
  <2>2. CASE i = n + 1
    <3>1. /\ ToSet(p[i].rest) \subseteq ToSet(Template[p[i].fragment])
          /\ ToSet(Stylesheets[p[i].fragment]) \subseteq ToSet(more)
      BY <1>2, <1>3, <1>4, <2>2
    <3>2. CASE s = << >>
      BY <1>1, <1>2, <1>4, <2>2, <3>1, <3>2
    <3>3. CASE s # << >>
      <4>1. n \in 1 .. n /\ i # 1 /\ i - 1 = n
        BY <1>1, <2>2, <3>3
      <4> QED
        BY <1>2, <1>4, <2>2, <3>1, <3>3, <4>1
    <3> QED
      BY <3>2, <3>3
  <2> QED
    BY <1>1, <2>1, <2>2
<1>7. GoodStack(p, more, ps)
  BY <1>4, <1>6, Zenon DEF GoodStack
<1> QED
  BY <1>7 DEF p, g, more

LEMMA PopIsGood ==
    ASSUME NEW s, NEW sheets, NEW ps, GoodStack(s, sheets, ps), s # << >>
    PROVE  GoodStack(Front(s), sheets, ps)
<1> DEFINE p == Front(s)
           n == Len(s)
<1>1. s \in Seq(Frame) /\ n \in Nat /\ n > 0
  BY EmptySeq DEF GoodStack
<1>2. p \in Seq(Frame) /\ Len(p) = n - 1 /\ \A i \in 1 .. n - 1 : p[i] = s[i]
  <2>1. \A i \in 1 .. n : s[i] \in Frame
    BY <1>1
  <2>3. n - 1 \in Int /\ 1 \in Int /\ \A i \in 1 .. n - 1 : s[i] \in Frame
    BY <1>1, <2>1
  <2> DEFINE m == n - 1
  <2> HIDE DEF m
  <2>4. /\ SubSeq(s, 1, m) \in Seq(Frame)
        /\ Len(SubSeq(s, 1, m)) = IF 1 <= m THEN m - 1 + 1 ELSE 0
        /\ \A i \in 1 .. m - 1 + 1 : SubSeq(s, 1, m)[i] = s[1 + i - 1]
    BY <2>3, SubSeqProperties DEF m
  <2>5. m \in Nat /\ m = n - 1 /\ p = SubSeq(s, 1, m)
    BY <1>1 DEF m, Front
  <2> HIDE DEF p
  <2>6. Len(p) = m /\ \A i \in 1 .. m : p[i] = s[i]
    BY <2>4, <2>5
  <2> QED
    BY <2>4, <2>5, <2>6, Zenon
<1> HIDE DEF p
<1>3. ASSUME NEW i \in 1 .. n
      PROVE  /\ ToSet(s[i].rest) \subseteq ToSet(Template[s[i].fragment])
             /\ IF i = 1 THEN s[i].alt = << >>
                ELSE ToSet(s[i].alt) \subseteq ToSet(Template[s[i - 1].fragment])
             /\ ToSet(Stylesheets[s[i].fragment]) \subseteq ToSet(sheets)
             /\ i # 1 => MayInclude(ps, s[i - 1].fragment, s[i].fragment)
  BY Zenon DEF GoodStack
<1>4. ASSUME NEW i \in 1 .. Len(p)
      PROVE  /\ ToSet(p[i].rest) \subseteq ToSet(Template[p[i].fragment])
             /\ IF i = 1 THEN p[i].alt = << >>
                ELSE ToSet(p[i].alt) \subseteq ToSet(Template[p[i - 1].fragment])
             /\ ToSet(Stylesheets[p[i].fragment]) \subseteq ToSet(sheets)
             /\ i # 1 => MayInclude(ps, p[i - 1].fragment, p[i].fragment)
  <2>1. i \in 1 .. n /\ p[i] = s[i] /\ (i # 1 => p[i - 1] = s[i - 1])
    BY <1>1, <1>2
  <2> QED
    BY <1>3, <2>1
<1>5. GoodStack(p, sheets, ps)
  BY <1>2, <1>4, Zenon DEF GoodStack
<1> QED
  BY <1>5 DEF p

-----------------------------------------------------------------------------
(* What the parts of a step keep.                                          *)

LEMMA EmptyStackIsGood ==
    ASSUME NEW sheets, NEW ps
    PROVE  GoodStack(<< >>, sheets, ps)
  BY DEF GoodStack

\* A template that is being executed.
LEMMA TopOfStack ==
    ASSUME MergeIsSound, stack # << >>
    PROVE  /\ Len(stack) > 0 /\ Len(stack) \in Nat /\ Top = stack[Len(stack)]
           /\ Top \in Frame
           /\ ToSet(Top.rest) \subseteq ToSet(Template[Top.fragment])
           /\ ToSet(Stylesheets[Top.fragment]) \subseteq ToSet(stylesheets)
           /\ stage # "done" /\ stylesheets \in Sheets /\ TextIsStyled
<1>1. stack \in Seq(Frame) /\ stage # "done" /\ stylesheets \in Sheets
      /\ TextIsStyled /\ FramesAreParts /\ FramesAreStyled
  BY DEF MergeIsSound, TypeOK, Sheets, Sheet
<1>2. Len(stack) > 0 /\ Len(stack) \in Nat /\ Len(stack) \in DOMAIN stack
  BY <1>1, EmptySeq
<1>3. Top = stack[Len(stack)] /\ Top \in Frame
  BY <1>1, <1>2 DEF Top, Last
<1> QED
  BY <1>1, <1>2, <1>3 DEF FramesAreParts, FramesAreStyled

LEMMA NameIsRegistered ==
    ASSUME MergeIsSound, NEW n, Exists(n)
    PROVE  /\ GetBodyFragmentByName(n) \in Fragments
           /\ \E m \in LookUps(n), page \in ToSet(pages) :
                 GetBodyFragmentByName(n) \in Registers(page, m)
<1>1. PICK m \in LookUps(n) : m \in DOMAIN Body
  BY DEF Exists
<1>2. \E k \in LookUps(n) : k \in DOMAIN Body /\ GetBodyFragmentByName(n) = Body[k]
  <2>1. CASE n \in DOMAIN Body
    BY <2>1 DEF GetBodyFragmentByName, LookUps
  <2>2. CASE /\ n \notin DOMAIN Body
             /\ n # << >> /\ Last(n) = Separator /\ Front(n) \in DOMAIN Body
    BY <2>2 DEF GetBodyFragmentByName, LookUps
  <2>3. CASE /\ n \notin DOMAIN Body
             /\ ~(n # << >> /\ Last(n) = Separator /\ Front(n) \in DOMAIN Body)
    <3>1. m = LocalName(n) /\ GetBodyFragmentByName(n) = Body[LocalName(n)]
      BY <1>1, <2>3, Zenon DEF GetBodyFragmentByName, LookUps
    <3> QED
      BY <1>1, <3>1
  <2> QED
    BY <2>1, <2>2, <2>3
<1> QED
  BY <1>2 DEF MergeIsSound, TypeOK, FragmentsAreRegistered

LEMMA IncludeIsNamed ==
    ASSUME MergeIsSound, NEW f \in Fragments, NEW t \in ToSet(Template[f]),
           t.kind \in {"include", "block"}, Exists(t.name)
    PROVE  MayInclude(pages, f, GetBodyFragmentByName(t.name))
  BY NameIsRegistered, Zenon DEF MayInclude

LEMMA WriteKeeps ==
    ASSUME MergeIsSound, TextIsStyled, NEW tokens \in Seq(Token), NEW f \in Fragments,
           Write(tokens), stylesheets' = stylesheets,
           \/ tokens = << >>
           \/ /\ ToSet(tokens) \subseteq ToSet(Template[f])
              /\ ToSet(Stylesheets[f]) \subseteq ToSet(stylesheets)
    PROVE  header' \in Seq(Token) /\ body' \in Seq(Token) /\ TextIsStyled'
<1>1. header \in Seq(Token) /\ body \in Seq(Token)
  BY DEF MergeIsSound, TypeOK
<1>2. ASSUME NEW old \in Seq(Token)
      PROVE  /\ old \o tokens \in Seq(Token)
             /\ ToSet(old \o tokens) = ToSet(old) \cup ToSet(tokens)
  BY <1>2, ConcatToSet
<1>3. /\ header' \in Seq(Token) /\ body' \in Seq(Token)
      /\ ToSet(header') \cup ToSet(body')
            \subseteq ToSet(header) \cup ToSet(body) \cup ToSet(tokens)
  BY <1>1, <1>2 DEF Write
<1>4. ASSUME NEW t \in ToSet(tokens)
      PROVE  /\ t \in ToSet(Template[f])
             /\ ToSet(Stylesheets[f]) \subseteq ToSet(stylesheets)
  BY EmptyToSet
<1>5. TextIsStyled'
  BY <1>3, <1>4, Zenon DEF TextIsStyled
<1> QED
  BY <1>3, <1>5

LEMMA CollectingKeepsTextStyled ==
    ASSUME TextIsStyled, UNCHANGED buffers,
           ToSet(stylesheets) \subseteq ToSet(stylesheets)'
    PROVE  TextIsStyled'
  BY Zenon DEF TextIsStyled, buffers

LEMMA ExecuteKeeps ==
    ASSUME MergeIsSound, TextIsStyled, stylesheets \in Sheets, UNCHANGED buffers,
           NEW ps, NEW s, GoodStack(s, stylesheets, ps),
           NEW f \in Fragments, NEW optional \in BOOLEAN, NEW alt \in Seq(Token),
           IF s = << >> THEN alt = << >>
           ELSE /\ ToSet(alt) \subseteq ToSet(Template[s[Len(s)].fragment])
                /\ MayInclude(ps, s[Len(s)].fragment, f),
           ExecuteFragment(s, f, optional, alt)
    PROVE  /\ GoodStack(stack', stylesheets', ps) /\ stylesheets' \in Sheets
           /\ TextIsStyled'
<1>1. GoodStack(stack', stylesheets', ps)
  BY PushIsGood DEF ExecuteFragment
<1>2. Stylesheets[f] \in Sheets
  BY TemplateAssumption DEF Sheets, Sheet
<1>3. /\ stylesheets' \in Sheets
      /\ ToSet(stylesheets)' = ToSet(stylesheets) \cup ToSet(Stylesheets[f])
  BY <1>2, ConcatToSet DEF ExecuteFragment, Sheets
<1>4. TextIsStyled'
  BY <1>3, CollectingKeepsTextStyled
<1> QED
  BY <1>1, <1>3, <1>4
-----------------------------------------------------------------------------
(* The simple strategy, stylesheet by stylesheet.                          *)

AreDistinct(s) == \A i, j \in DOMAIN s : s[i].href = s[j].href => i = j

LEMMA HrefsOf ==
    ASSUME NEW s \in Sheets
    PROVE  /\ \A i \in DOMAIN s : s[i].href \in Hrefs(s) \cup {NoHref}
           /\ \A h \in Hrefs(s) : h # NoHref /\ \E i \in DOMAIN s : s[i].href = h
  BY Zenon DEF Hrefs, ToSet

LEMMA WithUnknownKeeps ==
    ASSUME NEW r \in Sheets, NEW sheet \in Sheet, AreDistinct(r)
    PROVE  /\ WithUnknown(r, sheet) \in Sheets /\ AreDistinct(WithUnknown(r, sheet))
           /\ Hrefs(r) \cup {sheet.href} \subseteq
                 Hrefs(WithUnknown(r, sheet)) \cup {NoHref}
<1>1. CASE sheet.href \in Hrefs(r) \cup {NoHref}
  BY <1>1 DEF WithUnknown
<1>2. CASE sheet.href \notin Hrefs(r) \cup {NoHref}
  <2> DEFINE w == Append(r, sheet)
  <2>1. /\ w \in Sheets /\ Len(r) \in Nat /\ DOMAIN w = 1 .. Len(r) + 1
        /\ DOMAIN r = 1 .. Len(r) /\ \A i \in DOMAIN r : w[i] = r[i]
        /\ w[Len(r) + 1] = sheet
    BY AppendProperties DEF Sheets
  <2>2. WithUnknown(r, sheet) = w
    BY <1>2 DEF WithUnknown
  <2> HIDE DEF w
  <2>3. \A i \in DOMAIN r : w[i].href # sheet.href /\ i \in DOMAIN w
    BY <1>2, <2>1, HrefsOf
  <2>4. \A i \in DOMAIN w : i \in DOMAIN r \/ i = Len(r) + 1
    BY <2>1
  <2>5. AreDistinct(w)
    BY <2>1, <2>3, <2>4 DEF AreDistinct
  <2>6. sheet.href \in Hrefs(w) \cup {NoHref}
    <3>1. Len(r) + 1 \in DOMAIN w
      BY <2>1
    <3> QED
      BY <2>1, <3>1, HrefsOf
  <2>7. ASSUME NEW h \in Hrefs(r) PROVE h \in Hrefs(w) \cup {NoHref}
    <3>1. PICK i \in DOMAIN r : r[i].href = h
      BY HrefsOf
    <3> QED
      BY <2>1, <2>3, <3>1, HrefsOf
  <2> QED
    BY <2>1, <2>2, <2>5, <2>6, <2>7
<1> QED
  BY <1>1, <1>2

LEMMA DeduplicateKeepsHrefs ==
    ASSUME NEW s \in Sheets
    PROVE  /\ Deduplicate(s) \in Sheets /\ AreDistinct(Deduplicate(s))
           /\ Hrefs(s) \subseteq Hrefs(Deduplicate(s))
<1> DEFINE N == Len(s)
           Equals(f) == f = [n \in 0 .. Len(s) |->
                               IF n = 0 THEN << >> ELSE WithUnknown(f[n - 1], s[n])]
           F == CHOOSE f : Equals(f)
           D == {r \in Sheets : AreDistinct(r)}
           step == [n \in 1 .. N |-> [r \in D |-> WithUnknown(r, s[n])]]
<1>1. N \in Nat /\ DOMAIN s = 1 .. N /\ \A n \in 1 .. N : s[n] \in Sheet
  BY DEF Sheets
<1>2. \A n \in 1 .. N, r \in D :
         /\ WithUnknown(r, s[n]) \in D
         /\ Hrefs(r) \cup {s[n].href} \subseteq Hrefs(WithUnknown(r, s[n])) \cup {NoHref}
  BY <1>1, WithUnknownKeeps
<1>e. << >> \in D
  BY DEF AreDistinct, Sheets
<1>d. \A r \in D : r \in Sheets /\ AreDistinct(r)
  OBVIOUS
<1> HIDE DEF N, D
<1>3. \A n \in 1 .. N, r \in D :
         step[n][r] = WithUnknown(r, s[n]) /\ step[n][r] \in D
  BY <1>2
<1> HIDE DEF step
<1>4. PICK f : Iterates(f, N, D, << >>, step)
  BY <1>1, <1>3, <1>e, Iteration
<1>n. \A n \in 1 .. N : n \in 0 .. N /\ n - 1 \in 0 .. N /\ n # 0
  BY <1>1
<1>5. \A n \in 1 .. N : f[n] = WithUnknown(f[n - 1], s[n])
  BY <1>3, <1>4, <1>n DEF Iterates
<1>6. f = [n \in 0 .. N |-> IF n = 0 THEN << >> ELSE WithUnknown(f[n - 1], s[n])]
  <2>1. f = [n \in 0 .. N |-> f[n]] /\ f[0] = << >>
    BY <1>4 DEF Iterates
  <2>2. \A n \in 0 .. N : n = 0 \/ n \in 1 .. N
    BY <1>1
  <2> QED
    BY <1>5, <2>1, <2>2
<1>7. Equals(F)
  BY <1>6 DEF N
<1>8. Deduplicate(s) = F[N]
  BY DEF Deduplicate, N
<1>9. F = [n \in 0 .. N |-> IF n = 0 THEN << >> ELSE WithUnknown(F[n - 1], s[n])]
  BY <1>7 DEF N
<1> HIDE DEF F
<1>10. F[0] = << >> /\ \A n \in 1 .. N : F[n] = WithUnknown(F[n - 1], s[n])
  BY <1>1, <1>n, <1>9
<1> DEFINE Covers(n) == \A m \in 1 .. n : s[m].href \in Hrefs(F[n]) \cup {NoHref}
           T == {n \in 0 .. N : F[n] \in D /\ Covers(n)}
<1>11. 0 \in T
  BY <1>1, <1>10, <1>e
<1>12. ASSUME NEW n \in 0 .. N - 1, n \in T PROVE n + 1 \in T
  <2>1. /\ n + 1 \in 1 .. N /\ n + 1 \in 0 .. N /\ (n + 1) - 1 = n
        /\ \A m \in 1 .. n + 1 : m \in 1 .. n \/ m = n + 1
    BY <1>1
  <2>2. F[n + 1] = WithUnknown(F[n], s[n + 1])
    BY <1>10, <2>1
  <2>3. /\ F[n + 1] \in D
        /\ Hrefs(F[n]) \cup {s[n + 1].href} \subseteq Hrefs(F[n + 1]) \cup {NoHref}
    BY <1>2, <1>12, <2>1, <2>2
  <2>4. Covers(n + 1)
    BY <1>12, <2>1, <2>3
  <2> QED
    BY <2>1, <2>3, <2>4
<1> HIDE DEF T
<1>13. \A n \in 0 .. N : n \in T
  BY <1>1, <1>11, <1>12, BoundedInduction
<1>14. N \in T
  BY <1>1, <1>13
<1>15. F[N] \in D /\ Covers(N)
  BY <1>14 DEF T
<1>16. ASSUME NEW h \in Hrefs(s) PROVE h \in Hrefs(F[N])
  <2>1. PICK i \in 1 .. N : s[i].href = h /\ h # NoHref
    BY <1>1, HrefsOf
  <2> QED
    BY <1>15, <2>1
<1> QED
  BY <1>8, <1>15, <1>16, <1>d

LEMMA ContentStaysStyled ==
    ASSUME TextIsStyled, UNCHANGED buffers, stylesheets \in Sheets,
           stylesheets' = IF Simple THEN Deduplicate(stylesheets) ELSE stylesheets
    PROVE  StylesCoverContent' /\ stylesheets' \in Sheets
<1>1. /\ Hrefs(stylesheets) \subseteq Hrefs(stylesheets') /\ stylesheets' \in Sheets
      /\ Simple => AreDistinct(stylesheets')
  BY DeduplicateKeepsHrefs
<1>2. ASSUME NEW t \in ToSet(header') \cup ToSet(body')
      PROVE  \E f \in Fragments : /\ t \in ToSet(Template[f])
                                  /\ Hrefs(Stylesheets[f]) \subseteq Hrefs(stylesheets')
  <2>1. PICK f \in Fragments : /\ t \in ToSet(Template[f])
                               /\ ToSet(Stylesheets[f]) \subseteq ToSet(stylesheets)
    BY DEF TextIsStyled, buffers
  <2>2. Hrefs(Stylesheets[f]) \subseteq Hrefs(stylesheets)
    BY <2>1, Zenon DEF Hrefs
  <2> QED
    BY <1>1, <2>1, <2>2
<1> QED
  BY <1>1, <1>2, Zenon DEF StylesCoverContent, AreDistinct

-----------------------------------------------------------------------------
(* The inductive invariant.                                                *)

LEMMA InitIsGood ==
    Init => MergeIsSound
<1> SUFFICES ASSUME Init
             PROVE  MergeIsSound
  OBVIOUS
<1>1. pages \in Inputs /\ toAdd \in Seq(ToSet(pages))
  BY InputsAssumption DEF Init
<1>2. TypeOK
  <2>1. \A S : << >> \in Seq(S)
    OBVIOUS
  <2>2. \A n \in DOMAIN Body : Body[n] \in Fragments
    BY DEF Init
  <2> QED
    BY <1>1, <2>1, <2>2, Zenon DEF Init, TypeOK
<1>3. GoodStack(stack, stylesheets, pages) /\ stack \in Seq(Frame)
  BY EmptyStackIsGood DEF Init
<1>4. TextIsStyled
  BY EmptyToSet DEF Init, TextIsStyled
<1>5. FragmentsAreRegistered
  BY DEF Init, FragmentsAreRegistered
<1> QED
  BY <1>2, <1>3, <1>4, <1>5, StackInvariant DEF MergeIsSound, Init

\* What a step that only touches the stack and the buffers has to show.
LEMMA ExecutingKeeps ==
    ASSUME MergeIsSound, UNCHANGED <<input, stage, heads, Body, tails>>, stage # "done",
           failing' \in BOOLEAN, header' \in Seq(Token), body' \in Seq(Token),
           stylesheets' \in Sheets,
           GoodStack(stack', stylesheets', pages), TextIsStyled'
    PROVE  MergeIsSound'
<1>1. TypeOK'
  BY DEF MergeIsSound, TypeOK, input, GoodStack, Sheets, Sheet
<1>2. FragmentsAreRegistered'
  BY DEF MergeIsSound, FragmentsAreRegistered, input
<1>3. stack' \in Seq(Frame)
  BY DEF GoodStack
<1>4. (FramesAreParts /\ FramesAreStyled /\ IncludesNest)'
  <2>1. (stack \in Seq(Frame) =>
           (FramesAreParts /\ FramesAreStyled /\ IncludesNest
              <=> GoodStack(stack, stylesheets, pages)))'
    BY StackInvariant, PTL
  <2>2. GoodStack(stack, stylesheets, pages)'
    BY DEF input
  <2> QED
    BY <1>3, <2>1, <2>2
<1> QED
  BY <1>1, <1>2, <1>4 DEF MergeIsSound

LEMMA WriteTextKeeps ==
    ASSUME MergeIsSound, WriteText
    PROVE  MergeIsSound'
<1> USE DEF WriteText, Running
<1>1. /\ stack # << >> /\ Top \in Frame /\ Top = Last(stack) /\ Top.rest # << >>
      /\ stage # "done" /\ stylesheets \in Sheets /\ TextIsStyled
      /\ ToSet(Top.rest) \subseteq ToSet(Template[Top.fragment])
      /\ ToSet(Stylesheets[Top.fragment]) \subseteq ToSet(stylesheets)
      /\ Top.rest \in Seq(Token) /\ Top.fragment \in Fragments
      /\ GoodStack(stack, stylesheets, pages)
  BY TopOfStack, FrameType, StackInvariant DEF MergeIsSound, TypeOK, Top
<1>2. /\ Tail(Top.rest) \in Seq(Token) /\ Head(Top.rest) \in Token
      /\ ToSet(Tail(Top.rest)) \subseteq ToSet(Top.rest)
      /\ Head(Top.rest) \in ToSet(Top.rest)
  BY <1>1, TailToSet
<1>3. GoodStack(stack', stylesheets', pages)
  BY <1>1, <1>2, ReturningIsGood DEF Returning
<1>4. <<Head(Top.rest)>> \in Seq(Token) /\ ToSet(<<Head(Top.rest)>>) = {Head(Top.rest)}
  BY <1>2 DEF ToSet
<1>5. header' \in Seq(Token) /\ body' \in Seq(Token) /\ TextIsStyled'
  BY <1>1, <1>2, <1>4, WriteKeeps
<1> QED
  BY <1>1, <1>3, <1>5, ExecutingKeeps DEF MergeIsSound, TypeOK
LEMMA SkipEndKeeps ==
    ASSUME MergeIsSound, SkipEnd
    PROVE  MergeIsSound'
<1> USE DEF SkipEnd, Running
<1>1. /\ stack # << >> /\ Top \in Frame /\ Top = Last(stack) /\ Top.rest # << >>
      /\ stage # "done" /\ stylesheets \in Sheets /\ TextIsStyled
      /\ Top.rest \in Seq(Token)
      /\ GoodStack(stack, stylesheets, pages)
  BY TopOfStack, FrameType, StackInvariant DEF MergeIsSound, TypeOK, Top
<1>2. /\ Tail(Top.rest) \in Seq(Token)
      /\ ToSet(Tail(Top.rest)) \subseteq ToSet(Top.rest)
  BY <1>1, TailToSet
<1>3. GoodStack(stack', stylesheets', pages)
  BY <1>1, <1>2, ReturningIsGood DEF Returning
<1>4. TextIsStyled'
  BY <1>1, CollectingKeepsTextStyled
<1> QED
  BY <1>1, <1>3, <1>4, ExecutingKeeps DEF MergeIsSound, TypeOK, buffers

LEMMA ParsingFailsKeeps ==
    ASSUME MergeIsSound, ParsingFails
    PROVE  MergeIsSound'
<1> USE DEF ParsingFails, Running
<1>1. /\ stage # "done" /\ stylesheets \in Sheets /\ TextIsStyled
      /\ GoodStack(stack, stylesheets, pages)
  BY TopOfStack, StackInvariant DEF MergeIsSound, TypeOK
<1>2. TextIsStyled'
  BY <1>1, CollectingKeepsTextStyled
<1> QED
  BY <1>1, <1>2, ExecutingKeeps DEF MergeIsSound, TypeOK, buffers

LEMMA TemplateEndsKeeps ==
    ASSUME MergeIsSound, TemplateEnds
    PROVE  MergeIsSound'
<1> USE DEF TemplateEnds, Running
<1>1. /\ stack # << >> /\ stage # "done" /\ stylesheets \in Sheets /\ TextIsStyled
      /\ GoodStack(stack, stylesheets, pages)
  BY TopOfStack, StackInvariant DEF MergeIsSound, TypeOK
<1>2. GoodStack(stack', stylesheets', pages)
  BY <1>1, PopIsGood
<1>3. TextIsStyled'
  BY <1>1, CollectingKeepsTextStyled
<1> QED
  BY <1>1, <1>2, <1>3, ExecutingKeeps DEF MergeIsSound, TypeOK, buffers

LEMMA ReturnErrorKeeps ==
    ASSUME MergeIsSound, ReturnError
    PROVE  MergeIsSound'
<1> USE DEF ReturnError
<1> DEFINE n == Len(stack)
<1>1. /\ stack # << >> /\ stage # "done" /\ stylesheets \in Sheets /\ TextIsStyled
      /\ GoodStack(stack, stylesheets, pages) /\ n > 0 /\ n \in Nat
      /\ Top = stack[n] /\ Top \in Frame /\ stack \in Seq(Frame)
      /\ Top.alt \in Seq(Token) /\ Top.optional \in BOOLEAN
      /\ Top.fragment \in Fragments
  BY TopOfStack, StackInvariant, FrameType DEF MergeIsSound, TypeOK
<1>2. GoodStack(stack', stylesheets', pages)
  BY <1>1, PopIsGood
<1>3. \/ Top.alt = << >>
      \/ \E f \in Fragments :
           /\ ToSet(Top.alt) \subseteq ToSet(Template[f])
           /\ ToSet(Stylesheets[f]) \subseteq ToSet(stylesheets)
  <2>1. CASE n = 1
    BY <1>1, <2>1 DEF MergeIsSound, FramesAreParts
  <2>2. CASE n # 1
    <3>1. n \in DOMAIN stack /\ n - 1 \in DOMAIN stack
          /\ stack[n - 1] \in Frame
      <4>1. n \in 1 .. n /\ n - 1 \in 1 .. n
        <5>1. n > 0 /\ n \in Nat
          BY <1>1
        <5> HIDE DEF n
        <5> QED
          BY <2>2, <5>1
      <4>2. DOMAIN stack = 1 .. n /\ \A i \in 1 .. n : stack[i] \in Frame
        BY <1>1
      <4> QED
        BY <4>1, <4>2
    <3>2. stack[n - 1].fragment \in Fragments
      BY <3>1, FrameType
    <3>3. ToSet(Top.alt) \subseteq ToSet(Template[stack[n - 1].fragment])
      BY <1>1, <2>2, <3>1 DEF MergeIsSound, FramesAreParts
    <3>4. ToSet(Stylesheets[stack[n - 1].fragment]) \subseteq ToSet(stylesheets)
      BY <3>1 DEF MergeIsSound, FramesAreStyled
    <3> QED
      BY <3>2, <3>3, <3>4
  <2> QED
    BY <2>1, <2>2
<1>4. header' \in Seq(Token) /\ body' \in Seq(Token) /\ TextIsStyled'
  <2>1. CASE Top.optional
    BY <1>1, <1>3, <2>1, WriteKeeps
  <2>2. CASE ~Top.optional
    BY <1>1, <2>2, CollectingKeepsTextStyled DEF buffers, MergeIsSound, TypeOK
  <2> QED
    BY <2>1, <2>2
<1> QED
  BY <1>1, <1>2, <1>4, ExecutingKeeps DEF MergeIsSound, TypeOK

LEMMA IncludeFragmentKeeps ==
    ASSUME MergeIsSound, IncludeFragment
    PROVE  MergeIsSound'
<1> USE DEF IncludeFragment, Running
<1> DEFINE t == Head(Top.rest)
           s == Returning(Tail(Top.rest))
<1>1. /\ stack # << >> /\ Top \in Frame /\ Top = Last(stack) /\ Top.rest # << >>
      /\ stage # "done" /\ stylesheets \in Sheets /\ TextIsStyled
      /\ ToSet(Top.rest) \subseteq ToSet(Template[Top.fragment])
      /\ Top.rest \in Seq(Token) /\ Top.fragment \in Fragments
      /\ GoodStack(stack, stylesheets, pages) /\ Top = stack[Len(stack)]
  BY TopOfStack, FrameType, StackInvariant DEF MergeIsSound, TypeOK, Top
<1>2. /\ Tail(Top.rest) \in Seq(Token)
      /\ ToSet(Tail(Top.rest)) \subseteq ToSet(Top.rest)
      /\ t \in ToSet(Template[Top.fragment])
  BY <1>1, TailToSet
<1>3. /\ GoodStack(s, stylesheets, pages) /\ Len(s) > 0
      /\ s[Len(s)].fragment = Top.fragment
  BY <1>1, <1>2, ReturningIsGood DEF Returning
<1>4. CASE Exists(t.name)
  <2> DEFINE f == GetBodyFragmentByName(t.name)
  <2>1. f \in Fragments /\ MayInclude(pages, Top.fragment, f)
    BY <1>1, <1>2, <1>4, NameIsRegistered, IncludeIsNamed
  <2>2. << >> \in Seq(Token) /\ ToSet(<< >>) = {} /\ s # << >>
    BY <1>3, EmptyToSet
  <2>3. ExecuteFragment(s, f, FALSE, << >>) /\ UNCHANGED buffers /\ UNCHANGED failing
    BY <1>4
  <2>4. /\ GoodStack(stack', stylesheets', pages) /\ stylesheets' \in Sheets
        /\ TextIsStyled'
    BY <1>1, <1>3, <2>1, <2>2, <2>3, ExecuteKeeps
  <2> QED
    BY <1>1, <2>3, <2>4, ExecutingKeeps DEF MergeIsSound, TypeOK, buffers
<1>5. CASE ~Exists(t.name)
  <2>1. TextIsStyled'
    BY <1>1, <1>5, CollectingKeepsTextStyled
  <2> QED
    BY <1>1, <1>5, <2>1, ExecutingKeeps DEF MergeIsSound, TypeOK, buffers
<1> QED
  BY <1>4, <1>5
LEMMA IncludeBlockKeeps ==
    ASSUME MergeIsSound, IncludeBlock
    PROVE  MergeIsSound'
<1> USE DEF Running
<1> DEFINE t    == Head(Top.rest)
           rest == Top.rest
           end  == EndOfBlock(rest)
           alt  == SubSeq(rest, 2, end - 1)
           next == Returning(SubSeq(rest, end + 1, Len(rest)))
<1>1. /\ stack # << >> /\ Top \in Frame /\ Top = Last(stack) /\ rest # << >>
      /\ stage # "done" /\ stylesheets \in Sheets /\ TextIsStyled
      /\ ToSet(rest) \subseteq ToSet(Template[Top.fragment])
      /\ ToSet(Stylesheets[Top.fragment]) \subseteq ToSet(stylesheets)
      /\ rest \in Seq(Token) /\ Top.fragment \in Fragments
      /\ GoodStack(stack, stylesheets, pages) /\ Top = stack[Len(stack)]
  BY TopOfStack, FrameType, StackInvariant DEF MergeIsSound, TypeOK, Top, IncludeBlock
<1>2. t.kind = "block" /\ End(t.name) \in ToSet(rest)
  BY DEF IncludeBlock
<1>3. end \in 1 .. Len(rest)
  <2>1. \E i \in DOMAIN rest : /\ rest[i] = End(t.name)
                               /\ \A j \in DOMAIN rest : j < i => rest[j] # rest[i]
    BY <1>1, <1>2, FirstOccurrence
  <2>2. end \in DOMAIN rest
    BY <2>1, Zenon DEF EndOfBlock
  <2> QED
    BY <1>1, <2>2
<1>4. /\ alt \in Seq(Token) /\ ToSet(alt) \subseteq ToSet(rest)
      /\ SubSeq(rest, end + 1, Len(rest)) \in Seq(Token)
      /\ ToSet(SubSeq(rest, end + 1, Len(rest))) \subseteq ToSet(rest)
  <2>1. /\ 2 \in Nat \ {0} /\ end - 1 \in Int /\ end - 1 <= Len(rest)
        /\ end + 1 \in Nat \ {0} /\ Len(rest) \in Int /\ Len(rest) <= Len(rest)
    BY <1>1, <1>3
  <2> HIDE DEF end
  <2> QED
    BY <1>1, <2>1, SubSeqToSet
<1>5. /\ GoodStack(next, stylesheets, pages) /\ Len(next) > 0
      /\ next[Len(next)].fragment = Top.fragment
  BY <1>1, <1>4, ReturningIsGood DEF Returning
<1>6. t \in ToSet(Template[Top.fragment])
  BY <1>1, TailToSet
<1>7. /\ UNCHANGED <<input, stage, heads, Body, tails, failing>>
      /\ IF Exists(t.name)
         THEN /\ ExecuteFragment(next, GetBodyFragmentByName(t.name), TRUE, alt)
              /\ UNCHANGED buffers
         ELSE stack' = next /\ Write(alt) /\ UNCHANGED stylesheets
  BY DEF IncludeBlock
<1>8. failing' \in BOOLEAN /\ header \in Seq(Token) /\ body \in Seq(Token)
  BY <1>7 DEF MergeIsSound, TypeOK
<1>9. UNCHANGED <<input, stage, heads, Body, tails>>
  BY <1>7
<1> HIDE DEF t, alt, next, rest, end
<1>10. CASE Exists(t.name)
  <2> DEFINE f == GetBodyFragmentByName(t.name)
  <2>1. f \in Fragments /\ MayInclude(pages, Top.fragment, f)
    BY <1>1, <1>2, <1>6, <1>10, NameIsRegistered, IncludeIsNamed
  <2>2. next # << >>
    BY <1>5
  <2>3. ExecuteFragment(next, f, TRUE, alt) /\ UNCHANGED buffers
    BY <1>7, <1>10
  <2>4. ToSet(alt) \subseteq ToSet(Template[Top.fragment])
    BY <1>1, <1>4
  <2>5. /\ GoodStack(stack', stylesheets', pages) /\ stylesheets' \in Sheets
        /\ TextIsStyled'
    BY <1>1, <1>4, <1>5, <2>1, <2>2, <2>3, <2>4, ExecuteKeeps
  <2>6. header' \in Seq(Token) /\ body' \in Seq(Token)
    BY <1>8, <2>3 DEF buffers
  <2> QED
    BY <1>1, <1>8, <1>9, <2>5, <2>6, ExecutingKeeps
<1>11. CASE ~Exists(t.name)
  <2>1. stack' = next /\ Write(alt) /\ UNCHANGED stylesheets
    BY <1>7, <1>11
  <2>2. ToSet(alt) \subseteq ToSet(Template[Top.fragment])
    BY <1>1, <1>4
  <2>3. header' \in Seq(Token) /\ body' \in Seq(Token) /\ TextIsStyled'
    BY <1>1, <1>4, <2>1, <2>2, WriteKeeps
  <2> QED
    BY <1>1, <1>5, <1>8, <1>9, <2>1, <2>3, ExecutingKeeps
<1> QED
  BY <1>10, <1>11
LEMMA ExecuteStepKeeps ==
    ASSUME MergeIsSound, ExecuteStep
    PROVE  MergeIsSound'
  BY WriteTextKeeps, SkipEndKeeps, ParsingFailsKeeps, IncludeFragmentKeeps,
     IncludeBlockKeeps, TemplateEndsKeeps, ReturnErrorKeeps DEF ExecuteStep

LEMMA AppendedType ==
    ASSUME NEW s \in Seq(Fragments), NEW f \in Fragments \cup {NoFragment}
    PROVE  Appended(s, f) \in Seq(Fragments)
  BY DEF Appended

LEMMA AddContentKeeps ==
    ASSUME MergeIsSound, AddContent
    PROVE  MergeIsSound'
<1> DEFINE page == Head(toAdd)
<1>1. /\ toAdd \in Seq(ToSet(pages)) /\ toAdd # << >> /\ pages \in Inputs
      /\ heads \in Seq(Fragments) /\ tails \in Seq(Fragments)
  BY DEF MergeIsSound, TypeOK, AddContent
<1>2. Tail(toAdd) \in Seq(ToSet(pages)) /\ page \in ToSet(pages)
  BY <1>1, HeadTailProperties
<1>3. /\ {page.head, page.tail} \subseteq Fragments \cup {NoFragment}
      /\ Range(page.body) \subseteq Fragments
  BY <1>1, <1>2, InputsAssumption
<1>4. PICK f \in [Names(page) -> Range(page.body)] :
         /\ \A n \in Names(page) : f[n] \in Registers(page, n)
         /\ Body' = [n \in DOMAIN Body \cup Names(page) |->
                       IF n \in Names(page) THEN f[n] ELSE Body[n]]
  BY DEF AddContent, addBody
<1>5. heads' \in Seq(Fragments) /\ tails' \in Seq(Fragments)
  BY <1>1, <1>3, AppendedType DEF AddContent
<1>6. UNCHANGED <<pages, stage, stack, failing, buffers, stylesheets>>
      /\ toAdd' = Tail(toAdd)
  BY DEF AddContent
<1> HIDE DEF page
<1>7. \A n \in DOMAIN Body' :
         /\ Body'[n] \in Fragments
         /\ \E p \in ToSet(pages) : Body'[n] \in Registers(p, n)
  <2>1. SUFFICES ASSUME NEW n \in DOMAIN Body'
                 PROVE  /\ Body'[n] \in Fragments
                        /\ \E p \in ToSet(pages) : Body'[n] \in Registers(p, n)
    OBVIOUS
  <2>2. CASE n \in Names(page)
    BY <1>2, <1>3, <1>4, <2>2
  <2>3. CASE n \notin Names(page)
    BY <1>4, <2>1, <2>3 DEF MergeIsSound, TypeOK, FragmentsAreRegistered
  <2> QED
    BY <2>2, <2>3
<1>8. TypeOK'
  BY <1>2, <1>5, <1>6, <1>7 DEF MergeIsSound, TypeOK, buffers
<1>9. FragmentsAreRegistered'
  BY <1>6, <1>7 DEF FragmentsAreRegistered
<1>10. (FramesAreParts /\ FramesAreStyled /\ IncludesNest)'
  BY <1>6 DEF MergeIsSound, FramesAreParts, FramesAreStyled, IncludesNest
<1>11. TextIsStyled' /\ stage' # "done"
  <2>1. TextIsStyled /\ stage' # "done"
    BY DEF MergeIsSound, AddContent
  <2> QED
    BY <1>6, <2>1, Zenon DEF TextIsStyled, buffers
<1> QED
  BY <1>6, <1>8, <1>9, <1>10, <1>11 DEF MergeIsSound

\* What a step of GetHtml has to show: it begins and ends between templates.
LEMMA GetHtmlKeeps ==
    ASSUME MergeIsSound, UNCHANGED <<input, Body, buffers>>,
           stage' \in {"head", "body", "tail", "failed"},
           failing' \in BOOLEAN, heads' \in Seq(Fragments), tails' \in Seq(Fragments),
           stylesheets' \in Sheets, GoodStack(stack', stylesheets', pages), TextIsStyled'
    PROVE  MergeIsSound'
<1>1. TypeOK'
  BY DEF MergeIsSound, TypeOK, input, buffers, GoodStack, Sheets, Sheet
<1>2. FragmentsAreRegistered'
  BY DEF MergeIsSound, FragmentsAreRegistered, input
<1>3. (FramesAreParts /\ FramesAreStyled /\ IncludesNest)'
  <2>1. (stack \in Seq(Frame) =>
           (FramesAreParts /\ FramesAreStyled /\ IncludesNest
              <=> GoodStack(stack, stylesheets, pages)))'
    BY StackInvariant, PTL
  <2>2. stack' \in Seq(Frame) /\ GoodStack(stack, stylesheets, pages)'
    BY DEF GoodStack, input
  <2> QED
    BY <2>1, <2>2
<1> QED
  BY <1>1, <1>2, <1>3 DEF MergeIsSound

\* The first fragment of a stack.
LEMMA StartKeeps ==
    ASSUME MergeIsSound, stage # "done", UNCHANGED buffers, NEW f \in Fragments,
           ExecuteFragment(<< >>, f, FALSE, << >>)
    PROVE  /\ GoodStack(stack', stylesheets', pages) /\ stylesheets' \in Sheets
           /\ TextIsStyled'
<1>1. TextIsStyled /\ stylesheets \in Sheets
  BY DEF MergeIsSound, TypeOK, Sheets, Sheet
<1>2. GoodStack(<< >>, stylesheets, pages) /\ << >> \in Seq(Token)
  BY EmptyStackIsGood
<1> QED
  BY <1>1, <1>2, ExecuteKeeps

LEMMA GetHtmlStepKeeps ==
    ASSUME MergeIsSound, GetHtmlStep
    PROVE  MergeIsSound'
<1>1. /\ heads \in Seq(Fragments) /\ tails \in Seq(Fragments)
      /\ failing \in BOOLEAN /\ stack \in Seq(Frame)
      /\ GoodStack(stack, stylesheets, pages)
      /\ stage # "done" => stylesheets \in Sheets /\ TextIsStyled
      /\ \A s \in Seq(Fragments) : s # << >> => Head(s) \in Fragments
                                               /\ Tail(s) \in Seq(Fragments)
  BY StackInvariant, HeadTailProperties DEF MergeIsSound, TypeOK, Sheets, Sheet
<1>2. CASE StartHtml
  <2>1. TextIsStyled' /\ stage # "done"
    BY <1>1, <1>2, CollectingKeepsTextStyled DEF StartHtml
  <2> QED
    BY <1>1, <1>2, <2>1, GetHtmlKeeps DEF StartHtml
<1>3. CASE NextHead
  <2>1. Head(heads) \in Fragments /\ Tail(heads) \in Seq(Fragments)
    BY <1>1, <1>3 DEF NextHead
  <2>2. /\ GoodStack(stack', stylesheets', pages) /\ stylesheets' \in Sheets
        /\ TextIsStyled'
    BY <1>3, <2>1, StartKeeps DEF NextHead
  <2> QED
    BY <1>1, <1>3, <2>1, <2>2, GetHtmlKeeps DEF NextHead
<1>4. CASE StartBody
  <2>1. CASE Exists(StartFragmentName)
    <3>1. GetBodyFragmentByName(StartFragmentName) \in Fragments
      BY <2>1, NameIsRegistered
    <3>2. /\ GoodStack(stack', stylesheets', pages) /\ stylesheets' \in Sheets
          /\ TextIsStyled'
      BY <1>4, <2>1, <3>1, StartKeeps DEF StartBody
    <3> QED
      BY <1>1, <1>4, <2>1, <3>2, GetHtmlKeeps DEF StartBody
  <2>2. CASE ~Exists(StartFragmentName)
    <3>1. TextIsStyled' /\ stylesheets' \in Sheets
      BY <1>1, <1>4, <2>2, CollectingKeepsTextStyled DEF StartBody
    <3> QED
      BY <1>1, <1>4, <2>2, <3>1, GetHtmlKeeps DEF StartBody
  <2> QED
    BY <2>1, <2>2
<1>5. CASE StartTails
  <2>1. TextIsStyled' /\ stage # "done"
    BY <1>1, <1>5, CollectingKeepsTextStyled DEF StartTails
  <2> QED
    BY <1>1, <1>5, <2>1, GetHtmlKeeps DEF StartTails
<1>6. CASE NextTail
  <2>1. Head(tails) \in Fragments /\ Tail(tails) \in Seq(Fragments)
    BY <1>1, <1>6 DEF NextTail
  <2>2. /\ GoodStack(stack', stylesheets', pages) /\ stylesheets' \in Sheets
        /\ TextIsStyled'
    BY <1>6, <2>1, StartKeeps DEF NextTail
  <2> QED
    BY <1>1, <1>6, <2>1, <2>2, GetHtmlKeeps DEF NextTail
<1>7. CASE WriteStylesheets
  <2>1. /\ stack = << >> /\ stage' = "done" /\ stage = "tail" /\ TextIsStyled
        /\ UNCHANGED <<input, heads, Body, tails, stack, failing, buffers>>
        /\ ~failing /\ stylesheets \in Sheets
        /\ stylesheets' = IF Simple THEN Deduplicate(stylesheets) ELSE stylesheets
    BY <1>1, <1>7 DEF WriteStylesheets, Idle
  <2>5. StylesCoverContent' /\ stylesheets' \in Sheets
    BY <2>1, ContentStaysStyled DEF buffers
  <2>2. TypeOK'
    BY <2>1, <2>5 DEF Sheets, Sheet, MergeIsSound, TypeOK, input, buffers
  <2>3. FragmentsAreRegistered'
    BY <2>1 DEF MergeIsSound, FragmentsAreRegistered, input
  <2>4. (FramesAreParts /\ FramesAreStyled /\ IncludesNest)'
    BY <2>1 DEF FramesAreParts, FramesAreStyled, IncludesNest
  <2> QED
    BY <2>1, <2>2, <2>3, <2>4, <2>5 DEF MergeIsSound
<1>8. CASE GetHtmlFails
  <2>1. stage # "done" /\ TextIsStyled'
    <3>1. stage # "done"
      BY <1>8 DEF GetHtmlFails, MergeIsSound
    <3> QED
      BY <1>1, <1>8, <3>1, CollectingKeepsTextStyled DEF GetHtmlFails
  <2> QED
    BY <1>1, <1>8, <2>1, GetHtmlKeeps DEF GetHtmlFails
<1> QED
  BY <1>2, <1>3, <1>4, <1>5, <1>6, <1>7, <1>8 DEF GetHtmlStep
-----------------------------------------------------------------------------
LEMMA MergeStaysSound ==
    ASSUME MergeIsSound, [Next]_vars
    PROVE  MergeIsSound'
<1>1. CASE Next /\ ~Merged
  BY <1>1, AddContentKeeps, ExecuteStepKeeps, GetHtmlStepKeeps DEF Next
<1>2. CASE UNCHANGED vars
  BY <1>2 DEF vars, input, buffers, MergeIsSound, TypeOK, FragmentsAreRegistered,
     FramesAreParts, FramesAreStyled, IncludesNest, TextIsStyled, StylesCoverContent
<1> QED
  BY <1>1, <1>2 DEF Merged

(* The part of the invariant that does not need the reference.             *)
LEMMA SoundInvariant == Spec => []MergeIsSound
<1>1. MergeIsSound /\ [Next]_vars => MergeIsSound'
  BY MergeStaysSound
<1> QED
  BY InitIsGood, <1>1, PTL DEF Spec

(* Every variable keeps its type.                                          *)
THEOREM TypeCorrect == Spec => []TypeOK
<1>1. MergeIsSound => TypeOK
  BY DEF MergeIsSound
<1> QED
  BY SoundInvariant, <1>1, PTL

(* The recursion of executeTemplate takes no step that is not an include   *)
(* of the pages; so it is no deeper than there are fragments, unless the   *)
(* pages' includes make a cycle, which is then on the stack.               *)
THEOREM RecursionIsBounded ==
    ASSUME IsFiniteSet(Fragments)
    PROVE  Spec => []DepthIsBounded
<1>1. MergeIsSound => DepthIsBounded
  <2> SUFFICES ASSUME MergeIsSound, Len(stack) > Cardinality(Fragments)
               PROVE  \E i, j \in DOMAIN stack :
                         i < j /\ stack[i].fragment = stack[j].fragment
    BY DEF MergeIsSound, DepthIsBounded
  <2> DEFINE n == Len(stack)
             f == [i \in 1 .. n |-> stack[i].fragment]
  <2>1. stack \in Seq(Frame) /\ n \in Nat /\ DOMAIN stack = 1 .. n
    BY DEF MergeIsSound, TypeOK
  <2>2. \A i \in 1 .. n : stack[i].fragment \in Fragments
    BY <2>1, FrameType
  <2>3. f \in [1 .. n -> Fragments]
    BY <2>2
  <2>4. IsFiniteSet(1 .. n) /\ Cardinality(1 .. n) = n
    <3>1. IsFiniteSet(1 .. n) /\ Cardinality(1 .. n) = IF 1 > n THEN 0 ELSE n - 1 + 1
      BY <2>1, FS_Interval
    <3> QED
      BY <2>1, <3>1
  <2> HIDE DEF f
  <2>5. PICK i \in 1 .. n, j \in 1 .. n : i # j /\ f[i] = f[j]
    BY <2>3, <2>4, FS_PigeonHole
  <2>6. stack[i].fragment = stack[j].fragment
    BY <2>5 DEF f
  <2> QED
    BY <2>1, <2>5, <2>6
<1> QED
  BY SoundInvariant, <1>1, PTL

(* Whatever is in the page has had the stylesheets of its fragment         *)
(* collected, since collectStylesheets is called before every Execute, on  *)
(* every path; and the simple strategy drops none but repeats.             *)
THEOREM ContentIsStyled == Spec => []StylesCoverContent
<1>1. MergeIsSound => StylesCoverContent
  <2> SUFFICES ASSUME MergeIsSound, stage # "done"
               PROVE  StylesCoverContent
    BY DEF MergeIsSound
  <2>1. TextIsStyled
    BY DEF MergeIsSound
  <2>2. ASSUME NEW f \in Fragments,
               ToSet(Stylesheets[f]) \subseteq ToSet(stylesheets)
        PROVE  Hrefs(Stylesheets[f]) \subseteq Hrefs(stylesheets)
    BY <2>2, Zenon DEF Hrefs
  <2> QED
    BY <2>1, <2>2, Zenon DEF StylesCoverContent, TextIsStyled
<1> QED
  BY SoundInvariant, <1>1, PTL

-----------------------------------------------------------------------------
(* Results, and what Agree says before and after a step.                   *)

LEMMA ResultFields ==
    ASSUME NEW r \in Results
    PROVE  r.ok \in BOOLEAN /\ r.out \in Seq(Token)
  BY DEF Results

LEMMA ResultType ==
    ASSUME NEW ok \in BOOLEAN, NEW out \in Seq(Token)
    PROVE  /\ Result(ok, out) \in Results
           /\ Result(ok, out).ok = ok /\ Result(ok, out).out = out
  BY DEF Result, Results

LEMMA NoTokens ==
    /\ << >> \in Seq(Token)
    /\ \A s \in Seq(Token) : s \o << >> = s /\ << >> \o s = s
  BY ConcatEmptySeq

LEMMA Associative ==
    ASSUME NEW s \in Seq(Token), NEW t \in Seq(Token), NEW u \in Seq(Token)
    PROVE  s \o (t \o u) = (s \o t) \o u
<1>1. PICK S : S = Token
  OBVIOUS
<1>2. s \in Seq(S) /\ t \in Seq(S) /\ u \in Seq(S)
  BY <1>1
<1>3. (s \o t) \o u = s \o (t \o u)
  BY <1>2, ConcatAssociative
<1> QED
  BY <1>3

LEMMA SuccessType ==
    /\ Success \in Results /\ Success.ok /\ Success.out = << >>
    /\ Failure \in Results /\ ~Failure.ok /\ Failure.out = << >>
  BY NoTokens, ResultType DEF Success, Failure

LEMMA ThenType ==
    ASSUME NEW r \in Results, NEW s \in Results
    PROVE  /\ Then(r, s) \in Results
           /\ ~r.ok => Then(r, s) = r
           /\ r.ok => Then(r, s).ok = s.ok /\ Then(r, s).out = r.out \o s.out
<1>1. s.ok \in BOOLEAN /\ r.out \o s.out \in Seq(Token)
  BY ResultFields, ConcatProperties
<1> QED
  BY <1>1, ResultType DEF Then

LEMMA OrType ==
    ASSUME NEW r \in Results, NEW alt \in Seq(Token)
    PROVE  /\ Or(r, alt) \in Results /\ Or(r, alt).ok
           /\ r.ok => Or(r, alt) = r
           /\ ~r.ok => Or(r, alt).out = r.out \o alt
<1>1. r.out \o alt \in Seq(Token)
  BY ResultFields, ConcatProperties
<1> QED
  BY <1>1, ResultType DEF Or

\* What has been written moves from the one to the other.
LEMMA Moves ==
    ASSUME NEW now \in Seq(Token), NEW tokens \in Seq(Token), NEW rest \in Results
    PROVE  /\ now \o tokens \in Seq(Token)
           /\ now \o (tokens \o rest.out) = (now \o tokens) \o rest.out
<1>1. rest.out \in Seq(Token)
  BY ResultFields
<1> QED
  BY <1>1, Associative, ConcatProperties

\* Something is written.
LEMMA AgreeWrite ==
    ASSUME NEW whole \in Results, NEW rest \in Results, NEW before \in Seq(Token),
           NEW now \in Seq(Token), NEW tokens \in Seq(Token),
           Agree(whole, before, now, Then(Result(TRUE, tokens), rest))
    PROVE  Agree(whole, before, now \o tokens, rest)
<1> DEFINE r == Result(TRUE, tokens)
<1>1. r \in Results /\ r.ok /\ r.out = tokens
  BY ResultType
<1> HIDE DEF r
<1>2. Then(r, rest).ok = rest.ok /\ Then(r, rest).out = tokens \o rest.out
  BY <1>1, ThenType
<1>3. now \o (tokens \o rest.out) = (now \o tokens) \o rest.out
  BY Moves
<1> QED
  BY <1>2, <1>3 DEF Agree, r

\* An included template has been executed.
LEMMA AgreeReturn ==
    ASSUME NEW whole \in Results, NEW r \in Results, NEW rest \in Results,
           NEW before \in Seq(Token), NEW middle \in Seq(Token),
           NEW now \in Seq(Token), Agree(r, middle, now, Success),
           Agree(whole, before, middle, Then(r, rest))
    PROVE  Agree(whole, before, now, rest) /\ r.ok
<1>1. r.ok /\ middle \o r.out = now
  BY SuccessType, NoTokens DEF Agree
<1>2. Then(r, rest).ok = rest.ok /\ Then(r, rest).out = r.out \o rest.out
  BY <1>1, ThenType
<1>3. middle \o (r.out \o rest.out) = (middle \o r.out) \o rest.out
  BY ResultFields, Moves
<1> QED
  BY <1>1, <1>2, <1>3 DEF Agree

\* An included template has failed, and was not optional.
LEMMA AgreeFail ==
    ASSUME NEW whole \in Results, NEW r \in Results, NEW rest \in Results,
           NEW before \in Seq(Token), NEW middle \in Seq(Token),
           NEW now \in Seq(Token), Agree(r, middle, now, Failure),
           Agree(whole, before, middle, Then(r, rest))
    PROVE  Agree(whole, before, now, Failure)
<1>1. ~r.ok /\ middle \o r.out = now \o << >>
  BY SuccessType DEF Agree
<1>2. Then(r, rest) = r
  BY <1>1, ThenType
<1>3. r.ok \in BOOLEAN /\ whole.ok \in BOOLEAN
  BY ResultFields
<1> QED
  BY <1>1, <1>2, <1>3, SuccessType DEF Agree

\* An included template has failed, and its alternative is written behind
\* what it has written.
LEMMA AgreeAlternative ==
    ASSUME NEW whole \in Results, NEW r \in Results, NEW rest \in Results,
           NEW before \in Seq(Token), NEW middle \in Seq(Token),
           NEW now \in Seq(Token), NEW alt \in Seq(Token),
           Agree(r, middle, now, Failure),
           Agree(whole, before, middle, Then(Or(r, alt), rest))
    PROVE  Agree(whole, before, now \o alt, rest)
<1>1. ~r.ok /\ middle \o r.out = now /\ r.out \in Seq(Token)
  BY SuccessType, NoTokens, ResultFields DEF Agree
<1> DEFINE s == Or(r, alt)
<1>2. s \in Results /\ s.ok /\ s.out = r.out \o alt
  BY <1>1, OrType
<1> HIDE DEF s
<1>3. Then(s, rest).ok = rest.ok /\ Then(s, rest).out = s.out \o rest.out
  BY <1>2, ThenType
<1>4. middle \o ((r.out \o alt) \o rest.out) = (now \o alt) \o rest.out
  <2>1. middle \o (r.out \o alt) = (middle \o r.out) \o alt
    BY <1>1, Associative
  <2>2. r.out \o alt \in Seq(Token)
    BY <1>1, ConcatProperties
  <2>3. middle \o ((r.out \o alt) \o rest.out)
           = (middle \o (r.out \o alt)) \o rest.out
    BY <2>2, Moves
  <2> QED
    BY <1>1, <2>1, <2>3
<1>5. middle \o (s.out \o rest.out) = (now \o alt) \o rest.out
  BY <1>2, <1>4
<1> QED
  BY <1>3, <1>5 DEF Agree, s

LEMMA AgreeReflexive ==
    ASSUME NEW r \in Results, NEW before
    PROVE  Agree(r, before, before, r)
  BY ResultFields DEF Agree

-----------------------------------------------------------------------------
(* The templates being executed, each with the place where it began.       *)

Chain(n, whole, rest, buf) ==
    \E start \in [0 .. n + 1 -> Prefixes(buf)] :
       /\ start[0] = << >> /\ start[n + 1] = buf
       /\ \A i \in 0 .. n : Agree(whole[i], start[i], start[i + 1], rest[i])

LEMMA PrefixesOf ==
    ASSUME NEW buf \in Seq(Token)
    PROVE  /\ Prefixes(buf) \subseteq Seq(Token)
           /\ << >> \in Prefixes(buf) /\ buf \in Prefixes(buf)
           /\ \A tokens \in Seq(Token) : Prefixes(buf) \subseteq Prefixes(buf \o tokens)
<1>1. \A l \in 0 .. Len(buf) : SubSeq(buf, 1, l) \in Seq(Token)
  BY SubSeqToSet
<1>2. SubSeq(buf, 1, 0) = << >> /\ SubSeq(buf, 1, Len(buf)) = buf
      /\ Len(buf) \in Nat
  BY SubSeqEmpty, SubSeqFull
<1>3. ASSUME NEW tokens \in Seq(Token), NEW l \in 0 .. Len(buf)
      PROVE  SubSeq(buf, 1, l) \in Prefixes(buf \o tokens)
  <2>1. Len(buf \o tokens) = Len(buf) + Len(tokens) /\ Len(tokens) \in Nat
        /\ Len(buf) \in Nat
    BY ConcatProperties
  <2>2. SubSeq(buf \o tokens, 1, l) = SubSeq(buf, 1, l)
    BY SubSeqOfConcat1
  <2>3. l \in 0 .. Len(buf \o tokens)
    BY <2>1
  <2> QED
    BY <2>2, <2>3 DEF Prefixes
<1>4. 0 \in 0 .. Len(buf) /\ Len(buf) \in 0 .. Len(buf)
  BY <1>2
<1> QED
  BY <1>1, <1>2, <1>3, <1>4 DEF Prefixes
\* The innermost template changes, and something is written.
LEMMA ChainEnds ==
    ASSUME NEW n \in Nat, NEW whole, NEW rest, NEW newWhole, NEW newRest,
           NEW buf \in Seq(Token), NEW tokens \in Seq(Token),
           Chain(n, whole, rest, buf),
           \A i \in 0 .. n - 1 : newWhole[i] = whole[i] /\ newRest[i] = rest[i],
           \A before \in Seq(Token) :
              Agree(whole[n], before, buf, rest[n]) =>
                 Agree(newWhole[n], before, buf \o tokens, newRest[n])
    PROVE  Chain(n, newWhole, newRest, buf \o tokens)
<1> DEFINE new == buf \o tokens
<1>1. PICK start \in [0 .. n + 1 -> Prefixes(buf)] :
         /\ start[0] = << >> /\ start[n + 1] = buf
         /\ \A i \in 0 .. n : Agree(whole[i], start[i], start[i + 1], rest[i])
  BY DEF Chain
<1>2. new \in Seq(Token) /\ Prefixes(buf) \subseteq Prefixes(new)
      /\ new \in Prefixes(new) /\ Prefixes(buf) \subseteq Seq(Token)
  <2>1. new \in Seq(Token)
    BY ConcatProperties
  <2> QED
    BY <2>1, PrefixesOf
<1> DEFINE s == [i \in 0 .. n + 1 |-> IF i = n + 1 THEN new ELSE start[i]]
<1>3. Agree(newWhole[n], start[n], new, newRest[n])
  <2>1. n \in 0 .. n /\ n \in 0 .. n + 1
    OBVIOUS
  <2>2. Agree(whole[n], start[n], buf, rest[n])
    BY <1>1, <2>1
  <2> QED
    BY <1>1, <1>2, <2>1, <2>2
<1> HIDE DEF new
<1>4. s \in [0 .. n + 1 -> Prefixes(new)] /\ s[0] = << >> /\ s[n + 1] = new
      /\ \A i \in 0 .. n : s[i] = start[i]
  BY <1>1, <1>2
<1> HIDE DEF s
<1>5. ASSUME NEW i \in 0 .. n
      PROVE  Agree(newWhole[i], s[i], s[i + 1], newRest[i])
  <2>1. CASE i = n
    BY <1>3, <1>4, <2>1
  <2>2. CASE i # n
    <3>1. i \in 0 .. n - 1 /\ i + 1 \in 0 .. n
      BY <2>2
    <3>2. Agree(whole[i], start[i], start[i + 1], rest[i])
      BY <1>1
    <3> QED
      BY <1>4, <3>1, <3>2
  <2> QED
    BY <2>1, <2>2
<1>6. Chain(n, newWhole, newRest, new)
  BY <1>4, <1>5 DEF Chain
<1> QED
  BY <1>6 DEF new

\* Another template is executed.
LEMMA ChainGrows ==
    ASSUME NEW n \in Nat, NEW m, m = n + 1, NEW whole, NEW rest, NEW newWhole, NEW newRest,
           NEW buf \in Seq(Token), Chain(n, whole, rest, buf),
           \A i \in 0 .. n : newWhole[i] = whole[i] /\ newRest[i] = rest[i],
           Agree(newWhole[m], buf, buf, newRest[m])
    PROVE  Chain(m, newWhole, newRest, buf)
<1>1. PICK start \in [0 .. n + 1 -> Prefixes(buf)] :
         /\ start[0] = << >> /\ start[n + 1] = buf
         /\ \A i \in 0 .. n : Agree(whole[i], start[i], start[i + 1], rest[i])
  BY DEF Chain
<1> DEFINE s == [i \in 0 .. (n + 1) + 1 |-> IF i = n + 2 THEN buf ELSE start[i]]
<1>2. /\ s \in [0 .. (n + 1) + 1 -> Prefixes(buf)] /\ s[0] = << >>
      /\ s[(n + 1) + 1] = buf /\ \A i \in 0 .. n + 1 : s[i] = start[i]
  BY <1>1, PrefixesOf
<1> HIDE DEF s
<1>3. ASSUME NEW i \in 0 .. n + 1
      PROVE  Agree(newWhole[i], s[i], s[i + 1], newRest[i])
  <2>1. CASE i = n + 1
    BY <1>1, <1>2, <2>1
  <2>2. CASE i # n + 1
    <3>1. i \in 0 .. n /\ i + 1 \in 0 .. n + 1
      BY <2>2
    <3>2. Agree(whole[i], start[i], start[i + 1], rest[i])
      BY <1>1, <3>1
    <3> QED
      BY <1>2, <3>1, <3>2
  <2> QED
    BY <2>1, <2>2
<1> QED
  BY <1>2, <1>3 DEF Chain

\* The innermost template ends, and something is written.
LEMMA ChainShrinks ==
    ASSUME NEW n \in Nat, NEW whole, NEW rest, NEW newWhole, NEW newRest,
           NEW buf \in Seq(Token), NEW tokens \in Seq(Token),
           Chain(n + 1, whole, rest, buf),
           \A i \in 0 .. n - 1 : newWhole[i] = whole[i] /\ newRest[i] = rest[i],
           \A before, middle \in Seq(Token) :
              /\ Agree(whole[n], before, middle, rest[n])
              /\ Agree(whole[n + 1], middle, buf, rest[n + 1])
              => Agree(newWhole[n], before, buf \o tokens, newRest[n])
    PROVE  Chain(n, newWhole, newRest, buf \o tokens)
<1> DEFINE new == buf \o tokens
<1>1. PICK start \in [0 .. (n + 1) + 1 -> Prefixes(buf)] :
         /\ start[0] = << >> /\ start[(n + 1) + 1] = buf
         /\ \A i \in 0 .. n + 1 : Agree(whole[i], start[i], start[i + 1], rest[i])
  BY DEF Chain
<1>2. new \in Seq(Token) /\ Prefixes(buf) \subseteq Prefixes(new)
      /\ new \in Prefixes(new) /\ Prefixes(buf) \subseteq Seq(Token)
  <2>1. new \in Seq(Token)
    BY ConcatProperties
  <2> QED
    BY <2>1, PrefixesOf
<1> DEFINE s == [i \in 0 .. n + 1 |-> IF i = n + 1 THEN new ELSE start[i]]
<1>3. Agree(newWhole[n], start[n], new, newRest[n])
  <2>1. n \in 0 .. n + 1 /\ n + 1 \in 0 .. n + 1
        /\ n \in 0 .. (n + 1) + 1 /\ n + 1 \in 0 .. (n + 1) + 1
    OBVIOUS
  <2>2. /\ Agree(whole[n], start[n], start[n + 1], rest[n])
        /\ Agree(whole[n + 1], start[n + 1], buf, rest[n + 1])
    BY <1>1, <2>1
  <2>3. start[n] \in Seq(Token) /\ start[n + 1] \in Seq(Token)
    BY <1>1, <1>2, <2>1
  <2> QED
    BY <2>2, <2>3
<1> HIDE DEF new
<1>4. s \in [0 .. n + 1 -> Prefixes(new)] /\ s[0] = << >> /\ s[n + 1] = new
      /\ \A i \in 0 .. n : s[i] = start[i]
  <2>1. \A i \in 0 .. n + 1 : start[i] \in Prefixes(new)
    BY <1>1, <1>2
  <2>2. s \in [0 .. n + 1 -> Prefixes(new)]
    BY <1>2, <2>1
  <2>3. s[0] = start[0] /\ s[n + 1] = new /\ \A i \in 0 .. n : s[i] = start[i]
    OBVIOUS
  <2> QED
    BY <1>1, <2>2, <2>3
<1> HIDE DEF s
<1>5. ASSUME NEW i \in 0 .. n
      PROVE  Agree(newWhole[i], s[i], s[i + 1], newRest[i])
  <2>1. CASE i = n
    BY <1>3, <1>4, <2>1
  <2>2. CASE i # n
    <3>1. i \in 0 .. n - 1 /\ i + 1 \in 0 .. n /\ i \in 0 .. n + 1
      BY <2>2
    <3>2. Agree(whole[i], start[i], start[i + 1], rest[i])
      BY <1>1, <3>1
    <3> QED
      BY <1>4, <3>1, <3>2
  <2> QED
    BY <2>1, <2>2
<1>6. Chain(n, newWhole, newRest, new)
  BY <1>4, <1>5 DEF Chain
<1> QED
  BY <1>6 DEF new

-----------------------------------------------------------------------------
(* What the rest of a template becomes, token by token.                    *)

LEMMA NamedType ==
    ASSUME NEW ps, NEW rendering, NEW n
    PROVE  Named(ps, rendering, n) \in Results
  BY SuccessType DEF Named

LEMMA TextResult ==
    ASSUME NEW t \in Token
    PROVE  <<t>> \in Seq(Token) /\ Result(TRUE, <<t>>) \in Results
<1>1. <<t>> \in Seq(Token)
  OBVIOUS
<1> QED
  BY <1>1, ResultType

LEMMA TailOf ==
    ASSUME NEW ts \in Seq(Token), ts # << >>
    PROVE  /\ Head(ts) \in Token /\ Tail(ts) \in Seq(Token)
           /\ Len(Tail(ts)) < Len(ts) /\ Head(ts) \in ToSet(ts)
           /\ ToSet(Tail(ts)) \subseteq ToSet(ts)
<1>1. Len(Tail(ts)) = Len(ts) - 1
  OBVIOUS
<1> QED
  BY <1>1, TailToSet

\* A template that begins with a block.
IsBlock(ts) == Head(ts).kind = "block" /\ End(Head(ts).name) \in ToSet(ts)

LEMMA BlockParts ==
    ASSUME NEW ts \in Seq(Token), IsBlock(ts)
    PROVE  /\ AltOf(ts) \in Seq(Token) /\ ToSet(AltOf(ts)) \subseteq ToSet(ts)
           /\ AfterEnd(ts) \in Seq(Token) /\ ToSet(AfterEnd(ts)) \subseteq ToSet(ts)
           /\ Len(AfterEnd(ts)) < Len(ts)
<1> DEFINE end == EndOfBlock(ts)
<1>1. \E i \in DOMAIN ts : /\ ts[i] = End(Head(ts).name)
                           /\ \A j \in DOMAIN ts : j < i => ts[j] # End(Head(ts).name)
  BY FirstOccurrence DEF IsBlock
<1>2. end \in DOMAIN ts
  BY <1>1 DEF EndOfBlock
<1>3. /\ end \in Nat /\ 1 <= end /\ end <= Len(ts) /\ Len(ts) \in Nat
      /\ end - 1 \in Int /\ end - 1 <= Len(ts) /\ end + 1 \in Nat \ {0}
  BY <1>2
<1> HIDE DEF end
<1>4. /\ SubSeq(ts, 2, end - 1) \in Seq(Token)
      /\ ToSet(SubSeq(ts, 2, end - 1)) \subseteq ToSet(ts)
  BY <1>3, SubSeqToSet
<1>5. /\ SubSeq(ts, end + 1, Len(ts)) \in Seq(Token)
      /\ ToSet(SubSeq(ts, end + 1, Len(ts))) \subseteq ToSet(ts)
  BY <1>3, SubSeqToSet
<1>6. Len(SubSeq(ts, end + 1, Len(ts))) < Len(ts)
  BY <1>3
<1> QED
  BY <1>4, <1>5, <1>6 DEF AltOf, AfterEnd, end

\* The cases of RenderNext, one by one.
NextCases(ps, rendering, ts, render, r) ==
    LET t == Head(ts)
    IN  /\ ts = << >> => r = Success
        /\ ts # << >> =>
             /\ t.kind = "text" =>
                  r = Then(Result(TRUE, <<t>>), render[Tail(ts)])
             /\ t.kind = "end" => r = render[Tail(ts)]
             /\ t.kind = "include" =>
                  r = Then(Named(ps, rendering, t.name), render[Tail(ts)])
             /\ IsBlock(ts) =>
                  r = Then(Or(Named(ps, rendering, t.name), AltOf(ts)),
                           render[AfterEnd(ts)])
             /\ t.kind \notin {"text", "end", "include"} /\ ~IsBlock(ts) =>
                  r = Failure

LEMMA RenderNextCases ==
    ASSUME NEW ps, NEW rendering, NEW ts, NEW render
    PROVE  NextCases(ps, rendering, ts, render, RenderNext(ps, rendering, ts, render))
<1> DEFINE t == Head(ts)
           a == Then(Result(TRUE, <<t>>), render[Tail(ts)])
           b == render[Tail(ts)]
           c == Then(Named(ps, rendering, t.name), render[Tail(ts)])
           d == Then(Or(Named(ps, rendering, t.name), AltOf(ts)), render[AfterEnd(ts)])
           k == t.kind
<1>1. RenderNext(ps, rendering, ts, render) =
         IF ts = << >> THEN Success ELSE IF k = "text" THEN a
         ELSE IF k = "end" THEN b ELSE IF k = "include" THEN c
         ELSE IF IsBlock(ts) THEN d ELSE Failure
  BY Zenon DEF RenderNext, IsBlock
<1>2. IsBlock(ts) => k = "block"
  BY DEF IsBlock
<1> HIDE DEF a, b, c, d, k
<1>3. LET r == RenderNext(ps, rendering, ts, render)
      IN  /\ ts = << >> => r = Success
          /\ ts # << >> =>
                    /\ k = "text" => r = a
                    /\ k = "end" => r = b
                    /\ k = "include" => r = c
                    /\ IsBlock(ts) => r = d
                    /\ k \notin {"text", "end", "include"} /\ ~IsBlock(ts) =>
                         r = Failure
  BY <1>1, <1>2
<1> QED
  BY <1>3, Zenon DEF a, b, c, d, k, NextCases

LEMMA RenderNextType ==
    ASSUME NEW ps, NEW rendering, NEW ts \in Seq(Token),
           NEW render \in [Seq(Token) -> Results]
    PROVE  RenderNext(ps, rendering, ts, render) \in Results
<1> DEFINE t == Head(ts)
<1>c. NextCases(ps, rendering, ts, render, RenderNext(ps, rendering, ts, render))
  BY RenderNextCases
<1>1. CASE ts = << >>
  BY <1>1, <1>c, SuccessType DEF NextCases
<1>2. CASE ts # << >>
  <2>1. t \in Token /\ Tail(ts) \in Seq(Token) /\ render[Tail(ts)] \in Results
    BY <1>2, TailOf
  <2>2. CASE t.kind = "text"
    <3>1. Then(Result(TRUE, <<t>>), render[Tail(ts)]) \in Results
      BY <2>1, TextResult, ThenType
    <3> QED
      BY <1>2, <2>2, <3>1, <1>c DEF NextCases
  <2>3. CASE t.kind = "end"
    BY <1>2, <2>1, <2>3, <1>c DEF NextCases
  <2>4. CASE t.kind = "include"
    <3>1. Then(Named(ps, rendering, t.name), render[Tail(ts)]) \in Results
      BY <2>1, NamedType, ThenType
    <3> QED
      BY <1>2, <2>4, <3>1, <1>c DEF NextCases
  <2>5. CASE IsBlock(ts)
    <3>1. AltOf(ts) \in Seq(Token) /\ render[AfterEnd(ts)] \in Results
      BY <2>5, BlockParts
    <3>2. Or(Named(ps, rendering, t.name), AltOf(ts)) \in Results
      BY <3>1, NamedType, OrType
    <3>3. Then(Or(Named(ps, rendering, t.name), AltOf(ts)), render[AfterEnd(ts)])
             \in Results
      BY <3>1, <3>2, ThenType
    <3> QED
      BY <1>2, <2>5, <3>3, <1>c DEF NextCases
  <2>6. CASE t.kind \notin {"text", "end", "include"} /\ ~IsBlock(ts)
    BY <1>2, <2>6, <1>c, SuccessType DEF NextCases
  <2> QED
    BY <2>2, <2>3, <2>4, <2>5, <2>6
<1> QED
  BY <1>1, <1>2

\* Two ways to render names and shorter templates that are the same here.
LEMMA RenderNextLocal ==
    ASSUME NEW ps, NEW rendering, NEW otherwise, NEW ts \in Seq(Token), NEW render,
           NEW other,
           ts # << >> =>
              /\ render[Tail(ts)] = other[Tail(ts)]
              /\ IsBlock(ts) => render[AfterEnd(ts)] = other[AfterEnd(ts)]
              /\ Head(ts).kind \in {"include", "block"} =>
                   Named(ps, rendering, Head(ts).name) = Named(ps, otherwise, Head(ts).name)
    PROVE  RenderNext(ps, rendering, ts, render) = RenderNext(ps, otherwise, ts, other)
<1> DEFINE t == Head(ts)
<1>a. NextCases(ps, rendering, ts, render, RenderNext(ps, rendering, ts, render))
  BY RenderNextCases
<1>b. NextCases(ps, otherwise, ts, other, RenderNext(ps, otherwise, ts, other))
  BY RenderNextCases
<1>1. CASE ts = << >>
  BY <1>1, Zenon DEF RenderNext
<1>2. CASE ts # << >> /\ t.kind = "text"
  BY <1>2, <1>a, <1>b, Zenon DEF NextCases
<1>3. CASE ts # << >> /\ t.kind = "end"
  BY <1>3, <1>a, <1>b, Zenon DEF NextCases
<1>4. CASE ts # << >> /\ t.kind = "include"
  BY <1>4, <1>a, <1>b, Zenon DEF NextCases
<1>5. CASE ts # << >> /\ IsBlock(ts)
  <2>1. Head(ts).kind \in {"include", "block"}
    BY <1>5 DEF IsBlock
  <2> QED
    BY <1>5, <2>1, <1>a, <1>b, Zenon DEF NextCases
<1>6. CASE ts # << >> /\ t.kind \notin {"text", "end", "include"} /\ ~IsBlock(ts)
  BY <1>6, <1>a, <1>b, Zenon DEF NextCases
<1> QED
  BY <1>1, <1>2, <1>3, <1>4, <1>5, <1>6

SameBelow(ts, render, other) ==
    /\ ts # << >> => render[Tail(ts)] = other[Tail(ts)]
    /\ IsBlock(ts) => render[AfterEnd(ts)] = other[AfterEnd(ts)]

LEMMA RenderNextShorter ==
    ASSUME NEW ps, NEW rendering, NEW ts \in Seq(Token), NEW render, NEW other,
           SameBelow(ts, render, other)
    PROVE  RenderNext(ps, rendering, ts, render) = RenderNext(ps, rendering, ts, other)
  BY RenderNextLocal DEF SameBelow

\* RenderTokens is the function that it is defined by.
TokensFunction(ps, rendering, F) ==
    /\ F \in [Seq(Token) -> Results]
    /\ \A ts \in Seq(Token) : /\ F[ts] = RenderNext(ps, rendering, ts, F)
                              /\ RenderTokens(ps, rendering, ts) = F[ts]

LEMMA LengthIsRank ==
    ASSUME NEW S
    PROVE  \E rank \in [Seq(S) -> Nat] : \A ts \in Seq(S) : rank[ts] = Len(ts)
<1> DEFINE rank == [ts \in Seq(S) |-> Len(ts)]
<1>1. rank \in [Seq(S) -> Nat] /\ \A ts \in Seq(S) : rank[ts] = Len(ts)
  OBVIOUS
<1> QED
  BY <1>1

LEMMA RenderTokensFunction ==
    ASSUME NEW ps, NEW rendering
    PROVE  \E F : TokensFunction(ps, rendering, F)
<1> DEFINE D == Seq(Token)
           Equals(f) == f = [ts \in D |-> RenderNext(ps, rendering, ts, f)]
           F == CHOOSE f : Equals(f)
           step == [ts \in D |-> [f \in [D -> Results] |->
                      RenderNext(ps, rendering, ts, f)]]
<1>1. PICK rank \in [D -> Nat] : \A ts \in D : rank[ts] = Len(ts)
  BY LengthIsRank
<1>2. ASSUME NEW ts \in D, NEW f \in [D -> Results]
      PROVE  step[ts][f] = RenderNext(ps, rendering, ts, f) /\ step[ts][f] \in Results
  BY RenderNextType
<1>3. ASSUME NEW ts \in D, NEW f \in [D -> Results], NEW g \in [D -> Results],
             \A us \in D : rank[us] < rank[ts] => f[us] = g[us]
      PROVE  step[ts][f] = step[ts][g]
  <2>1. ts # << >> => f[Tail(ts)] = g[Tail(ts)]
    BY <1>1, <1>3, TailOf
  <2>2. IsBlock(ts) => f[AfterEnd(ts)] = g[AfterEnd(ts)]
    BY <1>1, <1>3, BlockParts
  <2>s. SameBelow(ts, f, g)
    BY <2>1, <2>2 DEF SameBelow
  <2>3. RenderNext(ps, rendering, ts, f) = RenderNext(ps, rendering, ts, g)
    BY <2>s, RenderNextShorter
  <2> QED
    BY <1>2, <2>3
<1> HIDE DEF step
<1>4. Results # {}
  BY SuccessType
<1> HIDE DEF D
<1>a. StaysIn(step, D, Results)
  BY <1>2 DEF StaysIn
<1>b. LooksBelow(step, rank, D, Results)
  BY <1>3 DEF LooksBelow
<1>5. PICK f \in [D -> Results] : \A ts \in D : Follows(f, step, ts)
  BY <1>4, <1>a, <1>b, RankedRecursion
<1>6. Equals(f)
  <2>1. \A ts \in D : f[ts] = RenderNext(ps, rendering, ts, f)
    BY <1>2, <1>5 DEF Follows
  <2> QED
    BY <1>5, <2>1
<1>7. Equals(F)
  BY <1>6
<1>8. \A ts \in D : RenderTokens(ps, rendering, ts) = F[ts]
  BY DEF RenderTokens, D
<1> HIDE DEF F
<1>9. ASSUME NEW ts \in D PROVE F[ts] = RenderNext(ps, rendering, ts, F)
  BY <1>7
<1>10. F \in [D -> Results]
  <2> DEFINE T == {ts \in D : F[ts] \in Results}
  <2>1. ASSUME NEW ts \in D, \A us \in D : rank[us] < rank[ts] => us \in T
        PROVE  ts \in T
    <3> DEFINE g == [us \in D |-> IF us \in T THEN F[us] ELSE Success]
    <3>1. g \in [D -> Results] /\ \A us \in T : g[us] = F[us]
      BY SuccessType
    <3> HIDE DEF g
    <3>2. ts # << >> => Tail(ts) \in T
      <4>1. ts # << >> => Tail(ts) \in D /\ rank[Tail(ts)] < rank[ts]
        BY <1>1, TailOf DEF D
      <4> QED
        BY <2>1, <4>1
    <3>3. IsBlock(ts) => AfterEnd(ts) \in T
      <4>1. IsBlock(ts) => AfterEnd(ts) \in D /\ rank[AfterEnd(ts)] < rank[ts]
        BY <1>1, BlockParts DEF D
      <4> QED
        BY <2>1, <4>1
    <3>4. RenderNext(ps, rendering, ts, F) = RenderNext(ps, rendering, ts, g)
      <4>1. SameBelow(ts, F, g)
        BY <3>1, <3>2, <3>3 DEF SameBelow
      <4> QED
        BY <4>1, RenderNextShorter DEF D
    <3>5. RenderNext(ps, rendering, ts, g) \in Results
      BY <3>1, RenderNextType DEF D
    <3> QED
      BY <1>9, <3>4, <3>5
  <2> HIDE DEF T
  <2>2. \A ts \in D : ts \in T
    BY <1>1, <2>1, RankInduction
  <2>3. \A ts \in D : F[ts] \in Results
    BY <2>2 DEF T
  <2>4. F = [ts \in D |-> F[ts]]
    BY <1>7
  <2> QED
    BY <2>3, <2>4
<1> QED
  BY <1>8, <1>9, <1>10 DEF TokensFunction, D

\* What a template becomes, by its first token.
TokenSteps(ps, rendering, ts) ==
    LET t == Head(ts)
        r == RenderTokens(ps, rendering, ts)
    IN  /\ r \in Results
        /\ ts = << >> => r = Success
        /\ ts # << >> =>
             /\ t.kind = "text" =>
                  r = Then(Result(TRUE, <<t>>),
                           RenderTokens(ps, rendering, Tail(ts)))
             /\ t.kind = "end" => r = RenderTokens(ps, rendering, Tail(ts))
             /\ t.kind = "include" =>
                  r = Then(Named(ps, rendering, t.name),
                           RenderTokens(ps, rendering, Tail(ts)))
             /\ IsBlock(ts) =>
                  r = Then(Or(Named(ps, rendering, t.name), AltOf(ts)),
                           RenderTokens(ps, rendering, AfterEnd(ts)))
             /\ t.kind \notin {"text", "end", "include"} /\ ~IsBlock(ts) =>
                  r = Failure

LEMMA RenderTokensSteps ==
    ASSUME NEW ps, NEW rendering, NEW ts \in Seq(Token)
    PROVE  TokenSteps(ps, rendering, ts)
<1>1. PICK F : TokensFunction(ps, rendering, F)
  BY RenderTokensFunction
<1>2. NextCases(ps, rendering, ts, F, RenderNext(ps, rendering, ts, F))
  BY RenderNextCases
<1>3. RenderTokens(ps, rendering, ts) = RenderNext(ps, rendering, ts, F)
      /\ RenderTokens(ps, rendering, ts) \in Results
  BY <1>1 DEF TokensFunction
<1>4. ts # << >> => F[Tail(ts)] = RenderTokens(ps, rendering, Tail(ts))
  BY <1>1, TailOf DEF TokensFunction
<1>5. IsBlock(ts) => F[AfterEnd(ts)] = RenderTokens(ps, rendering, AfterEnd(ts))
  BY <1>1, BlockParts DEF TokensFunction
<1> QED
  BY <1>2, <1>3, <1>4, <1>5, Zenon DEF NextCases, TokenSteps

\* It depends on what becomes of the names in it only.
LEMMA RenderTokensLocal ==
    ASSUME NEW ps, NEW rendering, NEW otherwise, NEW ts \in Seq(Token),
           \A t \in ToSet(ts) : t.kind \in {"include", "block"} =>
              Named(ps, rendering, t.name) = Named(ps, otherwise, t.name)
    PROVE  RenderTokens(ps, rendering, ts) = RenderTokens(ps, otherwise, ts)
<1> DEFINE D == Seq(Token)
           Same(us) == \A t \in ToSet(us) : t.kind \in {"include", "block"} =>
                          Named(ps, rendering, t.name) = Named(ps, otherwise, t.name)
           Equal(us) == RenderTokens(ps, rendering, us) = RenderTokens(ps, otherwise, us)
           T == {us \in D : Same(us) => Equal(us)}
<1>1. PICK rank \in [D -> Nat] : \A us \in D : rank[us] = Len(us)
  BY LengthIsRank
<1>2. PICK F : TokensFunction(ps, rendering, F)
  BY RenderTokensFunction
<1>3. PICK G : TokensFunction(ps, otherwise, G)
  BY RenderTokensFunction
<1>4. \A us \in D : Equal(us) <=> F[us] = G[us]
  BY <1>2, <1>3 DEF TokensFunction
<1>5. \A us \in D : /\ F[us] = RenderNext(ps, rendering, us, F)
                    /\ G[us] = RenderNext(ps, otherwise, us, G)
  BY <1>2, <1>3 DEF TokensFunction
<1>6. \A us, vs : Same(us) /\ ToSet(vs) \subseteq ToSet(us) => Same(vs)
  OBVIOUS
<1>7. \A us \in D : \A t \in ToSet(us) : Same(us) /\ t.kind \in {"include", "block"} =>
         Named(ps, rendering, t.name) = Named(ps, otherwise, t.name)
  OBVIOUS
<1> HIDE DEF Same, Equal
<1>8. ASSUME NEW us \in D, \A vs \in D : rank[vs] < rank[us] => vs \in T
      PROVE  us \in T
  <2> SUFFICES ASSUME Same(us) PROVE Equal(us)
    OBVIOUS
  <2>1. us # << >> => F[Tail(us)] = G[Tail(us)]
    <3>1. us # << >> => /\ Tail(us) \in D /\ rank[Tail(us)] < rank[us]
                        /\ Same(Tail(us))
      BY <1>1, <1>6, TailOf
    <3> QED
      BY <1>4, <1>8, <3>1
  <2>2. IsBlock(us) => F[AfterEnd(us)] = G[AfterEnd(us)]
    <3>1. IsBlock(us) => /\ AfterEnd(us) \in D /\ rank[AfterEnd(us)] < rank[us]
                         /\ Same(AfterEnd(us))
      BY <1>1, <1>6, BlockParts
    <3> QED
      BY <1>4, <1>8, <3>1
  <2>3. us # << >> /\ Head(us).kind \in {"include", "block"} =>
           Named(ps, rendering, Head(us).name) = Named(ps, otherwise, Head(us).name)
    BY <1>7, TailOf
  <2>4. RenderNext(ps, rendering, us, F) = RenderNext(ps, otherwise, us, G)
    BY <2>1, <2>2, <2>3, RenderNextLocal
  <2> QED
    BY <1>4, <1>5, <2>4
<1> HIDE DEF T, D
<1>9. \A us \in D : us \in T
  BY <1>1, <1>8, RankInduction
<1>10. ts \in T /\ Same(ts)
  BY <1>9 DEF D, Same
<1> QED
  BY <1>10 DEF T, Equal

-----------------------------------------------------------------------------
(* Which fragment a name stands for.                                       *)

LEMMA PagesAre ==
    ASSUME NEW ps \in Inputs
    PROVE  /\ Len(ps) \in Nat /\ DOMAIN ps = 1 .. Len(ps) /\ ps \in Seq(ToSet(ps))
           /\ \A i \in DOMAIN ps : ps[i] \in ToSet(ps)
           /\ \A i \in DOMAIN ps : \A n : Registers(ps[i], n) \subseteq Fragments
<1>1. ps \in Seq(ToSet(ps))
  BY InputsAssumption
<1>2. Len(ps) \in Nat /\ DOMAIN ps = 1 .. Len(ps)
      /\ \A i \in DOMAIN ps : ps[i] \in ToSet(ps)
  BY <1>1
<1>3. ASSUME NEW i \in DOMAIN ps, NEW n PROVE Registers(ps[i], n) \subseteq Fragments
  <2>1. Range(ps[i].body) \subseteq Fragments
    BY <1>2, InputsAssumption
  <2> QED
    BY <2>1 DEF Registers, Range
<1> QED
  BY <1>1, <1>2, <1>3

LEMMA GreatestNumber ==
    ASSUME NEW N \in Nat, NEW T, T \subseteq 1 .. N, T # {}
    PROVE  \E m \in T : \A k \in T : ~(m < k)
<1> DEFINE U == {N - k : k \in T}
<1>1. U \in SUBSET Nat /\ U # {}
  <2>1. ASSUME NEW k \in T PROVE N - k \in Nat
    OBVIOUS
  <2>2. PICK k \in T : TRUE
    OBVIOUS
  <2>3. N - k \in U
    OBVIOUS
  <2> QED
    BY <2>1, <2>3
<1>2. PICK u \in U : \A v \in U : u <= v
  BY <1>1, LeastNatural
<1>3. PICK m \in T : u = N - m
  OBVIOUS
<1>4. ASSUME NEW k \in T PROVE ~(m < k)
  <2>1. N - m <= N - k /\ m \in Nat /\ k \in Nat
    BY <1>2, <1>3
  <2> QED
    BY <2>1
<1> QED
  BY <1>4

\* The page at i was the last to register f for a name.
LastToRegister(ps, n, f, i) ==
    f \in Registers(ps[i], n) /\ \A j \in DOMAIN ps : i < j => Registers(ps[j], n) = {}

LEMMA FragmentIs ==
    ASSUME NEW ps \in Inputs, NEW n, Provided(ps, n)
    PROVE  /\ Fragment(ps, n) \in Fragments
           /\ \E i \in DOMAIN ps : LastToRegister(ps, n, Fragment(ps, n), i)
<1> DEFINE T == {i \in DOMAIN ps : Registers(ps[i], n) # {}}
           Is(f) == f \in Fragments /\ \E i \in DOMAIN ps : LastToRegister(ps, n, f, i)
<1>1. Len(ps) \in Nat /\ DOMAIN ps = 1 .. Len(ps)
      /\ \A i \in DOMAIN ps : \A m : Registers(ps[i], m) \subseteq Fragments
  BY PagesAre
<1>2. T \subseteq 1 .. Len(ps) /\ T # {}
  BY <1>1 DEF Provided
<1>3. PICK i \in T : \A k \in T : ~(i < k)
  BY <1>1, <1>2, GreatestNumber
<1>4. PICK f \in Registers(ps[i], n) : TRUE
  BY <1>3
<1>5. LastToRegister(ps, n, f, i) /\ f \in Fragments /\ i \in DOMAIN ps
  BY <1>1, <1>3, <1>4 DEF LastToRegister
<1>6. Is(f)
  BY <1>5
<1>7. Fragment(ps, n) = CHOOSE g : Is(g)
  BY Zenon DEF Fragment, LastToRegister
<1>8. Is(Fragment(ps, n))
  BY <1>6, <1>7, Zenon
<1> QED
  BY <1>8

LEMMA ProviderIs ==
    ASSUME NEW ps \in Inputs, NEW n, Known(ps, n)
    PROVE  \E m \in LookUps(n) : Provided(ps, m) /\ Provider(ps, n) = Fragment(ps, m)
<1>1. PICK m \in LookUps(n) : Provided(ps, m)
  BY DEF Known
<1>2. CASE Provided(ps, n)
  BY <1>2 DEF Provider, LookUps
<1>3. CASE /\ ~Provided(ps, n)
           /\ n # << >> /\ Last(n) = Separator /\ Provided(ps, Front(n))
  BY <1>3 DEF Provider, LookUps
<1>4. CASE /\ ~Provided(ps, n)
           /\ ~(n # << >> /\ Last(n) = Separator /\ Provided(ps, Front(n)))
  <2>1. m = LocalName(n) /\ Provider(ps, n) = Fragment(ps, LocalName(n))
    BY <1>1, <1>4, Zenon DEF Provider, LookUps
  <2> QED
    BY <1>1, <2>1
<1> QED
  BY <1>2, <1>3, <1>4

LEMMA ProviderRanksLower ==
    ASSUME NEW ps \in Inputs, NEW n, Known(ps, n)
    PROVE  /\ Provider(ps, n) \in Fragments
           /\ \A f \in Fragments : \A t \in ToSet(Template[f]) :
                 t.kind \in {"include", "block"} /\ t.name = n =>
                    Rank[Provider(ps, n)] < Rank[f]
<1>1. PICK m \in LookUps(n) : Provided(ps, m) /\ Provider(ps, n) = Fragment(ps, m)
  BY ProviderIs
<1>2. PICK i \in DOMAIN ps : LastToRegister(ps, m, Fragment(ps, m), i)
  BY <1>1, FragmentIs
<1>3. Provider(ps, n) \in Registers(ps[i], m) /\ ps[i] \in ToSet(ps)
  BY <1>1, <1>2, PagesAre DEF LastToRegister
<1>4. Provider(ps, n) \in Fragments
  BY <1>1, FragmentIs
<1>5. ASSUME NEW f \in Fragments, NEW t \in ToSet(Template[f]),
             t.kind \in {"include", "block"}, t.name = n
      PROVE  Rank[Provider(ps, n)] < Rank[f]
  BY <1>1, <1>3, <1>5, AcyclicAssumption
<1> QED
  BY <1>4, <1>5

-----------------------------------------------------------------------------
(* What fragments become.                                                  *)

IsRendering(ps, rendering) ==
    /\ rendering \in [Fragments -> Results]
    /\ \A f \in Fragments : rendering[f] = RenderTokens(ps, rendering, Template[f])

LEMMA RenderedIs ==
    ASSUME NEW ps \in Inputs
    PROVE  IsRendering(ps, Rendered(ps))
<1> DEFINE D == Fragments
           Equals(r) == r = [f \in D |-> RenderTokens(ps, r, Template[f])]
           F == CHOOSE r : Equals(r)
           step == [f \in D |-> [r \in [D -> Results] |->
                      RenderTokens(ps, r, Template[f])]]
<1>1. ASSUME NEW f \in D, NEW r PROVE RenderTokens(ps, r, Template[f]) \in Results
  <2>1. Template[f] \in Seq(Token)
    BY TemplateAssumption
  <2> QED
    BY <2>1, RenderTokensSteps DEF TokenSteps
<1>2. \A f \in D, r \in [D -> Results] :
         /\ step[f][r] = RenderTokens(ps, r, Template[f])
         /\ step[f][r] \in Results
  BY <1>1
<1> HIDE DEF step
<1>3. ASSUME NEW f \in D, NEW r \in [D -> Results], NEW s \in [D -> Results],
             \A g \in D : Rank[g] < Rank[f] => r[g] = s[g]
      PROVE  step[f][r] = step[f][s]
  <2>1. ASSUME NEW t \in ToSet(Template[f]), t.kind \in {"include", "block"}
        PROVE  Named(ps, r, t.name) = Named(ps, s, t.name)
    <3>1. CASE Known(ps, t.name)
      <4>1. /\ Provider(ps, t.name) \in Fragments
            /\ Rank[Provider(ps, t.name)] < Rank[f]
        BY <2>1, <3>1, ProviderRanksLower
      <4> QED
        BY <1>3, <4>1 DEF Named
    <3>2. CASE ~Known(ps, t.name)
      BY <3>2 DEF Named
    <3> QED
      BY <3>1, <3>2
  <2>2. Template[f] \in Seq(Token)
    BY TemplateAssumption
  <2>3. RenderTokens(ps, r, Template[f]) = RenderTokens(ps, s, Template[f])
    BY <2>1, <2>2, RenderTokensLocal
  <2> QED
    BY <1>2, <2>3
<1>4. Results # {} /\ Rank \in [D -> Nat]
  BY SuccessType, AcyclicAssumption
<1>a. StaysIn(step, D, Results)
  BY <1>2 DEF StaysIn
<1>b. LooksBelow(step, Rank, D, Results)
  BY <1>3 DEF LooksBelow
<1>5. PICK r \in [D -> Results] : \A f \in D : Follows(r, step, f)
  BY <1>4, <1>a, <1>b, RankedRecursion
<1>6. Equals(r)
  <2>1. \A f \in D : r[f] = RenderTokens(ps, r, Template[f])
    BY <1>2, <1>5 DEF Follows
  <2> QED
    BY <1>5, <2>1
<1>7. Equals(F)
  BY <1>6
<1>8. Rendered(ps) = F
  BY DEF Rendered
<1> HIDE DEF F
<1> QED
  BY <1>1, <1>7, <1>8 DEF IsRendering

\* What a name becomes is what the fragment it stands for becomes.
LEMMA NamedIs ==
    ASSUME NEW ps \in Inputs, NEW n
    PROVE  Named(ps, Rendered(ps), n) =
              IF Known(ps, n) THEN Rendered(ps)[Provider(ps, n)] ELSE Failure
<1>1. Known(ps, n) => Provider(ps, n) \in Fragments
  BY ProviderRanksLower
<1>2. Rendered(ps) \in [Fragments -> Results]
  BY RenderedIs DEF IsRendering
<1>3. Known(ps, n) => Rendered(ps)[Provider(ps, n)] \in Results
  BY <1>1, <1>2
<1> QED
  BY <1>3, Zenon DEF Named

-----------------------------------------------------------------------------
(* The head and tail fragments, one by one.                                *)

FragmentSteps(ps, fs) ==
    /\ RenderAll(ps, fs) \in Results
    /\ fs = << >> => RenderAll(ps, fs) = Success
    /\ fs # << >> => RenderAll(ps, fs) = Then(Rendered(ps)[Head(fs)],
                                              RenderAll(ps, Tail(fs)))

LEMMA RenderAllSteps ==
    ASSUME NEW ps \in Inputs, NEW fs \in Seq(Fragments)
    PROVE  FragmentSteps(ps, fs)
<1> DEFINE D == Seq(Fragments)
           R == Rendered(ps)
           After(gs, f) == IF gs = << >> THEN Success ELSE Then(R[Head(gs)], f[Tail(gs)])
           Equals(f) == f = [gs \in D |-> After(gs, f)]
           F == CHOOSE f : Equals(f)
           step == [gs \in D |-> [f \in [D -> Results] |-> After(gs, f)]]
<1>1. PICK rank \in [D -> Nat] : \A gs \in D : rank[gs] = Len(gs)
  BY LengthIsRank
<1>2. R \in [Fragments -> Results]
  BY RenderedIs DEF IsRendering
<1>3. \A gs \in D : gs # << >> => /\ Head(gs) \in Fragments /\ Tail(gs) \in D
                                  /\ Len(Tail(gs)) < Len(gs)
  OBVIOUS
<1> HIDE DEF R, D
<1>4. ASSUME NEW gs \in D, NEW f \in [D -> Results] PROVE After(gs, f) \in Results
  <2>1. CASE gs = << >>
    BY <2>1, SuccessType
  <2>2. CASE gs # << >>
    <3>1. R[Head(gs)] \in Results /\ f[Tail(gs)] \in Results
      BY <1>2, <1>3, <2>2
    <3> QED
      BY <2>2, <3>1, ThenType
  <2> QED
    BY <2>1, <2>2
<1>5. \A gs \in D, f \in [D -> Results] :
         step[gs][f] = After(gs, f) /\ step[gs][f] \in Results
  BY <1>4
<1> HIDE DEF step
<1>6. ASSUME NEW gs \in D, NEW f \in [D -> Results], NEW g \in [D -> Results],
             \A hs \in D : rank[hs] < rank[gs] => f[hs] = g[hs]
      PROVE  step[gs][f] = step[gs][g]
  <2>1. gs # << >> => f[Tail(gs)] = g[Tail(gs)]
    BY <1>1, <1>3, <1>6
  <2>2. After(gs, f) = After(gs, g)
    BY <2>1
  <2> QED
    BY <1>5, <2>2
<1>7. Results # {}
  BY SuccessType
<1>a. StaysIn(step, D, Results)
  BY <1>5 DEF StaysIn
<1>b. LooksBelow(step, rank, D, Results)
  BY <1>6 DEF LooksBelow
<1>8. PICK f \in [D -> Results] : \A gs \in D : Follows(f, step, gs)
  BY <1>7, <1>a, <1>b, RankedRecursion
<1>9. Equals(f)
  <2>1. \A gs \in D : f[gs] = After(gs, f)
    BY <1>5, <1>8 DEF Follows
  <2> HIDE DEF After
  <2> QED
    BY <1>8, <2>1
<1>10. Equals(F)
  BY <1>9
<1>11. \A gs \in D : RenderAll(ps, gs) = F[gs]
  BY DEF RenderAll, D, R
<1> HIDE DEF F
<1>12. \A gs \in D : F[gs] = After(gs, F)
  <2> HIDE DEF After
  <2> QED
    BY <1>10
<1>13. F \in [D -> Results]
  <2> DEFINE T == {gs \in D : F[gs] \in Results}
  <2>1. ASSUME NEW gs \in D, \A hs \in D : rank[hs] < rank[gs] => hs \in T
        PROVE  gs \in T
    <3>1. CASE gs = << >>
      BY <1>12, <3>1, SuccessType
    <3>2. CASE gs # << >>
      <4>1. R[Head(gs)] \in Results /\ F[Tail(gs)] \in Results
        BY <1>1, <1>2, <1>3, <2>1, <3>2
      <4>2. Then(R[Head(gs)], F[Tail(gs)]) \in Results
        BY <4>1, ThenType
      <4> QED
        BY <1>12, <3>2, <4>2
    <3> QED
      BY <3>1, <3>2
  <2> HIDE DEF T
  <2>2. \A gs \in D : gs \in T
    BY <1>1, <2>1, RankInduction
  <2>3. \A gs \in D : F[gs] \in Results
    BY <2>2 DEF T
  <2>4. F = [gs \in D |-> F[gs]]
    <3> HIDE DEF After
    <3> QED
      BY <1>10
  <2> QED
    BY <2>3, <2>4
<1>14. fs \in D
  BY DEF D
<1>15. F[fs] \in Results
  BY <1>13, <1>14
<1>16. fs = << >> => F[fs] = Success
  BY <1>12, <1>14
<1>17. fs # << >> => F[fs] = Then(R[Head(fs)], F[Tail(fs)])
  BY <1>12, <1>14
<1>18. fs # << >> => F[Tail(fs)] = RenderAll(ps, Tail(fs))
  BY <1>3, <1>11, <1>14
<1> QED
  BY <1>11, <1>14, <1>15, <1>16, <1>17, <1>18, Zenon DEF FragmentSteps, R

PresentInSteps(fs) ==
    /\ Present(fs, 0) = << >>
    /\ \A n \in 0 .. Len(fs) : Present(fs, n) \in Seq(Fragments)
    /\ \A n \in 1 .. Len(fs) : Present(fs, n) = Appended(Present(fs, n - 1), fs[n])

LEMMA PresentSteps ==
    ASSUME NEW fs \in Seq(Fragments \cup {NoFragment})
    PROVE  PresentInSteps(fs)
<1> DEFINE N == Len(fs)
           D == Seq(Fragments)
           Equals(f) == f = [i \in 0 .. Len(fs) |->
                               IF i = 0 THEN << >> ELSE Appended(f[i - 1], fs[i])]
           F == CHOOSE f : Equals(f)
           step == [i \in 1 .. N |-> [x \in D |-> Appended(x, fs[i])]]
<1>1. N \in Nat /\ \A i \in 1 .. N : fs[i] \in Fragments \cup {NoFragment}
  OBVIOUS
<1>2. \A i \in 1 .. N, x \in D : Appended(x, fs[i]) \in D
  BY <1>1, AppendedType
<1>e. << >> \in D
  OBVIOUS
<1> HIDE DEF N, D
<1>3. \A i \in 1 .. N, x \in D : step[i][x] = Appended(x, fs[i]) /\ step[i][x] \in D
  BY <1>2
<1> HIDE DEF step
<1>4. PICK f : Iterates(f, N, D, << >>, step)
  BY <1>1, <1>3, <1>e, Iteration
<1>n. \A i \in 1 .. N : i \in 0 .. N /\ i - 1 \in 0 .. N /\ i # 0
  BY <1>1
<1>5. \A i \in 1 .. N : f[i] = Appended(f[i - 1], fs[i])
  BY <1>3, <1>4, <1>n DEF Iterates
<1>6. f = [i \in 0 .. N |-> IF i = 0 THEN << >> ELSE Appended(f[i - 1], fs[i])]
  <2>1. f = [i \in 0 .. N |-> f[i]] /\ f[0] = << >>
    BY <1>4 DEF Iterates
  <2>2. \A i \in 0 .. N : i = 0 \/ i \in 1 .. N
    BY <1>1
  <2> QED
    BY <1>5, <2>1, <2>2
<1>7. Equals(f)
  BY <1>6 DEF N
<1>8. Equals(F)
  BY <1>7
<1>9. F = [i \in 0 .. N |-> IF i = 0 THEN << >> ELSE Appended(F[i - 1], fs[i])]
  BY <1>8 DEF N
<1>10. \A n : Present(fs, n) = F[n]
  BY DEF Present
<1> HIDE DEF F
<1>11. F[0] = << >> /\ \A n \in 1 .. N : F[n] = Appended(F[n - 1], fs[n])
  BY <1>1, <1>n, <1>9
<1>12. \A n \in 0 .. N : F[n] \in D
  <2> DEFINE T == {n \in 0 .. N : F[n] \in D}
  <2>1. 0 \in T
    BY <1>1, <1>11, <1>e
  <2>2. ASSUME NEW n \in 0 .. N - 1, n \in T PROVE n + 1 \in T
    <3>1. n + 1 \in 1 .. N /\ n + 1 \in 0 .. N /\ (n + 1) - 1 = n
      BY <1>1
    <3>2. F[n + 1] = Appended(F[n], fs[n + 1])
      BY <1>11, <3>1
    <3> QED
      BY <1>2, <2>2, <3>1, <3>2
  <2> HIDE DEF T
  <2>3. \A n \in 0 .. N : n \in T
    BY <1>1, <2>1, <2>2, BoundedInduction
  <2> QED
    BY <2>3 DEF T
<1> QED
  BY <1>10, <1>11, <1>12, <1>n DEF PresentInSteps, N, D

LEMMA HeadsAndTails ==
    ASSUME NEW ps \in Inputs
    PROVE  /\ HeadsOf(ps, 0) = << >> /\ TailsOf(ps, 0) = << >>
           /\ \A n \in 0 .. Len(ps) : /\ HeadsOf(ps, n) \in Seq(Fragments)
                                      /\ TailsOf(ps, n) \in Seq(Fragments)
           /\ \A n \in 1 .. Len(ps) :
                 /\ HeadsOf(ps, n) = Appended(HeadsOf(ps, n - 1), ps[n].head)
                 /\ TailsOf(ps, n) = Appended(TailsOf(ps, n - 1), ps[n].tail)
<1> DEFINE hs == [i \in DOMAIN ps |-> ps[i].head]
           ts == [i \in DOMAIN ps |-> ps[i].tail]
           E == Fragments \cup {NoFragment}
<1>1. /\ Len(ps) \in Nat /\ DOMAIN ps = 1 .. Len(ps)
      /\ \A i \in DOMAIN ps : ps[i].head \in E /\ ps[i].tail \in E
  BY PagesAre, InputsAssumption
<1>2. /\ hs \in Seq(E) /\ ts \in Seq(E) /\ Len(hs) = Len(ps) /\ Len(ts) = Len(ps)
      /\ \A i \in 1 .. Len(ps) : hs[i] = ps[i].head /\ ts[i] = ps[i].tail
  BY <1>1
<1>3. \A n : HeadsOf(ps, n) = Present(hs, n) /\ TailsOf(ps, n) = Present(ts, n)
  BY DEF HeadsOf, TailsOf
<1> HIDE DEF hs, ts
<1>4. PresentInSteps(hs) /\ PresentInSteps(ts)
  BY <1>2, PresentSteps
<1> QED
  BY <1>2, <1>3, <1>4 DEF PresentInSteps

-----------------------------------------------------------------------------
(* The names that are registered.                                          *)

Symbols == STRING \cup {Separator}

LEMMA SeparatorIs ==
    /\ <<Separator>> \in Seq(Symbols) /\ Len(<<Separator>>) = 1
    /\ <<Separator>>[1] = Separator
<1>1. \A S : \A x \in S : <<x>> \in Seq(S) /\ Len(<<x>>) = 1 /\ <<x>>[1] = x
  OBVIOUS
<1> QED
  BY <1>1 DEF Symbols

LEMMA CancelLeft ==
    ASSUME NEW s \in Seq(Symbols), NEW t \in Seq(Symbols), NEW u \in Seq(Symbols),
           s \o t = s \o u
    PROVE  t = u
  BY ConcatSimplifications

LEMMA LocalNameIs ==
    ASSUME NEW l \in Seq(Symbols)
    PROVE  /\ LocalName(l) \in Seq(Symbols) /\ Len(LocalName(l)) = Len(l) + 1
           /\ LocalName(l)[1] = Separator
           /\ \A k \in Seq(Symbols) : LocalName(l) = LocalName(k) => l = k
<1> DEFINE s == <<Separator>>
<1>1. s \in Seq(Symbols) /\ Len(s) = 1 /\ s[1] = Separator
  BY SeparatorIs
<1> HIDE DEF s
<1>2. /\ s \o l \in Seq(Symbols) /\ Len(s \o l) = 1 + Len(l) /\ (s \o l)[1] = s[1]
  <2>1. /\ s \o l \in Seq(Symbols) /\ Len(s \o l) = Len(s) + Len(l)
        /\ \A i \in 1 .. Len(s) + Len(l) :
              (s \o l)[i] = IF i <= Len(s) THEN s[i] ELSE l[i - Len(s)]
    BY <1>1, ConcatProperties
  <2>2. Len(l) \in Nat
    OBVIOUS
  <2> QED
    BY <1>1, <2>1, <2>2
<1>3. ASSUME NEW k \in Seq(Symbols), s \o l = s \o k PROVE l = k
  BY <1>1, <1>3, CancelLeft
<1>4. Len(l) \in Nat
  OBVIOUS
<1> QED
  BY <1>1, <1>2, <1>3, <1>4 DEF LocalName, s

LEMMA FullNameIs ==
    ASSUME NEW page, page.name \in Seq(Symbols), NEW l \in Seq(Symbols), l # << >>
    PROVE  /\ Len(FullName(page, l)) > Len(page.name)
           /\ page.name # << >> => FullName(page, l)[1] = Head(page.name)
           /\ page.name = << >> => FullName(page, l) = LocalName(l)
           /\ \A k \in Seq(Symbols) : k # << >> /\ FullName(page, l) = FullName(page, k)
                                        => l = k
<1> DEFINE s == <<Separator>>
           m == page.name
           p == m \o s
<1>1. s \in Seq(Symbols) /\ Len(s) = 1
  BY SeparatorIs
<1>2. \A k : k # << >> => FullName(page, k) = p \o k
  BY DEF FullName
<1>3. m \in Seq(Symbols) /\ Len(m) \in Nat /\ Len(l) \in Nat /\ (m # << >> => Len(m) > 0)
  BY EmptySeq
<1>l. LocalName(l) = s \o l
  BY DEF LocalName
<1> HIDE DEF s, m
<1>4. /\ p \in Seq(Symbols) /\ Len(p) = Len(m) + 1
      /\ m # << >> => p[1] = m[1]
      /\ m = << >> => p = s
  <2>1. /\ p \in Seq(Symbols) /\ Len(p) = Len(m) + Len(s)
        /\ \A i \in 1 .. Len(m) + Len(s) : p[i] = IF i <= Len(m) THEN m[i] ELSE s[i - Len(m)]
    BY <1>1, <1>3, ConcatProperties
  <2>2. << >> \o s = s
    BY <1>1, ConcatEmptySeq
  <2> HIDE DEF p
  <2>3. m # << >> => p[1] = m[1]
    BY <1>1, <1>3, <2>1
  <2>4. m = << >> => p = s
    BY <2>2 DEF p
  <2> QED
    BY <1>1, <2>1, <2>3, <2>4
<1> HIDE DEF p
<1>5. /\ Len(p \o l) = Len(p) + Len(l) /\ (p \o l)[1] = p[1]
  <2>1. /\ Len(p \o l) = Len(p) + Len(l)
        /\ \A i \in 1 .. Len(p) + Len(l) :
              (p \o l)[i] = IF i <= Len(p) THEN p[i] ELSE l[i - Len(p)]
    BY <1>4, ConcatProperties
  <2> QED
    BY <1>3, <1>4, <2>1
<1>6. ASSUME NEW k \in Seq(Symbols), p \o l = p \o k PROVE l = k
  BY <1>4, <1>6, CancelLeft
<1>7. Head(m) = m[1]
  BY <1>3
<1>8. FullName(page, l) = p \o l
  BY <1>2
<1>9. /\ Len(FullName(page, l)) > Len(m)
      /\ m # << >> => FullName(page, l)[1] = Head(m)
      /\ m = << >> => FullName(page, l) = LocalName(l)
  <2>1. Len(p \o l) > Len(m)
    BY <1>3, <1>4, <1>5
  <2> QED
    BY <1>4, <1>5, <1>7, <1>8, <1>l, <2>1
<1> QED
  BY <1>2, <1>6, <1>9 DEF m

LEMMA OneIsRegistered ==
    ASSUME NamesAreDistinct, NEW ps \in Inputs, NEW i \in DOMAIN ps, NEW n,
           NEW f \in Registers(ps[i], n), NEW g \in Registers(ps[i], n)
    PROVE  f = g
<1> DEFINE page == ps[i]
           B == DOMAIN page.body
<1>1. page \in ToSet(ps)
  BY PagesAre
<1>2. /\ page.name \in Seq(Symbols) /\ B \subseteq Seq(Symbols)
      /\ page.name = << >> \/ Head(page.name) # Separator
  <2>1. \A s \in Seq(STRING) : s \in Seq(Symbols)
    BY SeqMonotonic DEF Symbols
  <2>2. /\ page.name \in Seq(STRING) /\ B \subseteq Seq(STRING)
        /\ page.name = << >> \/ Head(page.name) # Separator
    BY <1>1, InputsAssumption DEF NamesAreDistinct
  <2> QED
    BY <2>1, <2>2
<1>3. PICK l \in B : n \in {LocalName(l), FullName(page, l)} /\ f = page.body[l]
  BY DEF Registers
<1>4. PICK k \in B : n \in {LocalName(k), FullName(page, k)} /\ g = page.body[k]
  BY DEF Registers
<1> HIDE DEF page
<1>5. ASSUME NEW a \in B, NEW b \in B, LocalName(a) = FullName(page, b)
      PROVE  a = b
  <2>1. a \in Seq(Symbols) /\ b \in Seq(Symbols)
    BY <1>2
  <2>2. Len(LocalName(a)) > 0 /\ LocalName(a)[1] = Separator
    BY <2>1, LocalNameIs
  <2>3. CASE b = << >>
    <3>1. LocalName(a) = page.name
      BY <1>5, <2>3 DEF FullName
    <3>2. page.name # << >> /\ Head(page.name) = page.name[1]
      BY <1>2, <2>2, <3>1
    <3> QED
      BY <1>2, <2>2, <3>1, <3>2
  <2>4. CASE b # << >> /\ page.name # << >>
    <3>1. FullName(page, b)[1] = Head(page.name)
      BY <1>2, <2>1, <2>4, FullNameIs
    <3> QED
      BY <1>2, <1>5, <2>2, <2>4, <3>1
  <2>5. CASE b # << >> /\ page.name = << >>
    <3>1. FullName(page, b) = LocalName(b)
      BY <1>2, <2>1, <2>5, FullNameIs
    <3> QED
      BY <1>5, <2>1, <3>1, LocalNameIs
  <2> QED
    BY <2>3, <2>4, <2>5
<1>6. ASSUME NEW a \in B, NEW b \in B, LocalName(a) = LocalName(b)
      PROVE  a = b
  BY <1>2, <1>6, LocalNameIs
<1>7. ASSUME NEW a \in B, NEW b \in B, FullName(page, a) = FullName(page, b)
      PROVE  a = b
  <2>1. a \in Seq(Symbols) /\ b \in Seq(Symbols)
    BY <1>2
  <2>2. ASSUME NEW c \in Seq(Symbols), c # << >>
        PROVE  FullName(page, c) # FullName(page, << >>)
    <3>1. Len(FullName(page, c)) > Len(page.name) /\ Len(page.name) \in Nat
      BY <1>2, <2>2, FullNameIs
    <3>2. FullName(page, << >>) = page.name
      BY DEF FullName
    <3>3. Len(FullName(page, c)) # Len(page.name)
      BY <3>1
    <3> QED
      BY <3>2, <3>3
  <2>3. CASE a # << >> /\ b # << >>
    BY <1>2, <1>7, <2>1, <2>3, FullNameIs
  <2> QED
    BY <1>7, <2>1, <2>2, <2>3
<1>8. l = k
  BY <1>3, <1>4, <1>5, <1>6, <1>7
<1> QED
  BY <1>3, <1>4, <1>8

LEMMA RegisteredNames ==
    ASSUME NEW page, NEW n
    PROVE  n \in Names(page) <=> Registers(page, n) # {}
<1>1. n \in Names(page) <=> \E l \in DOMAIN page.body : n \in {LocalName(l), FullName(page, l)}
  BY DEF Names
<1>2. Registers(page, n) # {} <=>
         \E l \in DOMAIN page.body : n \in {LocalName(l), FullName(page, l)}
  BY DEF Registers
<1> QED
  BY <1>1, <1>2

\* Once all pages are added, the map has what the pages provide.
BodyMatches(ps, map) ==
    \A n : /\ n \in DOMAIN map <=> Provided(ps, n)
           /\ n \in DOMAIN map => map[n] = Fragment(ps, n)

LEMMA BodyIs ==
    ASSUME MergeIsSound, AddedAreRegistered, NamesAreDistinct, toAdd = << >>
    PROVE  BodyMatches(pages, Body)
<1>1. /\ pages \in Inputs /\ Len(pages) \in Nat /\ DOMAIN pages = 1 .. Len(pages)
      /\ Added = Len(pages)
  BY PagesAre DEF MergeIsSound, TypeOK, Added
<1>2. \A n \in DOMAIN Body : \E i \in DOMAIN pages : LastToRegister(pages, n, Body[n], i)
  <2>1. SUFFICES ASSUME NEW n \in DOMAIN Body
                 PROVE  \E i \in DOMAIN pages : LastToRegister(pages, n, Body[n], i)
    OBVIOUS
  <2>2. PICK i \in 1 .. Added : /\ Body[n] \in Registers(pages[i], n)
                                /\ \A j \in i + 1 .. Added : Registers(pages[j], n) = {}
    BY DEF AddedAreRegistered
  <2>3. \A j \in DOMAIN pages : i < j => j \in i + 1 .. Added
    BY <1>1
  <2> QED
    BY <1>1, <2>2, <2>3 DEF LastToRegister
<1>3. ASSUME NEW n, Provided(pages, n) PROVE n \in DOMAIN Body
  <2>1. PICK i \in DOMAIN pages : Registers(pages[i], n) # {}
    BY <1>3 DEF Provided
  <2> QED
    BY <1>1, <2>1, RegisteredNames DEF AddedAreRegistered
<1>4. ASSUME NEW n \in DOMAIN Body
      PROVE  Provided(pages, n) /\ Body[n] = Fragment(pages, n)
  <2>1. PICK i \in DOMAIN pages : LastToRegister(pages, n, Body[n], i)
    BY <1>2
  <2>2. Provided(pages, n)
    BY <2>1 DEF LastToRegister, Provided
  <2>3. PICK j \in DOMAIN pages : LastToRegister(pages, n, Fragment(pages, n), j)
    BY <1>1, <2>2, FragmentIs
  <2>4. ~(i < j) /\ ~(j < i)
    BY <2>1, <2>3 DEF LastToRegister
  <2>5. i = j
    BY <1>1, <2>4
  <2> QED
    BY <1>1, <2>1, <2>2, <2>3, <2>5, OneIsRegistered DEF LastToRegister
<1> QED
  BY <1>3, <1>4 DEF BodyMatches

\* Then a name becomes what the documentation says.
Resolves(ps, n) ==
    /\ Exists(n) <=> Known(ps, n)
    /\ Exists(n) => GetBodyFragmentByName(n) = Provider(ps, n)

LEMMA NamesResolve ==
    ASSUME NEW ps, BodyMatches(ps, Body), NEW n
    PROVE  Resolves(ps, n)
<1>1. Exists(n) <=> Known(ps, n)
  BY DEF BodyMatches, Exists, Known
<1>2. ASSUME Exists(n) PROVE GetBodyFragmentByName(n) = Provider(ps, n)
  <2> DEFINE P(m) == Provided(ps, m)
             D(m) == m \in DOMAIN Body
             trailing == n # << >> /\ Last(n) = Separator
             B(m) == Body[m]
             F(m) == Fragment(ps, m)
  <2>1. \A m : (D(m) <=> P(m)) /\ (D(m) => B(m) = F(m))
    BY DEF BodyMatches
  <2>2. GetBodyFragmentByName(n) =
           IF D(n) THEN B(n) ELSE IF trailing /\ D(Front(n)) THEN B(Front(n))
           ELSE B(LocalName(n))
    BY Zenon DEF GetBodyFragmentByName
  <2>3. Provider(ps, n) =
           F(IF P(n) THEN n ELSE IF trailing /\ P(Front(n)) THEN Front(n)
             ELSE LocalName(n))
    BY Zenon DEF Provider
  <2>4. D(n) \/ (trailing /\ D(Front(n))) \/ D(LocalName(n))
    BY <1>2, Zenon DEF Exists, LookUps
  <2> HIDE DEF P, D, trailing, B, F
  <2> QED
    BY <2>1, <2>2, <2>3, <2>4
<1> QED
  BY <1>1, <1>2 DEF Resolves

LEMMA NameBecomes ==
    ASSUME MergeIsSound, AddedAreRegistered, NamesAreDistinct, toAdd = << >>, NEW n
    PROVE  /\ Exists(n) =>
                Named(pages, Rendered(pages), n) = Rendered(pages)[GetBodyFragmentByName(n)]
           /\ ~Exists(n) => Named(pages, Rendered(pages), n) = Failure
           /\ Exists(n) <=> Known(pages, n)
<1>1. Resolves(pages, n)
  BY BodyIs, NamesResolve
<1>2. pages \in Inputs
  BY DEF MergeIsSound, TypeOK
<1> QED
  BY <1>1, <1>2, NamedIs DEF Resolves

-----------------------------------------------------------------------------
(* InStep as a formula without variables, and what keeps it.               *)

WholeAt(rendering, whole, s) ==
    [i \in 0 .. Len(s) |-> IF i = 0 THEN whole ELSE rendering[s[i].fragment]]

IncludedAt(rendering, frame) ==
    LET r == rendering[frame.fragment]
    IN  IF frame.optional THEN Or(r, frame.alt) ELSE r

RestOf(ps, pending, s, i) ==
    IF i = 0 THEN pending ELSE RenderTokens(ps, Rendered(ps), s[i].rest)

RestAt(ps, pending, s, fails) ==
    [i \in 0 .. Len(s) |->
       IF i < Len(s)
       THEN Then(IncludedAt(Rendered(ps), s[i + 1]), RestOf(ps, pending, s, i))
       ELSE IF fails THEN Failure ELSE RestOf(ps, pending, s, i)]

Steady(ps, whole, pending, s, fails, buf) ==
    Chain(Len(s), WholeAt(Rendered(ps), whole, s), RestAt(ps, pending, s, fails), buf)

LEMMA InStepIsSteady ==
    stack \in Seq(Frame) =>
       (InStep <=> Steady(pages, Whole(0), Pending, stack, failing, Buffer))
<1> SUFFICES ASSUME stack \in Seq(Frame)
             PROVE  InStep <=> Steady(pages, Whole(0), Pending, stack, failing, Buffer)
  OBVIOUS
<1> DEFINE n == Len(stack)
           W == WholeAt(Rendered(pages), Whole(0), stack)
           R == RestAt(pages, Pending, stack, failing)
<1>1. n \in Nat
  OBVIOUS
<1>2. \A i \in 0 .. n : W[i] = Whole(i)
  BY DEF WholeAt, Whole
<1>3. \A i \in 0 .. n : R[i] = ToRender(i)
  BY Zenon DEF RestAt, RestOf, ToRender, Included, IncludedAt
<1>4. InStep <=>
         \E start \in [0 .. n + 1 -> Prefixes(Buffer)] :
            /\ start[0] = << >> /\ start[n + 1] = Buffer
            /\ \A i \in 0 .. n : Agree(Whole(i), start[i], start[i + 1], ToRender(i))
  BY Zenon DEF InStep
<1> HIDE DEF W, R
<1>5. InStep <=> Chain(n, W, R, Buffer)
  BY <1>2, <1>3, <1>4, Zenon DEF Chain
<1> QED
  BY <1>5, Zenon DEF Steady, W, R

LEMMA ReturningIs ==
    ASSUME NEW s \in Seq(Frame), s # << >>, NEW rest \in Seq(Token)
    PROVE  LET r == [s EXCEPT ![Len(s)].rest = rest]
           IN  /\ r \in Seq(Frame) /\ Len(r) = Len(s)
               /\ \A i \in 1 .. Len(s) :
                     /\ r[i].fragment = s[i].fragment /\ r[i].alt = s[i].alt
                     /\ r[i].optional = s[i].optional
                     /\ r[i].rest = IF i = Len(s) THEN rest ELSE s[i].rest
<1> DEFINE r == [s EXCEPT ![Len(s)].rest = rest]
<1>1. Len(s) \in Nat /\ Len(s) > 0 /\ s \in [1 .. Len(s) -> Frame]
  BY EmptySeq
<1>2. ASSUME NEW f \in Frame
      PROVE  LET g == [f EXCEPT !.rest = rest]
             IN  /\ g \in Frame /\ g.fragment = f.fragment /\ g.alt = f.alt
                 /\ g.rest = rest /\ g.optional = f.optional
  BY DEF Frame
<1>3. r \in [1 .. Len(s) -> Frame]
  <2>1. [s[Len(s)] EXCEPT !.rest = rest] \in Frame
    BY <1>1, <1>2
  <2> QED
    BY <1>1, <2>1
<1>4. r \in Seq(Frame) /\ Len(r) = Len(s)
  BY <1>1, <1>3
<1>5. \A i \in 1 .. Len(s) :
         r[i] = IF i = Len(s) THEN [s[i] EXCEPT !.rest = rest] ELSE s[i]
  BY <1>1
<1>6. \A i \in 1 .. Len(s) : s[i] \in Frame
  BY <1>1
<1> HIDE DEF r
<1>7. ASSUME NEW i \in 1 .. Len(s)
      PROVE  /\ r[i].fragment = s[i].fragment /\ r[i].alt = s[i].alt
             /\ r[i].optional = s[i].optional
             /\ r[i].rest = IF i = Len(s) THEN rest ELSE s[i].rest
  BY <1>2, <1>5, <1>6
<1> QED
  BY <1>4, <1>7 DEF r

LEMMA SteadyTypes ==
    ASSUME NEW ps \in Inputs, NEW s \in Seq(Frame)
    PROVE  \A i \in 1 .. Len(s) :
              /\ Rendered(ps)[s[i].fragment] \in Results
              /\ RenderTokens(ps, Rendered(ps), s[i].rest) \in Results
              /\ s[i].alt \in Seq(Token)
<1> SUFFICES ASSUME NEW i \in 1 .. Len(s)
             PROVE  /\ Rendered(ps)[s[i].fragment] \in Results
                    /\ RenderTokens(ps, Rendered(ps), s[i].rest) \in Results
                    /\ s[i].alt \in Seq(Token)
  OBVIOUS
<1>1. s[i] \in Frame
  OBVIOUS
<1>2. s[i].fragment \in Fragments /\ s[i].rest \in Seq(Token) /\ s[i].alt \in Seq(Token)
  BY <1>1, FrameType
<1> QED
  BY <1>2, RenderedIs, RenderTokensSteps DEF IsRendering, TokenSteps

\* The rest of the innermost template changes, and something is written.
LEMMA SteadyTop ==
    ASSUME NEW ps \in Inputs, NEW whole, NEW pending, NEW s \in Seq(Frame), s # << >>,
           NEW rest \in Seq(Token), NEW buf \in Seq(Token), NEW tokens \in Seq(Token),
           Steady(ps, whole, pending, s, FALSE, buf),
           \A w \in Results, before \in Seq(Token) :
              Agree(w, before, buf, RenderTokens(ps, Rendered(ps), Last(s).rest)) =>
                 Agree(w, before, buf \o tokens, RenderTokens(ps, Rendered(ps), rest))
    PROVE  Steady(ps, whole, pending, [s EXCEPT ![Len(s)].rest = rest], FALSE,
                  buf \o tokens)
<1> DEFINE r == [s EXCEPT ![Len(s)].rest = rest]
           n == Len(s)
           R == Rendered(ps)
           W1 == WholeAt(R, whole, s)
           W2 == WholeAt(R, whole, r)
           T1 == RestAt(ps, pending, s, FALSE)
           T2 == RestAt(ps, pending, r, FALSE)
<1>1. /\ r \in Seq(Frame) /\ Len(r) = n
      /\ \A i \in 1 .. n :
            /\ r[i].fragment = s[i].fragment /\ r[i].alt = s[i].alt
            /\ r[i].optional = s[i].optional
            /\ r[i].rest = IF i = n THEN rest ELSE s[i].rest
  BY ReturningIs
<1>2. n \in Nat /\ n > 0 /\ n \in 1 .. n /\ Last(s) = s[n]
  BY EmptySeq DEF Last
<1> HIDE DEF r
<1>3. \A i \in 0 .. n : W2[i] = W1[i]
  BY <1>1, <1>2 DEF WholeAt
<1>4. W1[n] = R[s[n].fragment] /\ W1[n] \in Results
  <2>1. W1[n] = R[s[n].fragment]
    BY <1>2 DEF WholeAt
  <2>2. R[s[n].fragment] \in Results
    BY <1>2, SteadyTypes
  <2> QED
    BY <2>1, <2>2
<1>5. /\ T1[n] = RenderTokens(ps, R, s[n].rest)
      /\ T2[n] = RenderTokens(ps, R, rest)
  BY <1>1, <1>2 DEF RestAt, RestOf
<1>6. ASSUME NEW i \in 0 .. n - 1 PROVE T2[i] = T1[i]
  <2>1. i \in 0 .. n /\ i < n /\ i + 1 \in 1 .. n /\ i # n
    BY <1>2
  <2>2. IncludedAt(R, r[i + 1]) = IncludedAt(R, s[i + 1])
    BY <1>1, <2>1 DEF IncludedAt
  <2>3. RestOf(ps, pending, r, i) = RestOf(ps, pending, s, i)
    BY <1>1, <2>1 DEF RestOf
  <2>4. /\ T1[i] = Then(IncludedAt(R, s[i + 1]), RestOf(ps, pending, s, i))
        /\ T2[i] = Then(IncludedAt(R, r[i + 1]), RestOf(ps, pending, r, i))
    BY <1>1, <2>1 DEF RestAt
  <2> QED
    BY <2>2, <2>3, <2>4
<1>7. Chain(n, W1, T1, buf)
  BY DEF Steady
<1> HIDE DEF W1, W2, T1, T2, R
<1>8. \A before \in Seq(Token) :
         Agree(W1[n], before, buf, T1[n]) => Agree(W2[n], before, buf \o tokens, T2[n])
  BY <1>2, <1>3, <1>4, <1>5 DEF R
<1>9. \A i \in 0 .. n - 1 : W2[i] = W1[i] /\ T2[i] = T1[i]
  BY <1>2, <1>3, <1>6
<1> HIDE DEF n
<1>10. Chain(n, W2, T2, buf \o tokens)
  BY <1>2, <1>7, <1>8, <1>9, ChainEnds
<1> QED
  BY <1>1, <1>10 DEF Steady, W2, T2, R, r, n

\* The innermost template fails.
LEMMA SteadyFails ==
    ASSUME NEW ps \in Inputs, NEW whole, NEW pending, NEW s \in Seq(Frame), s # << >>,
           NEW buf \in Seq(Token), Steady(ps, whole, pending, s, FALSE, buf),
           RenderTokens(ps, Rendered(ps), Last(s).rest) = Failure
    PROVE  Steady(ps, whole, pending, s, TRUE, buf)
<1> DEFINE n == Len(s)
           W == WholeAt(Rendered(ps), whole, s)
           T1 == RestAt(ps, pending, s, FALSE)
           T2 == RestAt(ps, pending, s, TRUE)
<1>1. n \in Nat /\ n > 0 /\ Last(s) = s[n]
  BY EmptySeq DEF Last
<1>2. T1[n] = Failure /\ T2[n] = Failure
  BY <1>1 DEF RestAt, RestOf
<1>3. \A i \in 0 .. n - 1 : T1[i] = T2[i]
  BY <1>1 DEF RestAt
<1>4. Chain(n, W, T1, buf) /\ buf \o << >> = buf /\ << >> \in Seq(Token)
  BY NoTokens DEF Steady
<1> HIDE DEF n, W, T1, T2
<1>5. Chain(n, W, T2, buf \o << >>)
  BY <1>1, <1>2, <1>3, <1>4, ChainEnds
<1> QED
  BY <1>4, <1>5 DEF Steady, n, W, T2

\* Two stacks that are the same but for the rest of the innermost template.
SameButRest(after, s) ==
    /\ Len(after) = Len(s)
    /\ \A i \in 1 .. Len(s) :
          /\ after[i].fragment = s[i].fragment /\ after[i].alt = s[i].alt
          /\ after[i].optional = s[i].optional
          /\ i # Len(s) => after[i].rest = s[i].rest

\* A fragment is executed, and what it becomes is to be written first.
LEMMA SteadyPush ==
    ASSUME NEW ps \in Inputs, NEW whole, NEW pending, NEW before, NEW s \in Seq(Frame),
           NEW after \in Seq(Frame), NEW g \in Frame, NEW buf \in Seq(Token),
           Steady(ps, whole, before, s, FALSE, buf), SameButRest(after, s),
           g.rest = Template[g.fragment],
           Len(s) # 0 => pending = before,
           RestOf(ps, before, s, Len(s)) =
              Then(IncludedAt(Rendered(ps), g), RestOf(ps, pending, after, Len(s)))
    PROVE  Steady(ps, whole, pending, Append(after, g), FALSE, buf)
<1> DEFINE p == Append(after, g)
           n == Len(s)
           R == Rendered(ps)
           W1 == WholeAt(R, whole, s)
           W2 == WholeAt(R, whole, p)
           T1 == RestAt(ps, before, s, FALSE)
           T2 == RestAt(ps, pending, p, FALSE)
<1>1. n \in Nat /\ Len(after) = n
  BY DEF SameButRest
<1>s. \A i \in 1 .. n :
         /\ after[i].fragment = s[i].fragment /\ after[i].alt = s[i].alt
         /\ after[i].optional = s[i].optional
         /\ i # n => after[i].rest = s[i].rest
  BY DEF SameButRest
<1>2. /\ Len(p) = n + 1 /\ p \in Seq(Frame) /\ p[n + 1] = g
      /\ \A i \in 1 .. n : p[i] = after[i]
  BY <1>1, AppendProperties
<1> HIDE DEF p
<1>3. \A i \in 0 .. n : W2[i] = W1[i]
  BY <1>1, <1>2, <1>s DEF WholeAt
<1>4. W2[n + 1] = R[g.fragment]
  BY <1>1, <1>2 DEF WholeAt
<1>5. T2[n + 1] = RenderTokens(ps, R, g.rest)
  BY <1>1, <1>2 DEF RestAt, RestOf
<1>6. R[g.fragment] \in Results /\ R[g.fragment] = RenderTokens(ps, R, g.rest)
  <2>1. g.fragment \in Fragments
    BY FrameType
  <2> QED
    BY <2>1, RenderedIs DEF IsRendering
<1>7. Agree(W2[n + 1], buf, buf, T2[n + 1])
  BY <1>4, <1>5, <1>6, AgreeReflexive
<1>8. ASSUME NEW i \in 0 .. n PROVE T2[i] = T1[i]
  <2>1. T2[i] = Then(IncludedAt(R, p[i + 1]), RestOf(ps, pending, p, i))
    BY <1>1, <1>2 DEF RestAt
  <2>2. RestOf(ps, pending, p, i) = RestOf(ps, pending, after, i)
    BY <1>1, <1>2 DEF RestOf
  <2>3. CASE i = n
    <3>1. T1[i] = RestOf(ps, before, s, n)
      BY <1>1, <2>3 DEF RestAt
    <3> QED
      BY <1>2, <2>1, <2>2, <2>3, <3>1
  <2>4. CASE i # n
    <3>1. i < n /\ i + 1 \in 1 .. n /\ (i # 0 => i \in 1 .. n) /\ n # 0
      BY <1>1, <2>4
    <3>2. T1[i] = Then(IncludedAt(R, s[i + 1]), RestOf(ps, before, s, i))
      BY <1>1, <3>1 DEF RestAt
    <3>3. IncludedAt(R, p[i + 1]) = IncludedAt(R, s[i + 1])
      BY <1>2, <1>s, <3>1 DEF IncludedAt
    <3>4. RestOf(ps, pending, after, i) = RestOf(ps, before, s, i)
      BY <1>s, <2>4, <3>1 DEF RestOf
    <3> QED
      BY <2>1, <2>2, <3>2, <3>3, <3>4
  <2> QED
    BY <2>3, <2>4
<1>9. Chain(n, W1, T1, buf)
  BY DEF Steady
<1> HIDE DEF W1, W2, T1, T2, R, n
<1>10. \A i \in 0 .. n : W2[i] = W1[i] /\ T2[i] = T1[i]
  BY <1>3, <1>8
<1>m. PICK m : m = n + 1
  OBVIOUS
<1>11. Chain(m, W2, T2, buf)
  BY <1>1, <1>7, <1>9, <1>10, <1>m, ChainGrows
<1> QED
  BY <1>2, <1>11, <1>m DEF Steady, W2, T2, R, p

LEMMA FrontIs ==
    ASSUME NEW s \in Seq(Frame), s # << >>
    PROVE  /\ Front(s) \in Seq(Frame) /\ Len(Front(s)) = Len(s) - 1
           /\ \A i \in 1 .. Len(s) - 1 : Front(s)[i] = s[i]
<1> DEFINE p == Front(s)
           m == Len(s) - 1
<1>1. m \in Nat /\ \A i \in 1 .. m : s[i] \in Frame
  BY EmptySeq
<1> HIDE DEF m
<1>2. /\ SubSeq(s, 1, m) \in Seq(Frame)
      /\ Len(SubSeq(s, 1, m)) = IF 1 <= m THEN m - 1 + 1 ELSE 0
      /\ \A i \in 1 .. m - 1 + 1 : SubSeq(s, 1, m)[i] = s[1 + i - 1]
  BY <1>1, SubSeqProperties
<1>3. p = SubSeq(s, 1, m)
  BY DEF m, Front
<1> HIDE DEF p
<1>4. Len(p) = m /\ \A i \in 1 .. m : p[i] = s[i]
  BY <1>1, <1>2, <1>3
<1> QED
  BY <1>2, <1>3, <1>4 DEF p, m

\* Leaving a template is right for its includer, whatever that is to become.
LeavingAgrees(ps, frame, buf, fails, newBuf, failsNow) ==
    \A w, r, rest \in Results, before, middle \in Seq(Token) :
       /\ r = Rendered(ps)[frame.fragment]
       /\ Agree(r, middle, buf, IF fails THEN Failure
                                ELSE RenderTokens(ps, Rendered(ps), frame.rest))
       /\ Agree(w, before, middle,
                Then(IF frame.optional THEN Or(r, frame.alt) ELSE r, rest))
       => Agree(w, before, newBuf, IF failsNow THEN Failure ELSE rest)

\* A template is left: its includer goes on, or fails.
LEMMA SteadyPop ==
    ASSUME NEW ps \in Inputs, NEW whole \in Results, NEW pending \in Results,
           NEW s \in Seq(Frame), s # << >>,
           NEW buf \in Seq(Token), NEW tokens \in Seq(Token), NEW fails, NEW failsNow,
           Steady(ps, whole, pending, s, fails, buf),
           LeavingAgrees(ps, Last(s), buf, fails, buf \o tokens, failsNow)
    PROVE  Steady(ps, whole, pending, Front(s), failsNow, buf \o tokens)
<1> DEFINE p == Front(s)
           n == Len(s) - 1
           R == Rendered(ps)
           W1 == WholeAt(R, whole, s)
           W2 == WholeAt(R, whole, p)
           T1 == RestAt(ps, pending, s, fails)
           T2 == RestAt(ps, pending, p, failsNow)
           rest == RestOf(ps, pending, s, n)
           top == s[n + 1]
<1>1. /\ n \in Nat /\ Len(s) = n + 1 /\ Last(s) = top
  BY EmptySeq DEF Last
<1>2. p \in Seq(Frame) /\ Len(p) = n /\ \A i \in 1 .. n : p[i] = s[i]
  BY FrontIs
<1> HIDE DEF p, n
<1>3. \A i \in 0 .. n : W2[i] = W1[i]
  BY <1>1, <1>2 DEF WholeAt
<1>4. /\ W1[n + 1] = R[top.fragment] /\ R[top.fragment] \in Results
      /\ W1[n] \in Results
  <2>1. W1[n + 1] = R[top.fragment]
    BY <1>1 DEF WholeAt
  <2>2. \A i \in 1 .. n + 1 : R[s[i].fragment] \in Results
    BY <1>1, SteadyTypes
  <2>3. CASE n = 0
    BY <1>1, <2>1, <2>2, <2>3 DEF WholeAt
  <2>4. CASE n # 0
    <3>1. W1[n] = R[s[n].fragment]
      BY <1>1, <2>4 DEF WholeAt
    <3> QED
      BY <1>1, <2>1, <2>2, <2>4, <3>1
  <2> QED
    BY <2>3, <2>4
<1>5. rest \in Results
  BY <1>1, SteadyTypes DEF RestOf
<1>6. T1[n + 1] = IF fails THEN Failure ELSE RenderTokens(ps, R, top.rest)
  BY <1>1 DEF RestAt, RestOf
<1>7. T1[n] = Then(IncludedAt(R, top), rest)
  BY <1>1 DEF RestAt
<1>8. T2[n] = IF failsNow THEN Failure ELSE rest
  BY <1>1, <1>2 DEF RestAt, RestOf
<1>9. ASSUME NEW i \in 0 .. n - 1 PROVE T2[i] = T1[i]
  <2>1. i \in 0 .. n /\ i < n /\ i < n + 1 /\ i + 1 \in 1 .. n /\ (i # 0 => i \in 1 .. n)
    BY <1>1
  <2>2. T1[i] = Then(IncludedAt(R, s[i + 1]), RestOf(ps, pending, s, i))
    BY <1>1, <2>1 DEF RestAt
  <2>3. T2[i] = Then(IncludedAt(R, p[i + 1]), RestOf(ps, pending, p, i))
    BY <1>1, <1>2, <2>1 DEF RestAt
  <2>4. p[i + 1] = s[i + 1] /\ RestOf(ps, pending, p, i) = RestOf(ps, pending, s, i)
    BY <1>2, <2>1 DEF RestOf
  <2> QED
    BY <2>2, <2>3, <2>4
<1>10. Chain(n + 1, W1, T1, buf)
  BY <1>1 DEF Steady
<1>11. IncludedAt(R, top) = IF top.optional THEN Or(R[top.fragment], top.alt)
                            ELSE R[top.fragment]
  BY DEF IncludedAt
<1> HIDE DEF W1, W2, T1, T2, rest, top
<1>12. ASSUME NEW before \in Seq(Token), NEW middle \in Seq(Token),
              Agree(W1[n], before, middle, T1[n]),
              Agree(W1[n + 1], middle, buf, T1[n + 1])
       PROVE  Agree(W2[n], before, buf \o tokens, T2[n])
  <2>1. W2[n] = W1[n]
    BY <1>1, <1>3
  <2>2. Agree(W1[n], before, middle,
              Then(IF top.optional THEN Or(R[top.fragment], top.alt)
                   ELSE R[top.fragment], rest))
    BY <1>7, <1>11, <1>12
  <2>3. Agree(R[top.fragment], middle, buf,
              IF fails THEN Failure ELSE RenderTokens(ps, R, top.rest))
    BY <1>4, <1>6, <1>12
  <2>4. Agree(W1[n], before, buf \o tokens, IF failsNow THEN Failure ELSE rest)
    BY <1>1, <1>4, <1>5, <2>2, <2>3 DEF LeavingAgrees
  <2> QED
    BY <1>8, <2>1, <2>4
<1>13. \A i \in 0 .. n - 1 : W2[i] = W1[i] /\ T2[i] = T1[i]
  BY <1>1, <1>3, <1>9
<1> HIDE DEF R
<1>14. Chain(n, W2, T2, buf \o tokens)
  BY <1>1, <1>10, <1>12, <1>13, ChainShrinks
<1> QED
  BY <1>2, <1>14 DEF Steady, W2, T2, R, p

\* Nothing is executed.
LEMMA SteadyIdle ==
    ASSUME NEW ps, NEW whole, NEW pending, NEW fails, NEW buf \in Seq(Token)
    PROVE  Steady(ps, whole, pending, << >>, fails, buf) <=>
              Agree(whole, << >>, buf, IF fails THEN Failure ELSE pending)
<1> DEFINE W == WholeAt(Rendered(ps), whole, << >>)
           T == RestAt(ps, pending, << >>, fails)
<1>1. Len(<< >>) = 0
  OBVIOUS
<1>2. W[0] = whole
  BY <1>1 DEF WholeAt
<1>3. T[0] = IF fails THEN Failure ELSE pending
  BY <1>1 DEF RestAt, RestOf
<1> HIDE DEF W, T
<1>4. Chain(0, W, T, buf) => Agree(W[0], << >>, buf, T[0])
  BY DEF Chain
<1>5. ASSUME Agree(W[0], << >>, buf, T[0]) PROVE Chain(0, W, T, buf)
  <2> DEFINE s == [i \in 0 .. 0 + 1 |-> IF i = 0 THEN << >> ELSE buf]
  <2>1. s \in [0 .. 0 + 1 -> Prefixes(buf)] /\ s[0] = << >> /\ s[0 + 1] = buf
    BY PrefixesOf
  <2> HIDE DEF s
  <2> QED
    BY <1>5, <2>1 DEF Chain
<1> QED
  BY <1>1, <1>2, <1>3, <1>4, <1>5 DEF Steady, W, T

-----------------------------------------------------------------------------
(* Executing templates stays in step with the documentation.               *)

Stages == {"head", "body", "tail"}

Sound == MergeIsSound /\ AddedAreRegistered /\ NamesAreDistinct /\ StageIsSound

LEMMA PageTypes ==
    ASSUME NEW ps \in Inputs
    PROVE  HeaderOf(ps) \in Results /\ BodyOf(ps) \in Results
<1>1. Len(ps) \in 0 .. Len(ps)
  BY PagesAre
<1>2. HeadsOf(ps, Len(ps)) \in Seq(Fragments) /\ TailsOf(ps, Len(ps)) \in Seq(Fragments)
  BY <1>1, HeadsAndTails
<1>3. /\ RenderAll(ps, HeadsOf(ps, Len(ps))) \in Results
      /\ RenderAll(ps, TailsOf(ps, Len(ps))) \in Results
  BY <1>2, RenderAllSteps DEF FragmentSteps
<1>4. Then(Named(ps, Rendered(ps), StartName(ps)),
           RenderAll(ps, TailsOf(ps, Len(ps)))) \in Results
  BY <1>3, NamedType, ThenType
<1> QED
  BY <1>3, <1>4 DEF HeaderOf, BodyOf

LEMMA Executes ==
    ASSUME Sound, stage \in Stages
    PROVE  /\ pages \in Inputs /\ stack \in Seq(Frame) /\ Buffer \in Seq(Token)
           /\ Whole(0) \in Results /\ Pending \in Results /\ toAdd = << >>
           /\ Steady(pages, Whole(0), Pending, stack, failing, Buffer)
<1>1. /\ pages \in Inputs /\ stack \in Seq(Frame) /\ Buffer \in Seq(Token)
      /\ heads \in Seq(Fragments) /\ tails \in Seq(Fragments)
  BY DEF Sound, MergeIsSound, TypeOK, Buffer
<1>2. Whole(0) \in Results /\ Pending \in Results
  BY <1>1, PageTypes, RenderAllSteps DEF Whole, Pending, FragmentSteps
<1>3. InStep /\ toAdd = << >>
  BY DEF Sound, StageIsSound, Stages
<1> QED
  BY <1>1, <1>2, <1>3, InStepIsSteady

LEMMA TopIs ==
    ASSUME Sound, stack # << >>
    PROVE  /\ Last(stack) = Top /\ Top \in Frame /\ Top.rest \in Seq(Token)
           /\ Top.fragment \in Fragments /\ Top.alt \in Seq(Token)
           /\ Top.optional \in BOOLEAN
           /\ TokenSteps(pages, Rendered(pages), Top.rest)
  BY TopOfStack, FrameType, RenderTokensSteps DEF Sound, Top

LEMMA WriteIs ==
    ASSUME NEW tokens, Write(tokens), stage' = stage
    PROVE  /\ Buffer' = Buffer \o tokens
           /\ stage = "head" => body' = body
           /\ stage # "head" => header' = header
  BY DEF Write, Buffer

\* What a step that executes a template has to show.
KeepsStep ==
    /\ UNCHANGED <<input, stage, heads, Body, tails>>
    /\ stage = "head" => body' = body
    /\ stage # "head" => header' = header
    /\ stage \in Stages =>
          Steady(pages, Whole(0), Pending, stack', failing', Buffer')

LEMMA StillInStep ==
    ASSUME Sound, MergeIsSound', stack # << >>, KeepsStep
    PROVE  StageIsSound'
<1>1. UNCHANGED <<pages, toAdd, stage, heads, Body, tails>>
  BY DEF KeepsStep, input
<1>2. /\ stage # "adding" /\ stage # "done" /\ toAdd' = << >>
      /\ stack' \in Seq(Frame)
  <2>1. stage # "adding" => toAdd = << >>
    BY DEF Sound, StageIsSound
  <2> QED
    BY <1>1, <2>1 DEF Sound, StageIsSound, MergeIsSound, TypeOK
<1>3. Whole(0)' = Whole(0) /\ Pending' = Pending
  BY <1>1 DEF Whole, Pending
<1>4. ASSUME stage \in Stages PROVE InStep'
  <2>1. (stack \in Seq(Frame) =>
           (InStep <=> Steady(pages, Whole(0), Pending, stack, failing, Buffer)))'
    BY InStepIsSteady, PTL
  <2>2. Steady(pages, Whole(0), Pending, stack', failing', Buffer')
    BY <1>4 DEF KeepsStep
  <2> QED
    BY <1>1, <1>2, <1>3, <2>1, <2>2
<1>5. CASE stage = "head"
  <2>1. body' = << >> /\ tails' = TailsOf(pages', Added') /\ InStep'
    BY <1>1, <1>4, <1>5 DEF KeepsStep, Sound, StageIsSound, Added, Stages
  <2> QED
    BY <1>1, <1>2, <1>5, <2>1 DEF StageIsSound
<1>6. CASE stage \in {"body", "tail"}
  <2>1. Complete(HeaderOf(pages), header)' /\ InStep'
    BY <1>1, <1>4, <1>6 DEF KeepsStep, Sound, StageIsSound, Stages, Complete
  <2> QED
    BY <1>1, <1>2, <1>6, <2>1 DEF StageIsSound
<1>7. CASE stage = "failed"
  BY <1>1, <1>2, <1>7 DEF Sound, StageIsSound
<1> QED
  BY <1>2, <1>5, <1>6, <1>7 DEF Sound, MergeIsSound, TypeOK

LEMMA WriteTextInStep ==
    ASSUME Sound, WriteText
    PROVE  KeepsStep
<1> DEFINE t == Head(Top.rest)
           R == Rendered(pages)
<1>1. /\ stack # << >> /\ Top.rest # << >> /\ t.kind = "text"
      /\ stack' = [stack EXCEPT ![Len(stack)].rest = Tail(Top.rest)]
      /\ Write(<<t>>) /\ failing = FALSE /\ failing' = FALSE
      /\ UNCHANGED <<input, stage, heads, Body, tails>>
  BY DEF WriteText, Running, Returning, Sound, MergeIsSound, TypeOK
<1>2. /\ Last(stack) = Top /\ Top.rest \in Seq(Token) /\ t \in Token
      /\ Tail(Top.rest) \in Seq(Token) /\ <<t>> \in Seq(Token)
      /\ TokenSteps(pages, R, Top.rest)
  BY <1>1, TopIs, TailOf, TextResult
<1>3. Buffer' = Buffer \o <<t>>
      /\ (stage = "head" => body' = body) /\ (stage # "head" => header' = header)
  BY <1>1, WriteIs
<1>4. ASSUME stage \in Stages
      PROVE  Steady(pages, Whole(0), Pending, stack', failing', Buffer')
  <2>1. /\ pages \in Inputs /\ stack \in Seq(Frame) /\ Buffer \in Seq(Token)
        /\ Steady(pages, Whole(0), Pending, stack, FALSE, Buffer)
    BY <1>1, <1>4, Executes
  <2>2. RenderTokens(pages, R, Top.rest)
           = Then(Result(TRUE, <<t>>), RenderTokens(pages, R, Tail(Top.rest)))
    BY <1>1, <1>2 DEF TokenSteps
  <2>3. RenderTokens(pages, R, Tail(Top.rest)) \in Results
    BY <1>2, RenderTokensSteps DEF TokenSteps
  <2>4. \A w \in Results, before \in Seq(Token) :
           Agree(w, before, Buffer, RenderTokens(pages, R, Last(stack).rest)) =>
              Agree(w, before, Buffer \o <<t>>, RenderTokens(pages, R, Tail(Top.rest)))
    BY <1>2, <2>1, <2>2, <2>3, AgreeWrite
  <2>5. Steady(pages, Whole(0), Pending,
               [stack EXCEPT ![Len(stack)].rest = Tail(Top.rest)], FALSE,
               Buffer \o <<t>>)
    BY <1>1, <1>2, <2>1, <2>4, SteadyTop
  <2> QED
    BY <1>1, <1>3, <2>5
<1> QED
  BY <1>1, <1>3, <1>4 DEF KeepsStep

LEMMA SkipEndInStep ==
    ASSUME Sound, SkipEnd
    PROVE  KeepsStep
<1> DEFINE R == Rendered(pages)
<1>1. /\ stack # << >> /\ Top.rest # << >> /\ Head(Top.rest).kind = "end"
      /\ stack' = [stack EXCEPT ![Len(stack)].rest = Tail(Top.rest)]
      /\ failing = FALSE /\ failing' = FALSE
      /\ UNCHANGED <<input, stage, heads, Body, tails, buffers>>
  BY DEF SkipEnd, Running, Returning, Sound, MergeIsSound, TypeOK
<1>2. /\ Last(stack) = Top /\ Top.rest \in Seq(Token)
      /\ Tail(Top.rest) \in Seq(Token) /\ << >> \in Seq(Token)
      /\ TokenSteps(pages, R, Top.rest)
  BY <1>1, TopIs, TailOf, NoTokens
<1>3. Buffer' = Buffer /\ body' = body /\ header' = header
  BY <1>1 DEF Buffer, buffers
<1>4. ASSUME stage \in Stages
      PROVE  Steady(pages, Whole(0), Pending, stack', failing', Buffer')
  <2>1. /\ pages \in Inputs /\ stack \in Seq(Frame) /\ Buffer \in Seq(Token)
        /\ Steady(pages, Whole(0), Pending, stack, FALSE, Buffer)
        /\ Buffer \o << >> = Buffer
    BY <1>1, <1>4, Executes, NoTokens
  <2>2. RenderTokens(pages, R, Top.rest) = RenderTokens(pages, R, Tail(Top.rest))
    BY <1>1, <1>2 DEF TokenSteps
  <2>3. Steady(pages, Whole(0), Pending,
               [stack EXCEPT ![Len(stack)].rest = Tail(Top.rest)], FALSE,
               Buffer \o << >>)
    BY <1>1, <1>2, <2>1, <2>2, SteadyTop
  <2> QED
    BY <1>1, <1>3, <2>1, <2>3
<1> QED
  BY <1>1, <1>3, <1>4 DEF KeepsStep

\* An error occurs in the innermost template.
LEMMA FailingInStep ==
    ASSUME Sound, stack # << >>, failing = FALSE, failing' = TRUE,
           UNCHANGED <<input, stage, heads, Body, tails, stack, buffers>>,
           RenderTokens(pages, Rendered(pages), Top.rest) = Failure
    PROVE  KeepsStep
<1>1. Buffer' = Buffer /\ body' = body /\ header' = header
  BY DEF Buffer, buffers
<1>2. ASSUME stage \in Stages
      PROVE  Steady(pages, Whole(0), Pending, stack', failing', Buffer')
  <2>1. /\ pages \in Inputs /\ stack \in Seq(Frame) /\ Buffer \in Seq(Token)
        /\ Steady(pages, Whole(0), Pending, stack, FALSE, Buffer)
    BY <1>2, Executes
  <2>2. RenderTokens(pages, Rendered(pages), Last(stack).rest) = Failure
    BY TopIs
  <2>3. Steady(pages, Whole(0), Pending, stack, TRUE, Buffer)
    BY <2>1, <2>2, SteadyFails
  <2> QED
    BY <1>1, <2>3
<1> QED
  BY <1>1, <1>2 DEF KeepsStep

LEMMA ParsingFailsInStep ==
    ASSUME Sound, ParsingFails
    PROVE  KeepsStep
<1> DEFINE t == Head(Top.rest)
<1>1. /\ stack # << >> /\ Top.rest # << >> /\ failing = FALSE /\ failing' = TRUE
      /\ t.kind = "broken" \/ (t.kind = "block" /\ End(t.name) \notin ToSet(Top.rest))
      /\ UNCHANGED <<input, stage, heads, Body, tails, stack, buffers>>
  BY DEF ParsingFails, Running, Sound, MergeIsSound, TypeOK
<1>2. TokenSteps(pages, Rendered(pages), Top.rest)
  BY <1>1, TopIs
<1>3. t.kind \notin {"text", "end", "include"} /\ ~IsBlock(Top.rest)
  BY <1>1 DEF IsBlock
<1>4. RenderTokens(pages, Rendered(pages), Top.rest) = Failure
  BY <1>1, <1>2, <1>3 DEF TokenSteps
<1> QED
  BY <1>1, <1>4, FailingInStep

\* A fragment is executed that the template includes.
LEMMA IncludingInStep ==
    ASSUME Sound, stack # << >>, failing = FALSE, failing' = FALSE,
           NEW rest \in Seq(Token), NEW f \in Fragments, NEW optional \in BOOLEAN,
           NEW alt \in Seq(Token),
           UNCHANGED <<input, stage, heads, Body, tails, buffers>>,
           stack' = Append(Returning(rest), Executing(f, optional, alt)),
           RenderTokens(pages, Rendered(pages), Top.rest) =
              Then(IF optional THEN Or(Rendered(pages)[f], alt) ELSE Rendered(pages)[f],
                   RenderTokens(pages, Rendered(pages), rest))
    PROVE  KeepsStep
<1> DEFINE R == Rendered(pages)
           n == Len(stack)
           after == Returning(rest)
           g == Executing(f, optional, alt)
<1>1. Buffer' = Buffer /\ body' = body /\ header' = header
  BY DEF Buffer, buffers
<1>2. ASSUME stage \in Stages
      PROVE  Steady(pages, Whole(0), Pending, stack', failing', Buffer')
  <2>1. /\ pages \in Inputs /\ stack \in Seq(Frame) /\ Buffer \in Seq(Token)
        /\ Steady(pages, Whole(0), Pending, stack, FALSE, Buffer)
    BY <1>2, Executes
  <2>2. n \in Nat /\ n > 0 /\ Last(stack) = stack[n] /\ Last(stack) = Top
    BY <2>1, EmptySeq, TopIs DEF Last
  <2>3. after = [stack EXCEPT ![Len(stack)].rest = rest]
    BY DEF Returning
  <2>4. /\ after \in Seq(Frame) /\ SameButRest(after, stack) /\ after[n].rest = rest
    <3>1. /\ after \in Seq(Frame) /\ Len(after) = Len(stack)
          /\ \A i \in 1 .. Len(stack) :
                /\ after[i].fragment = stack[i].fragment /\ after[i].alt = stack[i].alt
                /\ after[i].optional = stack[i].optional
                /\ after[i].rest = IF i = Len(stack) THEN rest ELSE stack[i].rest
      BY <2>1, <2>3, ReturningIs
    <3> HIDE DEF after
    <3> QED
      BY <2>2, <3>1 DEF SameButRest
  <2>5. /\ g \in Frame /\ g.fragment = f /\ g.rest = Template[f]
        /\ g.optional = optional /\ g.alt = alt
    BY TemplateAssumption DEF Executing, Frame
  <2> HIDE DEF after, g
  <2>6. IncludedAt(R, g) = IF optional THEN Or(R[f], alt) ELSE R[f]
    BY <2>5 DEF IncludedAt
  <2>7. RestOf(pages, Pending, stack, Len(stack)) =
           Then(IncludedAt(R, g), RestOf(pages, Pending, after, Len(stack)))
    BY <2>2, <2>4, <2>6 DEF RestOf
  <2>8. Steady(pages, Whole(0), Pending, Append(after, g), FALSE, Buffer)
    BY <2>1, <2>4, <2>5, <2>7, SteadyPush
  <2> QED
    BY <1>1, <2>8 DEF after, g
<1> QED
  BY <1>1, <1>2 DEF KeepsStep

LEMMA IncludeFragmentInStep ==
    ASSUME Sound, IncludeFragment
    PROVE  KeepsStep
<1> DEFINE t == Head(Top.rest)
           R == Rendered(pages)
           f == GetBodyFragmentByName(t.name)
<1>1. /\ stack # << >> /\ Top.rest # << >> /\ t.kind = "include" /\ failing = FALSE
      /\ UNCHANGED <<input, stage, heads, Body, tails, buffers>>
      /\ IF Exists(t.name)
         THEN /\ stack' = Append(Returning(Tail(Top.rest)), Executing(f, FALSE, << >>))
              /\ failing' = FALSE
         ELSE failing' = TRUE /\ stack' = stack
  BY DEF IncludeFragment, ExecuteFragment, Running, Sound, MergeIsSound, TypeOK
<1>2. /\ Top.rest \in Seq(Token) /\ Tail(Top.rest) \in Seq(Token)
      /\ TokenSteps(pages, R, Top.rest)
      /\ RenderTokens(pages, R, Tail(Top.rest)) \in Results
  <2>1. /\ Top.rest \in Seq(Token) /\ Tail(Top.rest) \in Seq(Token)
        /\ TokenSteps(pages, R, Top.rest)
    BY <1>1, TopIs, TailOf
  <2> QED
    BY <2>1, RenderTokensSteps DEF TokenSteps
<1>3. RenderTokens(pages, R, Top.rest) =
         Then(Named(pages, R, t.name), RenderTokens(pages, R, Tail(Top.rest)))
  BY <1>1, <1>2 DEF TokenSteps
<1>4. toAdd = << >>
  <2>1. stage # "adding"
    BY <1>1 DEF Sound, StageIsSound
  <2> QED
    BY <2>1 DEF Sound, StageIsSound
<1>5. CASE Exists(t.name)
  <2>1. Named(pages, R, t.name) = R[f] /\ f \in Fragments
    BY <1>4, <1>5, NameBecomes, NameIsRegistered DEF Sound
  <2> HIDE DEF f
  <2>2. << >> \in Seq(Token) /\ FALSE \in BOOLEAN
    BY NoTokens
  <2> QED
    BY <1>1, <1>2, <1>3, <1>5, <2>1, <2>2, IncludingInStep
<1>6. CASE ~Exists(t.name)
  <2>1. Named(pages, R, t.name) = Failure
    BY <1>4, <1>6, NameBecomes DEF Sound
  <2>2. RenderTokens(pages, R, Top.rest) = Failure
    BY <1>2, <1>3, <2>1, ThenType, SuccessType
  <2> QED
    BY <1>1, <1>6, <2>2, FailingInStep
<1> QED
  BY <1>5, <1>6

LEMMA IncludeBlockInStep ==
    ASSUME Sound, IncludeBlock
    PROVE  KeepsStep
<1> DEFINE t == Head(Top.rest)
           R == Rendered(pages)
           f == GetBodyFragmentByName(t.name)
           alt == AltOf(Top.rest)
           rest == AfterEnd(Top.rest)
<1>1. /\ stack # << >> /\ Top.rest # << >> /\ IsBlock(Top.rest) /\ failing = FALSE
      /\ failing' = FALSE /\ UNCHANGED <<input, stage, heads, Body, tails>>
      /\ IF Exists(t.name)
         THEN /\ stack' = Append(Returning(rest), Executing(f, TRUE, alt))
              /\ UNCHANGED buffers
         ELSE stack' = Returning(rest) /\ Write(alt)
  BY DEF IncludeBlock, ExecuteFragment, Running, Sound, MergeIsSound, TypeOK, IsBlock,
     AltOf, AfterEnd
<1>2. /\ Last(stack) = Top /\ Top.rest \in Seq(Token) /\ rest \in Seq(Token)
      /\ alt \in Seq(Token) /\ TokenSteps(pages, R, Top.rest)
  BY <1>1, TopIs, BlockParts
<1> HIDE DEF alt, rest
<1>3. RenderTokens(pages, R, rest) \in Results
  BY <1>2, RenderTokensSteps DEF TokenSteps
<1>4. RenderTokens(pages, R, Top.rest) =
         Then(Or(Named(pages, R, t.name), alt), RenderTokens(pages, R, rest))
  BY <1>1, <1>2 DEF TokenSteps, alt, rest
<1>5. toAdd = << >>
  <2>1. stage # "adding"
    BY <1>1 DEF Sound, StageIsSound
  <2> QED
    BY <2>1 DEF Sound, StageIsSound
<1>6. CASE Exists(t.name)
  <2>1. Named(pages, R, t.name) = R[f] /\ f \in Fragments
    BY <1>5, <1>6, NameBecomes, NameIsRegistered DEF Sound
  <2> HIDE DEF f
  <2>2. TRUE \in BOOLEAN
    OBVIOUS
  <2> QED
    BY <1>1, <1>2, <1>4, <1>6, <2>1, <2>2, IncludingInStep
<1>7. CASE ~Exists(t.name)
  <2>1. Named(pages, R, t.name) = Failure
    BY <1>5, <1>7, NameBecomes DEF Sound
  <2>2. Or(Failure, alt) = Result(TRUE, alt)
    BY SuccessType DEF Or
  <2>3. Write(alt) /\ stack' = [stack EXCEPT ![Len(stack)].rest = rest]
    BY <1>1, <1>7 DEF Returning
  <2>4. Buffer' = Buffer \o alt
        /\ (stage = "head" => body' = body) /\ (stage # "head" => header' = header)
    BY <1>1, <2>3, WriteIs
  <2>5. ASSUME stage \in Stages
        PROVE  Steady(pages, Whole(0), Pending, stack', failing', Buffer')
    <3>1. /\ pages \in Inputs /\ stack \in Seq(Frame) /\ Buffer \in Seq(Token)
          /\ Steady(pages, Whole(0), Pending, stack, FALSE, Buffer)
      BY <1>1, <2>5, Executes
    <3>2. \A w \in Results, before \in Seq(Token) :
             Agree(w, before, Buffer, RenderTokens(pages, R, Last(stack).rest)) =>
                Agree(w, before, Buffer \o alt, RenderTokens(pages, R, rest))
      BY <1>2, <1>3, <1>4, <2>1, <2>2, <3>1, AgreeWrite
    <3>3. Steady(pages, Whole(0), Pending,
                 [stack EXCEPT ![Len(stack)].rest = rest], FALSE, Buffer \o alt)
      BY <1>1, <1>2, <3>1, <3>2, SteadyTop
    <3> QED
      BY <1>1, <2>3, <2>4, <3>3
  <2> QED
    BY <1>1, <2>4, <2>5 DEF KeepsStep
<1> QED
  BY <1>6, <1>7

LEMMA TemplateEndsInStep ==
    ASSUME Sound, TemplateEnds
    PROVE  KeepsStep
<1> DEFINE R == Rendered(pages)
<1>1. /\ stack # << >> /\ Top.rest = << >> /\ failing = FALSE /\ failing' = FALSE
      /\ stack' = Front(stack)
      /\ UNCHANGED <<input, stage, heads, Body, tails, buffers>>
  BY DEF TemplateEnds, Running, Sound, MergeIsSound, TypeOK
<1>2. Buffer' = Buffer /\ body' = body /\ header' = header
  BY <1>1 DEF Buffer, buffers
<1>3. /\ Last(stack) = Top /\ Top.alt \in Seq(Token)
      /\ RenderTokens(pages, R, Top.rest) = Success
  BY <1>1, TopIs DEF TokenSteps
<1>4. ASSUME stage \in Stages
      PROVE  Steady(pages, Whole(0), Pending, stack', failing', Buffer')
  <2>1. /\ pages \in Inputs /\ stack \in Seq(Frame) /\ Buffer \in Seq(Token)
        /\ Whole(0) \in Results /\ Pending \in Results
        /\ Steady(pages, Whole(0), Pending, stack, FALSE, Buffer)
        /\ Buffer \o << >> = Buffer /\ << >> \in Seq(Token)
    BY <1>1, <1>4, Executes, NoTokens
  <2>2. ASSUME NEW w \in Results, NEW r \in Results, NEW rest \in Results,
               NEW before \in Seq(Token), NEW middle \in Seq(Token),
               Agree(r, middle, Buffer, Success),
               Agree(w, before, middle,
                     Then(IF Top.optional THEN Or(r, Top.alt) ELSE r, rest))
        PROVE  Agree(w, before, Buffer \o << >>, rest)
    <3>1. r.ok
      BY <2>2, SuccessType DEF Agree
    <3>2. Or(r, Top.alt) = r
      BY <3>1 DEF Or
    <3>3. Agree(w, before, middle, Then(r, rest))
      BY <2>2, <3>2
    <3> QED
      BY <2>1, <2>2, <3>3, AgreeReturn
  <2>l. LeavingAgrees(pages, Last(stack), Buffer, FALSE, Buffer \o << >>, FALSE)
    BY <1>3, <2>2 DEF LeavingAgrees
  <2>3. Steady(pages, Whole(0), Pending, Front(stack), FALSE, Buffer \o << >>)
    BY <1>1, <2>1, <2>l, SteadyPop
  <2> QED
    BY <1>1, <1>2, <2>1, <2>3
<1> QED
  BY <1>1, <1>2, <1>4 DEF KeepsStep

LEMMA ReturnErrorInStep ==
    ASSUME Sound, ReturnError
    PROVE  KeepsStep
<1> DEFINE tokens == IF Top.optional THEN Top.alt ELSE << >>
<1>1. /\ stack # << >> /\ failing = TRUE /\ failing' = ~Top.optional
      /\ stack' = Front(stack)
      /\ IF Top.optional THEN Write(Top.alt) ELSE UNCHANGED buffers
      /\ UNCHANGED <<input, stage, heads, Body, tails>>
  BY DEF ReturnError, Sound, MergeIsSound, TypeOK
<1>2. /\ Last(stack) = Top /\ Top.alt \in Seq(Token) /\ Top.optional \in BOOLEAN
      /\ tokens \in Seq(Token)
  BY <1>1, TopIs, NoTokens
<1>3. /\ stage = "head" => body' = body
      /\ stage # "head" => header' = header
      /\ Buffer' = IF Top.optional THEN Buffer \o Top.alt ELSE Buffer
  <2>1. CASE Top.optional
    BY <1>1, <2>1, WriteIs
  <2>2. CASE ~Top.optional
    BY <1>1, <2>2 DEF Buffer, buffers
  <2> QED
    BY <2>1, <2>2
<1>4. ASSUME stage \in Stages
      PROVE  Steady(pages, Whole(0), Pending, stack', failing', Buffer')
  <2>1. /\ pages \in Inputs /\ stack \in Seq(Frame) /\ Buffer \in Seq(Token)
        /\ Whole(0) \in Results /\ Pending \in Results
        /\ Steady(pages, Whole(0), Pending, stack, TRUE, Buffer)
        /\ Buffer \o << >> = Buffer /\ << >> \in Seq(Token)
    BY <1>1, <1>4, Executes, NoTokens
  <2>2. ASSUME NEW w \in Results, NEW r \in Results, NEW rest \in Results,
               NEW before \in Seq(Token), NEW middle \in Seq(Token),
               Agree(r, middle, Buffer, Failure),
               Agree(w, before, middle,
                     Then(IF Top.optional THEN Or(r, Top.alt) ELSE r, rest))
        PROVE  Agree(w, before, Buffer \o tokens,
                     IF ~Top.optional THEN Failure ELSE rest)
    <3>1. CASE Top.optional
      <4>1. Agree(w, before, middle, Then(Or(r, Top.alt), rest))
        BY <2>2, <3>1
      <4>2. Agree(w, before, Buffer \o Top.alt, rest)
        BY <1>2, <2>1, <2>2, <4>1, AgreeAlternative
      <4> QED
        BY <3>1, <4>2
    <3>2. CASE ~Top.optional
      <4>1. Agree(w, before, middle, Then(r, rest))
        BY <2>2, <3>2
      <4>2. Agree(w, before, Buffer, Failure)
        BY <2>1, <2>2, <4>1, AgreeFail
      <4> QED
        BY <2>1, <3>2, <4>2
    <3> QED
      BY <3>1, <3>2
  <2> HIDE DEF tokens
  <2>l. LeavingAgrees(pages, Last(stack), Buffer, TRUE, Buffer \o tokens, ~Top.optional)
    BY <1>2, <2>2 DEF LeavingAgrees
  <2>3. Steady(pages, Whole(0), Pending, Front(stack), ~Top.optional, Buffer \o tokens)
    BY <1>1, <1>2, <2>1, <2>l, SteadyPop
  <2>4. Buffer' = Buffer \o tokens
    BY <1>2, <1>3, <2>1 DEF tokens
  <2> QED
    BY <1>1, <2>3, <2>4
<1> QED
  BY <1>1, <1>3, <1>4 DEF KeepsStep

LEMMA ExecuteStepInStep ==
    ASSUME Sound, ExecuteStep
    PROVE  StageIsSound'
<1>1. MergeIsSound'
  BY ExecuteStepKeeps DEF Sound
<1>2. stack # << >>
  BY DEF ExecuteStep, WriteText, SkipEnd, ParsingFails, IncludeFragment, IncludeBlock,
     TemplateEnds, ReturnError, Running
<1>3. KeepsStep
  BY WriteTextInStep, SkipEndInStep, ParsingFailsInStep, IncludeFragmentInStep,
     IncludeBlockInStep, TemplateEndsInStep, ReturnErrorInStep DEF ExecuteStep
<1> QED
  BY <1>1, <1>2, <1>3, StillInStep

-----------------------------------------------------------------------------
(* GetHtml stays in step as well.                                          *)

LEMMA SteadyFirst ==
    ASSUME NEW ps \in Inputs, NEW whole, NEW pending, NEW before, NEW f \in Fragments,
           NEW buf \in Seq(Token), Agree(whole, << >>, buf, before),
           before = Then(Rendered(ps)[f], pending)
    PROVE  Steady(ps, whole, pending, Append(<< >>, Executing(f, FALSE, << >>)),
                  FALSE, buf)
<1> DEFINE g == Executing(f, FALSE, << >>)
<1>1. /\ g \in Frame /\ g.fragment = f /\ g.rest = Template[f] /\ ~g.optional
  BY TemplateAssumption, NoTokens DEF Executing, Frame
<1> HIDE DEF g
<1>2. IncludedAt(Rendered(ps), g) = Rendered(ps)[f]
  BY <1>1 DEF IncludedAt
<1>n. PICK none : none = << >>
  OBVIOUS
<1>3. none \in Seq(Frame) /\ none = << >> /\ Len(none) = 0
  BY <1>n
<1>4. Steady(ps, whole, before, none, FALSE, buf)
  BY <1>3, SteadyIdle
<1>5. SameButRest(none, none)
  BY DEF SameButRest
<1>6. RestOf(ps, before, none, Len(none)) =
         Then(IncludedAt(Rendered(ps), g), RestOf(ps, pending, none, Len(none)))
  BY <1>2, <1>3 DEF RestOf
<1>7. Steady(ps, whole, pending, Append(none, g), FALSE, buf)
  BY <1>1, <1>3, <1>4, <1>5, <1>6, SteadyPush
<1> QED
  BY <1>3, <1>7 DEF g

LEMMA InStepNext ==
    ASSUME stack' \in Seq(Frame)
    PROVE  InStep' <=> Steady(pages', Whole(0)', Pending', stack', failing', Buffer')
<1>1. (stack \in Seq(Frame) =>
         (InStep <=> Steady(pages, Whole(0), Pending, stack, failing, Buffer)))'
  BY InStepIsSteady, PTL
<1> QED
  BY <1>1

\* Between two templates.
LEMMA IdleIs ==
    ASSUME Sound, stage \in Stages, stack = << >>
    PROVE  Agree(Whole(0), << >>, Buffer, IF failing THEN Failure ELSE Pending)
  BY Executes, SteadyIdle

LEMMA AllAdded ==
    ASSUME Sound, toAdd = << >>
    PROVE  Added = Len(pages)
<1>1. Len(pages) \in Nat
  BY PagesAre DEF Sound, MergeIsSound, TypeOK
<1> QED
  BY <1>1 DEF Added

LEMMA CompleteIs ==
    ASSUME NEW whole \in Results, NEW buf \in Seq(Token),
           Agree(whole, << >>, buf, Success)
    PROVE  Complete(whole, buf)
  BY SuccessType, NoTokens, ResultFields DEF Agree, Complete

LEMMA StartHtmlInStep ==
    ASSUME Sound, StartHtml
    PROVE  StageIsSound'
<1>1. /\ stage = "adding" /\ stage' = "head" /\ toAdd = << >>
      /\ UNCHANGED <<pages, toAdd, heads, Body, tails, stack, failing, header, body>>
  BY DEF StartHtml, input, buffers
<1>2. /\ heads = HeadsOf(pages, Added) /\ stack = << >> /\ ~failing /\ header = << >>
      /\ body = << >> /\ tails = TailsOf(pages, Added) /\ pages \in Inputs
  BY <1>1 DEF Sound, StageIsSound, MergeIsSound, TypeOK
<1>3. Whole(0)' = HeaderOf(pages) /\ Pending' = HeaderOf(pages) /\ Buffer' = << >>
  BY <1>1, <1>2, AllAdded DEF Whole, Pending, Buffer, HeaderOf
<1>4. Agree(HeaderOf(pages), << >>, << >>, HeaderOf(pages)) /\ << >> \in Seq(Token)
  BY <1>2, PageTypes, AgreeReflexive, NoTokens
<1>5. Steady(pages, HeaderOf(pages), HeaderOf(pages), << >>, FALSE, << >>)
  BY <1>4, SteadyIdle
<1>6. InStep'
  <2>1. stack' \in Seq(Frame) /\ stack' = << >> /\ failing' = FALSE /\ pages' = pages
    BY <1>1, <1>2 DEF Sound, MergeIsSound, TypeOK
  <2> QED
    BY <1>3, <1>5, <2>1, InStepNext
<1>7. Added' = Added
  BY <1>1 DEF Added
<1> QED
  BY <1>1, <1>2, <1>6, <1>7 DEF StageIsSound

\* The next of the head or tail fragments.
LEMMA NextFragment ==
    ASSUME Sound, stage \in Stages, Idle, stage' = stage, UNCHANGED <<input, failing, buffers>>,
           NEW fs \in Seq(Fragments), fs # << >>, Pending = RenderAll(pages, fs),
           Pending' = RenderAll(pages, Tail(fs)), MergeIsSound',
           stack' = Append(<< >>, Executing(Head(fs), FALSE, << >>))
    PROVE  InStep'
<1>1. /\ pages \in Inputs /\ Buffer \in Seq(Token) /\ ~failing /\ stack = << >>
      /\ Agree(Whole(0), << >>, Buffer, Pending)
  BY Executes, IdleIs DEF Idle
<1>2. FragmentSteps(pages, fs) /\ Head(fs) \in Fragments
  BY <1>1, RenderAllSteps
<1>3. Pending = Then(Rendered(pages)[Head(fs)], RenderAll(pages, Tail(fs)))
  BY <1>2 DEF FragmentSteps
<1>4. Steady(pages, Whole(0), Pending',
             Append(<< >>, Executing(Head(fs), FALSE, << >>)), FALSE, Buffer)
  BY <1>1, <1>2, <1>3, SteadyFirst
<1>5. /\ pages' = pages /\ Whole(0)' = Whole(0) /\ Buffer' = Buffer /\ failing' = FALSE
  <2>1. failing = FALSE
    BY <1>1 DEF Sound, MergeIsSound, TypeOK
  <2> QED
    BY <2>1 DEF input, buffers, Whole, Buffer
<1>6. stack' \in Seq(Frame)
  BY DEF MergeIsSound, TypeOK
<1> QED
  BY <1>4, <1>5, <1>6, InStepNext

LEMMA NextHeadInStep ==
    ASSUME Sound, NextHead
    PROVE  StageIsSound'
<1>1. /\ stage = "head" /\ stage' = "head" /\ Idle /\ heads # << >>
      /\ heads' = Tail(heads)
      /\ stack' = Append(<< >>, Executing(Head(heads), FALSE, << >>))
      /\ UNCHANGED <<input, Body, tails, failing, buffers>>
  BY DEF NextHead, ExecuteFragment
<1>2. heads \in Seq(Fragments) /\ pages' = pages /\ toAdd' = toAdd /\ MergeIsSound'
  <2>1. GetHtmlStep
    BY DEF GetHtmlStep
  <2> QED
    BY <1>1, <2>1, GetHtmlStepKeeps DEF Sound, MergeIsSound, TypeOK, input
<1>3. Pending = RenderAll(pages, heads) /\ Pending' = RenderAll(pages, Tail(heads))
  BY <1>1, <1>2 DEF Pending
<1>4. InStep'
  BY <1>1, <1>2, <1>3, NextFragment DEF Stages
<1>5. /\ body = << >> /\ tails = TailsOf(pages, Added) /\ toAdd = << >>
      /\ body' = body /\ tails' = tails /\ Added' = Added
  BY <1>1, <1>2 DEF Sound, StageIsSound, buffers, Added
<1> QED
  BY <1>1, <1>2, <1>4, <1>5 DEF StageIsSound

LEMMA NextTailInStep ==
    ASSUME Sound, NextTail
    PROVE  StageIsSound'
<1>1. /\ stage = "tail" /\ stage' = "tail" /\ Idle /\ tails # << >>
      /\ tails' = Tail(tails)
      /\ stack' = Append(<< >>, Executing(Head(tails), FALSE, << >>))
      /\ UNCHANGED <<input, Body, heads, failing, buffers>>
  BY DEF NextTail, ExecuteFragment
<1>2. tails \in Seq(Fragments) /\ pages' = pages /\ toAdd' = toAdd /\ MergeIsSound'
  <2>1. GetHtmlStep
    BY DEF GetHtmlStep
  <2> QED
    BY <1>1, <2>1, GetHtmlStepKeeps DEF Sound, MergeIsSound, TypeOK, input
<1>3. Pending = RenderAll(pages, tails) /\ Pending' = RenderAll(pages, Tail(tails))
  BY <1>1, <1>2 DEF Pending
<1>4. InStep'
  BY <1>1, <1>2, <1>3, NextFragment DEF Stages
<1>5. toAdd = << >> /\ Complete(HeaderOf(pages), header) /\ header' = header
  BY <1>1 DEF Sound, StageIsSound, buffers
<1> QED
  BY <1>1, <1>2, <1>4, <1>5 DEF StageIsSound

LEMMA StartTailsInStep ==
    ASSUME Sound, StartTails
    PROVE  StageIsSound'
<1>1. /\ stage = "body" /\ stage' = "tail"
      /\ UNCHANGED <<pages, toAdd, heads, Body, tails, stack, failing, header, body>>
  BY DEF StartTails, input, buffers
<1>2. /\ Whole(0)' = Whole(0) /\ Pending' = Pending /\ Buffer' = Buffer
  BY <1>1 DEF Whole, Pending, Buffer
<1>3. /\ Steady(pages, Whole(0), Pending, stack, failing, Buffer)
      /\ stack \in Seq(Frame)
  BY <1>1, Executes DEF Stages
<1>4. InStep'
  BY <1>1, <1>2, <1>3, InStepNext
<1>5. toAdd = << >> /\ Complete(HeaderOf(pages), header)
  BY <1>1 DEF Sound, StageIsSound
<1> QED
  BY <1>1, <1>4, <1>5 DEF StageIsSound

LEMMA WriteStylesheetsInStep ==
    ASSUME Sound, WriteStylesheets
    PROVE  StageIsSound'
<1>1. /\ stage = "tail" /\ stage' = "done" /\ stack = << >> /\ ~failing /\ tails = << >>
      /\ UNCHANGED <<pages, toAdd, heads, Body, tails, stack, failing, header, body>>
  BY DEF WriteStylesheets, Idle, input, buffers
<1>2. /\ pages \in Inputs /\ tails \in Seq(Fragments) /\ body \in Seq(Token)
      /\ toAdd = << >> /\ Complete(HeaderOf(pages), header)
  BY <1>1 DEF Sound, StageIsSound, MergeIsSound, TypeOK
<1>3. Pending = Success
  BY <1>1, <1>2, RenderAllSteps DEF Pending, FragmentSteps
<1>4. Agree(BodyOf(pages), << >>, body, Success)
  BY <1>1, <1>3, IdleIs DEF Stages, Whole, Buffer
<1>5. Complete(BodyOf(pages), body)
  BY <1>2, <1>4, PageTypes, CompleteIs
<1> QED
  BY <1>1, <1>2, <1>5 DEF StageIsSound

LEMMA GetHtmlFailsInStep ==
    ASSUME Sound, GetHtmlFails
    PROVE  StageIsSound'
<1>1. /\ failing /\ stack = << >> /\ stage' = "failed"
      /\ UNCHANGED <<pages, toAdd, heads, Body, tails, stack, header, body>>
  BY DEF GetHtmlFails, input, buffers
<1>2. toAdd = << >> /\ stage \in Stages \cup {"failed"}
  BY <1>1 DEF Sound, StageIsSound, MergeIsSound, TypeOK, Stages
<1>3. ~HeaderOf(pages).ok \/ ~BodyOf(pages).ok
  <2>1. CASE stage \in Stages
    <3>1. Agree(Whole(0), << >>, Buffer, Failure)
      BY <1>1, <2>1, IdleIs
    <3>2. ~Whole(0).ok
      BY <3>1, SuccessType DEF Agree
    <3> QED
      BY <3>2 DEF Whole
  <2>2. CASE stage = "failed"
    BY <2>2 DEF Sound, StageIsSound
  <2> QED
    BY <1>2, <2>1, <2>2
<1> QED
  BY <1>1, <1>2, <1>3 DEF StageIsSound

LEMMA StartBodyInStep ==
    ASSUME Sound, StartBody
    PROVE  StageIsSound'
<1> DEFINE n == StartFragmentName
           R == Rendered(pages)
           f == GetBodyFragmentByName(n)
<1>1. /\ stage = "head" /\ stage' = "body" /\ stack = << >> /\ ~failing
      /\ failing = FALSE /\ heads = << >>
      /\ UNCHANGED <<pages, toAdd, heads, Body, tails, header, body>>
      /\ IF Exists(n)
         THEN /\ stack' = Append(<< >>, Executing(f, FALSE, << >>))
              /\ failing' = failing
         ELSE failing' = TRUE /\ stack' = stack
  BY DEF StartBody, Idle, input, buffers, ExecuteFragment, Sound, MergeIsSound, TypeOK
<1>2. MergeIsSound'
  <2>1. GetHtmlStep
    BY DEF GetHtmlStep
  <2> QED
    BY <2>1, GetHtmlStepKeeps DEF Sound
<1>3. /\ pages \in Inputs /\ tails \in Seq(Fragments) /\ header \in Seq(Token)
      /\ toAdd = << >> /\ body = << >> /\ tails = TailsOf(pages, Added)
      /\ heads \in Seq(Fragments) /\ stack' \in Seq(Frame)
  BY <1>1, <1>2 DEF Sound, StageIsSound, MergeIsSound, TypeOK
<1>4. Complete(HeaderOf(pages), header)
  <2>1. Pending = Success
    BY <1>1, <1>3, RenderAllSteps DEF Pending, FragmentSteps
  <2>2. Agree(HeaderOf(pages), << >>, header, Success)
    BY <1>1, <2>1, IdleIs DEF Stages, Whole, Buffer
  <2> QED
    BY <1>3, <2>2, PageTypes, CompleteIs
<1>5. StartName(pages) = n
  BY <1>3, NameBecomes DEF StartName, StartFragmentName, Sound
<1>6. /\ Whole(0)' = BodyOf(pages) /\ Buffer' = << >>
      /\ Pending' = RenderAll(pages, tails)
  BY <1>1, <1>3 DEF Whole, Buffer, Pending
<1>7. BodyOf(pages) = Then(Named(pages, R, n), RenderAll(pages, tails))
  BY <1>3, <1>5, AllAdded DEF BodyOf
<1>8. /\ Agree(BodyOf(pages), << >>, << >>, BodyOf(pages)) /\ << >> \in Seq(Token)
      /\ RenderAll(pages, tails) \in Results
  BY <1>3, PageTypes, AgreeReflexive, NoTokens, RenderAllSteps DEF FragmentSteps
<1> HIDE DEF n
<1>9. Steady(pages, BodyOf(pages), RenderAll(pages, tails), stack', failing', << >>)
  <2>1. CASE Exists(n)
    <3>1. Named(pages, R, n) = R[f] /\ f \in Fragments
      BY <1>3, <2>1, NameBecomes, NameIsRegistered DEF Sound
    <3> HIDE DEF f
    <3>2. Steady(pages, BodyOf(pages), RenderAll(pages, tails),
                 Append(<< >>, Executing(f, FALSE, << >>)), FALSE, << >>)
      BY <1>3, <1>7, <1>8, <3>1, SteadyFirst
    <3> QED
      BY <1>1, <2>1, <3>2
  <2>2. CASE ~Exists(n)
    <3>1. Named(pages, R, n) = Failure
      BY <1>3, <2>2, NameBecomes DEF Sound
    <3>2. BodyOf(pages) = Failure
      BY <1>7, <1>8, <3>1, ThenType, SuccessType
    <3>3. Steady(pages, BodyOf(pages), RenderAll(pages, tails), << >>, TRUE, << >>)
      BY <1>8, <3>2, SteadyIdle
    <3> QED
      BY <1>1, <2>2, <3>3
  <2> QED
    BY <2>1, <2>2
<1>10. InStep'
  BY <1>1, <1>3, <1>6, <1>9, InStepNext
<1> QED
  BY <1>1, <1>3, <1>4, <1>10 DEF StageIsSound

LEMMA GetHtmlStepInStep ==
    ASSUME Sound, GetHtmlStep
    PROVE  StageIsSound'
  BY StartHtmlInStep, NextHeadInStep, StartBodyInStep, StartTailsInStep, NextTailInStep,
     WriteStylesheetsInStep, GetHtmlFailsInStep DEF GetHtmlStep

-----------------------------------------------------------------------------
(* The pages are added one after the other.                                *)

\* The page that is added next.
LEMMA NextPage ==
    ASSUME MergeIsSound, AddedAreRegistered, AddContent
    PROVE  /\ Added \in Nat /\ Added + 1 \in DOMAIN pages /\ Added' = Added + 1
           /\ Head(toAdd) = pages[Added + 1] /\ pages' = pages
           /\ toAdd' = SubSeq(pages, Added' + 1, Len(pages))
<1>1. /\ toAdd # << >> /\ toAdd' = Tail(toAdd) /\ pages' = pages
      /\ toAdd = SubSeq(pages, Added + 1, Len(pages)) /\ Added \in Nat
      /\ toAdd \in Seq(ToSet(pages)) /\ pages \in Inputs
  BY DEF AddContent, AddedAreRegistered, MergeIsSound, TypeOK
<1>2. /\ Len(pages) \in Nat /\ DOMAIN pages = 1 .. Len(pages)
      /\ pages \in Seq(ToSet(pages))
  BY <1>1, PagesAre
<1> DEFINE n == Added + 1
<1>3. n \in Nat \ {0} /\ Added = Len(pages) - Len(toAdd)
  BY <1>1 DEF Added
<1>4. Len(toAdd) \in Nat /\ Len(toAdd) > 0 /\ Len(Tail(toAdd)) = Len(toAdd) - 1
  BY <1>1, EmptySeq
<1> HIDE DEF n
<1>5. n \in 1 .. Len(pages) /\ n = Added + 1
  BY <1>2, <1>3, <1>4 DEF n
<1>6. Added' = Added + 1
  <2>1. Added' = Len(pages) - (Len(toAdd) - 1)
    BY <1>1, <1>4 DEF Added
  <2> QED
    BY <1>2, <1>3, <1>4, <2>1
<1>7. /\ Head(SubSeq(pages, n, Len(pages))) = pages[n]
      /\ Tail(SubSeq(pages, n, Len(pages))) = SubSeq(pages, n + 1, Len(pages))
  <2>1. Len(pages) \in n .. Len(pages)
    BY <1>2, <1>5
  <2>2. PICK S : pages \in Seq(S)
    BY <1>2
  <2> QED
    BY <1>5, <2>1, <2>2, HeadTailOfSubSeq, ZenonT(30)
<1> QED
  BY <1>1, <1>2, <1>5, <1>6, <1>7

LEMMA AddContentRegisters ==
    ASSUME MergeIsSound, AddedAreRegistered, AddContent
    PROVE  AddedAreRegistered'
<1> DEFINE n == Added + 1
           page == pages[n]
<1>1. /\ Added \in Nat /\ n \in DOMAIN pages /\ Added' = n /\ Head(toAdd) = page
      /\ pages' = pages /\ toAdd' = SubSeq(pages, Added' + 1, Len(pages))
      /\ n \in Nat
  BY NextPage
<1>2. PICK f \in [Names(page) -> Range(page.body)] :
         /\ \A m \in Names(page) : f[m] \in Registers(page, m)
         /\ Body' = [m \in DOMAIN Body \cup Names(page) |->
                       IF m \in Names(page) THEN f[m] ELSE Body[m]]
  <2>1. addBody(page)
    BY <1>1 DEF AddContent
  <2> QED
    BY <2>1 DEF addBody
<1>3. /\ \A m \in DOMAIN Body : \E i \in 1 .. Added :
            /\ Body[m] \in Registers(pages[i], m)
            /\ \A j \in i + 1 .. Added : Registers(pages[j], m) = {}
      /\ \A i \in 1 .. Added : Names(pages[i]) \subseteq DOMAIN Body
  BY DEF AddedAreRegistered
<1>4. ASSUME NEW m \in DOMAIN Body'
      PROVE  \E i \in 1 .. n :
                /\ Body'[m] \in Registers(pages[i], m)
                /\ \A j \in i + 1 .. n : Registers(pages[j], m) = {}
  <2>1. CASE m \in Names(page)
    <3>1. Body'[m] \in Registers(pages[n], m) /\ n \in 1 .. n
      BY <1>1, <1>2, <2>1
    <3>2. \A j \in n + 1 .. n : Registers(pages[j], m) = {}
      BY <1>1
    <3> QED
      BY <3>1, <3>2
  <2>2. CASE m \notin Names(page)
    <3>1. m \in DOMAIN Body /\ Body'[m] = Body[m] /\ Registers(pages[n], m) = {}
      BY <1>2, <2>2, RegisteredNames
    <3>2. PICK i \in 1 .. Added : /\ Body[m] \in Registers(pages[i], m)
                                  /\ \A j \in i + 1 .. Added : Registers(pages[j], m) = {}
      BY <1>3, <3>1
    <3>3. \A j \in i + 1 .. n : j = n \/ j \in i + 1 .. Added
      BY <1>1
    <3>4. i \in 1 .. n
      BY <1>1
    <3>5. ASSUME NEW j \in i + 1 .. n PROVE Registers(pages[j], m) = {}
      <4>1. CASE j = n
        BY <3>1, <4>1
      <4>2. CASE j \in i + 1 .. Added
        BY <3>2, <4>2
      <4> QED
        BY <3>3, <4>1, <4>2
    <3> QED
      BY <3>1, <3>2, <3>4, <3>5
  <2> QED
    BY <2>1, <2>2
<1>5. ASSUME NEW i \in 1 .. n PROVE Names(pages[i]) \subseteq DOMAIN Body'
  <2>1. i = n \/ i \in 1 .. Added
    BY <1>1
  <2> QED
    BY <1>2, <1>3, <2>1
<1> HIDE DEF n, page
<1> QED
  BY <1>1, <1>4, <1>5 DEF AddedAreRegistered

LEMMA AddContentInStep ==
    ASSUME Sound, AddContent
    PROVE  StageIsSound'
<1> DEFINE n == Added + 1
           page == pages[n]
<1>1. /\ Added \in Nat /\ n \in DOMAIN pages /\ Added' = n /\ Head(toAdd) = page
      /\ pages' = pages /\ pages \in Inputs /\ n \in 1 .. Len(pages) /\ n - 1 = Added
  <2>1. /\ Added \in Nat /\ n \in DOMAIN pages /\ Added' = n /\ Head(toAdd) = page
        /\ pages' = pages /\ pages \in Inputs
    BY NextPage DEF Sound, MergeIsSound, TypeOK
  <2> QED
    BY <2>1, PagesAre
<1>2. /\ stage = "adding" /\ stage' = "adding"
      /\ heads' = Appended(heads, page.head) /\ tails' = Appended(tails, page.tail)
      /\ UNCHANGED <<stack, failing, header, body>>
  BY <1>1 DEF AddContent, buffers
<1>3. /\ heads = HeadsOf(pages, Added) /\ stack = << >> /\ ~failing /\ header = << >>
      /\ body = << >> /\ tails = TailsOf(pages, Added)
  BY <1>2 DEF Sound, StageIsSound
<1> HIDE DEF n
<1>4. heads' = HeadsOf(pages, n) /\ tails' = TailsOf(pages, n)
  BY <1>1, <1>2, <1>3, HeadsAndTails
<1> QED
  BY <1>1, <1>2, <1>3, <1>4 DEF StageIsSound

LEMMA InitIsSound ==
    ASSUME Init
    PROVE  AddedAreRegistered /\ StageIsSound
<1>1. /\ pages \in Inputs /\ toAdd = pages /\ Len(pages) \in Nat
      /\ pages \in Seq(ToSet(pages))
  BY PagesAre DEF Init
<1>2. Added = 0 /\ Added + 1 = 1
  BY <1>1 DEF Added
<1>3. toAdd = SubSeq(pages, 1, Len(pages))
  BY <1>1, SubSeqFull
<1>4. DOMAIN Body = {}
  BY DEF Init
<1>5. AddedAreRegistered
  BY <1>2, <1>3, <1>4 DEF AddedAreRegistered
<1>6. HeadsOf(pages, 0) = << >> /\ TailsOf(pages, 0) = << >>
  BY <1>1, HeadsAndTails
<1>7. StageIsSound
  BY <1>2, <1>6 DEF Init, StageIsSound
<1> QED
  BY <1>5, <1>7

-----------------------------------------------------------------------------
(* Every step of AddContent and of GetHtml preserves the invariant.        *)
LEMMA StaysSound ==
    ASSUME IInv, [Next]_vars
    PROVE  IInv'
<1>1. MergeIsSound'
  BY MergeStaysSound DEF IInv
<1>2. AddedAreRegistered'
  <2>1. CASE AddContent
    BY <2>1, AddContentRegisters DEF IInv
  <2>2. CASE UNCHANGED <<pages, toAdd, Body>>
    BY <2>2 DEF IInv, AddedAreRegistered, Added
  <2>3. ExecuteStep => UNCHANGED <<pages, toAdd, Body>>
    BY DEF ExecuteStep, WriteText, SkipEnd, ParsingFails, IncludeFragment, IncludeBlock,
       TemplateEnds, ReturnError, input
  <2>4. GetHtmlStep => UNCHANGED <<pages, toAdd, Body>>
    BY DEF GetHtmlStep, StartHtml, NextHead, StartBody, StartTails, NextTail,
       WriteStylesheets, GetHtmlFails, input
  <2>5. UNCHANGED vars => UNCHANGED <<pages, toAdd, Body>>
    BY DEF vars, input
  <2> QED
    BY <2>1, <2>2, <2>3, <2>4, <2>5 DEF Next, Merged
<1>3. ASSUME NamesAreDistinct PROVE StageIsSound'
  <2>1. Sound
    BY <1>3 DEF IInv, Sound
  <2>2. CASE Next /\ ~Merged
    BY <2>1, <2>2, AddContentInStep, ExecuteStepInStep, GetHtmlStepInStep DEF Next
  <2>3. CASE UNCHANGED vars
    <3>1. UNCHANGED <<pages, toAdd, stage, heads, Body, tails, stack, failing, header, body>>
      BY <2>3 DEF vars, input, buffers
    <3>2. /\ Added' = Added /\ Whole(0)' = Whole(0) /\ Pending' = Pending
          /\ Buffer' = Buffer
      BY <3>1 DEF Added, Whole, Pending, Buffer
    <3>3. stage \in Stages => InStep'
      <4>1. stack' \in Seq(Frame)
        BY <2>1, <3>1 DEF Sound, MergeIsSound, TypeOK
      <4> QED
        BY <2>1, <3>1, <3>2, <4>1, Executes, InStepNext
    <3> QED
      BY <2>1, <3>1, <3>2, <3>3, Zenon DEF Sound, StageIsSound, Stages
  <2> QED
    BY <2>2, <2>3 DEF Merged
<1> QED
  BY <1>1, <1>2, <1>3 DEF IInv, NamesAreDistinct

(* The invariant holds, for all pages, templates, stylesheets and either   *)
(* strategy: content_merge.go and templating.go.                           *)
THEOREM Invariant == Spec => []IInv
<1>1. Init => IInv
  BY InitIsGood, InitIsSound DEF IInv
<1>2. IInv /\ [Next]_vars => IInv'
  BY StaysSound
<1> QED
  BY <1>1, <1>2, PTL DEF Spec

(* When GetHtml is over, it has failed if and only if a fragment that must *)
(* be there is missing or broken, and otherwise header and body are those  *)
(* of the pages alone: the includes of content_merge.go and templating.go, *)
(* one after the other, whatever the order of the map of fragments; what   *)
(* an optional include wrote before it failed is there, with the           *)
(* alternative as it stands behind it.                                     *)
THEOREM RendersPages == Spec => [](NamesAreDistinct => HtmlIsRendering)
<1>1. IInv => (NamesAreDistinct => HtmlIsRendering)
  <2> SUFFICES ASSUME IInv, NamesAreDistinct, Over
               PROVE  LET h == HeaderOf(pages)
                          b == BodyOf(pages)
                      IN  /\ stage = "done" <=> h.ok /\ b.ok
                          /\ stage = "done" => header = h.out /\ body = b.out
    BY DEF HtmlIsRendering
  <2>1. CASE stage = "done"
    BY <2>1 DEF IInv, StageIsSound, Complete
  <2>2. CASE stage = "failed"
    BY <2>2 DEF IInv, StageIsSound
  <2> QED
    BY <2>1, <2>2 DEF Over
<1> QED
  BY Invariant, <1>1, PTL

=============================================================================
