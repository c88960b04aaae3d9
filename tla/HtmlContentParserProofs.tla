----------------------- MODULE HtmlContentParserProofs -----------------------
(* Proofs about HtmlContentParser: what becomes of the items of a page,    *)
(* for pages of any size.                                                  *)
EXTENDS HtmlContentParser, TLAPS

-----------------------------------------------------------------------------
(* The stack of open elements.                                             *)

LEMMA OpenTyped ==
    ASSUME TypeOK
    PROVE  /\ open \in Seq(Element)
           /\ Len(open) \in Nat /\ Len(open) >= 1
           /\ Len(open) > 1 => Len(open) <= MaxDepth
           /\ MaxDepth \in Nat
<1>1. open \in Seq(Element) /\ Len(open) \in (1 .. MaxDepth) \cup {1}
  BY DEF TypeOK
<1>2. MaxDepth \in Nat
  BY ConstantsAssumption
<1>3. Len(open) \in Nat /\ Len(open) >= 1 /\ (Len(open) > 1 => Len(open) <= MaxDepth)
  <2> DEFINE n == Len(open)
  <2>1. n \in (1 .. MaxDepth) \cup {1}
    BY <1>1
  <2> HIDE DEF n
  <2>2. n \in Nat /\ n >= 1 /\ (n > 1 => n <= MaxDepth)
    BY <1>2, <2>1
  <2> QED
    BY <2>2 DEF n
<1> QED
  BY <1>1, <1>2, <1>3

(* The element that is read last is one, and belongs to a part.            *)
LEMMA InnermostTyped ==
    ASSUME TypeOK
    PROVE  /\ Len(open) \in Nat /\ Len(open) >= 1
           /\ Innermost \in Element
           /\ Innermost.part \in Parts /\ Innermost.removed \in BOOLEAN
<1>1. open \in Seq(Element) /\ Len(open) \in Nat /\ Len(open) >= 1
  BY OpenTyped
<1>2. Innermost \in Element
  BY <1>1 DEF Innermost
<1>3. \A e \in Element : e.part \in Parts /\ e.removed \in BOOLEAN
  BY DEF Element
<1> QED
  BY <1>1, <1>2, <1>3

(* Opening an element adds it on top of the others.                        *)
LEMMA Opened ==
    ASSUME TypeOK, NEW plain \in BOOLEAN, NEW part \in Parts,
           NEW marked \in BOOLEAN, Opens(plain, part, marked)
    PROVE  /\ open' \in Seq(Element) /\ Len(open') = Len(open) + 1
           /\ Len(open') \in 1 .. MaxDepth
           /\ \A k \in 1 .. Len(open) : open'[k] = open[k]
           /\ open'[Len(open) + 1].plain = plain
           /\ open'[Len(open) + 1].part = part
           /\ open'[Len(open) + 1].removed = (marked \/ Innermost.removed)
<1> DEFINE e == [plain |-> plain, part |-> part,
                 removed |-> marked \/ Innermost.removed]
<1>1. e \in Element
  BY InnermostTyped DEF Element
<1>2. open' = Append(open, e) /\ Len(open) < MaxDepth
  BY DEF Opens
<1>3. open \in Seq(Element) /\ Len(open) \in Nat /\ MaxDepth \in Nat
  BY OpenTyped
<1> HIDE DEF e
<1>4. /\ open' \in Seq(Element) /\ Len(open') = Len(open) + 1
      /\ \A k \in 1 .. Len(open) : open'[k] = open[k]
      /\ open'[Len(open) + 1] = e
  BY <1>1, <1>2, <1>3
<1>5. Len(open') \in 1 .. MaxDepth
  BY <1>2, <1>3, <1>4
<1> QED
  BY <1>4, <1>5 DEF e

(* Closing one takes it off.                                               *)
LEMMA Closed ==
    ASSUME TypeOK, Closes, Len(open) > 1
    PROVE  /\ open' \in Seq(Element) /\ Len(open') = Len(open) - 1
           /\ Len(open') \in 1 .. MaxDepth
           /\ \A k \in 1 .. Len(open) - 1 : open'[k] = open[k]
<1>1. /\ open \in Seq(Element) /\ Len(open) \in Nat /\ MaxDepth \in Nat
      /\ Len(open) <= MaxDepth
  BY OpenTyped
<1>2. open' = SubSeq(open, 1, Len(open) - 1)
  BY DEF Closes
<1> QED
  BY <1>1, <1>2

(* What may begin inside an element.                                       *)
LEMMA BeginningTyped ==
    ASSUME TypeOK, NEW e \in Beginning
    PROVE  /\ e.plain \in BOOLEAN /\ e.part \in Parts
           /\ e.plain => e.part = Innermost.part
           /\ ~e.plain => Innermost.part = "body" /\ e.part \in Names \cup {"tail"}
BY InnermostTyped DEF Beginning, Parts

-----------------------------------------------------------------------------
(* The page and the loops.                                                 *)
Nested == PageIsNested /\ SkippedIsRemoved /\ LoopIsWherePageIs

(* A loop reads the content of the part it is for, unless it skips.        *)
LEMMA WhereLoopIs ==
    ASSUME TypeOK, Nested, mode \in Loops
    PROVE  /\ Innermost.removed <=> Skipping
           /\ ~Skipping => Innermost.part =
                             IF mode = "fragment" THEN target ELSE mode
           /\ ~Skipping => depth = -1
           /\ Skipping \/ Innermost.plain => Len(open) > 1
           /\ ~Skipping => Len(open) > 1
<1>1. depth \in Int /\ depth >= -1 /\ Len(open) \in Nat /\ Len(open) >= 1
  BY InnermostTyped DEF TypeOK
<1>2. Innermost.removed <=> depth >= 0
  BY <1>1 DEF Innermost, Nested, SkippedIsRemoved
<1>3. ASSUME ~Skipping
      PROVE  depth = -1 /\ Innermost.part = IF mode = "fragment" THEN target ELSE mode
  <2>1. depth = -1
    BY <1>1, <1>3 DEF Skipping
  <2>2. Len(open) - depth - 1 = Len(open)
    BY <1>1, <2>1
  <2> QED
    BY <2>1, <2>2 DEF Innermost, Nested, LoopIsWherePageIs
<1>4. ASSUME Skipping
      PROVE  Len(open) > 1
  BY <1>1, <1>4 DEF Skipping, Nested, SkippedIsRemoved
<1>5. ASSUME ~Skipping
      PROVE  Len(open) > 1
  <2>1. Innermost.part # "outside"
    BY <1>3, <1>5, ConstantsAssumption DEF TypeOK, Loops
  <2>2. open[1].part = "outside"
    BY DEF Nested, PageIsNested, Page
  <2> QED
    BY <1>1, <2>1, <2>2 DEF Innermost
<1> QED
  BY <1>2, <1>3, <1>4, <1>5 DEF Skipping

(* An element on top keeps the page nested.                                *)
LEMMA OpenNests ==
    ASSUME TypeOK, PageIsNested, NEW plain \in BOOLEAN, NEW part \in Parts,
           NEW marked \in BOOLEAN, Opens(plain, part, marked),
           \/ plain /\ part = Innermost.part
           \/ ~plain /\ Len(open) = 1 /\ part \in {"head", "body"}
           \/ ~plain /\ Innermost.part = "body" /\ part \in Names \cup {"tail"}
    PROVE  PageIsNested'
<1>1. Len(open) \in Nat /\ Len(open) >= 1
  BY InnermostTyped
<1>2. open'[1] = Page
  BY <1>1, Opened DEF PageIsNested
<1>3. ASSUME NEW k \in 2 .. Len(open')
      PROVE  \/ open'[k].plain /\ open'[k].part = open'[k - 1].part
             \/ ~open'[k].plain /\ k = 2 /\ open'[k].part \in {"head", "body"}
             \/ /\ ~open'[k].plain /\ open'[k - 1].part = "body"
                /\ open'[k].part \in Names \cup {"tail"}
  <2>1. CASE k \in 2 .. Len(open)
    <3>1. open'[k] = open[k] /\ open'[k - 1] = open[k - 1]
      BY <1>1, <2>1, Opened
    <3> QED
      BY <2>1, <3>1 DEF PageIsNested
  <2>2. CASE k = Len(open) + 1
    <3>1. open'[k - 1] = Innermost
      BY <1>1, <2>2, Opened DEF Innermost
    <3>2. open'[k].plain = plain /\ open'[k].part = part
      BY <2>2, Opened
    <3>3. CASE plain /\ part = Innermost.part
      BY <3>1, <3>2, <3>3
    <3>4. CASE ~plain /\ Len(open) = 1 /\ part \in {"head", "body"}
      BY <2>2, <3>2, <3>4
    <3>5. CASE ~plain /\ Innermost.part = "body" /\ part \in Names \cup {"tail"}
      BY <3>1, <3>2, <3>5
    <3> QED
      BY <3>3, <3>4, <3>5
  <2> QED
    BY <1>1, <1>3, <2>1, <2>2, Opened
<1> QED
  BY <1>2, <1>3 DEF PageIsNested

LEMMA CloseNests ==
    ASSUME TypeOK, PageIsNested, Closes, Len(open) > 1
    PROVE  PageIsNested'
<1>1. Len(open) \in Nat
  BY InnermostTyped
<1>2. /\ Len(open') = Len(open) - 1
      /\ \A k \in 1 .. Len(open') : open'[k] = open[k]
  BY <1>1, Closed
<1>3. open'[1] = Page
  BY <1>1, <1>2 DEF PageIsNested
<1>4. ASSUME NEW k \in 2 .. Len(open')
      PROVE  k \in 2 .. Len(open) /\ open'[k] = open[k] /\ open'[k - 1] = open[k - 1]
  BY <1>1, <1>2
<1> QED
  BY <1>3, <1>4 DEF PageIsNested

-----------------------------------------------------------------------------
(* Steps over elements: what skipSubtreeIfUicRemove counts stays the depth *)
(* of the page, and the loop stays where it is.                            *)

LoopPart == IF mode = "fragment" THEN target ELSE mode

(* The elements around the ones that are skipped, as the page nests them.  *)
LEMMA Skipped ==
    ASSUME TypeOK, Nested, mode \in Loops
    PROVE  /\ depth \in Int /\ depth >= -1 /\ depth < Len(open) - 1
           /\ Len(open) \in Nat
           /\ open[Len(open) - depth - 1].part = LoopPart
           /\ \A k \in 1 .. Len(open) :
                 open[k].removed <=> k >= Len(open) - depth
BY InnermostTyped DEF TypeOK, Nested, SkippedIsRemoved, LoopIsWherePageIs, LoopPart

LEMMA OpeningKeepsLoop ==
    ASSUME TypeOK, Nested, mode \in Loops, UNCHANGED <<mode, target>>,
           NEW plain \in BOOLEAN, NEW part \in Parts, NEW marked \in BOOLEAN,
           Opens(plain, part, marked),
           \/ Skipping /\ depth' = depth + 1
           \/ ~Skipping /\ marked /\ depth' = 0
           \/ ~Skipping /\ ~marked /\ part = Innermost.part /\ depth' = depth
    PROVE  /\ SkippedIsRemoved' /\ LoopIsWherePageIs'
           /\ depth' \in -1 .. MaxDepth
<1> DEFINE n == Len(open)
<1>1. /\ n \in Nat /\ depth \in Int /\ depth >= -1 /\ depth < n - 1
      /\ open[n - depth - 1].part = LoopPart
      /\ \A k \in 1 .. n : open[k].removed <=> k >= n - depth
  BY Skipped
<1>2. /\ Len(open') = n + 1 /\ Len(open') \in 1 .. MaxDepth
      /\ \A k \in 1 .. n : open'[k] = open[k]
      /\ open'[n + 1].part = part
      /\ open'[n + 1].removed = (marked \/ Innermost.removed)
  BY Opened
<1>3. /\ Innermost.removed <=> Skipping
      /\ ~Skipping => depth = -1 /\ Innermost.part = LoopPart
  BY WhereLoopIs DEF LoopPart
<1>4. LoopPart' = LoopPart /\ mode' \in Loops
  BY DEF LoopPart
<1>5. MaxDepth \in Nat
  BY ConstantsAssumption
<1> HIDE DEF n
<1>6. depth' \in Int /\ depth' >= -1 /\ depth' < Len(open') - 1
  BY <1>1, <1>2, <1>3 DEF Skipping
<1>7. ASSUME NEW k \in 1 .. Len(open')
      PROVE  open'[k].removed <=> k >= Len(open') - depth'
  <2>1. CASE k = n + 1
    <3>1. open'[n + 1].removed <=> marked \/ Skipping
      BY <1>2, <1>3
    <3>2. k >= Len(open') - depth' <=> marked \/ Skipping
      BY <1>1, <1>2, <1>3, <2>1 DEF Skipping
    <3> QED
      BY <2>1, <3>1, <3>2
  <2>2. CASE k \in 1 .. n
    <3>1. open'[k] = open[k] /\ (open[k].removed <=> k >= n - depth)
      BY <1>1, <1>2, <2>2
    <3>2. k >= n - depth <=> k >= Len(open') - depth'
      BY <1>1, <1>2, <1>3, <2>2 DEF Skipping
    <3> QED
      BY <3>1, <3>2
  <2> QED
    BY <1>1, <1>2, <1>7, <2>1, <2>2
<1>8. open'[Len(open') - depth' - 1].part = LoopPart
  <2>1. CASE Skipping \/ marked
    <3>1. Len(open') - depth' - 1 = n - depth - 1
      BY <1>1, <1>2, <1>3, <2>1 DEF Skipping
    <3>2. n - depth - 1 \in 1 .. n
      BY <1>1
    <3> QED
      BY <1>1, <1>2, <3>1, <3>2
  <2>2. CASE ~Skipping /\ ~marked
    <3>1. Len(open') - depth' - 1 = n + 1 /\ part = LoopPart
      BY <1>1, <1>2, <1>3, <2>2
    <3> QED
      BY <1>2, <3>1
  <2> QED
    BY <2>1, <2>2
<1>9. depth' \in -1 .. MaxDepth
  BY <1>2, <1>5, <1>6
<1> QED
  BY <1>4, <1>6, <1>7, <1>8, <1>9 DEF SkippedIsRemoved, LoopIsWherePageIs, LoopPart

LEMMA ClosingKeepsLoop ==
    ASSUME TypeOK, Nested, mode \in Loops, UNCHANGED <<mode, target>>, Closes,
           \/ Skipping /\ depth' = depth - 1
           \/ ~Skipping /\ Innermost.plain /\ depth' = depth
    PROVE  /\ SkippedIsRemoved' /\ LoopIsWherePageIs'
           /\ depth' \in -1 .. MaxDepth
<1> DEFINE n == Len(open)
<1>1. /\ n \in Nat /\ depth \in Int /\ depth >= -1 /\ depth < n - 1
      /\ open[n - depth - 1].part = LoopPart
      /\ \A k \in 1 .. n : open[k].removed <=> k >= n - depth
  BY Skipped
<1>2. n > 1 /\ (~Skipping => depth = -1)
  BY WhereLoopIs
<1>3. /\ Len(open') = n - 1 /\ Len(open') \in 1 .. MaxDepth
      /\ \A k \in 1 .. n - 1 : open'[k] = open[k]
  BY <1>2, Closed
<1>4. LoopPart' = LoopPart /\ mode' \in Loops
  BY DEF LoopPart
<1>5. MaxDepth \in Nat
  BY ConstantsAssumption
<1>5a. ~Skipping => open[n].part = LoopPart /\ open[n - 1].part = LoopPart
  <2>1. ASSUME ~Skipping
        PROVE  open[n].plain /\ n \in 2 .. n /\ open[n].part = LoopPart
    BY <1>1, <1>2, <2>1, WhereLoopIs DEF Innermost, LoopPart
  <2> QED
    BY <2>1 DEF Nested, PageIsNested
<1> HIDE DEF n
<1>6. depth' \in Int /\ depth' >= -1 /\ depth' < Len(open') - 1
  <2>1. CASE Skipping
    BY <1>1, <1>3, <2>1 DEF Skipping
  <2>2. CASE ~Skipping
    BY <1>1, <1>2, <1>3, <2>2
  <2> QED
    BY <2>1, <2>2
<1>7. ASSUME NEW k \in 1 .. Len(open')
      PROVE  open'[k].removed <=> k >= Len(open') - depth'
  <2>1. /\ k \in 1 .. n /\ open'[k] = open[k]
        /\ open[k].removed <=> k >= n - depth
    BY <1>1, <1>3
  <2>2. k >= n - depth <=> k >= Len(open') - depth'
    BY <1>1, <1>2, <1>3, <2>1 DEF Skipping
  <2> QED
    BY <2>1, <2>2
<1>8. open'[Len(open') - depth' - 1].part = LoopPart
  <2>1. CASE Skipping
    <3>1. /\ Len(open') - depth' - 1 = n - depth - 1
          /\ n - depth - 1 \in 1 .. n - 1
      BY <1>1, <1>3, <2>1 DEF Skipping
    <3> QED
      BY <1>1, <1>3, <3>1
  <2>2. CASE ~Skipping
    <3>1. Len(open') - depth' - 1 = n - 1 /\ n - 1 \in 1 .. n - 1
      BY <1>1, <1>2, <1>3, <2>2
    <3> QED
      BY <1>3, <1>5a, <2>2, <3>1
  <2> QED
    BY <2>1, <2>2
<1>9. depth' \in -1 .. MaxDepth
  BY <1>3, <1>5, <1>6
<1> QED
  BY <1>4, <1>6, <1>7, <1>8, <1>9 DEF SkippedIsRemoved, LoopIsWherePageIs, LoopPart

-----------------------------------------------------------------------------
(* Steps over items.                                                       *)

(* The parts of a page and the fates of its items are told apart.          *)
LEMMA PartsTyped ==
    /\ Default \in Names /\ Parts \subseteq Homes /\ Fragments \subseteq Parts
    /\ \A p \in Names \cup {"tail"} :
          p \notin {"head", "body", "outside",
                    "unread", "removed", "marked", "replaced"}
    /\ \A p \in Parts : p \notin {"unread", "removed", "marked", "replaced"}
    /\ "markup" \notin Items
    /\ \A i \in Includes : i \notin Fetches /\ i \notin Metas
    /\ \A i \in Fetches : i \notin Metas
BY ConstantsAssumption DEF Parts, Homes, Fragments, Items

LEMMA LoopPartTyped ==
    ASSUME TypeOK, mode \in Loops
    PROVE  LoopPart \in Parts \ {"outside"}
BY PartsTyped DEF TypeOK, LoopPart, Loops, Parts

(* What an item becomes, as the loop sees it.                              *)
LEMMA ItemComes ==
    ASSUME ParsingIsSound, mode \in Loops, NEW i \in Items, NEW marked \in BOOLEAN,
           Comes(i, marked)
    PROVE  /\ home[i] = "unread" /\ home' \in [Items -> Homes]
           /\ \A j \in Items : j # i => home'[j] = home[j]
           /\ Skipping => home'[i] = "removed"
           /\ ~Skipping /\ marked =>
                 home'[i] = IF mode = "fragment" /\ i \in Includes
                            THEN "marked" ELSE "removed"
           /\ ~Skipping /\ ~marked => home'[i] = LoopPart
<1>1. TypeOK /\ Nested
  BY DEF ParsingIsSound, Nested
<1>2. /\ Innermost.removed <=> Skipping
      /\ ~Skipping => Innermost.part = LoopPart
  BY <1>1, WhereLoopIs DEF LoopPart
<1>3. home[i] = "unread" /\ home' = [home EXCEPT ![i] = HomeOf(i, marked)]
  BY DEF Comes
<1>4. HomeOf(i, marked) \in Homes
  BY <1>1, InnermostTyped DEF HomeOf, Homes
<1>5. home \in [Items -> Homes]
  BY <1>1 DEF TypeOK
<1>6. ~Skipping => (InFragment <=> mode = "fragment")
  BY <1>1, <1>2, PartsTyped DEF InFragment, LoopPart, TypeOK, Loops
<1> QED
  BY <1>2, <1>3, <1>4, <1>5, <1>6 DEF HomeOf

(* An item goes into what the loop keeps, or it does not: B are the items  *)
(* a step adds to the buffer, E those it adds to deps, and D, R and M those *)
(* it adds to dependencies, required and meta.                             *)
Takes(i, marked, B, E, D, R, M) ==
    /\ Comes(i, marked)
    /\ UNCHANGED <<mode, target, depth, fragment>>
    /\ B \subseteq {i} /\ buffer' = [buffer EXCEPT ![mode] = @ \cup B]
    /\ E \subseteq {i} \cap Includes /\ deps' = deps \cup E
    /\ D \subseteq {i} \cap Includes /\ dependencies' = dependencies \cup D
    /\ R \subseteq {i} \cap Fetches /\ required' = required \cup R
    /\ M \subseteq {i} \cap Metas /\ meta' = meta \cup M
    /\ home'[i] = "removed" => B = {} /\ E = {} /\ D = {} /\ R = {} /\ M = {}
    /\ mode = "body" => B \cap Includes \subseteq D
    /\ mode = "fragment" => B \cap Includes \subseteq E
    /\ i \in R \cup M <=> IsRead(i)'
    /\ i \in B /\ home'[i] # "marked" <=> home'[i] = LoopPart /\ ~IsRead(i)'

LEMMA ItemTaken ==
    ASSUME ParsingIsSound, mode \in Loops, NEW i \in Items, NEW marked \in BOOLEAN,
           NEW B, NEW E, NEW D, NEW R, NEW M, Takes(i, marked, B, E, D, R, M)
    PROVE  ParsingIsSound'
<1> USE DEF Takes
<1>1. TypeOK /\ Nested
  BY DEF ParsingIsSound, Nested
<1>2. /\ home[i] = "unread" /\ home' \in [Items -> Homes]
      /\ \A j \in Items : j # i => home'[j] = home[j]
      /\ home'[i] \in {"removed", "marked", LoopPart}
      /\ UNCHANGED <<open, started>>
  <2>1. UNCHANGED <<open, started>>
    BY DEF Comes
  <2> QED
    BY <2>1, ItemComes
<1>3. ~Kept(i)
  BY <1>2 DEF ParsingIsSound, KeptIsRead
<1>4. \A j \in Items : j # i => (IsRead(j)' <=> IsRead(j))
  BY <1>2 DEF IsRead
<1>5. ~IsRead(i) /\ home'[i] # "unread"
  BY <1>1, <1>2, LoopPartTyped, PartsTyped DEF IsRead
<1>6. /\ buffer' \in [Loops -> Contents]
      /\ buffer'[mode] = buffer[mode] \cup B
      /\ \A l \in Loops : l # mode => buffer'[l] = buffer[l]
  <2>1. buffer \in [Loops -> Contents]
    BY <1>1 DEF TypeOK
  <2>2. buffer[mode] \cup B \in Contents
    BY <2>1 DEF Contents, Written
  <2> QED
    BY <2>1, <2>2
<1>7. TypeOK'
  BY <1>1, <1>2, <1>6 DEF TypeOK
<1>8. Nested'
  BY <1>1, <1>2 DEF Nested, PageIsNested, SkippedIsRemoved, LoopIsWherePageIs
<1>9. KeptIsRead'
  <2>1. ASSUME NEW j \in Items, Kept(j)', j # i
        PROVE  Kept(j)
    BY <1>6, <2>1 DEF Kept
  <2>2. ASSUME NEW j \in Items, Kept(j)', j # i
        PROVE  home'[j] \notin {"removed", "unread"}
    BY <1>2, <2>1, <2>2 DEF ParsingIsSound, KeptIsRead
  <2>3. ASSUME Kept(i)'
        PROVE  home'[i] # "removed"
    <3>1. i \in E \cup D \cup R \cup M \/ i \in B
      BY <1>3, <1>6, <2>3 DEF Kept
    <3> QED
      BY <3>1
  <2> QED
    BY <1>5, <2>2, <2>3 DEF KeptIsRead
<1>10. IncludesAreFound'
  <2>1. \A p \in Fragments : Held(p)' = Held(p)
    BY DEF Held
  <2> QED
    BY <1>6, <2>1 DEF ParsingIsSound, IncludesAreFound, DirectivesAreDependencies, Loops
<1>11. ReadIsTaken'
  <2>1. required \cup meta = Read /\ required' \cup meta' = required \cup meta \cup R \cup M
    BY DEF ParsingIsSound, ReadIsTaken
  <2>2. \A j \in Items : j \in Read' <=> j \in Read \cup R \cup M
    BY <1>4, <1>5 DEF Read
  <2>3. Read' \subseteq Items /\ Read \subseteq Items /\ R \cup M \subseteq Items
    BY DEF Read
  <2> QED
    BY <2>1, <2>2, <2>3 DEF ReadIsTaken
<1>12. BuffersAreFresh'
  BY <1>6 DEF ParsingIsSound, BuffersAreFresh
<1>13. FragmentsAreStarted'
  BY <1>2 DEF ParsingIsSound, FragmentsAreStarted
<1>14. ItemsAreHeld'
  <2> SUFFICES ASSUME NEW q \in Parts \ {"outside"}, NEW j \in Items, Lasting(q)
               PROVE  (j \in Store(q) /\ home[j] # "marked")'
                         <=> home'[j] = q /\ ~IsRead(j)'
    BY <1>2 DEF ItemsAreHeld, Lasting
  <2>1. Store(q)' = IF q = LoopPart THEN Store(q) \cup B ELSE Store(q)
    BY <1>1, <1>6, PartsTyped DEF Store, Value, Loops, LoopPart, TypeOK
  <2>2. j \in Store(q) /\ home[j] # "marked" <=> home[j] = q /\ ~IsRead(j)
    BY DEF ParsingIsSound, ItemsAreHeld, Loops
  <2>3. CASE j # i
    BY <1>2, <1>4, <2>1, <2>2, <2>3
  <2>4. CASE j = i
    <3>1. i \notin Store(q)
      BY <1>2, <2>2, <2>4, PartsTyped
    <3>2. home'[i] = q => q = LoopPart
      BY <1>2, PartsTyped
    <3> QED
      BY <2>1, <2>4, <3>1, <3>2
  <2> QED
    BY <2>3, <2>4
<1> QED
  BY <1>7, <1>8, <1>9, <1>10, <1>11, <1>12, <1>13, <1>14 DEF ParsingIsSound, Nested

(* What a loop keeps, if it keeps no more than it did.                     *)
LEMMA BufferAsItWas ==
    ASSUME TypeOK, mode \in Loops, buffer' = buffer
    PROVE  buffer' = [buffer EXCEPT ![mode] = @ \cup {}]
BY DEF TypeOK

(* An item that goes, or that is an include marked in itself, is left out. *)
LEMMA ItemLeftOut ==
    ASSUME ParsingIsSound, mode \in Loops, NEW i \in Items, NEW marked \in BOOLEAN,
           Comes(i, marked), Skipping \/ marked, UNCHANGED <<loop, content>>
    PROVE  ParsingIsSound'
<1>1. TypeOK
  BY DEF ParsingIsSound
<1>2. buffer' = [buffer EXCEPT ![mode] = @ \cup {}]
  BY <1>1, BufferAsItWas DEF loop
<1>3. home'[i] \in {"removed", "marked"}
  BY ItemComes
<1>4. home'[i] # LoopPart /\ ~IsRead(i)'
  BY <1>1, <1>3, LoopPartTyped, PartsTyped DEF IsRead
<1>5. /\ UNCHANGED <<mode, target, depth, fragment>>
      /\ deps' = deps \cup {} /\ dependencies' = dependencies \cup {}
      /\ required' = required \cup {} /\ meta' = meta \cup {}
  BY DEF loop, content
<1>taken. Takes(i, marked, {}, {}, {}, {}, {})
  BY <1>2, <1>4, <1>5 DEF Takes
<1> QED
  BY <1>taken, ItemTaken

LEMMA SkipItemKeeps == ASSUME ParsingIsSound, SkipItem PROVE ParsingIsSound'
<1>1. PICK i \in Items, marked \in BOOLEAN : Comes(i, marked)
  BY DEF SkipItem
<1> QED
  BY <1>1, ItemLeftOut DEF SkipItem

LEMMA RemoveItemKeeps == ASSUME ParsingIsSound, RemoveItem PROVE ParsingIsSound'
<1>1. PICK i \in Markable : Comes(i, TRUE)
  BY DEF RemoveItem
<1>2. i \in Items
  BY DEF Markable
<1> QED
  BY <1>1, <1>2, ItemLeftOut DEF RemoveItem

(* What the loops have no case for is not what they read.                  *)
LEMMA UncasedIsWritten ==
    ASSUME TypeOK, mode \in Loops, NEW i \in Uncased, home'[i] = LoopPart
    PROVE  /\ i \in Items /\ ~IsRead(i)'
           /\ i \in Includes => mode = "head"
<1>1. i \in Items
  BY DEF Uncased, Items, Loops
<1>2. LoopPart = "body" => mode = "body"
  BY PartsTyped DEF TypeOK, LoopPart
<1>3. LoopPart = "head" => mode = "head"
  BY PartsTyped DEF TypeOK, LoopPart
<1>4. i \in Fetches => mode # "body"
  BY ConstantsAssumption DEF Uncased
<1>5. i \in Metas => mode # "head"
  BY ConstantsAssumption DEF Uncased
<1>6. i \in Includes => mode = "head"
  BY ConstantsAssumption DEF Uncased, Loops
<1> QED
  BY <1>1, <1>2, <1>3, <1>4, <1>5, <1>6 DEF IsRead

LEMMA WriteItemKeeps == ASSUME ParsingIsSound, WriteItem PROVE ParsingIsSound'
<1>1. PICK i \in Uncased : Comes(i, FALSE) /\ Write(i)
  BY DEF WriteItem
<1>2. TypeOK /\ mode \in Loops /\ ~Skipping
  BY DEF ParsingIsSound, WriteItem
<1>3. i \in Items
  BY <1>2 DEF Uncased, Items, Loops
<1>4. home'[i] = LoopPart
  BY <1>1, <1>2, <1>3, ItemComes
<1>5. ~IsRead(i)' /\ (i \in Includes => mode = "head")
  BY <1>2, <1>4, UncasedIsWritten
<1>6. LoopPart # "marked" /\ LoopPart # "removed"
  BY <1>2, LoopPartTyped, PartsTyped
<1>7. /\ UNCHANGED <<mode, target, depth, fragment>>
      /\ buffer' = [buffer EXCEPT ![mode] = @ \cup {i}]
      /\ deps' = deps \cup {} /\ dependencies' = dependencies \cup {}
      /\ required' = required \cup {} /\ meta' = meta \cup {}
  BY <1>1 DEF WriteItem, Write, content
<1>8. (mode = "body" \/ mode = "fragment") => {i} \cap Includes \subseteq {}
  BY <1>5
<1>taken. Takes(i, FALSE, {i}, {}, {}, {}, {})
  BY <1>1, <1>4, <1>5, <1>6, <1>7, <1>8 DEF Takes
<1> QED
  BY <1>2, <1>3, <1>taken, ItemTaken

LEMMA parseMetaJsonKeeps == ASSUME ParsingIsSound, parseMetaJson PROVE ParsingIsSound'
<1>1. PICK i \in Metas : Comes(i, FALSE) /\ meta' = meta \cup {i}
  BY DEF parseMetaJson
<1>2. TypeOK /\ mode = "head" /\ mode \in Loops /\ ~Skipping /\ i \in Items
  BY DEF ParsingIsSound, parseMetaJson, Reading, Loops, Items
<1>3. home'[i] = "head"
  BY <1>1, <1>2, ItemComes DEF LoopPart
<1>4. IsRead(i)' /\ home'[i] # "removed"
  BY <1>3 DEF IsRead
<1>5. buffer' = [buffer EXCEPT ![mode] = @ \cup {}]
  BY <1>2, BufferAsItWas DEF parseMetaJson, loop
<1>6. /\ UNCHANGED <<mode, target, depth, fragment>>
      /\ deps' = deps \cup {} /\ dependencies' = dependencies \cup {}
      /\ required' = required \cup {}
  BY DEF parseMetaJson, loop
<1>taken. Takes(i, FALSE, {}, {}, {}, {}, {i})
  BY <1>1, <1>2, <1>4, <1>5, <1>6 DEF Takes
<1> QED
  BY <1>2, <1>taken, ItemTaken

LEMMA getFetchKeeps == ASSUME ParsingIsSound, getFetch PROVE ParsingIsSound'
<1>1. PICK i \in Fetches : Comes(i, FALSE) /\ required' = required \cup {i}
  BY DEF getFetch
<1>2. TypeOK /\ mode = "body" /\ mode \in Loops /\ ~Skipping /\ i \in Items
  BY DEF ParsingIsSound, getFetch, Reading, Loops, Items
<1>3. home'[i] = "body"
  BY <1>1, <1>2, ItemComes DEF LoopPart
<1>4. IsRead(i)' /\ home'[i] # "removed"
  BY <1>3 DEF IsRead
<1>5. buffer' = [buffer EXCEPT ![mode] = @ \cup {}]
  BY <1>2, BufferAsItWas DEF getFetch, loop
<1>6. /\ UNCHANGED <<mode, target, depth, fragment>>
      /\ deps' = deps \cup {} /\ dependencies' = dependencies \cup {}
      /\ meta' = meta \cup {}
  BY DEF getFetch, loop
<1>taken. Takes(i, FALSE, {}, {}, {}, {i}, {})
  BY <1>1, <1>2, <1>4, <1>5, <1>6 DEF Takes
<1> QED
  BY <1>2, <1>taken, ItemTaken

LEMMA getIncludeInBodyKeeps == ASSUME ParsingIsSound, getIncludeInBody PROVE ParsingIsSound'
<1>1. PICK i \in Includes :
         Comes(i, FALSE) /\ Write(i) /\ dependencies' = dependencies \cup {i}
  BY DEF getIncludeInBody
<1>2. TypeOK /\ mode = "body" /\ mode \in Loops /\ ~Skipping /\ i \in Items
  BY DEF ParsingIsSound, getIncludeInBody, Reading, Loops, Items
<1>3. home'[i] = "body" /\ LoopPart = "body"
  BY <1>1, <1>2, ItemComes DEF LoopPart
<1>4. ~IsRead(i)'
  BY PartsTyped DEF IsRead
<1>5. /\ UNCHANGED <<mode, target, depth, fragment>>
      /\ buffer' = [buffer EXCEPT ![mode] = @ \cup {i}]
      /\ deps' = deps \cup {}
      /\ required' = required \cup {} /\ meta' = meta \cup {}
  BY <1>1 DEF getIncludeInBody, Write
<1>taken. Takes(i, FALSE, {i}, {}, {i}, {}, {})
  BY <1>1, <1>2, <1>3, <1>4, <1>5 DEF Takes
<1> QED
  BY <1>2, <1>taken, ItemTaken

LEMMA getIncludeInFragmentKeeps == ASSUME ParsingIsSound, getIncludeInFragment PROVE ParsingIsSound'
<1>1. PICK i \in Includes, marked \in BOOLEAN :
         Comes(i, marked) /\ Write(i) /\ deps' = deps \cup {i}
  BY DEF getIncludeInFragment
<1>2. TypeOK /\ mode = "fragment" /\ mode \in Loops /\ ~Skipping /\ i \in Items
  BY DEF ParsingIsSound, getIncludeInFragment, Reading, Loops, Items
<1>3. home'[i] = IF marked THEN "marked" ELSE LoopPart
  BY <1>1, <1>2, ItemComes
<1>4. LoopPart # "marked" /\ LoopPart # "removed"
  BY <1>2, LoopPartTyped, PartsTyped
<1>5. ~IsRead(i)'
  BY PartsTyped DEF IsRead
<1>6. /\ UNCHANGED <<mode, target, depth, fragment>>
      /\ buffer' = [buffer EXCEPT ![mode] = @ \cup {i}]
      /\ dependencies' = dependencies \cup {}
      /\ required' = required \cup {} /\ meta' = meta \cup {}
  BY <1>1 DEF getIncludeInFragment, Write, content
<1>taken. Takes(i, marked, {i}, {i}, {}, {}, {})
  BY <1>1, <1>2, <1>3, <1>4, <1>5, <1>6 DEF Takes
<1> QED
  BY <1>2, <1>taken, ItemTaken

-----------------------------------------------------------------------------
(* Steps over elements disturb no item: markup is none.                    *)
MarkupOnly ==
    /\ UNCHANGED <<started, home, mode, target, deps, content>>
    /\ \/ UNCHANGED buffer
       \/ ~Skipping /\ Write("markup")

LEMMA MarkupIsNoItem ==
    ASSUME ParsingIsSound, mode \in Loops, MarkupOnly,
           open' \in Seq(Element), Len(open') \in 1 .. MaxDepth,
           depth' \in -1 .. MaxDepth, Nested'
    PROVE  ParsingIsSound'
<1>1. TypeOK
  BY DEF ParsingIsSound
<1>2. /\ buffer' \in [Loops -> Contents]
      /\ \A l \in Loops : buffer'[l] \ {"markup"} = buffer[l] \ {"markup"}
      /\ \A l \in Loops : l # mode => buffer'[l] = buffer[l]
  <2>1. buffer \in [Loops -> Contents]
    BY <1>1 DEF TypeOK
  <2>2. buffer[mode] \cup {"markup"} \in Contents
    BY <2>1 DEF Contents, Written
  <2> QED
    BY <2>1, <2>2 DEF MarkupOnly, Write
<1>3. "markup" \notin Items
  BY PartsTyped
<1>4. \A i \in Items, l \in Loops : i \in buffer'[l] <=> i \in buffer[l]
  BY <1>2, <1>3
<1>5. /\ UNCHANGED <<started, home, mode, target, deps>>
      /\ UNCHANGED <<fragment, dependencies, required, meta>>
  BY DEF MarkupOnly, content
<1>6. TypeOK'
  BY <1>1, <1>2, <1>5 DEF TypeOK
<1>7. KeptIsRead'
  <2>1. \A i \in Items : Kept(i)' <=> Kept(i)
    BY <1>4, <1>5 DEF Kept
  <2> QED
    BY <1>5, <2>1 DEF ParsingIsSound, KeptIsRead
<1>8. IncludesAreFound'
  <2>1. \A p \in Fragments : Held(p)' = Held(p)
    BY <1>5 DEF Held
  <2>2. \A i \in Includes : i \in Items
    BY DEF Items
  <2>3. /\ \A i \in Includes : i \in buffer'["body"] => i \in dependencies
        /\ \A i \in Includes : i \in buffer'["fragment"] => i \in deps
    BY <1>4, <2>2 DEF ParsingIsSound, IncludesAreFound, Loops
  <2> QED
    BY <1>5, <2>1, <2>3 DEF ParsingIsSound, IncludesAreFound, DirectivesAreDependencies
<1>9. ReadIsTaken'
  BY <1>5 DEF ParsingIsSound, ReadIsTaken, Read, IsRead
<1>10. BuffersAreFresh'
  BY <1>2, <1>5 DEF ParsingIsSound, BuffersAreFresh
<1>11. FragmentsAreStarted'
  BY <1>5 DEF ParsingIsSound, FragmentsAreStarted
<1>12. ItemsAreHeld'
  <2>1. \A q \in Parts, i \in Items : i \in Store(q)' <=> i \in Store(q)
    BY <1>4, <1>5 DEF Store, Value, Loops
  <2> QED
    BY <1>5, <2>1 DEF ParsingIsSound, ItemsAreHeld, Lasting, IsRead
<1> QED
  BY <1>6, <1>7, <1>8, <1>9, <1>10, <1>11, <1>12 DEF ParsingIsSound, Nested

(* One more open element.                                                  *)
LEMMA ElementOpens ==
    ASSUME ParsingIsSound, mode \in Loops, MarkupOnly, NEW plain \in BOOLEAN,
           NEW part \in Parts, NEW marked \in BOOLEAN,
           Opens(plain, part, marked),
           \/ plain /\ part = Innermost.part
           \/ ~plain /\ Innermost.part = "body" /\ part \in Names \cup {"tail"},
           \/ Skipping /\ depth' = depth + 1
           \/ ~Skipping /\ marked /\ depth' = 0
           \/ ~Skipping /\ ~marked /\ part = Innermost.part /\ depth' = depth
    PROVE  ParsingIsSound'
<1>1. TypeOK /\ Nested /\ PageIsNested
  BY DEF ParsingIsSound, Nested
<1>2. UNCHANGED <<mode, target>>
  BY DEF MarkupOnly
<1>3. PageIsNested'
  BY <1>1, OpenNests
<1>4. SkippedIsRemoved' /\ LoopIsWherePageIs' /\ depth' \in -1 .. MaxDepth
  BY <1>1, <1>2, OpeningKeepsLoop
<1>5. open' \in Seq(Element) /\ Len(open') \in 1 .. MaxDepth
  BY <1>1, Opened
<1> QED
  BY <1>3, <1>4, <1>5, MarkupIsNoItem DEF Nested

(* One less.                                                               *)
LEMMA ElementCloses ==
    ASSUME ParsingIsSound, mode \in Loops, MarkupOnly, Closes,
           \/ Skipping /\ depth' = depth - 1
           \/ ~Skipping /\ Innermost.plain /\ depth' = depth
    PROVE  ParsingIsSound'
<1>1. TypeOK /\ Nested /\ PageIsNested
  BY DEF ParsingIsSound, Nested
<1>2. UNCHANGED <<mode, target>> /\ Len(open) > 1
  BY <1>1, WhereLoopIs DEF MarkupOnly
<1>3. PageIsNested'
  BY <1>1, <1>2, CloseNests
<1>4. SkippedIsRemoved' /\ LoopIsWherePageIs' /\ depth' \in -1 .. MaxDepth
  BY <1>1, <1>2, ClosingKeepsLoop
<1>5. open' \in Seq(Element) /\ Len(open') \in 1 .. MaxDepth
  BY <1>1, <1>2, Closed
<1> QED
  BY <1>3, <1>4, <1>5, MarkupIsNoItem DEF Nested

LEMMA SkipElementKeeps == ASSUME ParsingIsSound, SkipElement PROVE ParsingIsSound'
<1>1. PICK e \in Beginning, marked \in BOOLEAN : Opens(e.plain, e.part, marked)
  BY DEF SkipElement
<1>2. TypeOK /\ mode \in Loops /\ Skipping /\ depth' = depth + 1 /\ MarkupOnly
  BY DEF ParsingIsSound, SkipElement, MarkupOnly
<1>3. /\ e.plain \in BOOLEAN /\ e.part \in Parts
      /\ \/ e.plain /\ e.part = Innermost.part
         \/ ~e.plain /\ Innermost.part = "body" /\ e.part \in Names \cup {"tail"}
  BY <1>2, BeginningTyped
<1> QED
  BY <1>1, <1>2, <1>3, ElementOpens

LEMMA RemoveElementKeeps == ASSUME ParsingIsSound, RemoveElement PROVE ParsingIsSound'
<1>1. PICK e \in Beginning : Opens(e.plain, e.part, TRUE)
  BY DEF RemoveElement
<1>2. TypeOK /\ mode \in Loops /\ ~Skipping /\ depth' = 0 /\ MarkupOnly
  BY DEF ParsingIsSound, RemoveElement, MarkupOnly
<1>3. /\ e.plain \in BOOLEAN /\ e.part \in Parts
      /\ \/ e.plain /\ e.part = Innermost.part
         \/ ~e.plain /\ Innermost.part = "body" /\ e.part \in Names \cup {"tail"}
  BY <1>2, BeginningTyped
<1> QED
  BY <1>1, <1>2, <1>3, ElementOpens

LEMMA WriteElementKeeps == ASSUME ParsingIsSound, WriteElement PROVE ParsingIsSound'
<1>1. /\ TypeOK /\ mode \in Loops /\ ~Skipping /\ depth' = depth /\ MarkupOnly
      /\ Opens(TRUE, Innermost.part, FALSE)
  BY DEF ParsingIsSound, WriteElement, MarkupOnly
<1>2. Innermost.part \in Parts
  BY <1>1, InnermostTyped
<1> QED
  BY <1>1, <1>2, ElementOpens

LEMMA SkipEndKeeps == ASSUME ParsingIsSound, SkipEnd PROVE ParsingIsSound'
<1>1. mode \in Loops /\ Skipping /\ Closes /\ depth' = depth - 1 /\ MarkupOnly
  BY DEF SkipEnd, MarkupOnly
<1> QED
  BY <1>1, ElementCloses

LEMMA WriteEndKeeps == ASSUME ParsingIsSound, WriteEnd PROVE ParsingIsSound'
<1>1. /\ mode \in Loops /\ ~Skipping /\ Innermost.plain /\ Closes
      /\ depth' = depth /\ MarkupOnly
  BY DEF WriteEnd, MarkupOnly
<1> QED
  BY <1>1, ElementCloses

-----------------------------------------------------------------------------
(* Steps from one loop to another.                                         *)
LEMMA NotSkipping ==
    ASSUME TypeOK, Nested, mode \in Loops => ~Skipping
    PROVE  /\ depth = -1 /\ ~Innermost.removed
           /\ mode \notin Loops => Len(open) = 1
<1>1. depth \in Int /\ depth >= -1 /\ Len(open) \in Nat /\ Len(open) >= 1
  BY InnermostTyped DEF TypeOK
<1>2. depth = -1 /\ (mode \notin Loops => Len(open) = 1)
  BY <1>1, WhereLoopIs DEF Nested, SkippedIsRemoved, LoopIsWherePageIs
<1> QED
  BY <1>1, <1>2 DEF Nested, SkippedIsRemoved, Innermost

(* A part of the page begins, and the loop for it.                         *)
LEMMA PartOpens ==
    ASSUME TypeOK, Nested, mode \in Loops => ~Skipping,
           NEW part \in Parts, Opens(FALSE, part, FALSE), depth' = depth,
           mode' \in Loops, LoopPart' = part,
           \/ Len(open) = 1 /\ part \in {"head", "body"}
           \/ Innermost.part = "body" /\ part \in Names \cup {"tail"}
    PROVE  open' \in Seq(Element) /\ Len(open') \in 1 .. MaxDepth /\ Nested'
<1> DEFINE n == Len(open)
<1>1. /\ depth = -1 /\ ~Innermost.removed
      /\ n \in Nat /\ n >= 1
      /\ \A k \in 1 .. n : open[k].removed <=> k >= n - depth
  BY NotSkipping, InnermostTyped DEF Nested, SkippedIsRemoved
<1>2. /\ open' \in Seq(Element)
      /\ Len(open') = n + 1 /\ Len(open') \in 1 .. MaxDepth
      /\ \A k \in 1 .. n : open'[k] = open[k]
      /\ open'[n + 1].part = part
      /\ open'[n + 1].removed = (FALSE \/ Innermost.removed)
  BY Opened
<1>3. PageIsNested'
  BY OpenNests DEF Nested
<1> HIDE DEF n
<1>4. SkippedIsRemoved'
  <2>1. ASSUME NEW k \in 1 .. n + 1
        PROVE  ~open'[k].removed
    <3>1. CASE k = n + 1
      BY <1>1, <1>2, <3>1
    <3>2. CASE k \in 1 .. n
      BY <1>1, <1>2, <3>2
    <3> QED
      BY <1>1, <3>1, <3>2
  <2> QED
    BY <1>1, <1>2, <2>1 DEF SkippedIsRemoved
<1>5. LoopIsWherePageIs'
  <2>1. Len(open') - depth' - 1 = n + 1
    BY <1>1, <1>2
  <2> QED
    BY <1>2, <2>1 DEF LoopIsWherePageIs, LoopPart
<1> QED
  BY <1>2, <1>3, <1>4, <1>5 DEF Nested

(* It ends, and the loop around it goes on.                                *)
LEMMA PartCloses ==
    ASSUME TypeOK, Nested, mode \in Loops, ~Skipping, ~Innermost.plain,
           Closes, depth' = depth,
           \/ mode \in {"head", "body"} /\ mode' = "page"
           \/ mode = "fragment" /\ mode' = "body"
    PROVE  open' \in Seq(Element) /\ Len(open') \in 1 .. MaxDepth /\ Nested'
<1> DEFINE n == Len(open)
<1>1. /\ depth = -1 /\ n > 1 /\ n \in Nat
      /\ \A k \in 1 .. n : open[k].removed <=> k >= n - depth
  BY NotSkipping, WhereLoopIs, InnermostTyped DEF Nested, SkippedIsRemoved
<1>2. /\ open' \in Seq(Element)
      /\ Len(open') = n - 1 /\ Len(open') \in 1 .. MaxDepth
      /\ \A k \in 1 .. n - 1 : open'[k] = open[k]
  BY <1>1, Closed
<1>3. PageIsNested'
  BY <1>1, CloseNests DEF Nested
<1>4. /\ open[n].part = LoopPart
      /\ \/ n = 2 /\ open[n].part \in {"head", "body"}
         \/ open[n - 1].part = "body" /\ open[n].part \in Names \cup {"tail"}
  <2>1. open[n].part = LoopPart /\ ~open[n].plain /\ n \in 2 .. n
    BY <1>1, WhereLoopIs DEF Innermost, LoopPart
  <2> QED
    BY <2>1 DEF Nested, PageIsNested
<1> HIDE DEF n
<1>5. SkippedIsRemoved'
  <2>1. ASSUME NEW k \in 1 .. n - 1
        PROVE  ~open'[k].removed
    BY <1>1, <1>2
  <2> QED
    BY <1>1, <1>2, <2>1 DEF SkippedIsRemoved
<1>6. LoopIsWherePageIs'
  <2>1. CASE mode \in {"head", "body"} /\ mode' = "page"
    <3>1. n = 2
      BY <1>4, <2>1, PartsTyped DEF LoopPart
    <3> QED
      BY <1>2, <2>1, <3>1 DEF LoopIsWherePageIs, Loops
  <2>2. CASE mode = "fragment" /\ mode' = "body"
    <3>1. open[n - 1].part = "body"
      BY <1>4, <2>2, PartsTyped DEF LoopPart, TypeOK
    <3>2. Len(open') - depth' - 1 = n - 1 /\ n - 1 \in 1 .. n - 1
      BY <1>1, <1>2
    <3>3. open'[Len(open') - depth' - 1].part = "body"
      BY <1>2, <3>1, <3>2
    <3> QED
      BY <2>2, <3>3 DEF LoopIsWherePageIs, Loops
  <2> QED
    BY <2>1, <2>2
<1> QED
  BY <1>2, <1>3, <1>5, <1>6 DEF Nested

(* The parser returns.                                                     *)
LEMMA AllClose ==
    ASSUME TypeOK, LeaveAll, mode' \notin Loops
    PROVE  /\ open' \in Seq(Element) /\ Len(open') = 1 /\ Nested'
           /\ target' \in Names \cup {"tail"} /\ depth' \in -1 .. MaxDepth
           /\ buffer' \in [Loops -> Contents] /\ deps' \subseteq Includes
           /\ \A l \in Loops : buffer'[l] = {}
<1>1. open' = <<Page>> /\ depth' = -1
  BY DEF LeaveAll
<1>2. Page \in Element /\ ~Page.removed
  BY DEF Page, Element, Parts
<1>3. /\ open' \in Seq(Element) /\ Len(open') = 1 /\ open'[1] = Page
      /\ \A k \in 1 .. Len(open') : k = 1
      /\ 2 .. Len(open') = {}
  BY <1>1, <1>2
<1>4. PageIsNested'
  BY <1>3 DEF PageIsNested
<1>5. SkippedIsRemoved'
  BY <1>1, <1>2, <1>3 DEF SkippedIsRemoved
<1>6. LoopIsWherePageIs'
  BY <1>3 DEF LoopIsWherePageIs
<1>7. target' \in Names \cup {"tail"} /\ depth' \in -1 .. MaxDepth
  BY ConstantsAssumption DEF LeaveAll
<1>8. {} \in Contents
  BY DEF Contents
<1> QED
  BY <1>3, <1>4, <1>5, <1>6, <1>7, <1>8 DEF Nested, LeaveAll

LEMMA BuffersTyped ==
    ASSUME TypeOK
    PROVE  \A l \in Loops : buffer[l] \in Contents /\ buffer[l] \subseteq Written
BY DEF TypeOK, Contents

(* What starts a loop reads nothing.                                       *)
LEMMA StartReads ==
    ASSUME ParsingIsSound, UNCHANGED <<home, buffer, deps, content>>
    PROVE  /\ KeptIsRead' /\ IncludesAreFound' /\ ReadIsTaken'
           /\ \A i \in Items : IsRead(i)' <=> IsRead(i)
           /\ \A q \in Parts : Value(q)' = Value(q)
<1>1. UNCHANGED <<fragment, dependencies, required, meta>>
  BY DEF content
<1>2. \A i \in Items : Kept(i)' <=> Kept(i)
  BY <1>1 DEF Kept
<1>3. \A p \in Fragments : Held(p)' = Held(p)
  BY <1>1 DEF Held
<1> QED
  BY <1>1, <1>2, <1>3 DEF ParsingIsSound, KeptIsRead, IncludesAreFound,
       DirectivesAreDependencies, ReadIsTaken, Read, IsRead, Value

LEMMA StartHeadKeeps == ASSUME ParsingIsSound, StartHead PROVE ParsingIsSound'
<1>1. TypeOK /\ Nested
  BY DEF ParsingIsSound, Nested
<1>2. /\ mode = "page" /\ started = {} /\ Opens(FALSE, "head", FALSE)
      /\ started' = {"head"} /\ mode' = "head"
      /\ UNCHANGED <<home, target, depth, buffer, deps, content>>
  BY DEF StartHead
<1>3. UNCHANGED <<fragment, dependencies, required, meta>>
  BY <1>2 DEF content
<1>4. open' \in Seq(Element) /\ Len(open') \in 1 .. MaxDepth /\ Nested'
  <2>1. /\ mode \notin Loops /\ mode' \in Loops /\ LoopPart' = "head"
        /\ "head" \in Parts
    BY <1>2 DEF Loops, LoopPart, Parts
  <2> QED
    BY <1>1, <1>2, <2>1, NotSkipping, PartOpens
<1>5. TypeOK'
  BY <1>1, <1>2, <1>3, <1>4 DEF TypeOK, Loops, Parts
<1>6. /\ KeptIsRead' /\ IncludesAreFound' /\ ReadIsTaken'
      /\ \A i \in Items : IsRead(i)' <=> IsRead(i)
      /\ \A q \in Parts : Value(q)' = Value(q)
  BY <1>2, StartReads
<1>7. \A l \in Loops : buffer[l] = {}
  BY <1>2 DEF ParsingIsSound, BuffersAreFresh, Loops
<1>8. BuffersAreFresh'
  BY <1>2, <1>7 DEF BuffersAreFresh
<1>9. DOMAIN fragment = {}
  BY <1>2 DEF ParsingIsSound, FragmentsAreStarted
<1>10. FragmentsAreStarted'
  BY <1>2, <1>3, <1>9, PartsTyped DEF FragmentsAreStarted
<1>11. ItemsAreHeld'
  <2>1. \A q \in Parts : Store(q)' = Store(q)
    <3>1. \A q : Value(q) = {}
      BY <1>9 DEF Value
    <3>2. \A q : Value(q)' = {}
      BY <1>3, <3>1 DEF Value
    <3>3. buffer'["head"] = {}
      BY <1>2, <1>7 DEF Loops
    <3>4. \A q : Store(q) = {}
      BY <1>2, <3>1 DEF Store
    <3>5. \A q : Store(q)' = {}
      BY <1>2, <3>2, <3>3 DEF Store
    <3> QED
      BY <3>4, <3>5
  <2>2. \A q \in Parts : Lasting(q)' <=> Lasting(q)
    BY <1>2, PartsTyped DEF Lasting, Parts
  <2> QED
    BY <1>2, <1>6, <2>1, <2>2 DEF ParsingIsSound, ItemsAreHeld
<1> QED
  BY <1>4, <1>5, <1>6, <1>8, <1>10, <1>11 DEF ParsingIsSound, Nested

LEMMA StartBodyKeeps == ASSUME ParsingIsSound, StartBody PROVE ParsingIsSound'
<1>1. TypeOK /\ Nested
  BY DEF ParsingIsSound, Nested
<1>2. /\ mode = "page" /\ "body" \notin started /\ Opens(FALSE, "body", FALSE)
      /\ started' = started \cup {"body"} /\ mode' = "body"
      /\ UNCHANGED <<home, target, depth, buffer, deps, content>>
  BY DEF StartBody
<1>3. UNCHANGED <<fragment, dependencies, required, meta>>
  BY <1>2 DEF content
<1>4. open' \in Seq(Element) /\ Len(open') \in 1 .. MaxDepth /\ Nested'
  <2>1. /\ mode \notin Loops /\ mode' \in Loops /\ LoopPart' = "body"
        /\ "body" \in Parts
    BY <1>2 DEF Loops, LoopPart, Parts
  <2> QED
    BY <1>1, <1>2, <2>1, NotSkipping, PartOpens
<1>5. TypeOK'
  BY <1>1, <1>2, <1>3, <1>4 DEF TypeOK, Loops, Parts
<1>6. /\ KeptIsRead' /\ IncludesAreFound' /\ ReadIsTaken'
      /\ \A i \in Items : IsRead(i)' <=> IsRead(i)
      /\ \A q \in Parts : Value(q)' = Value(q)
  BY <1>2, StartReads
<1>7. \A l \in Loops : buffer[l] = {}
  BY <1>2 DEF ParsingIsSound, BuffersAreFresh, Loops
<1>8. BuffersAreFresh'
  BY <1>2, <1>7 DEF BuffersAreFresh
<1>9. Default \notin started /\ Default \notin DOMAIN fragment
  BY <1>2, PartsTyped DEF ParsingIsSound, FragmentsAreStarted
<1>10. FragmentsAreStarted'
  BY <1>2, <1>3, PartsTyped DEF ParsingIsSound, FragmentsAreStarted
<1>11. ItemsAreHeld'
  <2>1. \A q \in Parts : Store(q)' = Store(q)
    BY <1>2, <1>6, <1>7, <1>9, PartsTyped DEF Store, Value, Loops, Parts
  <2>2. \A q \in Parts : Lasting(q)' <=> Lasting(q)
    BY <1>2, <1>9, PartsTyped DEF Lasting, Parts
  <2> QED
    BY <1>2, <1>6, <2>1, <2>2 DEF ParsingIsSound, ItemsAreHeld
<1> QED
  BY <1>4, <1>5, <1>6, <1>8, <1>10, <1>11 DEF ParsingIsSound, Nested

(* Of two fragments of a name, the second takes the place of the first.    *)
LEMMA StartFragmentKeeps == ASSUME ParsingIsSound, StartFragment PROVE ParsingIsSound'
<1>1. TypeOK /\ Nested
  BY DEF ParsingIsSound, Nested
<1>2. /\ mode = "body" /\ ~Skipping /\ mode' = "fragment"
      /\ UNCHANGED <<depth, buffer, deps, content>>
  BY DEF StartFragment, Reading
<1>3. PICK p \in Names \cup {"tail"} :
         /\ Opens(FALSE, p, FALSE) /\ started' = started \cup {p}
         /\ home' = [i \in Items |-> IF home[i] = p THEN "replaced" ELSE home[i]]
         /\ target' = p
  BY DEF StartFragment
<1>4. UNCHANGED <<fragment, dependencies, required, meta>>
  BY <1>2 DEF content
<1>5. /\ p \in Parts
      /\ p \notin {"head", "body", "outside",
                   "unread", "removed", "marked", "replaced"}
  BY PartsTyped DEF Parts
<1>6. open' \in Seq(Element) /\ Len(open') \in 1 .. MaxDepth /\ Nested'
  <2>1. mode \in Loops /\ mode' \in Loops /\ LoopPart' = p
    BY <1>2, <1>3 DEF Loops, LoopPart
  <2>2. Innermost.part = "body"
    BY <1>1, <1>2, <2>1, WhereLoopIs
  <2> QED
    BY <1>1, <1>2, <1>3, <1>5, <2>1, <2>2, PartOpens
<1>7. /\ home' \in [Items -> Homes]
      /\ \A i \in Items :
            home'[i] = IF home[i] = p THEN "replaced" ELSE home[i]
  BY <1>1, <1>3 DEF TypeOK, Homes
<1>8. TypeOK'
  BY <1>1, <1>2, <1>3, <1>4, <1>5, <1>6, <1>7 DEF TypeOK, Loops
<1>9. \A i \in Items : IsRead(i)' <=> IsRead(i)
  BY <1>5, <1>7 DEF IsRead
<1>10. KeptIsRead'
  <2>1. \A i \in Items : Kept(i)' <=> Kept(i)
    BY <1>2, <1>4 DEF Kept
  <2> QED
    BY <1>7, <2>1 DEF ParsingIsSound, KeptIsRead
<1>11. IncludesAreFound'
  <2>1. \A q \in Fragments : Held(q)' = Held(q)
    BY <1>4 DEF Held
  <2> QED
    BY <1>2, <1>4, <2>1 DEF ParsingIsSound, IncludesAreFound, DirectivesAreDependencies
<1>12. ReadIsTaken'
  BY <1>4, <1>9 DEF ParsingIsSound, ReadIsTaken, Read
<1>13. buffer["fragment"] = {} /\ buffer["head"] = {}
  BY <1>2 DEF ParsingIsSound, BuffersAreFresh, Loops
<1>14. BuffersAreFresh'
  BY <1>2, <1>13 DEF BuffersAreFresh, Loops
<1>15. FragmentsAreStarted'
  BY <1>2, <1>3, <1>4, <1>5 DEF ParsingIsSound, FragmentsAreStarted
<1>16. ItemsAreHeld'
  <2> SUFFICES ASSUME NEW q \in Parts \ {"outside"}, NEW i \in Items, Lasting(q)'
               PROVE  (i \in Store(q) /\ home[i] # "marked")'
                         <=> home'[i] = q /\ ~IsRead(i)'
    BY DEF ItemsAreHeld
  <2>1. CASE q = p
    <3>1. Store(q)' = {}
      BY <1>2, <1>3, <1>5, <1>13, <2>1 DEF Store
    <3>2. home'[i] # p
      BY <1>5, <1>7
    <3> QED
      BY <2>1, <3>1, <3>2
  <2>2. CASE q # p
    <3>1. Store(q)' = Store(q)
      BY <1>2, <1>3, <1>4, <1>5, <1>13, <2>2 DEF Store, Value
    <3>2. Lasting(q)
      BY <1>2, <1>3, <2>2 DEF Lasting
    <3>3. (home'[i] = q <=> home[i] = q) /\ (home'[i] = "marked" <=> home[i] = "marked")
      BY <1>5, <1>7, <2>2, PartsTyped
    <3>4. i \in Store(q) /\ home[i] # "marked" <=> home[i] = q /\ ~IsRead(i)
      BY <1>2, <3>2 DEF ParsingIsSound, ItemsAreHeld
    <3> QED
      BY <1>9, <3>1, <3>3, <3>4
  <2> QED
    BY <2>1, <2>2
<1> QED
  BY <1>6, <1>8, <1>10, <1>11, <1>12, <1>14, <1>15, <1>16 DEF ParsingIsSound, Nested

(* The fragments a loop leaves behind.                                     *)
IsFragments(f) == DOMAIN f \subseteq Fragments /\ f \in [DOMAIN f -> Contents]
ValueIn(f, p) == IF p \in DOMAIN f THEN f[p] ELSE {}

LEMMA WithIs ==
    ASSUME NEW f, IsFragments(f), NEW p \in Fragments, NEW x \in Contents
    PROVE  /\ IsFragments(With(f, p, x))
           /\ DOMAIN With(f, p, x) = DOMAIN f \cup {p}
           /\ ValueIn(With(f, p, x), p) = x
           /\ \A q : q # p => ValueIn(With(f, p, x), q) = ValueIn(f, q)
BY DEF IsFragments, With, ValueIn

LEMMA HeadReadIs ==
    ASSUME ParsingIsSound, mode = "head"
    PROVE  /\ IsFragments(HeadRead) /\ DOMAIN HeadRead \subseteq {"head"}
           /\ ValueIn(HeadRead, "head") = buffer["head"]
           /\ \A q : q # "head" => ValueIn(HeadRead, q) = ValueIn(fragment, q)
<1>1. IsFragments(fragment) /\ buffer["head"] \in Contents /\ "head" \in Fragments
  BY BuffersTyped DEF ParsingIsSound, TypeOK, IsFragments, Loops, Fragments
<1>2. DOMAIN fragment = {}
  BY DEF ParsingIsSound, FragmentsAreStarted
<1>3. CASE buffer["head"] = {}
  BY <1>1, <1>2, <1>3 DEF HeadRead, ValueIn
<1>4. CASE buffer["head"] # {}
  <2>1. HeadRead = With(fragment, "head", buffer["head"])
    BY <1>4 DEF HeadRead
  <2> DEFINE w == With(fragment, "head", buffer["head"])
  <2>2. /\ IsFragments(w) /\ DOMAIN w = DOMAIN fragment \cup {"head"}
        /\ ValueIn(w, "head") = buffer["head"]
        /\ \A q : q # "head" => ValueIn(w, q) = ValueIn(fragment, q)
    BY <1>1, WithIs
  <2> QED
    BY <1>2, <2>1, <2>2
<1> QED
  BY <1>3, <1>4

LEMMA BodyReadIs ==
    ASSUME TypeOK, NEW f, IsFragments(f)
    PROVE  /\ IsFragments(BodyRead(f))
           /\ DOMAIN f \subseteq DOMAIN BodyRead(f)
           /\ DOMAIN BodyRead(f) \subseteq DOMAIN f \cup {Default}
           /\ Default \notin DOMAIN f =>
                 ValueIn(BodyRead(f), Default) = buffer["body"]
           /\ Default \in DOMAIN f => BodyRead(f) = f
           /\ \A q : q # Default => ValueIn(BodyRead(f), q) = ValueIn(f, q)
<1>1. buffer["body"] \in Contents /\ Default \in Fragments
  BY BuffersTyped, PartsTyped DEF Loops, Fragments
<1>2. CASE buffer["body"] = {} \/ Default \in DOMAIN f
  BY <1>2 DEF BodyRead, ValueIn
<1>3. CASE ~(buffer["body"] = {} \/ Default \in DOMAIN f)
  <2>1. BodyRead(f) = With(f, Default, buffer["body"])
    BY <1>3 DEF BodyRead
  <2> DEFINE w == With(f, Default, buffer["body"])
  <2>2. /\ IsFragments(w) /\ DOMAIN w = DOMAIN f \cup {Default}
        /\ ValueIn(w, Default) = buffer["body"]
        /\ \A q : q # Default => ValueIn(w, q) = ValueIn(f, q)
    BY <1>1, WithIs
  <2> QED
    BY <1>3, <2>1, <2>2
<1> QED
  BY <1>2, <1>3

LEMMA FragmentReadIs ==
    ASSUME TypeOK
    PROVE  /\ IsFragments(FragmentRead)
           /\ DOMAIN FragmentRead = DOMAIN fragment \cup {target}
           /\ ValueIn(FragmentRead, target) = buffer["fragment"]
           /\ \A q : q # target => ValueIn(FragmentRead, q) = ValueIn(fragment, q)
<1>1. /\ IsFragments(fragment) /\ buffer["fragment"] \in Contents
      /\ target \in Fragments
  BY BuffersTyped DEF TypeOK, IsFragments, Loops, Fragments
<1> QED
  BY <1>1, WithIs DEF FragmentRead

(* A loop ends: what was in its buffer is in the fragment now.             *)
Handed ==
    /\ UNCHANGED <<started, home, required, meta>>
    /\ mode' \in {"page", "body", "end"}
    /\ deps' \subseteq deps
    /\ dependencies \subseteq dependencies'
    /\ dependencies' \subseteq dependencies \cup deps
    /\ IsFragments(fragment')
    /\ \A l \in Loops : buffer'[l] \subseteq buffer[l]
    /\ \A p \in Fragments : \A x : x \in Value(p)' =>
          x \in Value(p) \/ \E l \in Loops : x \in buffer[l]
    /\ \A q \in Parts \ {"outside"} :
          Lasting(q)' => Lasting(q) /\ Store(q)' = Store(q)

LEMMA LoopEnds ==
    ASSUME ParsingIsSound, mode \in Loops \cup {"page"}, Handed,
           open' \in Seq(Element), Len(open') \in 1 .. MaxDepth \cup {1}, Nested',
           target' \in Names \cup {"tail"}, depth' \in -1 .. MaxDepth,
           buffer' \in [Loops -> Contents],
           IncludesAreFound', FragmentsAreStarted', BuffersAreFresh'
    PROVE  ParsingIsSound'
<1>1. TypeOK'
  <2>1. /\ started' \subseteq Parts /\ home' \in [Items -> Homes]
        /\ required' \subseteq Fetches /\ meta' \subseteq Metas
    BY DEF ParsingIsSound, TypeOK, Handed
  <2>2. deps' \subseteq Includes /\ dependencies' \subseteq Includes
    BY DEF ParsingIsSound, TypeOK, Handed
  <2>3. /\ mode' \in Loops \cup {"page", "end", "failed"}
        /\ DOMAIN fragment' \subseteq Fragments
        /\ fragment' \in [DOMAIN fragment' -> Contents]
    BY DEF Handed, IsFragments, Loops
  <2> QED
    BY <2>1, <2>2, <2>3 DEF TypeOK
<1>2. KeptIsRead'
  <2>1. ASSUME NEW i \in Items, Kept(i)'
        PROVE  Kept(i)
    <3>1. CASE \E p \in DOMAIN fragment' : i \in fragment'[p]
      <4>1. PICK p \in Fragments : i \in Value(p)'
        BY <3>1 DEF Value, Handed, IsFragments
      <4>2. i \in Value(p) \/ \E l \in Loops : i \in buffer[l]
        BY <4>1 DEF Handed
      <4> QED
        BY <4>2 DEF Kept, Value
    <3>2. CASE ~ \E p \in DOMAIN fragment' : i \in fragment'[p]
      BY <2>1, <3>2 DEF Kept, Handed
    <3> QED
      BY <3>1, <3>2
  <2> QED
    BY <2>1 DEF ParsingIsSound, KeptIsRead, Handed
<1>3. ReadIsTaken' /\ \A i \in Items : IsRead(i)' <=> IsRead(i)
  BY DEF ParsingIsSound, ReadIsTaken, Read, IsRead, Handed
<1>4. ItemsAreHeld'
  <2>1. mode # "failed" /\ UNCHANGED home
    BY DEF Loops, Handed
  <2> QED
    BY <1>3, <2>1 DEF ParsingIsSound, ItemsAreHeld, Handed
<1> QED
  BY <1>1, <1>2, <1>3, <1>4 DEF ParsingIsSound, Nested

LEMMA IncludesStay ==
    ASSUME ParsingIsSound, dependencies \subseteq dependencies',
           mode = "fragment" => deps \subseteq dependencies',
           buffer'["body"] \subseteq buffer["body"], buffer'["fragment"] = {},
           \A p \in Fragments \ {"head"} : \A x : x \in Value(p)' =>
              \/ x \in Value(p) \cup buffer["body"]
              \/ mode = "fragment" /\ x \in buffer["fragment"]
    PROVE  IncludesAreFound'
<1>1. \A p : Held(p) = Value(p) \ {"markup"} /\ Held(p)' = Value(p)' \ {"markup"}
  BY DEF Held, Value
<1>2. \A x \in Includes : x # "markup"
  BY PartsTyped DEF Items
<1>3. ASSUME NEW p \in Fragments \ {"head"}, NEW x \in Includes, x \in Held(p)'
      PROVE  x \in dependencies'
  <2>1. CASE x \in Value(p)
    BY <1>1, <1>2, <2>1 DEF ParsingIsSound, IncludesAreFound, DirectivesAreDependencies
  <2>2. CASE x \in buffer["body"]
    BY <2>2 DEF ParsingIsSound, IncludesAreFound
  <2>3. CASE mode = "fragment" /\ x \in buffer["fragment"]
    BY <2>3 DEF ParsingIsSound, IncludesAreFound
  <2> QED
    BY <1>1, <1>3, <2>1, <2>2, <2>3
<1>4. buffer'["body"] \cap Includes \subseteq dependencies'
  BY DEF ParsingIsSound, IncludesAreFound
<1> QED
  BY <1>3, <1>4 DEF IncludesAreFound, DirectivesAreDependencies

LEMMA ValueIs == \A p : /\ Value(p) = ValueIn(fragment, p)
                        /\ Value(p)' = ValueIn(fragment', p)
BY DEF Value, ValueIn

(* The buffers of the loops, as one of them ends.                          *)
LEMMA Left ==
    ASSUME TypeOK, mode \in Loops, Leave
    PROVE  /\ buffer' \in [Loops -> Contents] /\ buffer'[mode] = {}
           /\ \A l \in Loops : l # mode => buffer'[l] = buffer[l]
           /\ \A l \in Loops : buffer'[l] \subseteq buffer[l]
BY DEF TypeOK, Leave, Contents

LEMMA EndHeadKeeps == ASSUME ParsingIsSound, EndHead PROVE ParsingIsSound'
<1>1. TypeOK /\ Nested
  BY DEF ParsingIsSound, Nested
<1>2. /\ mode = "head" /\ ~Skipping /\ ~Innermost.plain /\ Closes
      /\ fragment' = HeadRead /\ Leave /\ mode' = "page"
      /\ UNCHANGED <<started, home, target, depth, deps,
                     dependencies, required, meta>>
  BY DEF EndHead, Reading
<1>3. mode \in Loops /\ "head" \in Loops
  BY <1>2 DEF Loops
<1>4. open' \in Seq(Element) /\ Len(open') \in 1 .. MaxDepth /\ Nested'
  BY <1>1, <1>2, <1>3, PartCloses
<1>5. /\ IsFragments(fragment') /\ DOMAIN fragment' \subseteq {"head"}
      /\ Value("head")' = buffer["head"]
      /\ \A q : q # "head" => Value(q)' = Value(q)
  BY <1>2, HeadReadIs, ValueIs
<1>6. /\ buffer' \in [Loops -> Contents] /\ buffer'["head"] = {}
      /\ \A l \in Loops : l # "head" => buffer'[l] = buffer[l]
      /\ \A l \in Loops : buffer'[l] \subseteq buffer[l]
  BY <1>1, <1>2, <1>3, Left
<1>7. \A l \in Loops : buffer'[l] = {}
  BY <1>2, <1>6 DEF ParsingIsSound, BuffersAreFresh
<1>8. IncludesAreFound'
  BY <1>2, <1>5, <1>6, <1>7, IncludesStay DEF Loops
<1>9. FragmentsAreStarted'
  <2>1. started = {"head"}
    BY <1>2 DEF ParsingIsSound, FragmentsAreStarted
  <2> QED
    BY <1>2, <1>5, <2>1, PartsTyped DEF FragmentsAreStarted
<1>10. BuffersAreFresh'
  BY <1>7 DEF BuffersAreFresh
<1>11. Handed
  <2>1. \A q \in Parts : Lasting(q)' => Lasting(q)
    BY <1>2 DEF Lasting
  <2>2. \A q \in Parts : Store(q)' = Store(q)
    BY <1>2, <1>5, PartsTyped DEF Store
  <2>3. \A p \in Fragments : \A x : x \in Value(p)' =>
           x \in Value(p) \/ \E l \in Loops : x \in buffer[l]
    BY <1>3, <1>5
  <2> QED
    BY <1>2, <1>5, <1>6, <2>1, <2>2, <2>3 DEF Handed
<1> QED
  BY <1>1, <1>2, <1>3, <1>4, <1>6, <1>8, <1>9, <1>10, <1>11, LoopEnds DEF TypeOK

LEMMA EndBodyKeeps == ASSUME ParsingIsSound, EndBody PROVE ParsingIsSound'
<1>1. TypeOK /\ Nested
  BY DEF ParsingIsSound, Nested
<1>2. /\ mode = "body" /\ ~Skipping /\ ~Innermost.plain /\ Closes
      /\ fragment' = BodyRead(fragment) /\ Leave /\ mode' = "page"
      /\ UNCHANGED <<started, home, target, depth, deps,
                     dependencies, required, meta>>
  BY DEF EndBody, Reading
<1>3. mode \in Loops /\ "body" \in Loops
  BY <1>2 DEF Loops
<1>4. open' \in Seq(Element) /\ Len(open') \in 1 .. MaxDepth /\ Nested'
  BY <1>1, <1>2, <1>3, PartCloses
<1>5. /\ IsFragments(fragment') /\ DOMAIN fragment \subseteq DOMAIN fragment'
      /\ DOMAIN fragment' \subseteq DOMAIN fragment \cup {Default}
      /\ Default \notin DOMAIN fragment => Value(Default)' = buffer["body"]
      /\ Default \in DOMAIN fragment => fragment' = fragment
      /\ \A q : q # Default => Value(q)' = Value(q)
  BY <1>1, <1>2, BodyReadIs, ValueIs DEF TypeOK, IsFragments
<1>6. /\ buffer' \in [Loops -> Contents] /\ buffer'["body"] = {}
      /\ \A l \in Loops : l # "body" => buffer'[l] = buffer[l]
      /\ \A l \in Loops : buffer'[l] \subseteq buffer[l]
  BY <1>1, <1>2, <1>3, Left
<1>7. \A l \in Loops : buffer'[l] = {}
  BY <1>2, <1>6 DEF ParsingIsSound, BuffersAreFresh
<1>8. Default \in DOMAIN fragment <=> Default \in started
  BY <1>2, PartsTyped DEF ParsingIsSound, FragmentsAreStarted
<1>9. \A p, x : x \in Value(p)' => x \in Value(p) \cup buffer["body"]
  BY <1>5 DEF Value
<1>10. IncludesAreFound'
  BY <1>2, <1>6, <1>7, <1>9, IncludesStay DEF Loops
<1>11. FragmentsAreStarted'
  BY <1>2, <1>5 DEF ParsingIsSound, FragmentsAreStarted
<1>12. BuffersAreFresh'
  BY <1>7 DEF BuffersAreFresh
<1>13. Handed
  <2>1. \A q \in Parts : Lasting(q)' => Lasting(q)
    BY <1>2 DEF Lasting
  <2>2. \A q \in Parts : Lasting(q)' => Store(q)' = Store(q)
    BY <1>2, <1>5, <1>8, PartsTyped DEF Store, Lasting, Value
  <2>3. \A p \in Fragments : \A x : x \in Value(p)' =>
           x \in Value(p) \/ \E l \in Loops : x \in buffer[l]
    BY <1>3, <1>9
  <2> QED
    BY <1>2, <1>5, <1>6, <2>1, <2>2, <2>3 DEF Handed
<1> QED
  BY <1>1, <1>2, <1>3, <1>4, <1>6, <1>10, <1>11, <1>12, <1>13, LoopEnds DEF TypeOK

LEMMA EndFragmentKeeps == ASSUME ParsingIsSound, EndFragment PROVE ParsingIsSound'
<1>1. TypeOK /\ Nested
  BY DEF ParsingIsSound, Nested
<1>2. /\ mode = "fragment" /\ ~Skipping /\ ~Innermost.plain /\ Closes
      /\ fragment' = FragmentRead /\ Leave /\ mode' = "body"
      /\ dependencies' = dependencies \cup deps
      /\ target' = Default /\ deps' = {}
      /\ UNCHANGED <<started, home, depth, required, meta>>
  BY DEF EndFragment, Reading
<1>3. mode \in Loops /\ "fragment" \in Loops
  BY <1>2 DEF Loops
<1>4. open' \in Seq(Element) /\ Len(open') \in 1 .. MaxDepth /\ Nested'
  BY <1>1, <1>2, <1>3, PartCloses
<1>5. /\ IsFragments(fragment')
      /\ DOMAIN fragment' = DOMAIN fragment \cup {target}
      /\ ValueIn(fragment', target) = buffer["fragment"]
      /\ \A q : q # target => ValueIn(fragment', q) = ValueIn(fragment, q)
  BY <1>1, <1>2, FragmentReadIs
<1>5a. \A p, x : x \in Value(p)' => x \in Value(p) \cup buffer["fragment"]
  <2>1. \A p, x : x \in ValueIn(fragment', p) =>
           x \in ValueIn(fragment, p) \cup buffer["fragment"]
    BY <1>5
  <2> QED
    BY <2>1 DEF Value, ValueIn
<1>6. /\ buffer' \in [Loops -> Contents] /\ buffer'["fragment"] = {}
      /\ \A l \in Loops : l # "fragment" => buffer'[l] = buffer[l]
      /\ \A l \in Loops : buffer'[l] \subseteq buffer[l]
  BY <1>1, <1>2, <1>3, Left
<1>7. buffer'["head"] = {} /\ buffer'["body"] = buffer["body"]
  BY <1>2, <1>6 DEF ParsingIsSound, BuffersAreFresh, Loops
<1>8. target \in Names \cup {"tail"} /\ target \in started /\ "body" \in started
  BY <1>1, <1>2 DEF TypeOK, ParsingIsSound, FragmentsAreStarted
<1>9. IncludesAreFound'
  BY <1>2, <1>6, <1>7, <1>5a, IncludesStay
<1>10. FragmentsAreStarted'
  BY <1>2, <1>5, <1>8 DEF ParsingIsSound, FragmentsAreStarted
<1>11. BuffersAreFresh'
  BY <1>2, <1>6, <1>7 DEF BuffersAreFresh, Loops
<1>12. Handed
  <2>1. \A q \in Parts : Lasting(q)' => Lasting(q)
    BY <1>2 DEF Lasting
  <2>2. ASSUME NEW q \in Parts
        PROVE  Store(q)' = Store(q)
    <3>1. CASE q = target
      <4>1. q \notin {"head", "body"}
        BY <1>8, <3>1, PartsTyped
      <4> QED
        BY <1>2, <1>5, <3>1, <4>1 DEF Store, Value, ValueIn
    <3>2. CASE q = "body"
      BY <1>2, <1>7, <3>2 DEF Store
    <3>3. CASE q \notin {target, "body"}
      <4>1. ValueIn(fragment', q) = ValueIn(fragment, q)
        BY <1>5, <3>3
      <4> QED
        BY <1>2, <3>3, <4>1 DEF Store, Value, ValueIn
    <3> QED
      BY <3>1, <3>2, <3>3
  <2>3. \A p \in Fragments : \A x : x \in Value(p)' =>
           x \in Value(p) \/ \E l \in Loops : x \in buffer[l]
    BY <1>3, <1>5a
  <2> QED
    BY <1>2, <1>5, <1>6, <2>1, <2>2, <2>3 DEF Handed
<1>13. target' \in Names \cup {"tail"} /\ depth' \in -1 .. MaxDepth
  BY <1>1, <1>2, PartsTyped DEF TypeOK
<1> QED
  BY <1>3, <1>4, <1>6, <1>9, <1>10, <1>11, <1>12, <1>13, LoopEnds

(* The fragments a page that is cut off leaves behind.                     *)
LEMMA CutOff ==
    ASSUME ParsingIsSound, EndOfInput
    PROVE  /\ IsFragments(fragment')
           /\ FragmentsAreStarted'
           /\ \A p, x : x \in Value(p)' =>
                 \/ x \in Value(p) \cup buffer["body"]
                 \/ mode = "head" /\ p = "head" /\ x \in buffer["head"]
                 \/ mode = "fragment" /\ x \in buffer["fragment"]
           /\ \A q \in Parts : Lasting(q)' => Lasting(q) /\ Store(q)' = Store(q)
<1>1. TypeOK /\ IsFragments(fragment)
  BY DEF ParsingIsSound, TypeOK, IsFragments
<1>2. mode \in Loops \cup {"page"} /\ mode' = "end" /\ UNCHANGED started
  BY DEF EndOfInput
<1>3. \A q : Lasting(q)' => Lasting(q)
  BY <1>2 DEF Lasting
<1>4. CASE mode = "page"
  <2>1. fragment' = fragment
    BY <1>4 DEF EndOfInput
  <2>2. \A q : Value(q)' = Value(q)
    BY <2>1 DEF Value
  <2>3. FragmentsAreStarted'
    BY <1>2, <1>4, <2>1 DEF ParsingIsSound, FragmentsAreStarted
  <2>4. \A q : Store(q)' = Store(q)
    BY <1>2, <1>4, <2>2 DEF Store
  <2> QED
    BY <1>1, <1>3, <2>1, <2>2, <2>3, <2>4
<1>5. CASE mode = "head"
  <2>1. fragment' = HeadRead
    BY <1>5 DEF EndOfInput
  <2>2. /\ IsFragments(fragment') /\ DOMAIN fragment' \subseteq {"head"}
        /\ Value("head")' = buffer["head"]
        /\ \A q : q # "head" => Value(q)' = Value(q)
    BY <1>5, <2>1, HeadReadIs, ValueIs
  <2>3. FragmentsAreStarted'
    <3>1. started = {"head"}
      BY <1>5 DEF ParsingIsSound, FragmentsAreStarted
    <3> QED
      BY <1>2, <2>2, <3>1, PartsTyped DEF FragmentsAreStarted
  <2>4. \A q : Store(q)' = Store(q)
    BY <1>2, <1>5, <2>2, PartsTyped DEF Store
  <2> QED
    BY <1>3, <1>5, <2>2, <2>3, <2>4
<1>6. CASE mode = "body"
  <2>1. fragment' = BodyRead(fragment)
    BY <1>6 DEF EndOfInput
  <2>2. /\ IsFragments(fragment') /\ DOMAIN fragment \subseteq DOMAIN fragment'
        /\ DOMAIN fragment' \subseteq DOMAIN fragment \cup {Default}
        /\ Default \notin DOMAIN fragment => Value(Default)' = buffer["body"]
        /\ Default \in DOMAIN fragment => fragment' = fragment
        /\ \A q : q # Default => Value(q)' = Value(q)
    BY <1>1, <2>1, BodyReadIs, ValueIs
  <2>3. FragmentsAreStarted'
    BY <1>2, <1>6, <2>2 DEF ParsingIsSound, FragmentsAreStarted
  <2>4. Default \in DOMAIN fragment <=> Default \in started
    BY <1>6, PartsTyped DEF ParsingIsSound, FragmentsAreStarted
  <2>5. \A q \in Parts : Lasting(q)' => Store(q)' = Store(q)
    BY <1>2, <1>6, <2>2, <2>4, PartsTyped DEF Store, Lasting, Value
  <2>6. \A p, x : x \in Value(p)' => x \in Value(p) \cup buffer["body"]
    BY <2>2 DEF Value
  <2> QED
    BY <1>3, <2>2, <2>3, <2>5, <2>6
<1>7. CASE mode = "fragment"
  <2> DEFINE f == FragmentRead
  <2>1. fragment' = BodyRead(f)
    BY <1>7 DEF EndOfInput
  <2>2. /\ IsFragments(f) /\ DOMAIN f = DOMAIN fragment \cup {target}
        /\ ValueIn(f, target) = buffer["fragment"]
        /\ \A q : q # target => ValueIn(f, q) = ValueIn(fragment, q)
    BY <1>1, FragmentReadIs
  <2> HIDE DEF f
  <2>3. /\ IsFragments(fragment') /\ DOMAIN f \subseteq DOMAIN fragment'
        /\ DOMAIN fragment' \subseteq DOMAIN f \cup {Default}
        /\ Default \notin DOMAIN f => ValueIn(fragment', Default) = buffer["body"]
        /\ Default \in DOMAIN f => fragment' = f
        /\ \A q : q # Default => ValueIn(fragment', q) = ValueIn(f, q)
    BY <1>1, <2>1, <2>2, BodyReadIs
  <2>4. target \in Names \cup {"tail"} /\ target \in started /\ "body" \in started
    BY <1>1, <1>7 DEF TypeOK, ParsingIsSound, FragmentsAreStarted
  <2>5. FragmentsAreStarted'
    BY <1>2, <1>7, <2>2, <2>3, <2>4 DEF ParsingIsSound, FragmentsAreStarted
  <2>6. Default \in DOMAIN f <=> Default \in started
    BY <1>7, <2>2, <2>4, PartsTyped DEF ParsingIsSound, FragmentsAreStarted
  <2>7. \A q \in Parts : Lasting(q)' => Store(q)' = Store(q)
    <3> SUFFICES ASSUME NEW q \in Parts, Lasting(q)'
                 PROVE  Store(q)' = Store(q)
      OBVIOUS
    <3>1. CASE q = "body"
      <4>1. Default \notin started
        BY <1>2, <3>1, PartsTyped DEF Lasting
      <4>2. ValueIn(fragment', Default) = buffer["body"]
        BY <2>3, <2>6, <4>1
      <4>3. Store(q)' = ValueIn(fragment', Default)
        BY <1>2, <3>1 DEF Store, Value, ValueIn
      <4>4. Store(q) = buffer["body"]
        BY <1>7, <3>1 DEF Store
      <4> QED
        BY <4>2, <4>3, <4>4
    <3>2. CASE q = target
      <4>1. ValueIn(fragment', q) = buffer["fragment"]
        BY <2>2, <2>3, <2>6, <2>4, <3>2
      <4>2. q \notin {"head", "body"}
        BY <2>4, <3>2, PartsTyped
      <4> QED
        BY <1>2, <1>7, <3>2, <4>1, <4>2 DEF Store, Value, ValueIn
    <3>3. CASE q \notin {target, "body"}
      <4>1. q = Default => Default \in started
        BY <1>2, PartsTyped DEF Lasting
      <4>2. ValueIn(fragment', q) = ValueIn(fragment, q)
        BY <1>2, <2>2, <2>3, <2>6, <3>3, <4>1 DEF Lasting
      <4> QED
        BY <1>2, <1>7, <3>3, <4>2 DEF Store, Value, ValueIn
    <3> QED
      BY <3>1, <3>2, <3>3
  <2>8. ASSUME NEW p, NEW x, x \in Value(p)'
        PROVE  x \in Value(p) \cup buffer["body"] \cup buffer["fragment"]
    <3>1. x \in ValueIn(fragment', p)
      BY <2>8, ValueIs
    <3>2. x \in ValueIn(f, p) \cup buffer["body"]
      BY <2>3, <3>1
    <3>3. x \in ValueIn(fragment, p) \cup buffer["body"] \cup buffer["fragment"]
      BY <2>2, <3>2
    <3> QED
      BY <3>3, ValueIs
  <2> QED
    BY <1>3, <1>7, <2>3, <2>5, <2>7, <2>8
<1> QED
  BY <1>2, <1>4, <1>5, <1>6, <1>7 DEF Loops

LEMMA EndOfInputKeeps == ASSUME ParsingIsSound, EndOfInput PROVE ParsingIsSound'
<1>1. TypeOK
  BY DEF ParsingIsSound
<1>2. /\ mode \in Loops \cup {"page"} /\ LeaveAll /\ mode' = "end"
      /\ dependencies' = IF mode = "fragment"
                         THEN dependencies \cup deps ELSE dependencies
      /\ UNCHANGED <<started, home, required, meta>>
  BY DEF EndOfInput
<1>3. /\ open' \in Seq(Element) /\ Len(open') = 1 /\ Nested'
      /\ target' \in Names \cup {"tail"} /\ depth' \in -1 .. MaxDepth
      /\ buffer' \in [Loops -> Contents]
      /\ \A l \in Loops : buffer'[l] = {}
  BY <1>1, <1>2, AllClose DEF Loops
<1>4. /\ IsFragments(fragment')
      /\ FragmentsAreStarted'
      /\ \A p, x : x \in Value(p)' =>
            \/ x \in Value(p) \cup buffer["body"]
            \/ mode = "head" /\ p = "head" /\ x \in buffer["head"]
            \/ mode = "fragment" /\ x \in buffer["fragment"]
      /\ \A q \in Parts : Lasting(q)' => Lasting(q) /\ Store(q)' = Store(q)
  BY CutOff
<1>5. IncludesAreFound'
  <2>1. dependencies \subseteq dependencies' /\ (mode = "fragment" => deps \subseteq dependencies')
    BY <1>2
  <2>2. buffer'["body"] = {} /\ buffer'["fragment"] = {}
    BY <1>3 DEF Loops
  <2> QED
    BY <1>4, <2>1, <2>2, IncludesStay
<1>6. BuffersAreFresh'
  BY <1>3 DEF BuffersAreFresh
<1>7. Handed
  <2>1. deps' = {}
    BY <1>2 DEF LeaveAll
  <2>2. {"head", "body", "fragment"} = Loops
    BY DEF Loops
  <2>3. \A p \in Fragments : \A x : x \in Value(p)' =>
           x \in Value(p) \/ \E l \in Loops : x \in buffer[l]
    BY <1>4, <2>2
  <2> QED
    BY <1>2, <1>3, <1>4, <2>1, <2>3 DEF Handed
<1>8. Len(open') \in (1 .. MaxDepth) \cup {1}
  BY <1>3
<1> QED
  BY <1>2, <1>3, <1>4, <1>5, <1>6, <1>7, <1>8, LoopEnds

LEMMA ParsingFailsKeeps == ASSUME ParsingIsSound, ParsingFails PROVE ParsingIsSound'
<1>1. TypeOK
  BY DEF ParsingIsSound
<1>2. /\ mode \in Loops \cup {"page"} /\ LeaveAll /\ mode' = "failed"
      /\ UNCHANGED <<started, home, fragment, dependencies, required, meta>>
  BY DEF ParsingFails, content
<1>3. /\ open' \in Seq(Element) /\ Len(open') = 1 /\ Nested'
      /\ target' \in Names \cup {"tail"} /\ depth' \in -1 .. MaxDepth
      /\ buffer' \in [Loops -> Contents] /\ deps' \subseteq Includes
      /\ \A l \in Loops : buffer'[l] = {}
  BY <1>1, <1>2, AllClose DEF Loops
<1>4. TypeOK'
  <2>1. Len(open') \in (1 .. MaxDepth) \cup {1}
    BY <1>3
  <2> QED
    BY <1>1, <1>2, <1>3, <2>1 DEF TypeOK
<1>5. KeptIsRead'
  <2>1. deps' = {}
    BY <1>2 DEF LeaveAll
  <2>2. \A i \in Items : Kept(i)' => Kept(i)
    BY <1>2, <1>3, <2>1 DEF Kept
  <2> QED
    BY <1>2, <2>2 DEF ParsingIsSound, KeptIsRead
<1>6. IncludesAreFound'
  <2>1. buffer'["body"] = {} /\ buffer'["fragment"] = {}
    BY <1>3 DEF Loops
  <2>2. \A p \in Fragments : Held(p)' = Held(p)
    BY <1>2 DEF Held
  <2> QED
    BY <1>2, <2>1, <2>2 DEF ParsingIsSound, IncludesAreFound, DirectivesAreDependencies
<1>7. ReadIsTaken'
  BY <1>2 DEF ParsingIsSound, ReadIsTaken, Read, IsRead
<1>8. BuffersAreFresh'
  BY <1>3 DEF BuffersAreFresh
<1>9. FragmentsAreStarted'
  BY <1>2 DEF ParsingIsSound, FragmentsAreStarted, Loops
<1>10. ItemsAreHeld'
  BY <1>2 DEF ItemsAreHeld
<1> QED
  BY <1>3, <1>4, <1>5, <1>6, <1>7, <1>8, <1>9, <1>10 DEF ParsingIsSound, Nested

-----------------------------------------------------------------------------
(* The invariant holds of an empty page, and no step breaks it.            *)
LEMMA InitIsSound == Init => ParsingIsSound
<1> SUFFICES ASSUME Init PROVE ParsingIsSound
  OBVIOUS
<1>1. /\ open = <<Page>> /\ started = {} /\ home = [i \in Items |-> "unread"]
      /\ mode = "page" /\ target = Default /\ depth = -1
      /\ buffer = [l \in Loops |-> {}] /\ deps = {}
      /\ fragment = [p \in {} |-> {}]
      /\ dependencies = {} /\ required = {} /\ meta = {}
  BY DEF Init
<1>2. /\ DOMAIN fragment = {} /\ fragment \in [{} -> Contents]
      /\ \A l \in Loops : buffer[l] = {}
      /\ \A i \in Items : home[i] = "unread"
  BY <1>1
<1>3. Page \in Element /\ ~Page.removed
  BY DEF Page, Element, Parts
<1>4. /\ open \in Seq(Element) /\ Len(open) = 1 /\ open[1] = Page
      /\ \A k \in 1 .. Len(open) : k = 1
      /\ 2 .. Len(open) = {}
  BY <1>1, <1>3
<1>5. TypeOK
  <2>1. target \in Names \cup {"tail"} /\ depth \in -1 .. MaxDepth
    BY <1>1, ConstantsAssumption
  <2>2. buffer \in [Loops -> Contents] /\ home \in [Items -> Homes]
    BY <1>1 DEF Contents, Homes
  <2>3. Len(open) \in (1 .. MaxDepth) \cup {1}
    BY <1>4
  <2> QED
    BY <1>1, <1>2, <1>4, <2>1, <2>2, <2>3 DEF TypeOK
<1>6. PageIsNested
  BY <1>4 DEF PageIsNested
<1>7. SkippedIsRemoved
  BY <1>1, <1>3, <1>4 DEF SkippedIsRemoved
<1>8. LoopIsWherePageIs
  BY <1>1, <1>4 DEF LoopIsWherePageIs, Loops
<1>9. \A i \in Items : ~Kept(i) /\ ~IsRead(i)
  BY <1>1, <1>2 DEF Kept, IsRead
<1>10. KeptIsRead
  BY <1>9 DEF KeptIsRead
<1>11. IncludesAreFound
  BY <1>2 DEF IncludesAreFound, DirectivesAreDependencies, Held, Loops
<1>12. ReadIsTaken
  BY <1>1, <1>9 DEF ReadIsTaken, Read
<1>13. BuffersAreFresh
  BY <1>2 DEF BuffersAreFresh
<1>14. FragmentsAreStarted
  BY <1>1, <1>2 DEF FragmentsAreStarted
<1>15. ItemsAreHeld
  <2>1. \A q : Store(q) = {}
    BY <1>1, <1>2 DEF Store, Value
  <2>2. \A q \in Parts : q # "unread"
    BY PartsTyped
  <2> QED
    BY <1>2, <2>1, <2>2 DEF ItemsAreHeld
<1> QED
  BY <1>5, <1>6, <1>7, <1>8, <1>10, <1>11, <1>12, <1>13, <1>14, <1>15 DEF ParsingIsSound

LEMMA StutterKeeps == ASSUME ParsingIsSound, UNCHANGED vars PROVE ParsingIsSound'
<1>1. UNCHANGED <<open, started, home, mode, target, depth, buffer, deps,
                  fragment, dependencies, required, meta>>
  BY DEF vars, page, loop, content
<1>2. TypeOK'
  BY <1>1 DEF ParsingIsSound, TypeOK
<1>3. PageIsNested' /\ SkippedIsRemoved' /\ LoopIsWherePageIs'
  BY <1>1 DEF ParsingIsSound, PageIsNested, SkippedIsRemoved, LoopIsWherePageIs
<1>4. KeptIsRead' /\ ReadIsTaken'
  BY <1>1 DEF ParsingIsSound, KeptIsRead, Kept, ReadIsTaken, Read, IsRead
<1>5. IncludesAreFound'
  BY <1>1 DEF ParsingIsSound, IncludesAreFound, DirectivesAreDependencies, Held
<1>6. BuffersAreFresh' /\ FragmentsAreStarted'
  BY <1>1 DEF ParsingIsSound, BuffersAreFresh, FragmentsAreStarted
<1>7. ItemsAreHeld'
  BY <1>1 DEF ParsingIsSound, ItemsAreHeld, Lasting, Store, Value, IsRead
<1> QED
  BY <1>2, <1>3, <1>4, <1>5, <1>6, <1>7 DEF ParsingIsSound

LEMMA NextIsSound == ParsingIsSound /\ [Next]_vars => ParsingIsSound'
<1> SUFFICES ASSUME ParsingIsSound, [Next]_vars PROVE ParsingIsSound'
  OBVIOUS
<1>1. CASE SkipItem \/ SkipElement \/ SkipEnd
  BY <1>1, SkipItemKeeps, SkipElementKeeps, SkipEndKeeps
<1>2. CASE RemoveItem \/ RemoveElement
  BY <1>2, RemoveItemKeeps, RemoveElementKeeps
<1>3. CASE WriteItem \/ WriteElement \/ WriteEnd
  BY <1>3, WriteItemKeeps, WriteElementKeeps, WriteEndKeeps
<1>4. CASE StartHead \/ parseMetaJson \/ EndHead
  BY <1>4, StartHeadKeeps, parseMetaJsonKeeps, EndHeadKeeps
<1>5. CASE StartBody \/ getFetch \/ getIncludeInBody \/ EndBody
  BY <1>5, StartBodyKeeps, getFetchKeeps, getIncludeInBodyKeeps, EndBodyKeeps
<1>6. CASE StartFragment \/ getIncludeInFragment \/ EndFragment
  BY <1>6, StartFragmentKeeps, getIncludeInFragmentKeeps, EndFragmentKeeps
<1>7. CASE EndOfInput \/ ParsingFails
  BY <1>7, EndOfInputKeeps, ParsingFailsKeeps
<1>8. CASE Returned \/ UNCHANGED vars
  BY <1>8, StutterKeeps DEF Returned
<1> QED
  BY <1>1, <1>2, <1>3, <1>4, <1>5, <1>6, <1>7, <1>8 DEF Next

(* An include that a fragment has although it is marked is asked for.      *)
LEMMA MarkedComes ==
    ASSUME ParsingIsSound, mode \in Loops, NEW i \in Items, NEW marked \in BOOLEAN,
           Comes(i, marked), home'[i] = "marked"
    PROVE  mode = "fragment" /\ ~Skipping /\ marked /\ i \in Includes
<1>1. mode \in Loops /\ LoopPart # "marked"
  BY LoopPartTyped, PartsTyped DEF ParsingIsSound
<1> QED
  BY <1>1, ItemComes

LEMMA MarkedStayFollowed ==
    ASSUME ParsingIsSound, MarkedAreFollowed, [Next]_vars
    PROVE  MarkedAreFollowed'
<1>1. ASSUME mode \in Loops, deps' = deps, UNCHANGED <<mode, dependencies>>,
             NEW i \in Items, NEW marked \in BOOLEAN, Comes(i, marked),
             mode # "fragment" \/ Skipping \/ ~marked \/ i \notin Includes
      PROVE  MarkedAreFollowed'
  <2>1. \A k \in Items : k # i => home'[k] = home[k]
    BY <1>1, ItemComes
  <2>2. home'[i] # "marked"
    BY <1>1, MarkedComes
  <2> QED
    BY <1>1, <2>1, <2>2 DEF MarkedAreFollowed
<1>2. ASSUME UNCHANGED <<home, deps>>, dependencies \subseteq dependencies',
             mode \notin {"fragment", "failed"}
      PROVE  MarkedAreFollowed'
  BY <1>2 DEF MarkedAreFollowed
<1>3. CASE SkipItem \/ RemoveItem
  BY <1>1, <1>3 DEF SkipItem, RemoveItem, Markable, loop, content
<1>4. CASE WriteItem \/ parseMetaJson \/ getFetch
  <2>1. /\ mode \in Loops /\ UNCHANGED <<mode, deps, dependencies>>
        /\ \E i \in Items : Comes(i, FALSE)
    BY <1>4 DEF WriteItem, parseMetaJson, getFetch, Reading, Loops, Uncased, Items,
                loop, content
  <2> QED
    BY <1>1, <2>1
<1>5. CASE getIncludeInBody
  <2>1. PICK i \in Includes : Comes(i, FALSE) /\ dependencies' = dependencies \cup {i}
    BY <1>5 DEF getIncludeInBody
  <2>2. mode = "body" /\ mode \in Loops /\ UNCHANGED <<mode, deps>> /\ i \in Items
    BY <1>5 DEF getIncludeInBody, Reading, Loops, Items
  <2>3. \A k \in Items : k # i => home'[k] = home[k]
    BY <2>1, <2>2, ItemComes
  <2>4. home'[i] # "marked"
    BY <2>1, <2>2, MarkedComes
  <2> QED
    BY <2>1, <2>2, <2>3, <2>4 DEF MarkedAreFollowed
<1>6. CASE getIncludeInFragment
  <2>1. PICK i \in Includes, marked \in BOOLEAN :
           Comes(i, marked) /\ deps' = deps \cup {i}
    BY <1>6 DEF getIncludeInFragment
  <2>2. /\ mode = "fragment" /\ mode \in Loops /\ i \in Items
        /\ UNCHANGED <<mode, dependencies>>
    BY <1>6 DEF getIncludeInFragment, Reading, Loops, Items, content
  <2>3. \A k \in Items : k # i => home'[k] = home[k]
    BY <2>1, <2>2, ItemComes
  <2> QED
    BY <2>1, <2>2, <2>3 DEF MarkedAreFollowed
<1>7. CASE StartFragment
  <2>1. \A i \in Items : home'[i] = "marked" => home[i] = "marked"
    BY <1>7 DEF StartFragment
  <2> QED
    BY <1>7, <2>1 DEF StartFragment, Reading, content, MarkedAreFollowed
<1>8. CASE EndFragment
  BY <1>8 DEF EndFragment, Reading, MarkedAreFollowed
<1>9. CASE EndOfInput
  BY <1>9 DEF EndOfInput, LeaveAll, Loops, MarkedAreFollowed
<1>10. CASE ParsingFails
  BY <1>10 DEF ParsingFails, LeaveAll, MarkedAreFollowed
<1>11. CASE SkipElement \/ SkipEnd \/ RemoveElement \/ WriteElement \/ WriteEnd
  BY <1>11 DEF SkipElement, SkipEnd, RemoveElement, WriteElement, WriteEnd, content,
               MarkedAreFollowed
<1>12. CASE StartHead \/ EndHead \/ StartBody \/ EndBody
  BY <1>2, <1>12 DEF StartHead, EndHead, StartBody, EndBody, Reading, content
<1>13. CASE Returned \/ UNCHANGED vars
  BY <1>13 DEF Returned, vars, page, loop, content, MarkedAreFollowed
<1> QED
  BY <1>3, <1>4, <1>5, <1>6, <1>7, <1>8, <1>9, <1>10, <1>11, <1>12, <1>13 DEF Next

(* The parser is in step with the page, whatever its size: it skips just   *)
(* the elements to be removed, and reads each part in the loop for it.     *)
THEOREM Invariant == Spec => []IInv
<1>1. Init => IInv
  BY InitIsSound DEF Init, IInv, MarkedAreFollowed
<1>2. IInv /\ [Next]_vars => IInv'
  BY NextIsSound, MarkedStayFollowed DEF IInv
<1> QED
  BY <1>1, <1>2, PTL DEF Spec

(* Type correctness.                                                       *)
THEOREM TypeCorrect == Spec => []TypeOK
<1>1. IInv => TypeOK
  BY DEF IInv, ParsingIsSound
<1> QED
  BY <1>1, Invariant, PTL

(* html_content_parser.go:229-246 and 516-538: what is marked uic-remove,  *)
(* with all that is in it, is in no fragment and leads to no request, at   *)
(* any depth of the page; but for exactly the includes that are marked     *)
(* themselves and stand in a fragment, which all are asked for.            *)
THEOREM RemovedButIncludes == Spec => []RemovedIsGone
<1>1. IInv => RemovedIsGone
  <2> SUFFICES ASSUME IInv PROVE RemovedIsGone
    OBVIOUS
  <2>1. ASSUME NEW i \in Taken PROVE home[i] # "removed"
    <3>1. CASE i \in UNION {Held(p) : p \in Fragments}
      <4>1. PICK p \in Fragments : i \in Held(p)
        BY <3>1
      <4>2. p \in DOMAIN fragment /\ i \in fragment[p] /\ i # "markup"
        BY <4>1 DEF Held
      <4>3. fragment[p] \subseteq Items \cup {"markup"}
        BY <4>2 DEF IInv, ParsingIsSound, TypeOK, Contents, Written
      <4> QED
        BY <4>2, <4>3 DEF Kept, IInv, ParsingIsSound, KeptIsRead
    <3>2. CASE i \in dependencies \cup required \cup meta
      <4>1. i \in Items
        BY <3>2 DEF IInv, ParsingIsSound, TypeOK, Items
      <4> QED
        BY <3>2, <4>1 DEF Kept, IInv, ParsingIsSound, KeptIsRead
    <3> QED
      BY <2>1, <3>1, <3>2 DEF Taken
  <2>2. ASSUME mode = "end", NEW i \in Items, home[i] = "marked"
        PROVE  i \in dependencies
    BY <2>2 DEF IInv, MarkedAreFollowed
  <2> QED
    BY <2>1, <2>2 DEF RemovedIsGone
<1> QED
  BY <1>1, Invariant, PTL

(* What the merger looks up for a fragment is a dependency of the page.    *)
THEOREM ShownIncludesAreLoaded == Spec => []DirectivesAreDependencies
<1>1. IInv => DirectivesAreDependencies
  BY DEF IInv, ParsingIsSound, IncludesAreFound
<1> QED
  BY <1>1, Invariant, PTL

(* The fragments hold what the page has in their parts, and no more, and   *)
(* all that the page asks for is asked for.                                *)
THEOREM NothingGetsLost == Spec => []EverythingIsHome
<1>1. ASSUME ParsingIsSound, mode = "end", NEW p \in Fragments
      PROVE  {i \in Held(p) : home[i] # "marked"}
                = {i \in Items : home[i] = Shown(p)} \ Read
  <2>1. Shown(p) \in Parts \ {"outside"} /\ Lasting(Shown(p))
    BY PartsTyped DEF Shown, Lasting, Parts, Fragments
  <2>2. Store(Shown(p)) = Value(p)
    BY <1>1, PartsTyped DEF Store, Shown, Fragments
  <2>3. Held(p) = Value(p) \ {"markup"} /\ Held(p) \subseteq Items
    BY <1>1 DEF Held, Value, ParsingIsSound, TypeOK, Contents, Written
  <2>4. \A i \in Items : i \in Value(p) <=> i \in Held(p)
    BY <2>3, PartsTyped
  <2>5. \A i \in Items : i \in Held(p) /\ home[i] # "marked"
                            <=> home[i] = Shown(p) /\ ~IsRead(i)
    BY <1>1, <2>1, <2>2, <2>4 DEF ParsingIsSound, ItemsAreHeld
  <2> QED
    BY <2>3, <2>5 DEF Read
<1>2. IInv => EverythingIsHome
  BY <1>1 DEF EverythingIsHome, IInv, ParsingIsSound, ReadIsTaken
<1> QED
  BY <1>2, Invariant, PTL

=============================================================================
