---------------------------- MODULE HeadPriority ----------------------------
(***************************************************************************)
(* The heads of merged pages, when one of the pages has a priority:        *)
(* GetHtml of composition/content_merge.go first takes the properties that *)
(* repeat out of them (processMetaPriorityParsing, with ParseHeadFragment  *)
(* of html_content_parser.go), from the head of the highest priority down, *)
(* then renders them.                                                      *)
(*                                                                         *)
(* A head is a fragment of a Content; with a cache the Content, and with   *)
(* it the fragment, is that of several requests.  The tags of a head are   *)
(* the positions of the text that was loaded: parsing only takes tags out. *)
(* A fragment's text is a Go string, two words that nothing protects.      *)
(***************************************************************************)
EXTENDS Integers, Sequences, FiniteSets

CONSTANTS
    Requests,
    Heads,
    HeadsOf,        \* the heads that each request merges
    Priority,       \* that of the definition a head was fetched for
    Prioritized,    \* the requests that merge a page with a priority
    Texts           \* what each head may consist of

(* A tag, or whatever is between two: the property it sets, and whether it *)
(* has a value for it.  A title is one tag, to its end.                    *)
NoProperty == "none"
Tag == [element : {"meta", "link", "title", "other"},
        property : STRING, valued : BOOLEAN]

ASSUME RequestsAssumption ==
    /\ HeadsOf \in [Requests -> SUBSET Heads]
    /\ \A r \in Requests : IsFiniteSet(HeadsOf[r])
    /\ Priority \in [Heads -> Nat]
    /\ Prioritized \subseteq Requests
    /\ \A r \in Requests : \A h \in HeadsOf[r] :
          Priority[h] > 0 => r \in Prioritized

ASSUME TextsAssumption ==
    \A h \in Heads : \A text \in Texts[h] :
       /\ text \in Seq(Tag) /\ text # << >>
       /\ \A k \in DOMAIN text :
             /\ text[k].element = "title" =>
                   text[k].property = "title" /\ text[k].valued
             /\ text[k].element = "other" => text[k].property = NoProperty

Words == {"bytes", "length"}

VARIABLES
    loaded,         \* the text each head was loaded with
    words,          \* the two words of its string: the tags each stands for
    order,          \* the heads of each request, as they were sorted
    stage, at,      \* where GetHtml is, and at which head
    rest,           \* the tags ParseHeadFragment has still to read
    headBuff,       \* those it has kept
    headPropertyMap,    \* the properties seen, by request
    unwritten,      \* the words SetContent has still to assign
    page            \* the tags of each head that were rendered

parseVars == <<rest, headBuff, headPropertyMap, unwritten>>
vars == <<loaded, words, order, stage, at, parseVars, page>>

(* The tag that a text has where its bytes and its length do not agree.    *)
Garbled == 0

TagAt(h, k) == loaded[h][k]
Tags(h)     == DOMAIN loaded[h]

\* StringFragment.Content.
Content(h) == IF words[h]["bytes"] = words[h]["length"]
              THEN words[h]["bytes"] ELSE {Garbled}

Current(r) == order[r][at[r]]

(* sort.Sort orders the results by priority and those of one priority      *)
(* anyhow.                                                                 *)
IsSorted(s) == \A i, j \in DOMAIN s : i < j => Priority[s[i]] <= Priority[s[j]]

Orders(H) ==
    {s \in [1 .. Cardinality(H) -> H] :
        IsSorted(s) /\ \A i, j \in DOMAIN s : s[i] = s[j] => i = j}

Init ==
    /\ loaded \in [Heads -> UNION {Texts[h] : h \in Heads}]
    /\ \A h \in Heads : loaded[h] \in Texts[h]
    /\ words = [h \in Heads |-> [w \in Words |-> DOMAIN loaded[h]]]
    /\ order \in {f \in [Requests -> UNION {Orders(HeadsOf[r]) : r \in Requests}] :
                     \A r \in Requests : f[r] \in Orders(HeadsOf[r])}
    /\ stage = [r \in Requests |-> "new"]
    /\ at = [r \in Requests |-> 0]
    /\ rest = [r \in Requests |-> {}]
    /\ headBuff = [r \in Requests |-> {}]
    /\ headPropertyMap = [r \in Requests |-> {}]
    /\ unwritten = [r \in Requests |-> {}]
    /\ page = [r \in Requests |-> << >>]

Goes(r, s, i) ==
    stage' = [stage EXCEPT ![r] = s] /\ at' = [at EXCEPT ![r] = i]

-----------------------------------------------------------------------------
(* processMetaPriorityParsing.                                             *)

GetHtml(r) ==
    /\ stage[r] = "new"
    /\ IF r \in Prioritized THEN Goes(r, "heads", Len(order[r]))
       ELSE Goes(r, "rendering", 1)
    /\ UNCHANGED <<loaded, words, order, parseVars, page>>

\* Faulty variant: each head is parsed with a map of its own.
ReadHeadAnew(r) ==
    /\ stage[r] = "heads" /\ at[r] > 0
    /\ Goes(r, "tags", at[r])
    /\ rest' = [rest EXCEPT ![r] = Content(Current(r))]
    /\ headBuff' = [headBuff EXCEPT ![r] = {}]
    /\ headPropertyMap' = [headPropertyMap EXCEPT ![r] = {}]
    /\ UNCHANGED <<loaded, words, order, unwritten, page>>

(* The tokenizer reads the text the fragment has now.                      *)
ReadHead(r) ==
    /\ stage[r] = "heads" /\ at[r] > 0
    /\ Goes(r, "tags", at[r])
    /\ rest' = [rest EXCEPT ![r] = Content(Current(r))]
    /\ headBuff' = [headBuff EXCEPT ![r] = {}]
    /\ UNCHANGED <<loaded, words, order, headPropertyMap, unwritten, page>>

HeadsAreParsed(r) ==
    /\ stage[r] = "heads" /\ at[r] = 0
    /\ Goes(r, "rendering", 1)
    /\ UNCHANGED <<loaded, words, order, parseVars, page>>

-----------------------------------------------------------------------------
(* ParseHeadFragment.                                                      *)

IsNext(r, k) == k \in rest[r] /\ \A l \in rest[r] : k <= l

PropertyOf(h, k) == IF k = Garbled THEN NoProperty ELSE TagAt(h, k).property

(* processMetaTag and processLinkTag, and the title: a tag stays unless    *)
(* the map has a value for its property.  A link has one if it is the      *)
(* canonical one.                                                          *)
IsKept(h, k, seen) ==
    PropertyOf(h, k) = NoProperty \/ PropertyOf(h, k) \notin seen

(* What a tag that stays adds to the map: nothing if its value is empty.   *)
Records(h, k) ==
    IF PropertyOf(h, k) # NoProperty /\ TagAt(h, k).valued
    THEN {PropertyOf(h, k)} ELSE {}

KeepTag(r) ==
    /\ stage[r] = "tags"
    /\ \E k \in rest[r] :
          /\ IsNext(r, k) /\ IsKept(Current(r), k, headPropertyMap[r])
          /\ rest' = [rest EXCEPT ![r] = @ \ {k}]
          /\ headBuff' = [headBuff EXCEPT ![r] = @ \cup {k}]
          /\ headPropertyMap' =
                [headPropertyMap EXCEPT ![r] = @ \cup Records(Current(r), k)]
    /\ UNCHANGED <<loaded, words, order, stage, at, unwritten, page>>

\* Faulty variant: skipCompleteTag does not stop at the end of the title.
DropTagAndNext(r) ==
    /\ stage[r] = "tags"
    /\ \E k \in rest[r] :
          /\ IsNext(r, k) /\ ~IsKept(Current(r), k, headPropertyMap[r])
          /\ rest' = [rest EXCEPT ![r] = @ \ {k, k + 1}]
    /\ UNCHANGED <<loaded, words, order, stage, at, headBuff, headPropertyMap,
                   unwritten, page>>

(* The tag is left out, a title with what it contains (skipCompleteTag).   *)
DropTag(r) ==
    /\ stage[r] = "tags"
    /\ \E k \in rest[r] :
          /\ IsNext(r, k) /\ ~IsKept(Current(r), k, headPropertyMap[r])
          /\ rest' = [rest EXCEPT ![r] = @ \ {k}]
    /\ UNCHANGED <<loaded, words, order, stage, at, headBuff, headPropertyMap,
                   unwritten, page>>

\* Faulty variant: the text is set even if nothing of it is left.
EndHeadAlways(r) ==
    /\ stage[r] = "tags" /\ rest[r] = {}
    /\ Goes(r, "writing", at[r])
    /\ unwritten' = [unwritten EXCEPT ![r] = Words]
    /\ UNCHANGED <<loaded, words, order, rest, headBuff, headPropertyMap, page>>

(* The fragment gets the new text, unless nothing of it is left.           *)
EndHead(r) ==
    /\ stage[r] = "tags" /\ rest[r] = {}
    /\ IF headBuff[r] = {}
       THEN Goes(r, "heads", at[r] - 1) /\ UNCHANGED unwritten
       ELSE /\ Goes(r, "writing", at[r])
            /\ unwritten' = [unwritten EXCEPT ![r] = Words]
    /\ UNCHANGED <<loaded, words, order, rest, headBuff, headPropertyMap, page>>

(* SetContent assigns a string, one word after the other.                  *)
SetContent(r) ==
    /\ stage[r] = "writing"
    /\ \E w \in unwritten[r] :
          /\ words' = [words EXCEPT ![Current(r)][w] = headBuff[r]]
          /\ unwritten' = [unwritten EXCEPT ![r] = @ \ {w}]
          /\ IF unwritten[r] = {w} THEN Goes(r, "heads", at[r] - 1)
             ELSE UNCHANGED <<stage, at>>
    /\ UNCHANGED <<loaded, order, rest, headBuff, headPropertyMap, page>>

-----------------------------------------------------------------------------
(* The heads are written in their order, as they are by now.               *)
RenderHead(r) ==
    /\ stage[r] = "rendering" /\ at[r] <= Len(order[r])
    /\ page' = [page EXCEPT ![r] = Append(@, Content(Current(r)))]
    /\ at' = [at EXCEPT ![r] = @ + 1]
    /\ UNCHANGED <<loaded, words, order, stage, parseVars>>

GetHtmlReturns(r) ==
    /\ stage[r] = "rendering" /\ at[r] > Len(order[r])
    /\ stage' = [stage EXCEPT ![r] = "done"]
    /\ UNCHANGED <<loaded, words, order, at, parseVars, page>>

AllDone == (\A r \in Requests : stage[r] = "done") /\ UNCHANGED vars

Step(r) ==
    \/ GetHtml(r) \/ ReadHead(r) \/ HeadsAreParsed(r)
    \/ KeepTag(r) \/ DropTag(r) \/ EndHead(r) \/ SetContent(r)
    \/ RenderHead(r) \/ GetHtmlReturns(r)

Next == (\E r \in Requests : Step(r)) \/ AllDone

Spec == Init /\ [][Next]_vars

-----------------------------------------------------------------------------
(* Types of what GetHtml keeps.                                            *)
TypeOK ==
    /\ DOMAIN loaded = Heads /\ \A h \in Heads : loaded[h] \in Texts[h]
    /\ words \in [Heads -> [Words -> SUBSET Nat]]
    /\ \A h \in Heads, w \in Words : words[h][w] \subseteq DOMAIN loaded[h] \cup {Garbled}
    /\ DOMAIN order = Requests /\ \A r \in Requests : order[r] \in Orders(HeadsOf[r])
    /\ stage \in [Requests -> {"new", "heads", "tags", "writing", "rendering", "done"}]
    /\ at \in [Requests -> Nat]
    /\ \A r \in Requests : at[r] \in 0 .. Len(order[r]) + 1
    /\ rest \in [Requests -> SUBSET Nat] /\ headBuff \in [Requests -> SUBSET Nat]
    /\ headPropertyMap \in [Requests -> SUBSET STRING]
    /\ unwritten \in [Requests -> SUBSET Words]
    /\ page \in [Requests -> Seq(SUBSET Nat)]

-----------------------------------------------------------------------------
(* What should become of a tag, by the texts as they were loaded.          *)

\* No other request merges one of the heads.
IsOwn(r) == \A s \in Requests \ {r} : HeadsOf[s] \cap HeadsOf[r] = {}

\* The properties that the first n tags of a head have a value for.
ValuedIn(h, n) == UNION {Records(h, k) : k \in Tags(h) \cap (1 .. n)}

AllValued(h) == UNION {Records(h, k) : k \in Tags(h)}

\* Those that the heads above place i have one for.
ValuedAbove(r, i) ==
    UNION {AllValued(order[r][j]) : j \in {l \in DOMAIN order[r] : l > i}}

(* A tag repeats if a higher head, or its own before it, has a value for   *)
(* its property.                                                           *)
Repeats(r, i, k) ==
    LET h == order[r][i]
    IN  /\ PropertyOf(h, k) # NoProperty
        /\ PropertyOf(h, k) \in ValuedAbove(r, i) \cup ValuedIn(h, k - 1)

Unrepeated(r, i) == {k \in Tags(order[r][i]) : ~Repeats(r, i, k)}

\* A head of which nothing would be left keeps its text: see README.md.
IsRedundant(r, i) == Unrepeated(r, i) = {}

IsDone(r) == stage[r] = "done" /\ r \in Prioritized /\ IsOwn(r)

(* A property has one value in the page, and it is that of the page of the *)
(* highest priority which has one: whatever else sets it belongs to a head *)
(* that is redundant as a whole.                                           *)
HighestPriorityWins ==
    \A r \in Requests : IsDone(r) =>
       \A i, j \in DOMAIN page[r] : \A k \in page[r][i], l \in page[r][j] :
          LET g == order[r][i]
              h == order[r][j]
          IN  /\ Records(g, k) # {} /\ Records(g, k) = Records(h, l)
              /\ ~IsRedundant(r, i) /\ ~IsRedundant(r, j)
              => /\ <<i, k>> = <<j, l>>
                 /\ \A m \in DOMAIN order[r] :
                       m > i => Records(g, k) \cap AllValued(order[r][m]) = {}

(* Nothing is lost with what repeats: for each tag that a page misses, a   *)
(* higher head, or its own one before it, has given it a value.            *)
OnlyRepeatsAreDropped ==
    \A r \in Requests : stage[r] = "done" /\ IsOwn(r) =>
       /\ DOMAIN page[r] = DOMAIN order[r]
       /\ \A i \in DOMAIN order[r] : \A k \in Tags(order[r][i]) \ page[r][i] :
             \E j \in DOMAIN page[r] : \E l \in page[r][j] :
                /\ j > i \/ (j = i /\ l < k)
                /\ Records(order[r][j], l) = {PropertyOf(order[r][i], k)}

-----------------------------------------------------------------------------
(* The inductive invariant, for the requests whose heads are their own.    *)

ParsedText(r, i) ==
    IF r \in Prioritized /\ ~IsRedundant(r, i) THEN Unrepeated(r, i)
    ELSE Tags(order[r][i])

(* The heads above the one GetHtml is at have been parsed, and are not     *)
(* touched any more.                                                       *)
TextIsSound(r, i) ==
    LET h == order[r][i]
        IsParsed == stage[r] \in {"rendering", "done"} \/ i > at[r]
    IN  words[h] =
           [w \in Words |->
              IF stage[r] = "new" THEN Tags(h)
              ELSE IF IsParsed THEN ParsedText(r, i)
              ELSE IF i = at[r] /\ stage[r] = "writing" /\ w \notin unwritten[r]
              THEN headBuff[r] ELSE Tags(h)]

(* The first n tags of the current head have been read.                    *)
IsReadUpTo(r, n) ==
    /\ rest[r] = (n + 1) .. Len(loaded[Current(r)])
    /\ headBuff[r] = {k \in 1 .. n : ~Repeats(r, at[r], k)}
    /\ headPropertyMap[r] = ValuedAbove(r, at[r]) \cup ValuedIn(Current(r), n)

(* The map has what the heads above have a value for, and the tags of this *)
(* one that have been read.                                                *)
MapIsSound(r) ==
    /\ stage[r] = "new" => headPropertyMap[r] = {}
    /\ stage[r] = "heads" => headPropertyMap[r] = ValuedAbove(r, at[r])
    /\ stage[r] = "tags" =>
          \E n \in 0 .. Len(loaded[Current(r)]) : IsReadUpTo(r, n)
    /\ stage[r] = "writing" =>
          /\ headBuff[r] = Unrepeated(r, at[r]) /\ headBuff[r] # {}
          /\ headPropertyMap[r] = ValuedAbove(r, at[r] - 1)

PlaceIsSound(r) ==
    /\ stage[r] \in {"tags", "writing"} =>
          /\ at[r] \in DOMAIN order[r]
          /\ rest[r] \cup headBuff[r] \subseteq
                DOMAIN loaded[order[r][at[r]]] \cup {Garbled}
    /\ stage[r] = "heads" => at[r] \in 0 .. Len(order[r])
    /\ stage[r] \in {"heads", "tags", "writing"} => r \in Prioritized
    /\ stage[r] = "rendering" => at[r] > 0
    /\ Len(page[r]) = IF stage[r] = "rendering" THEN at[r] - 1
                      ELSE IF stage[r] = "done" THEN Len(order[r]) ELSE 0

HeadsAreSound(r) ==
    /\ MapIsSound(r)
    /\ \A i \in DOMAIN order[r] : TextIsSound(r, i)
    /\ \A i \in DOMAIN page[r] : page[r][i] = ParsedText(r, i)

\* What every step of GetHtml preserves.
IInv ==
    /\ TypeOK
    /\ \A r \in Requests : PlaceIsSound(r) /\ (IsOwn(r) => HeadsAreSound(r))

-----------------------------------------------------------------------------
(* What the documentation says and the code does not keep (see README.md). *)

(* fetch_definition.go:96: the priority decides between heads that         *)
(* collide.  So a property that one of a page's heads has does not go      *)
(* missing, unless the page was read while it was being written.           *)
NoPropertyIsLost ==
    \A r \in Requests :
       stage[r] = "done" /\ (\A i \in DOMAIN page[r] : Garbled \notin page[r][i]) =>
          \A i \in DOMAIN order[r] : \A p \in AllValued(order[r][i]) :
             \E j \in DOMAIN page[r] : \E k \in page[r][j] :
                Records(order[r][j], k) = {p}

=============================================================================
