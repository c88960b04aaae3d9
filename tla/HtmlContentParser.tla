-------------------------- MODULE HtmlContentParser --------------------------
(***************************************************************************)
(* composition/html_content_parser.go: one pass over the tokens of a page, *)
(* which cuts it into fragments and leaves out what is marked uic-remove.  *)
(*                                                                         *)
(* The page is any well nested one with a head and a body at most, as      *)
(* README.md of the package asks for, that may be cut off anywhere.  Each  *)
(* of its items comes once; an item is a text, or an element without       *)
(* content that the parser treats in its own way.  What separates two      *)
(* items, plain elements and white space, is "markup".                     *)
(***************************************************************************)
EXTENDS Integers, Sequences, FiniteSets

CONSTANTS
    Texts,          \* the items of the page: texts,
    Sheets,         \* <link rel="stylesheet">,
    Includes,       \* <uic-include/>,
    Fetches,        \* <uic-fetch/>
    Metas,          \* and <script type="text/uic-meta">...</script>
    Names,          \* names of uic-fragments
    Default,        \* the empty one
    MaxItems,       \* bound of the items of a page
    MaxDepth        \* and of the nesting of its elements

Items == Texts \cup Sheets \cup Includes \cup Fetches \cup Metas
Markable == Items \ Texts
Written == Items \cup {"markup"}
Contents == SUBSET Written

(* The fragments of a content, and the parts of a page that become them.   *)
Fragments == Names \cup {"head", "tail"}
Parts == Names \cup {"tail", "head", "body", "outside"}
Homes == Parts \cup {"unread", "removed", "marked", "replaced"}

Element == [plain : BOOLEAN, part : Parts, removed : BOOLEAN]
Page == [plain |-> FALSE, part |-> "outside", removed |-> FALSE]

ASSUME ConstantsAssumption ==
    /\ "markup" \notin Items
    /\ Sheets \cap (Texts \cup Includes \cup Fetches \cup Metas) = {}
    /\ Includes \cap (Texts \cup Fetches \cup Metas) = {}
    /\ Fetches \cap (Texts \cup Metas) = {}
    /\ Metas \cap Texts = {}
    /\ Default \in Names
    /\ Names \cap {"tail", "head", "body", "outside",
                   "unread", "removed", "marked", "replaced"} = {}
    /\ MaxItems \in Nat /\ MaxDepth \in Nat

VARIABLES
    open,           \* the page: its open elements, with what is in them
    started,        \* the parts that have begun
    home,           \* where each item stands in it
    mode,           \* the loop that reads: "page", "head", "body" or
                    \* "fragment"; "end", "failed"
    target,         \* the fragment parseFragment reads
    depth,          \* of skipSubtreeIfUicRemove; -1 if it does not run
    buffer,         \* headBuff, bodyBuff, buff, with the stylesheets
    deps,           \* the dependencies parseFragment has found
    fragment,       \* c.head, c.body and c.tail, as far as they exist
    dependencies,   \* c.dependencies,
    required,       \* c.requiredContent
    meta            \* and c.meta

page == <<open, started, home>>
loop == <<mode, target, depth, buffer, deps>>
content == <<fragment, dependencies, required, meta>>
vars == <<page, loop, content>>

Loops == {"head", "body", "fragment"}

Init ==
    /\ open = <<Page>> /\ started = {}
    /\ home = [i \in Items |-> "unread"]
    /\ mode = "page" /\ target = Default /\ depth = -1
    /\ buffer = [l \in Loops |-> {}] /\ deps = {}
    /\ fragment = [p \in {} |-> {}]
    /\ dependencies = {} /\ required = {} /\ meta = {}

-----------------------------------------------------------------------------
(* The page.  What is in an element belongs to the part the element opens, *)
(* or else to the part it is in, and goes if the element does.             *)
Innermost == open[Len(open)]

Opens(plain, part, marked) ==
    /\ Len(open) < MaxDepth
    /\ open' = Append(open, [plain |-> plain, part |-> part,
                             removed |-> marked \/ Innermost.removed])

Closes == open' = SubSeq(open, 1, Len(open) - 1)

InFragment == Innermost.part \in Names \cup {"tail"}

(* An include that is marked itself is told apart: a fragment takes it.    *)
HomeOf(i, marked) ==
    IF Innermost.removed \/ (marked /\ ~(InFragment /\ i \in Includes))
    THEN "removed"
    ELSE IF marked THEN "marked"
    ELSE Innermost.part

Comes(i, marked) ==
    /\ home[i] = "unread"
    /\ Cardinality({j \in Items : home[j] # "unread"}) < MaxItems
    /\ marked => i \in Markable
    /\ home' = [home EXCEPT ![i] = HomeOf(i, marked)]
    /\ UNCHANGED <<open, started>>

(* The elements that may begin here: plain ones, and fragments in the body *)
(* but not in one another.                                                 *)
Beginning ==
    [plain : {TRUE}, part : {Innermost.part}] \cup
    IF Innermost.part = "body"
    THEN [plain : {FALSE}, part : Names \cup {"tail"}] ELSE {}

-----------------------------------------------------------------------------
Skipping == depth >= 0
Reading(l) == mode = l /\ ~Skipping

(* f, with x as fragment p.                                                *)
With(f, p, x) == [q \in DOMAIN f \cup {p} |-> IF q = p THEN x ELSE f[q]]

(* The locals of a loop end with it, and all with Parse, which leaves the  *)
(* rest of the page alone.                                                 *)
Leave == buffer' = [buffer EXCEPT ![mode] = {}]

LeaveAll ==
    /\ open' = <<Page>>
    /\ buffer' = [l \in Loops |-> {}]
    /\ target' = Default /\ depth' = -1 /\ deps' = {}

Write(x) == buffer' = [buffer EXCEPT ![mode] = @ \cup {x}]

\* Faulty variant: an element without content is taken for an open one.
SkipItemAsOpen ==
    /\ mode \in Loops /\ Skipping
    /\ \E i \in Items, marked \in BOOLEAN :
          /\ Comes(i, marked)
          /\ depth' = IF i \in Sheets THEN depth + 1 ELSE depth
    /\ UNCHANGED <<mode, target, buffer, deps, content>>

(* The loop of skipSubtreeIfUicRemove, over items, elements and end tags.  *)
SkipItem ==
    /\ mode \in Loops /\ Skipping
    /\ \E i \in Items, marked \in BOOLEAN : Comes(i, marked)
    /\ UNCHANGED <<loop, content>>

\* Faulty variant: nested elements are not counted.
SkipElementUncounted ==
    /\ mode \in Loops /\ Skipping
    /\ \E e \in Beginning, marked \in BOOLEAN :
          Opens(e.plain, e.part, marked)
    /\ UNCHANGED <<started, home, loop, content>>

SkipElement ==
    /\ mode \in Loops /\ Skipping
    /\ \E e \in Beginning, marked \in BOOLEAN :
          Opens(e.plain, e.part, marked)
    /\ depth' = depth + 1
    /\ UNCHANGED <<started, home, mode, target, buffer, deps, content>>

SkipEnd ==
    /\ mode \in Loops /\ Skipping
    /\ Closes
    /\ depth' = depth - 1
    /\ UNCHANGED <<started, home, mode, target, buffer, deps, content>>

(* What is marked: nothing, one element, or a tree of them.  parseFragment *)
(* looks for includes first.                                               *)
RemoveItem ==
    /\ mode \in Loops /\ ~Skipping
    /\ \E i \in Markable :
          /\ mode = "fragment" => i \notin Includes
          /\ Comes(i, TRUE)
    /\ UNCHANGED <<loop, content>>

RemoveElement ==
    /\ mode \in Loops /\ ~Skipping
    /\ \E e \in Beginning : Opens(e.plain, e.part, TRUE)
    /\ depth' = 0
    /\ UNCHANGED <<started, home, mode, target, buffer, deps, content>>

(* What the loops have no case for is written as it is; all of them take   *)
(* stylesheets.                                                            *)
Uncased ==
    Texts \cup Sheets \cup
    CASE mode = "head"     -> Includes \cup Fetches
      [] mode = "body"     -> Metas
      [] mode = "fragment" -> Fetches \cup Metas

WriteItem ==
    /\ mode \in Loops /\ ~Skipping
    /\ \E i \in Uncased : Comes(i, FALSE) /\ Write(i)
    /\ UNCHANGED <<mode, target, depth, deps, content>>

WriteElement ==
    /\ mode \in Loops /\ ~Skipping
    /\ Opens(TRUE, Innermost.part, FALSE)
    /\ Write("markup")
    /\ UNCHANGED <<started, home, mode, target, depth, deps, content>>

WriteEnd ==
    /\ mode \in Loops /\ ~Skipping
    /\ Innermost.plain
    /\ Closes
    /\ Write("markup")
    /\ UNCHANGED <<started, home, mode, target, depth, deps, content>>

-----------------------------------------------------------------------------
(* parseHead                                                               *)
StartHead ==
    /\ mode = "page" /\ started = {}
    /\ Opens(FALSE, "head", FALSE)
    /\ started' = {"head"} /\ mode' = "head"
    /\ UNCHANGED <<home, target, depth, buffer, deps, content>>

parseMetaJson ==
    /\ Reading("head")
    /\ \E m \in Metas : Comes(m, FALSE) /\ meta' = meta \cup {m}
    /\ UNCHANGED <<loop, fragment, dependencies, required>>

HeadRead ==
    IF buffer["head"] = {} THEN fragment
    ELSE With(fragment, "head", buffer["head"])

EndHead ==
    /\ Reading("head") /\ ~Innermost.plain
    /\ Closes
    /\ fragment' = HeadRead
    /\ Leave
    /\ mode' = "page"
    /\ UNCHANGED <<started, home, target, depth, deps,
                   dependencies, required, meta>>

-----------------------------------------------------------------------------
(* parseBody                                                               *)
StartBody ==
    /\ mode = "page" /\ "body" \notin started
    /\ Opens(FALSE, "body", FALSE)
    /\ started' = started \cup {"body"} /\ mode' = "body"
    /\ UNCHANGED <<home, target, depth, buffer, deps, content>>

getFetch ==
    /\ Reading("body")
    /\ \E f \in Fetches : Comes(f, FALSE) /\ required' = required \cup {f}
    /\ UNCHANGED <<loop, fragment, dependencies, meta>>

getIncludeInBody ==
    /\ Reading("body")
    /\ \E i \in Includes :
          /\ Comes(i, FALSE) /\ Write(i)
          /\ dependencies' = dependencies \cup {i}
    /\ UNCHANGED <<mode, target, depth, deps, fragment, required, meta>>

\* Faulty variant: the rest of the body wins over an unnamed fragment.
BodyReadLast(fs) ==
    IF buffer["body"] = {} THEN fs
    ELSE With(fs, Default, buffer["body"])

BodyRead(fs) ==
    IF buffer["body"] = {} \/ Default \in DOMAIN fs THEN fs
    ELSE With(fs, Default, buffer["body"])

EndBody ==
    /\ Reading("body") /\ ~Innermost.plain
    /\ Closes
    /\ fragment' = BodyRead(fragment)
    /\ Leave
    /\ mode' = "page"
    /\ UNCHANGED <<started, home, target, depth, deps,
                   dependencies, required, meta>>

-----------------------------------------------------------------------------
(* parseFragment.  Of two fragments of a name, the first is replaced.      *)
StartFragment ==
    /\ Reading("body")
    /\ \E p \in Names \cup {"tail"} :
          /\ <<FALSE, p>> \in {<<e.plain, e.part>> : e \in Beginning}
          /\ Opens(FALSE, p, FALSE)
          /\ started' = started \cup {p}
          /\ home' = [i \in Items |->
                        IF home[i] = p THEN "replaced" ELSE home[i]]
          /\ target' = p
    /\ mode' = "fragment"
    /\ UNCHANGED <<depth, buffer, deps, content>>

(* The directive is written with Fprintf, which takes it for a format: no  *)
(* src has a % here.                                                       *)
getIncludeInFragment ==
    /\ Reading("fragment")
    /\ \E i \in Includes, marked \in BOOLEAN :
          /\ Comes(i, marked) /\ Write(i)
          /\ deps' = deps \cup {i}
    /\ UNCHANGED <<mode, target, depth, content>>

FragmentRead == With(fragment, target, buffer["fragment"])

\* Faulty variant: the dependencies of the fragment are not passed on.
EndFragmentForgetting ==
    /\ Reading("fragment") /\ ~Innermost.plain
    /\ Closes
    /\ fragment' = FragmentRead
    /\ Leave /\ mode' = "body"
    /\ target' = Default /\ deps' = {}
    /\ UNCHANGED <<started, home, depth, dependencies, required, meta>>

EndFragment ==
    /\ Reading("fragment") /\ ~Innermost.plain
    /\ Closes
    /\ fragment' = FragmentRead
    /\ dependencies' = dependencies \cup deps
    /\ Leave /\ mode' = "body"
    /\ target' = Default /\ deps' = {}
    /\ UNCHANGED <<started, home, depth, required, meta>>

-----------------------------------------------------------------------------
(* The end of the input ends all loops that run.                           *)
EndOfInput ==
    /\ mode \in Loops \cup {"page"}
    /\ fragment' = CASE mode = "page"     -> fragment
                     [] mode = "head"     -> HeadRead
                     [] mode = "body"     -> BodyRead(fragment)
                     [] mode = "fragment" -> BodyRead(FragmentRead)
    /\ dependencies' = IF mode = "fragment"
                       THEN dependencies \cup deps ELSE dependencies
    /\ LeaveAll /\ mode' = "end"
    /\ UNCHANGED <<started, home, required, meta>>

(* A read fails, or an item is malformed: a uic-include or a uic-fetch     *)
(* without src or with another attribute that does not parse, or meta data *)
(* that is not JSON.                                                       *)
ParsingFails ==
    /\ mode \in Loops \cup {"page"}
    /\ LeaveAll /\ mode' = "failed"
    /\ UNCHANGED <<started, home, content>>

Returned == mode \in {"end", "failed"} /\ UNCHANGED vars

Next ==
    \/ SkipItem \/ SkipElement \/ SkipEnd
    \/ RemoveItem \/ RemoveElement
    \/ WriteItem \/ WriteElement \/ WriteEnd
    \/ StartHead \/ parseMetaJson \/ EndHead
    \/ StartBody \/ getFetch \/ getIncludeInBody \/ EndBody
    \/ StartFragment \/ getIncludeInFragment \/ EndFragment
    \/ EndOfInput \/ ParsingFails \/ Returned

Spec == Init /\ [][Next]_vars

-----------------------------------------------------------------------------
(* Type correctness: what the parser and the page are made of.             *)
TypeOK ==
    /\ open \in Seq(Element) /\ Len(open) \in 1 .. MaxDepth \cup {1}
    /\ started \subseteq Parts
    /\ home \in [Items -> Homes]
    /\ mode \in Loops \cup {"page", "end", "failed"}
    /\ target \in Names \cup {"tail"}
    /\ depth \in -1 .. MaxDepth
    /\ buffer \in [Loops -> Contents]
    /\ deps \subseteq Includes
    /\ DOMAIN fragment \subseteq Fragments
    /\ fragment \in [DOMAIN fragment -> Contents]
    /\ dependencies \subseteq Includes
    /\ required \subseteq Fetches
    /\ meta \subseteq Metas

Held(p) == IF p \in DOMAIN fragment THEN fragment[p] \ {"markup"} ELSE {}

Taken == (UNION {Held(p) : p \in Fragments})
         \cup dependencies \cup required \cup meta

(* The depth skipSubtreeIfUicRemove counts is that of the page: what is    *)
(* marked uic-remove, and all that is in it, appears in no fragment and    *)
(* leads to no request.  The exception are exactly the includes that are   *)
(* marked themselves and stand in a fragment: those are asked for.         *)
RemovedIsGone ==
    /\ \A i \in Taken : home[i] # "removed"
    /\ mode = "end" =>
          \A i \in Items : home[i] = "marked" => i \in dependencies

(* The part of the page a fragment shows: the rest of the body, if no      *)
(* fragment without a name takes its place.                                *)
Shown(p) == IF p = Default /\ Default \notin started THEN "body" ELSE p

(* What a loop reads, but does not write.                                  *)
IsRead(i) == \/ i \in Fetches /\ home[i] = "body"
             \/ i \in Metas /\ home[i] = "head"
Read == {i \in Items : IsRead(i)}

(* Nothing gets lost or is moved: in the end each fragment holds what the  *)
(* page has in its part and no more, also where the page is cut off, where *)
(* a name is used twice, and around what is removed; and what the page     *)
(* asks for is asked for, which are all uic-fetch directives of the body   *)
(* and all meta data of the head.                                          *)
EverythingIsHome ==
    mode = "end" =>
        /\ required \cup meta = Read
        /\ \A p \in Fragments :
              {i \in Held(p) : home[i] # "marked"}
                  = {i \in Items : home[i] = Shown(p)} \ Read

(* Every include a fragment shows has its dependency, or the fetcher would *)
(* never load what the merger looks up.                                    *)
DirectivesAreDependencies ==
    \A p \in Fragments \ {"head"} :
        Held(p) \cap Includes \subseteq dependencies

-----------------------------------------------------------------------------
(* The inductive invariant.                                                *)
(* How the page is nested.                                                 *)
PageIsNested ==
    /\ open[1] = Page
    /\ \A k \in 2 .. Len(open) :
          \/ open[k].plain /\ open[k].part = open[k - 1].part
          \/ ~open[k].plain /\ k = 2 /\ open[k].part \in {"head", "body"}
          \/ /\ ~open[k].plain /\ open[k - 1].part = "body"
             /\ open[k].part \in Names \cup {"tail"}

(* The elements skipSubtreeIfUicRemove is in are those to be removed, and  *)
(* around them is the one whose content the loop reads.                    *)
SkippedIsRemoved ==
    /\ depth < Len(open) - 1
    /\ \A k \in 1 .. Len(open) : open[k].removed <=> k >= Len(open) - depth

LoopIsWherePageIs ==
    IF mode \in Loops
    THEN open[Len(open) - depth - 1].part = IF mode = "fragment" THEN target ELSE mode
    ELSE Len(open) = 1

Kept(i) ==
    \/ i \in deps \cup dependencies \cup required \cup meta
    \/ \E l \in Loops : i \in buffer[l]
    \/ \E p \in DOMAIN fragment : i \in fragment[p]

(* What the parser keeps it has read, and it was not to be removed.        *)
KeptIsRead ==
    \A i \in Items : Kept(i) => home[i] \notin {"removed", "unread"}

IncludesAreFound ==
    /\ DirectivesAreDependencies
    /\ buffer["body"] \cap Includes \subseteq dependencies
    /\ buffer["fragment"] \cap Includes \subseteq deps

ReadIsTaken == required \cup meta = Read

BuffersAreFresh ==
    \A l \in Loops :
        buffer[l] = {} \/ mode = l \/ (l = "body" /\ mode = "fragment")

(* Which fragments exist: those that have begun, but the one that is read, *)
(* and the rest of the body in the end.                                    *)
FragmentsAreStarted ==
    /\ mode = "head" => started = {"head"} /\ DOMAIN fragment = {}
    /\ mode \in {"body", "fragment"} => "body" \in started
    /\ mode = "fragment" => target \in started
    /\ started \ {"head"} # {} => "body" \in started
    /\ \A p \in DOMAIN fragment :
          \/ p \in started
          \/ p = Default /\ "body" \in started /\ mode \notin {"body", "fragment"}
    /\ \A p \in started \cap (Names \cup {"tail"}) :
          \/ p \in DOMAIN fragment
          \/ mode = "fragment" /\ target = p
          \/ mode = "failed"

Value(p) == IF p \in DOMAIN fragment THEN fragment[p] ELSE {}

(* Where the items of a part of the page are: still in the buffer, or in   *)
(* the fragment.                                                           *)
Store(q) ==
    CASE q = "head" -> IF mode = "head" THEN buffer["head"] ELSE Value("head")
      [] q = "body" -> IF mode \in {"body", "fragment"}
                       THEN buffer["body"] ELSE Value(Default)
      [] OTHER      -> IF mode = "fragment" /\ target = q
                       THEN buffer["fragment"] ELSE Value(q)

(* Those of the body go if a fragment without a name replaces them.        *)
Lasting(q) ==
    CASE q = "body"  -> mode \in {"body", "fragment"} \/ Default \notin started
      [] q = Default -> Default \in started
      [] OTHER       -> TRUE

ItemsAreHeld ==
    mode # "failed" =>
        \A q \in Parts \ {"outside"}, i \in Items :
            Lasting(q) =>
                (i \in Store(q) /\ home[i] # "marked"
                    <=> home[i] = q /\ ~IsRead(i))

(* What is found in a fragment is handed on with it.                       *)
MarkedAreFollowed ==
    /\ mode # "fragment" => deps = {}
    /\ mode # "failed" =>
          \A i \in Items : home[i] = "marked" => i \in deps \cup dependencies

ParsingIsSound ==
    /\ TypeOK
    /\ PageIsNested /\ SkippedIsRemoved /\ LoopIsWherePageIs
    /\ KeptIsRead /\ IncludesAreFound /\ ReadIsTaken
    /\ BuffersAreFresh /\ FragmentsAreStarted /\ ItemsAreHeld

IInv == ParsingIsSound /\ MarkedAreFollowed

=============================================================================
