------------------------------ MODULE Rendering ------------------------------
(***************************************************************************)
(* What templating.go and content_merge.go make of the pages of a request, *)
(* as a function of the pages alone, to compare the stack and the buffers  *)
(* of ContentMerge with: an include is the fragment and fails without it;  *)
(* an optional one is the fragment, or, on any error, what it has written  *)
(* until then and the text of the alternative behind it.                   *)
(***************************************************************************)
EXTENDS ContentMerge

CONSTANT
    Rank            \* see AcyclicAssumption

(* A fragment that another may include has a lower rank: with a cycle of   *)
(* includes there is nothing the pages become, GetHtml does not return.    *)
ASSUME AcyclicAssumption ==
    /\ Rank \in [Fragments -> Nat]
    /\ \A in \in Inputs, f \in Fragments :
          \A page \in ToSet(in), t \in ToSet(Template[f]) :
             t.kind \in {"include", "block"} =>
                \A n \in LookUps(t.name) :
                   \A g \in Registers(page, n) : Rank[g] < Rank[f]

(* What has been written, and whether it ended well.                       *)
Result(ok, out) == [ok |-> ok, out |-> out]

Results == [ok : BOOLEAN, out : Seq(Token)]

Success == Result(TRUE, << >>)
Failure == Result(FALSE, << >>)

Then(r, s) == IF r.ok THEN Result(s.ok, r.out \o s.out) ELSE r

(* What a fragment has written before it fails is not taken back.          *)
Or(r, alt) == IF r.ok THEN r ELSE Result(TRUE, r.out \o alt)

-----------------------------------------------------------------------------
(* The page that was registered last for a name provides its fragment.     *)

Provided(ps, n) == \E i \in DOMAIN ps : Registers(ps[i], n) # {}

Fragment(ps, n) ==
    CHOOSE f \in Fragments :
       \E i \in DOMAIN ps :
          /\ f \in Registers(ps[i], n)
          /\ \A j \in DOMAIN ps : i < j => Registers(ps[j], n) = {}

Known(ps, n) == \E m \in LookUps(n) : Provided(ps, m)

Provider(ps, n) ==
    Fragment(ps, IF Provided(ps, n) THEN n
                 ELSE IF n # << >> /\ Last(n) = Separator /\ Provided(ps, Front(n))
                 THEN Front(n)
                 ELSE LocalName(n))

\* What becomes of a name, if "rendering" says what becomes of fragments.
Named(ps, rendering, n) ==
    IF Known(ps, n) /\ rendering[Provider(ps, n)] \in Results
    THEN rendering[Provider(ps, n)]
    ELSE Failure

-----------------------------------------------------------------------------
(* Templates, when it is known what fragments become.                      *)

(* The alternative as it stands, although templating.go:24 speaks of its   *)
(* execution: the code writes its text.                                    *)
AltOf(ts)    == SubSeq(ts, 2, EndOfBlock(ts) - 1)
AfterEnd(ts) == SubSeq(ts, EndOfBlock(ts) + 1, Len(ts))

(* A template becomes what its first token becomes, and then the rest.     *)
RenderNext(ps, rendering, ts, render) ==
    IF ts = << >> THEN Success
    ELSE LET t == Head(ts)
         IN  IF t.kind = "text"
             THEN Then(Result(TRUE, <<t>>), render[Tail(ts)])
             ELSE IF t.kind = "end" THEN render[Tail(ts)]
             ELSE IF t.kind = "include"
             THEN Then(Named(ps, rendering, t.name), render[Tail(ts)])
             ELSE IF t.kind = "block" /\ End(t.name) \in ToSet(ts)
             THEN Then(Or(Named(ps, rendering, t.name), AltOf(ts)),
                       render[AfterEnd(ts)])
             ELSE Failure

RenderTokens(ps, rendering, tokens) ==
    LET render[ts \in Seq(Token)] == RenderNext(ps, rendering, ts, render)
    IN  render[tokens]

Rendered(ps) ==
    LET rendering[f \in Fragments] == RenderTokens(ps, rendering, Template[f])
    IN  rendering

-----------------------------------------------------------------------------
(* The page.                                                               *)

RenderAll(ps, fragments) ==
    LET all[fs \in Seq(Fragments)] ==
          IF fs = << >> THEN Success
          ELSE Then(Rendered(ps)[Head(fs)], all[Tail(fs)])
    IN  all[fragments]

\* Those of the first n fragments that there are.
Present(fs, n) ==
    LET present[i \in 0 .. Len(fs)] ==
          IF i = 0 THEN << >> ELSE Appended(present[i - 1], fs[i])
    IN  present[n]

HeadsOf(ps, n) == Present([i \in DOMAIN ps |-> ps[i].head], n)
TailsOf(ps, n) == Present([i \in DOMAIN ps |-> ps[i].tail], n)

StartName(ps) == IF Known(ps, LayoutName) THEN LayoutName ELSE << >>

HeaderOf(ps) == RenderAll(ps, HeadsOf(ps, Len(ps)))

BodyOf(ps) ==
    Then(Named(ps, Rendered(ps), StartName(ps)),
         RenderAll(ps, TailsOf(ps, Len(ps))))

(* GetHtml fails exactly if a fragment that must be there is missing or    *)
(* broken, and otherwise returns what the pages become: the last page to   *)
(* register a name provides it, an error ends the templates up to the next *)
(* optional include, and nothing else, and no include sees another's.      *)
HtmlIsRendering ==
    Over => LET h == HeaderOf(pages)
                b == BodyOf(pages)
            IN  /\ stage = "done" <=> h.ok /\ b.ok
                /\ stage = "done" => header = h.out /\ body = b.out

-----------------------------------------------------------------------------
(* The inductive invariant.                                                *)

(* A page registers one fragment for a name, or the order of a map decides *)
(* between them: no local name "#x" is the name of a page as well.         *)
NamesAreDistinct ==
    \A in \in Inputs : \A page \in ToSet(in) :
       page.name = << >> \/ Head(page.name) # Separator

Added == Len(pages) - Len(toAdd)

(* Of the pages that have been added, the last to register a name has it.  *)
AddedAreRegistered ==
    /\ Added \in Nat
    /\ toAdd = SubSeq(pages, Added + 1, Len(pages))
    /\ \A n \in DOMAIN Body : \E i \in 1 .. Added :
          /\ Body[n] \in Registers(pages[i], n)
          /\ \A j \in i + 1 .. Added : Registers(pages[j], n) = {}
    /\ \A i \in 1 .. Added : Names(pages[i]) \subseteq DOMAIN Body

\* What is still to render, once the stack is empty.
Pending == RenderAll(pages, IF stage = "head" THEN heads ELSE tails)

\* What a fragment's template becomes where it is included.
Included(frame) ==
    LET r == Rendered(pages)[frame.fragment]
    IN  IF frame.optional THEN Or(r, frame.alt) ELSE r

\* What becomes of the rest of the template at i, and of those in it.
ToRender(i) ==
    LET rest == IF i = 0 THEN Pending
                ELSE RenderTokens(pages, Rendered(pages), stack[i].rest)
    IN  IF i < Len(stack) THEN Then(Included(stack[i + 1]), rest)
        ELSE IF failing THEN Failure
        ELSE rest

\* What the whole of the template at i becomes; 0 stands for the buffer.
Whole(i) ==
    IF i # 0 THEN Rendered(pages)[stack[i].fragment]
    ELSE IF stage = "head" THEN HeaderOf(pages)
    ELSE BodyOf(pages)

(* What was there before, and is to be written, is what is there now, and  *)
(* is still to be written.                                                 *)
Agree(whole, before, now, rest) ==
    /\ whole.ok = rest.ok
    /\ before \o whole.out = now \o rest.out

Buffer == IF stage = "head" THEN header ELSE body

(* For each template there is a place in the buffer where it began.        *)
InStep ==
    \E start \in [0 .. Len(stack) + 1 -> Prefixes(Buffer)] :
       /\ start[0] = << >> /\ start[Len(stack) + 1] = Buffer
       /\ \A i \in 0 .. Len(stack) :
             Agree(Whole(i), start[i], start[i + 1], ToRender(i))

Complete(whole, buffer) == whole.ok /\ buffer = whole.out

(* At each stage, what the buffers have in common with the rendering.      *)
StageIsSound ==
    /\ stage = "adding" =>
          heads = HeadsOf(pages, Added) /\ stack = << >> /\ ~failing
          /\ header = << >>
    /\ stage \in {"adding", "head"} =>
          body = << >> /\ tails = TailsOf(pages, Added)
    /\ stage # "adding" => toAdd = << >>
    /\ stage \in {"head", "body", "tail"} => InStep
    /\ stage \in {"body", "tail", "done"} => Complete(HeaderOf(pages), header)
    /\ stage = "done" => Complete(BodyOf(pages), body)
    /\ stage = "failed" => ~HeaderOf(pages).ok \/ ~BodyOf(pages).ok

(* What every step preserves.                                              *)
IInv == MergeIsSound /\ AddedAreRegistered /\ (NamesAreDistinct => StageIsSound)

=============================================================================
