---------------------------- MODULE ContentMerge ----------------------------
(***************************************************************************)
(* composition/content_merge.go and templating.go: merging the pages of a  *)
(* request.  AddContent registers the fragments of each page; GetHtml      *)
(* executes the head fragments, the layout fragment, which includes others *)
(* recursively, and the tail fragments, and collects the stylesheets of    *)
(* every fragment it looks up.                                             *)
(*                                                                         *)
(* A template is a sequence of tokens.  The recursion of executeTemplate   *)
(* through executeNestedFragment is a stack of frames, one per template    *)
(* being executed; an error travels down the stack to the next optional    *)
(* include.  Variables are left out (they write a text), and so are the    *)
(* attributes of the body tag.                                             *)
(***************************************************************************)
EXTENDS Integers, Sequences, FiniteSets, SequencesExt

CONSTANTS
    Fragments,      \* the fragments of the pages
    Template,       \* the tokens of each fragment
    Stylesheets,    \* the stylesheets of each fragment, in order
    Inputs,         \* the sequences of pages a request may merge
    Simple,         \* TRUE: SimpleDeduplicationStrategy, FALSE: none is set
    NoFragment, NoHref

(* The tokens.  A name is a sequence of symbols, so that "#" can be looked *)
(* for; "broken" is a placeholder without an end, with the text before it. *)
Separator  == "#"
LayoutName == <<"layout">>
Text(t)    == [kind |-> "text", name |-> <<t>>]
Include(n) == [kind |-> "include", name |-> n]
Block(n)   == [kind |-> "block", name |-> n]
End(n)     == [kind |-> "end", name |-> n]
Broken     == [kind |-> "broken", name |-> << >>]

Token == [kind : {"text", "include", "block", "end", "broken"},
          name : Seq(STRING)]

LocalName(local) == <<Separator>> \o local

FullName(page, local) ==
    IF local = << >> THEN page.name ELSE page.name \o <<Separator>> \o local

Names(page) ==
    UNION {{LocalName(l), FullName(page, l)} : l \in DOMAIN page.body}

\* The fragments of a page that are registered under a name.
Registers(page, n) ==
    {page.body[l] : l \in {k \in DOMAIN page.body :
                             n \in {LocalName(k), FullName(page, k)}}}

\* What GetBodyFragmentByName may find for a name.
LookUps(n) ==
    {n} \cup (IF n # << >> /\ Last(n) = Separator THEN {Front(n)} ELSE {})
        \cup (IF Separator \notin ToSet(n) THEN {LocalName(n)} ELSE {})

ASSUME TemplateAssumption ==
    /\ Template \in [Fragments -> Seq(Token)]
    /\ Stylesheets \in [Fragments -> Seq([href : STRING, media : STRING])]
    /\ NoFragment \notin Fragments

ASSUME InputsAssumption ==
    \A input \in Inputs :
       /\ input \in Seq(ToSet(input))
       /\ \A page \in ToSet(input) :
             /\ {page.head, page.tail} \subseteq Fragments \cup {NoFragment}
             /\ Range(page.body) \subseteq Fragments
             /\ page.name \in Seq(STRING) /\ DOMAIN page.body \subseteq Seq(STRING)

-----------------------------------------------------------------------------
VARIABLES
    pages,          \* the pages of the request; they do not change
    toAdd,          \* those that have still to be added
    stage,          \* "adding", "head", "body", "tail", "done" or "failed"
    heads,          \* the head fragments still to execute
    Body,           \* the fragments by their names
    tails,          \* the tail fragments still to execute
    stack,          \* the templates being executed, the innermost last
    failing,        \* an error is being returned
    header, body,   \* the two buffers
    stylesheets     \* the stylesheets collected

input   == <<pages, toAdd>>
buffers == <<header, body>>
vars == <<input, stage, heads, Body, tails, stack, failing, buffers, stylesheets>>

Init ==
    /\ pages \in Inputs
    /\ toAdd = pages
    /\ stage = "adding"
    /\ heads = << >> /\ Body = << >> /\ tails = << >>
    /\ stack = << >> /\ failing = FALSE
    /\ header = << >> /\ body = << >> /\ stylesheets = << >>

(* Adding contents: the map of a page's fragments is iterated in any       *)
(* order; what a page registers replaces what earlier pages registered.    *)

Appended(s, f) == IF f = NoFragment THEN s ELSE Append(s, f)

\* Faulty variant: a name that is there already is kept.
addBodyOnce(page) ==
    \E f \in [Names(page) -> Range(page.body)] :
       /\ \A n \in Names(page) : f[n] \in Registers(page, n)
       /\ Body' = [n \in DOMAIN Body \cup Names(page) |->
                     IF n \in DOMAIN Body THEN Body[n] ELSE f[n]]

addBody(page) ==
    \E f \in [Names(page) -> Range(page.body)] :
       /\ \A n \in Names(page) : f[n] \in Registers(page, n)
       /\ Body' = [n \in DOMAIN Body \cup Names(page) |->
                     IF n \in Names(page) THEN f[n] ELSE Body[n]]

AddContent ==
    /\ stage = "adding" /\ toAdd # << >>
    /\ heads' = Appended(heads, Head(toAdd).head)
    /\ addBody(Head(toAdd))
    /\ tails' = Appended(tails, Head(toAdd).tail)
    /\ toAdd' = Tail(toAdd)
    /\ UNCHANGED <<pages, stage, stack, failing, buffers, stylesheets>>

-----------------------------------------------------------------------------
(* Executing templates.                                                    *)

Exists(n) == LookUps(n) \cap DOMAIN Body # {}

\* Faulty variant: the local name is preferred to the fully qualified one.
GetBodyFragmentLocally(n) ==
    IF SubSeq(n, 2, Len(n)) \in DOMAIN Body THEN Body[SubSeq(n, 2, Len(n))]
    ELSE Body[CHOOSE m \in LookUps(n) : m \in DOMAIN Body]

(* The name itself is looked for first, then without a trailing separator, *)
(* then as a local name; only asked for a name that exists.                *)
GetBodyFragmentByName(n) ==
    IF n \in DOMAIN Body THEN Body[n]
    ELSE IF n # << >> /\ Last(n) = Separator /\ Front(n) \in DOMAIN Body
         THEN Body[Front(n)]
    ELSE Body[LocalName(n)]

Frame == [fragment : Fragments, rest : Seq(Token),
          optional : BOOLEAN, alt : Seq(Token)]

Executing(f, optional, alt) ==
    [fragment |-> f, rest |-> Template[f], optional |-> optional, alt |-> alt]

Running == stack # << >> /\ ~failing
Top     == Last(stack)
Returning(rest) == [stack EXCEPT ![Len(stack)].rest = rest]

Write(tokens) ==
    IF stage = "head"
    THEN header' = header \o tokens /\ UNCHANGED body
    ELSE body' = body \o tokens /\ UNCHANGED header

\* Faulty variant: the stylesheets are only collected for required includes.
ExecuteRequiredFragment(s, f, optional, alt) ==
    /\ stack' = Append(s, Executing(f, optional, alt))
    /\ stylesheets' = IF optional THEN stylesheets
                      ELSE stylesheets \o Stylesheets[f]

(* collectStylesheets, then Execute.                                       *)
ExecuteFragment(s, f, optional, alt) ==
    /\ stack' = Append(s, Executing(f, optional, alt))
    /\ stylesheets' = stylesheets \o Stylesheets[f]

WriteText ==
    /\ Running /\ Top.rest # << >>
    /\ Head(Top.rest).kind = "text"
    /\ Write(<<Head(Top.rest)>>)
    /\ stack' = Returning(Tail(Top.rest))
    /\ UNCHANGED <<input, stage, heads, Body, tails, failing, stylesheets>>

\* Faulty variant: the placeholder is looked at again.
SkipNothing ==
    /\ Running /\ Top.rest # << >>
    /\ Head(Top.rest).kind = "end"
    /\ UNCHANGED vars

\* The end of a block that has no beginning is a variable without a value.
SkipEnd ==
    /\ Running /\ Top.rest # << >>
    /\ Head(Top.rest).kind = "end"
    /\ stack' = Returning(Tail(Top.rest))
    /\ UNCHANGED <<input, stage, heads, Body, tails, failing, buffers,
                   stylesheets>>

ParsingFails ==
    /\ Running /\ Top.rest # << >>
    /\ LET t == Head(Top.rest) IN
       \/ t.kind = "broken"
       \/ t.kind = "block" /\ End(t.name) \notin ToSet(Top.rest)
    /\ failing' = TRUE
    /\ UNCHANGED <<input, stage, heads, Body, tails, stack, buffers, stylesheets>>

IncludeFragment ==
    /\ Running /\ Top.rest # << >>
    /\ LET t == Head(Top.rest) IN
       /\ t.kind = "include"
       /\ IF Exists(t.name)
          THEN /\ ExecuteFragment(Returning(Tail(Top.rest)),
                     GetBodyFragmentByName(t.name), FALSE, << >>)
               /\ UNCHANGED failing
          ELSE failing' = TRUE /\ UNCHANGED <<stack, stylesheets>>
    /\ UNCHANGED <<input, stage, heads, Body, tails, buffers>>

\* The place of the end of the block that a template begins with.
EndOfBlock(rest) ==
    CHOOSE i \in DOMAIN rest :
       /\ rest[i] = End(Head(rest).name)
       /\ \A j \in DOMAIN rest : j < i => rest[j] # rest[i]

(* A block: its end is looked for first; the alternative text is written   *)
(* as it stands.                                                           *)
IncludeBlock ==
    /\ Running /\ Top.rest # << >>
    /\ LET t    == Head(Top.rest)
           end  == EndOfBlock(Top.rest)
           alt  == SubSeq(Top.rest, 2, end - 1)
           next == Returning(SubSeq(Top.rest, end + 1, Len(Top.rest)))
       IN  /\ t.kind = "block" /\ End(t.name) \in ToSet(Top.rest)
           /\ IF Exists(t.name)
              THEN /\ ExecuteFragment(next, GetBodyFragmentByName(t.name),
                                      TRUE, alt)
                   /\ UNCHANGED buffers
              ELSE stack' = next /\ Write(alt) /\ UNCHANGED stylesheets
    /\ UNCHANGED <<input, stage, heads, Body, tails, failing>>

TemplateEnds ==
    /\ Running /\ Top.rest = << >>
    /\ stack' = Front(stack)
    /\ UNCHANGED <<input, stage, heads, Body, tails, failing, buffers,
                   stylesheets>>

\* Faulty variant: no includer returns the error.
ReturnNoError ==
    /\ failing /\ stack # << >>
    /\ stack' = Front(stack)
    /\ failing' = FALSE
    /\ IF Top.optional THEN Write(Top.alt) ELSE UNCHANGED buffers
    /\ UNCHANGED <<input, stage, heads, Body, tails, stylesheets>>

(* An error leaves a template: its includer returns it as well, or, if the *)
(* include was optional, writes the alternative and goes on.               *)
ReturnError ==
    /\ failing /\ stack # << >>
    /\ stack' = Front(stack)
    /\ failing' = ~Top.optional
    /\ IF Top.optional THEN Write(Top.alt) ELSE UNCHANGED buffers
    /\ UNCHANGED <<input, stage, heads, Body, tails, stylesheets>>

-----------------------------------------------------------------------------
(* GetHtml.                                                                *)

Idle == stack = << >> /\ ~failing

StartHtml ==
    /\ stage = "adding" /\ toAdd = << >>
    /\ stage' = "head"
    /\ UNCHANGED <<input, heads, Body, tails, stack, failing, buffers,
                   stylesheets>>

NextHead ==
    /\ stage = "head" /\ Idle /\ heads # << >>
    /\ ExecuteFragment(<< >>, Head(heads), FALSE, << >>)
    /\ heads' = Tail(heads)
    /\ UNCHANGED <<input, stage, Body, tails, failing, buffers>>

StartFragmentName == IF Exists(LayoutName) THEN LayoutName ELSE << >>

StartBody ==
    /\ stage = "head" /\ Idle /\ heads = << >>
    /\ stage' = "body"
    /\ IF Exists(StartFragmentName)
       THEN /\ ExecuteFragment(<< >>, GetBodyFragmentByName(StartFragmentName),
                               FALSE, << >>)
            /\ UNCHANGED failing
       ELSE failing' = TRUE /\ UNCHANGED <<stack, stylesheets>>
    /\ UNCHANGED <<input, heads, Body, tails, buffers>>

StartTails ==
    /\ stage = "body" /\ Idle
    /\ stage' = "tail"
    /\ UNCHANGED <<input, heads, Body, tails, stack, failing, buffers,
                   stylesheets>>

NextTail ==
    /\ stage = "tail" /\ Idle /\ tails # << >>
    /\ ExecuteFragment(<< >>, Head(tails), FALSE, << >>)
    /\ tails' = Tail(tails)
    /\ UNCHANGED <<input, stage, heads, Body, failing, buffers>>

Hrefs(s) == {sheet.href : sheet \in ToSet(s)} \ {NoHref}

WithUnknown(result, sheet) ==
    IF sheet.href \in Hrefs(result) \cup {NoHref} THEN result
    ELSE Append(result, sheet)

(* The simple strategy keeps the first stylesheet of every href.           *)
Deduplicate(s) ==
    LET result[n \in 0 .. Len(s)] ==
          IF n = 0 THEN << >> ELSE WithUnknown(result[n - 1], s[n])
    IN  result[Len(s)]

(* The stylesheets are written to the header last.                         *)
WriteStylesheets ==
    /\ stage = "tail" /\ Idle /\ tails = << >>
    /\ stage' = "done"
    /\ stylesheets' = IF Simple THEN Deduplicate(stylesheets) ELSE stylesheets
    /\ UNCHANGED <<input, heads, Body, tails, stack, failing, buffers>>

GetHtmlFails ==
    /\ failing /\ stack = << >>
    /\ stage' = "failed"
    /\ failing' = FALSE
    /\ UNCHANGED <<input, heads, Body, tails, stack, buffers, stylesheets>>

-----------------------------------------------------------------------------
ExecuteStep ==
    \/ WriteText \/ SkipEnd \/ ParsingFails \/ IncludeFragment \/ IncludeBlock
    \/ TemplateEnds \/ ReturnError

GetHtmlStep ==
    \/ StartHtml \/ NextHead \/ StartBody \/ StartTails \/ NextTail
    \/ WriteStylesheets \/ GetHtmlFails

Over == stage \in {"done", "failed"}

Merged == Over /\ UNCHANGED vars

Next == AddContent \/ ExecuteStep \/ GetHtmlStep \/ Merged

Spec == Init /\ [][Next]_vars

(* One goroutine merges, and it is scheduled.                              *)
FairSpec == Spec /\ WF_vars(Next)

-----------------------------------------------------------------------------
(* Types of what GetHtml writes and of the templates it is in.             *)
TypeOK ==
    /\ pages \in Inputs
    /\ stage \in {"adding", "head", "body", "tail", "done", "failed"}
    /\ toAdd \in Seq(ToSet(pages))
    /\ heads \in Seq(Fragments) /\ tails \in Seq(Fragments)
    /\ \A n \in DOMAIN Body : Body[n] \in Fragments
    /\ stack \in Seq(Frame)
    /\ failing \in BOOLEAN
    /\ header \in Seq(Token) /\ body \in Seq(Token)
    /\ stylesheets \in Seq([href : STRING, media : STRING])

\* A template asks for a fragment by a name that a page registers it under.
MayInclude(ps, f, g) ==
    \E t \in ToSet(Template[f]), page \in ToSet(ps) :
       /\ t.kind \in {"include", "block"}
       /\ \E n \in LookUps(t.name) : g \in Registers(page, n)

IncludesNest ==
    \A i \in DOMAIN stack : i # 1 =>
       MayInclude(pages, stack[i - 1].fragment, stack[i].fragment)

(* The recursion follows the includes of the pages, however fragments are  *)
(* overridden and names abbreviated; once it is deeper than there are      *)
(* fragments, some fragment is executed within itself, and the includes    *)
(* from the one to the other make a cycle.  Nothing in the code looks for  *)
(* one: then the recursion goes on until the stack is exhausted.           *)
DepthIsBounded ==
    /\ IncludesNest
    /\ Len(stack) > Cardinality(Fragments) =>
          \E i, j \in DOMAIN stack :
             i < j /\ stack[i].fragment = stack[j].fragment

(* Nothing is shown without its styles: what is in the page comes from a   *)
(* fragment whose stylesheets have been collected, also if that fragment   *)
(* failed half way or is an alternative's; and in the end the simple       *)
(* strategy keeps every stylesheet once.                                   *)
StylesCoverContent ==
    /\ \A t \in ToSet(header) \cup ToSet(body) :
          \E f \in Fragments : /\ t \in ToSet(Template[f])
                               /\ Hrefs(Stylesheets[f]) \subseteq Hrefs(stylesheets)
    /\ stage = "done" /\ Simple =>
          \A i, j \in DOMAIN stylesheets :
             stylesheets[i].href = stylesheets[j].href => i = j

(* The inductive invariant of the proofs.  What is registered comes from a *)
(* page; what is left of a template, and the alternative to one, are parts *)
(* of a fragment; every template being executed has its stylesheets        *)
(* collected; and each is included by the one below it.                    *)
FragmentsAreRegistered ==
    \A n \in DOMAIN Body : \E page \in ToSet(pages) : Body[n] \in Registers(page, n)

FramesAreParts ==
    \A i \in DOMAIN stack :
       /\ ToSet(stack[i].rest) \subseteq ToSet(Template[stack[i].fragment])
       /\ IF i = 1 THEN stack[i].alt = << >>
          ELSE ToSet(stack[i].alt) \subseteq ToSet(Template[stack[i - 1].fragment])

FramesAreStyled ==
    \A i \in DOMAIN stack :
       ToSet(Stylesheets[stack[i].fragment]) \subseteq ToSet(stylesheets)

TextIsStyled ==
    \A t \in ToSet(header) \cup ToSet(body) :
       \E f \in Fragments : /\ t \in ToSet(Template[f])
                            /\ ToSet(Stylesheets[f]) \subseteq ToSet(stylesheets)

(* What every step of AddContent and GetHtml preserves.                    *)
MergeIsSound ==
    /\ TypeOK
    /\ FragmentsAreRegistered
    /\ FramesAreParts
    /\ FramesAreStyled
    /\ IncludesNest
    /\ stage = "done" => stack = << >> /\ ~failing
    /\ stage = "done" => StylesCoverContent
    /\ stage # "done" => TextIsStyled

(* GetHtml returns.                                                        *)
GetHtmlReturns == <>Over

=============================================================================
