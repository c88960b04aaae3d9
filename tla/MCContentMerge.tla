--------------------------- MODULE MCContentMerge ---------------------------
(* A small site for model checking ContentMerge with TLC, and comparing it *)
(* with Rendering.                                                         *)
EXTENDS Rendering, TLC

Sheet(h) == [href |-> h, media |-> "all"]

(* "shell" is a layout; "main", "foo" and "bar" provide what it includes:  *)
(* bar's card wraps that of foo, foo's note fails after its first text,    *)
(* bar's note at once.                                                     *)
SiteTemplate ==
    [shellBody |-> <<Text("s1"), Include(<<"#", "card">>),
                     Block(<<"note">>), Text("s2"), End(<<"note">>),
                     End(<<"gone">>)>>,
     shellHead |-> <<Text("h1"), Block(<<"#", "css">>), End(<<"#", "css">>)>>,
     shellTail |-> <<Include(<<"foo", "#">>), Text("t1")>>,
     mainBody  |-> <<Text("m1"), Block(<<"foo", "#", "card">>), Text("m2"),
                     Include(<<"gone">>), End(<<"foo", "#", "card">>)>>,
     fooBody   |-> <<Text("f1")>>,
     fooCard   |-> <<Text("f2"), Include(<<"foo">>)>>,
     fooNote   |-> <<Text("f3"), Include(<<"gone">>), Text("f4")>>,
     barCard   |-> <<Block(<<"foo", "#", "card">>), Text("b1"),
                     End(<<"foo", "#", "card">>), Text("b2")>>,
     barNote   |-> <<Broken>>,
     barCss    |-> <<Block(<<"gone">>), Text("b3")>>]

SiteFragments == DOMAIN SiteTemplate

SiteStylesheets ==
    [f \in SiteFragments |->
       CASE f = "fooBody"   -> <<Sheet("a.css"), Sheet("b.css")>>
         [] f = "fooNote"   -> <<Sheet("n.css"), Sheet("a.css")>>
         [] f = "barCard"   -> <<Sheet("b.css"), Sheet("NoHref")>>
         [] f = "shellBody" -> <<Sheet("s.css")>>
         [] OTHER           -> << >>]

SiteRank ==
    [f \in SiteFragments |->
       CASE f \in {"fooBody", "barNote", "barCss", "fooNote"} -> 0
         [] f \in {"fooCard", "shellTail", "shellHead"} -> 1
         [] f \in {"barCard", "mainBody"} -> 2
         [] OTHER -> 3]

Page(name, fragments, head, tail) ==
    [name |-> name, body |-> fragments, head |-> head, tail |-> tail]

Site == {
    Page(<<"layout">>, (<< >> :> "shellBody"), "shellHead", "shellTail"),
    Page(<<"main">>, (<< >> :> "mainBody"), "NoFragment", "NoFragment"),
    Page(<<"foo">>, (<< >> :> "fooBody") @@ (<<"card">> :> "fooCard")
                      @@ (<<"note">> :> "fooNote"), "NoFragment", "NoFragment"),
    Page(<<"bar">>, (<<"card">> :> "barCard") @@ (<<"note">> :> "barNote")
                      @@ (<<"css">> :> "barCss"), "barNote", "NoFragment"),
    Page(<<"foo">>, (<<"card">> :> "fooCard"), "fooNote", "fooBody")}

\* Up to four pages of the site, in any order.
SiteInputs ==
    UNION {{s \in [1 .. n -> Site] : \A i, j \in 1 .. n : s[i] = s[j] => i = j} :
              n \in 0 .. 4}

=============================================================================
