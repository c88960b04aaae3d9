--------------------------- MODULE MCHeadPriority ---------------------------
(* Small instances of HeadPriority for model checking with TLC.            *)
EXTENDS HeadPriority, TLC

A(element, property, valued) ==
    [element |-> element, property |-> property, valued |-> valued]

Title     == A("title", "title", TRUE)
Canonical == A("link", "canonical", TRUE)
NoHref    == A("link", "canonical", FALSE)
Icon      == A("link", NoProperty, FALSE)
Robots    == A("meta", "meta_name_robots", TRUE)
Script    == A("other", NoProperty, FALSE)

(* A page, a navigation of the same priority and a layout of a lower one   *)
(* have any of these heads; another request has a page of its own.         *)
HeadTags  == {Title, Canonical, NoHref, Script}
HeadTexts == {<<a>> : a \in HeadTags} \cup {<<a, b>> : a, b \in HeadTags}

LayoutTexts == {<<a, b, Icon>> : a \in {Title, Canonical}, b \in HeadTags}

OwnHeadsOf  == "r1" :> {"layout", "navigation", "page"} @@ "r2" :> {"error"}
OwnPriority == "layout" :> 0 @@ "navigation" :> 1 @@ "page" :> 1 @@ "error" :> 0
OwnTexts    == "layout" :> LayoutTexts @@ "navigation" :> HeadTexts @@
               "page" :> HeadTexts @@ "error" :> {<<Robots, Title, Icon>>}

(* Two requests whose contents come from one cache: a page with a teaser,  *)
(* and the teaser by itself.                                               *)
CachedHeadsOf  == "r1" :> {"teaser", "page"} @@ "r2" :> {"teaser"}
CachedPriority == "teaser" :> 0 @@ "page" :> 1
CachedTexts    == "teaser" :> {<<Title, Icon>>} @@ "page" :> {<<Title, Robots>>}

=============================================================================
