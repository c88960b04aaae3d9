-------------------------- MODULE MCContentFetcher --------------------------
(* Small applications for model checking ContentFetcher with TLC.          *)
EXTENDS ContentFetcher, TLC

NoMore == [required |-> << >>, dependencies |-> << >>, meta |-> << >>]
Requiring(ds) == [NoMore EXCEPT !.required = ds]

(* A layout and a sidebar; both include the lazy content "foo", each with  *)
(* its own parameters, and the layout fetches styles whose URL is expanded *)
(* from the meta data; the lazy page of the layout closes a cycle, and the *)
(* lazy definition of the sidebar has a URL template that does not expand. *)
(* The theme is a field of the defaults, the layout and the sidebar.       *)
ShopName == [layout |-> "layout", sidebar |-> "sidebar", styles |-> "styles",
             foo1 |-> "foo", foo2 |-> "foo"]
ShopDefs == DOMAIN ShopName
ShopNames == {"layout", "sidebar", "styles", "foo", "nobody"}
ShopHash == [d \in ShopDefs |-> d]
ShopPriority == [d \in ShopDefs |-> IF d = "styles" THEN 1 ELSE 0]
ShopInitial == <<"layout", "sidebar">>
ShopPages ==
    [layout  |-> {NoMore,
                  [required |-> <<"styles">>, meta |-> [theme |-> "layout"],
                   dependencies |-> [foo |-> "p1", nobody |-> "p1"]]},
     sidebar |-> {[required |-> << >>, meta |-> [theme |-> "sidebar", foo |-> "sidebar"],
                   dependencies |-> [foo |-> "p2"]]},
     styles  |-> {NoMore},
     foo1    |-> {Requiring(<<"layout">>)},
     foo2    |-> {}]
ShopLazyFd ==
    [np \in ShopNames \X {"p1", "p2"} |->
       CASE np = <<"foo", "p1">> -> "foo1"
         [] np = <<"foo", "p2">> -> "foo2"
         [] np[1] = "styles"     -> "styles"
         [] OTHER                -> "NoFd"]
ShopMeta == [host |-> "default", theme |-> "default"]
ShopNoTimeout == {"styles"}

(* Three definitions of the caller; the page of the first fetches again    *)
(* the URL of the third under another name.                                *)
AliasName == [first |-> "first", second |-> "second", third |-> "third",
              again |-> "again"]
AliasDefs == DOMAIN AliasName
AliasNames == {"first", "second", "third", "again"}
AliasHash == [d \in AliasDefs |-> IF d = "again" THEN "third" ELSE d]
AliasPriority == [d \in AliasDefs |-> 0]
AliasInitial == <<"first", "second", "third">>
AliasPages == [d \in AliasDefs |->
                 {IF d = "first" THEN Requiring(<<"again">>) ELSE NoMore}]
AliasLazyFd == [np \in AliasNames \X {"p1", "p2"} |-> "NoFd"]

=============================================================================
