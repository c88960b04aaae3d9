------------------------ MODULE MCCompositionHandler ------------------------
(* Small instances of CompositionHandler for model checking with TLC.      *)
EXTENDS CompositionHandler, TLC

Resp(kind, status, needs, directives) ==
    [kind |-> kind, status |-> status, directives |-> directives, needs |-> needs]

NoHeader == [k \in {} |-> << >>]

\* Another session than that of the teaser, which is loaded without one.
SessionHeader ==
    <<"Cookie">> :> << <<[name |-> <<"session">>, value |-> <<"s1">>]>> >> @@
    <<"Accept">> :> << <<"html">> >>

(* Two requests share a teaser, which the page of the first one needs; it  *)
(* may be a document instead, be broken, or need a page of its own.  The   *)
(* first page may redirect, or break off; it has the URL of the teaser,    *)
(* but a session.  The third request is for a file; the fourth, a HEAD     *)
(* request, for a URL that cannot be expanded; the last one is for nothing.*)
Teaser == [NewFetchDefinition("teaser", <<"http://portal", "/">>)
             EXCEPT !.required = FALSE]

Portal ==
    "p1" :> FromRequest(NewFetchDefinition("page", <<"http://portal">>),
                        << >>, "GET", SessionHeader) @@
    "t1" :> [Teaser EXCEPT !.processed = TRUE] @@ "t2" :> Teaser @@
    "f3" :> [NewFetchDefinition("file", <<"file://", "/prices.txt">>)
               EXCEPT !.file = TRUE, !.required = FALSE] @@
    "x4" :> [NewFetchDefinition("bad", <<"http://", "nowhere">>)
               EXCEPT !.expands = FALSE]

PortalJobs == DOMAIN Portal

PortalWanted ==
    "r1" :> <<"p1", "t1">> @@ "r2" :> <<"t2">> @@ "r3" :> <<"f3">> @@
    "r4" :> <<"x4">> @@ "r5" :> << >>

PortalHeads == {"r4"}

PortalResponses ==
    "p1" :> {Resp("page", 200, {"teaser"}, {}), Resp("redirect", 302, {}, {}),
             Resp("cut", 200, {}, {})} @@
    "t1" :> {Resp("page", 200, {}, {}), Resp("document", 200, {}, {"no-store"}),
             Resp("malformed", 200, {}, {}), Resp("badStatus", 500, {}, {}),
             Resp("unprocessable", 200, {}, {})} @@
    "t2" :> {Resp("page", 200, {"side"}, {}), Resp("document", 200, {}, {})} @@
    "f3" :> {Resp("document", 200, {}, {}), Resp("cut", 200, {}, {}),
             Resp("unreadable", 0, {}, {})} @@
    "x4" :> {}

NoMetadata == NoHeader

\* DefaultIncludeHeaders, and the cookie of the session.
PortalHeaders == << <<"Authorization">>, <<"Accept", "-Encoding">>, <<"Host">> >>
PortalCookies == << <<"session">> >>

Forwarded == {<<"Authorization">>, <<"Cookie">>, <<"Host">>}

(* One request, whose URL has a variable.                                  *)
Templated   == "a1" :> NewFetchDefinition("a", <<"http://", "host">>)
OneMetadata == "host" :> <<"portal", "/">>
OneJob      == {"a1"}
OneWanted   == "r1" :> <<"a1">>

OneResponses ==
    "a1" :> {Resp("page", 200, {"teaser"}, {}), Resp("malformed", 200, {}, {})}

NoNames == << >>

(* Two requests for one URL with different cookies: the name of the one is *)
(* the beginning of the other's.                                           *)
WithCookie(name, value) ==
    [NewFetchDefinition("page", <<"http://portal", "/">>)
       EXCEPT !.header = <<"Cookie">> :> << <<[name |-> name, value |-> value]>> >>]

Shops ==
    "a1" :> WithCookie(<<"shop">>, <<"s", "2">>) @@
    "a2" :> WithCookie(<<"shop", "s">>, <<"2">>)

ShopCookies   == << <<"shop">>, <<"shop", "s">> >>
ShopJobs      == DOMAIN Shops
ShopWanted    == "r1" :> <<"a1">> @@ "r2" :> <<"a2">>
ShopResponses == [j \in ShopJobs |-> {Resp("page", 200, {}, {})}]

=============================================================================
