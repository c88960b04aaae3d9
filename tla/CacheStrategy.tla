--------------------------- MODULE CacheStrategy ---------------------------
(***************************************************************************)
(* cache/cache_strategy.go, with util/cookie.go: which requests share an   *)
(* entry of the cache, and which responses may be kept.                    *)
(*                                                                         *)
(* A text - a name, a value, a URL - is a sequence of symbols.  A header   *)
(* gives the values of each name it has.  That of "Cookie" are the lines   *)
(* of cookies; a cookie's value is what is left of it without its quotes.  *)
(* A digest is known by the text that is digested: md5 is taken to tell    *)
(* any two texts apart.                                                    *)
(***************************************************************************)
EXTENDS Sequences, SequencesExt

CONSTANTS
    includeHeaders, includeCookies, \* what tells requests apart
    ignoreReasons                   \* what does not keep from caching

ASSUME StrategyAssumption ==
    /\ includeHeaders \in Seq(Seq(STRING)) /\ includeCookies \in Seq(Seq(STRING))
    /\ ignoreReasons \subseteq STRING

\* Header.Get: the first value, or none.
HeaderGet(header, name) ==
    IF name \in DOMAIN header /\ header[name] # << >> THEN header[name][1] ELSE << >>

\* The value of the first cookie of a name in any line, if there is one.
ReadCookieValue(header, name) ==
    LET lines   == IF <<"Cookie">> \in DOMAIN header THEN header[<<"Cookie">>]
                   ELSE << >>
        cookies == SelectSeq(FlattenSeq(lines), LAMBDA c : c.name = name)
    IN  IF cookies = << >> THEN {} ELSE {cookies[1].value}

(* What is digested is written one after the other, with nothing between.  *)
HashWithParameters(method, url, header, headers, cookies) ==
    LET HeaderText(h) ==
            IF HeaderGet(header, h) = << >> THEN << >> ELSE h \o HeaderGet(header, h)
        CookieText(c) ==
            IF ReadCookieValue(header, c) = {} THEN << >>
            ELSE c \o (CHOOSE v \in ReadCookieValue(header, c) : TRUE)
    IN  <<method>> \o url
        \o FlattenSeq([i \in DOMAIN headers |-> HeaderText(headers[i])])
        \o FlattenSeq([i \in DOMAIN cookies |-> CookieText(cookies[i])])

\* Faulty variant: the cookies are left out.
StrategyHashWithoutCookies(method, url, header) ==
    HashWithParameters(method, url, header, includeHeaders, << >>)

StrategyHash(method, url, header) ==
    HashWithParameters(method, url, header, includeHeaders, includeCookies)

(* cacheobject.UsingRequestResponse, for a private cache: the reasons not  *)
(* to keep a response.  The directives are those of its Cache-Control, and *)
(* "expires" if it has that header; "malformed" is a header the library    *)
(* cannot parse.                                                           *)
CachableByDefault == {200, 203, 204, 206, 300, 301, 404, 405, 410, 414, 501}

CacheControl(header) == HeaderGet(header, <<"Cache-Control">>)

IsMalformed(header, directives) ==
    CacheControl(header) = <<"malformed">> \/ "malformed" \in directives

IsFresh(directives) == directives \cap {"max-age", "expires"} # {}

Reasons(method, statusCode, header, directives) ==
    (IF method \in {"GET", "HEAD"} \/ (method = "POST" /\ IsFresh(directives))
     THEN {} ELSE {"RequestMethod"})
    \cup (IF CacheControl(header) = <<"no-store">> THEN {"RequestNoStore"} ELSE {})
    \cup (IF HeaderGet(header, <<"Authorization">>) # << >>
             /\ directives \cap {"public", "must-revalidate", "s-maxage"} = {}
          THEN {"RequestAuthorizationHeader"} ELSE {})
    \cup (IF "no-store" \in directives THEN {"ResponseNoStore"} ELSE {})
    \cup (IF statusCode \notin CachableByDefault /\ ~IsFresh(directives)
             /\ "public" \notin directives
          THEN {"ResponseUncachableByDefault"} ELSE {})

\* isReasonIgnorable, for each reason found; nothing is kept on an error.
StrategyIsCacheable(method, statusCode, header, directives) ==
    /\ ~IsMalformed(header, directives)
    /\ Reasons(method, statusCode, header, directives) \subseteq ignoreReasons

=============================================================================
