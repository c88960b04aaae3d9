-------------------------- MODULE FetchDefinition --------------------------
(***************************************************************************)
(* composition/fetch_definition.go: how a definition is made from the      *)
(* request of a client, and which definitions stand for one resource.      *)
(*                                                                         *)
(* A URL is the sequence of its parts; a part may be the name of a         *)
(* variable, which is replaced before the definition is loaded.            *)
(***************************************************************************)
EXTENDS Integers, FiniteSets, CacheStrategy

CONSTANT ForwardRequestHeaders

ValuesOf(header, k) == IF k \in DOMAIN header THEN header[k] ELSE << >>

(* copyHeaders adds the values of the white list to those there are.       *)
copyHeaders(src, dest, whitelist) ==
    LET copied == DOMAIN src \cap whitelist
    IN  [k \in DOMAIN dest \cup copied |->
            ValuesOf(dest, k) \o (IF k \in copied THEN src[k] ELSE << >>)]

(* NewFetchDefinition: it gets its page, is required, and is cached by the *)
(* default strategy.  Files are definitions whose URL says so.             *)
NewFetchDefinition(name, url) ==
    [name |-> name, url |-> url, method |-> "GET", header |-> [k \in {} |-> << >>],
     required |-> TRUE, hasStrategy |-> TRUE, file |-> FALSE,
     processed |-> FALSE, expands |-> TRUE]

(* FromRequest: the client's path under the definition's URL, its method   *)
(* and what of its header is forwarded.                                    *)
FromRequest(fd, path, method, header) ==
    LET base == IF fd.url # << >> /\ Last(fd.url) = "/" THEN Front(fd.url) ELSE fd.url
    IN  [fd EXCEPT !.url = base \o (IF path = << >> THEN <<"/">> ELSE path),
                   !.method = method,
                   !.header = copyHeaders(header, fd.header, ForwardRequestHeaders)]

Hash(def) ==
    IF def.hasStrategy THEN StrategyHash(def.method, def.url, def.header)
    ELSE def.url

IsCacheable(def, responseStatus, directives) ==
    def.hasStrategy
    /\ StrategyIsCacheable(def.method, responseStatus, def.header, directives)

IsReadableFromCache(def) == IsCacheable(def, 200, {})

(* Two definitions ask for the same: their requests agree in the method,   *)
(* the URL, and the headers and cookies that the strategy goes by.         *)
IsSameRequest(def, other) ==
    /\ def.method = other.method /\ def.url = other.url
    /\ \A h \in ToSet(includeHeaders) :
          ValuesOf(def.header, h) = ValuesOf(other.header, h)
    /\ \A c \in ToSet(includeCookies) :
          ReadCookieValue(def.header, c) = ReadCookieValue(other.header, c)

=============================================================================
