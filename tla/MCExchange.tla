----------------------------- MODULE MCExchange -----------------------------
(* Every table of two short routes with every short path, and the tables   *)
(* of build_router with a request for every registered path, each capture  *)
(* taking any word the tables use or one they do not; and, with the whole  *)
(* table, requests for files, for the upstream and with forms, and         *)
(* requests to the redirect listener.                                      *)
EXTENDS Exchange, TLC

CONSTANTS f1, f2

Fixed == {Literal("a"), Param("x")}
AnySegment == Fixed \cup {Wildcard("x")}

SmallPatterns ==
  {<<>>} \cup {<<s>> : s \in AnySegment}
    \cup {<<s, t>> : s \in Fixed, t \in AnySegment}
    \cup {<<Literal("a"), Literal(""), Param("x")>>}

SmallRoutes ==
  {Route(method, p) : method \in {"GET", "POST", "*"}, p \in SmallPatterns}

SmallTables == {<<r, s>> : r \in SmallRoutes, s \in SmallRoutes}

SmallPaths ==
  UNION {[1..n -> {"a", "b"}] : n \in 0..2}
    \cup {<<"", "a">>, <<"a", "">>, <<"a", "", "b">>, <<"a", "b", "a">>}

Patterns == {r.segments : r \in Range(BuildRouter(TRUE, TRUE))}

Words ==
  {s.name : s \in {t \in UNION {Range(p) : p \in Patterns} :
                     t.kind = "literal"}} \cup {"other"}

(* A path a pattern matches, with the word w for every capture.            *)
Path(pattern, w) ==
  [k \in DOMAIN pattern |-> IF pattern[k].kind = "literal"
                              THEN pattern[k].name ELSE w]

RegisteredPaths == {Path(p, w) : p \in Patterns, w \in Words}

Plain(method, path) ==
  [method |-> method, path |-> path, id |-> Absent, headers |-> {}, fields |-> <<>>,
   query |-> <<>>, host |-> <<>>, named |-> <<>>, listener |-> "server", deployed |-> FALSE]

FilePaths == {<<"static">>, <<"static", "a">>, <<"static", ".", "a">>,
              <<"static", "..", "a">>, <<"static", "a", "b">>}

ToFiles == {[Plain("GET", p) EXCEPT !.deployed = TRUE] : p \in FilePaths}

ToUpstream ==
  {[Plain(m, <<"other">>) EXCEPT !.id = x, !.headers = h] :
     m \in {"GET", "HEAD", "POST"}, x \in {Absent, "client's id"},
     h \in {{}, {"host", "te", "connection", "accept"}}}

(* Heads of an upstream's response: to a HEAD request, and with a 204 or a   *)
(* 304, it may declare the length of a body it does not send; a body sent in *)
(* chunks has none declared.                                                 *)
Names == HopByHop \cup Ours \cup {"etag"}

Theirs == {NoHeaders, AppendAll(Header("connection", "close"), Header("server", "theirs")),
           AppendAll(Header("x-request-id", "theirs"), Header("etag", "e"))}

Heads ==
  UNION {{[status |-> s, length |-> n, headers |-> AppendAll(h, declared)] :
             s \in {"200", "404", "204", "304"}, h \in Theirs, declared \in {NoHeaders, Header("content-length", n)}} :
           n \in 0..1}

(* A letter, a space, the signs that have a meaning, and a letter of two     *)
(* bytes in UTF-8.                                                           *)
Typable == {97, 32, 43, 37, 38, 61, 233}
ShortTexts == {<<>>} \cup {<<c>> : c \in Typable} \cup {<<97, c>> : c \in Typable}
LongTexts == ShortTexts \cup {<<c, d, 97>> : c \in Typable, d \in Typable}

Field(k, v) == [key |-> k, value |-> v]

WithForms ==
  {[Plain("POST", <<"ui", "login">>) EXCEPT !.fields = <<Field(KeyU, u), Field(KeyP, p)>>] :
     u \in ShortTexts, p \in LongTexts}
  \cup {[Plain("POST", <<"ui", "items">>) EXCEPT
           !.fields = <<Field(KeyC, c), Field(KeyN, n), Field(KeyD, d)>>] :
           c \in {<<97>>, <<43, 37>>}, n \in ShortTexts, d \in ShortTexts}
  \cup {[Plain("POST", p) EXCEPT !.fields = <<Field(KeyC, c)>>] :
           p \in {<<"ui", "logout">>, <<"ui", "items", "1", "delete">>}, c \in ShortTexts}

(* Any text: percent signs followed by digits that are hexadecimal or not.   *)
WithQueries ==
  {[Plain("GET", <<"ui", "items">>) EXCEPT !.query = q] :
     q \in UNION {[1..n -> {Percent, Plus, 50, 66, 71}] : n \in 0..5}
            \cup {Escape(195) \o <<c>> \o Escape(169) : c \in {50, Plus}} \cup {Escape(195) \o Escape(169)}}

(* A name, an IPv4 or an IPv6 address, with or without a port.               *)
Hosts == {<<"example">>, <<"127.0.0.1">>, <<"[", ":", ":", "1", "]">>}

Redirected ==
  {[Plain("GET", p) EXCEPT !.listener = "redirect"] : p \in {<<>>, <<"other">>}}
  \cup {[Plain("GET", <<"other">>) EXCEPT !.listener = "redirect", !.named = h, !.host = h \o port] :
           h \in Hosts, port \in {<<>>, <<":", "8080">>}}

Files == Permutations(Inode)

Whole == BuildRouter(TRUE, TRUE)

(* Only pages asked of the upstream.                                         *)
UpstreamRequests(table) == {r \in ToUpstream : r.method = "GET"}
WholeTable == {Whole}

(* A 304 that declares the length the body would have.                       *)
NotModified == {h \in Heads : h.status = "304" /\ h.length = 1}

Tables == SmallTables \cup Registered

TableRequests(table) ==
  IF table \in Registered
    THEN {Plain(m, p) : m \in {"GET", "POST", "DELETE", "PUT"}, p \in RegisteredPaths}
         \cup IF table = Whole
                THEN ToFiles \cup ToUpstream \cup WithForms \cup WithQueries \cup Redirected ELSE {}
    ELSE {Plain(m, p) : m \in {"GET", "POST"}, p \in SmallPaths}
==============================================================================
