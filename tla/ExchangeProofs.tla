--------------------------- MODULE ExchangeProofs ---------------------------
(***************************************************************************)
(* Proofs about what becomes of the answer to a request (Exchange), for     *)
(* every table of routes and every request: its id, its headers, the file   *)
(* or the upstream behind it, and the redirect.  What the server reads in   *)
(* the request is the subject of ReadingProofs.                              *)
(***************************************************************************)
EXTENDS Exchange, TLAPS

(* Sequences.                                                                *)

LEMMA NonemptyText ==
  ASSUME NEW V, NEW s \in Seq(V)
  PROVE  Len(s) \in Nat /\ (Len(s) = 0 <=> s = <<>>)
OBVIOUS

LEMMA SubText ==
  ASSUME NEW V, NEW s \in Seq(V), NEW m \in Int, NEW n \in Int, \A k \in m..n : s[k] \in V
  PROVE  SubSeq(s, m, n) \in Seq(V)
OBVIOUS

LEMMA NothingAdded ==
  ASSUME NEW V, NEW s \in Seq(V)
  PROVE  s \o <<>> = s
OBVIOUS

----------------------------------------------------------------------------
(* The types of the router's variables.                                      *)

Given == routes \in RouteTables /\ request \in Requests(routes)

RouterTyped == Given /\ TypeOK

LEMMA GivenLengths ==
  ASSUME Given
  PROVE  Len(routes) \in Nat /\ \A n \in 1..Len(routes) : Len(routes[n].segments) \in Nat
<1> DEFINE Entry == [method : STRING, segments : Seq(Segment)]
<1>1. routes \in Seq(Entry)
  BY RoutesWellFormed, Zenon DEF Given
<1>2. \A r \in Entry : Len(r.segments) \in Nat
  OBVIOUS
<1> HIDE DEF Entry
<1> QED
  BY <1>1, <1>2

LEMMA StepKeepsRequest == Step => UNCHANGED <<routes, request>>
BY Zenon DEF Step, CheckLength, MatchLiteral, MatchParam, MatchWildcard, MatchEnd, NoRoute, NoMatch, Matched

(* A step goes on to the next route or to the next segment, or stays.        *)
LEMMA StepMoves ==
  ASSUME Step
  PROVE  \/ j <= Len(routes) /\ j' = j + 1 /\ i' = 0
         \/ j <= Len(routes) /\ (i = 0 \/ i <= Len(Pattern)) /\ j' = j /\ i' = i + 1
         \/ j' = j /\ i' = i
<1>1. CASE CheckLength
  BY <1>1 DEF CheckLength, NoMatch
<1>2. CASE MatchLiteral \/ MatchParam
  BY <1>2 DEF MatchLiteral, MatchParam, AtSegment, NoMatch
<1>3. CASE MatchWildcard \/ MatchEnd \/ NoRoute
  BY <1>3, Zenon DEF MatchWildcard, MatchEnd, NoRoute, AtSegment, Matched
<1> QED
  BY <1>1, <1>2, <1>3, Zenon DEF Step

LEMMA StepAnswers ==
  ASSUME TypeOK, Step
  PROVE  /\ any_path_matched' \in BOOLEAN
         /\ response'.status \in {"pending", "404", "405", "handled"}
<1>1. CASE CheckLength \/ MatchLiteral \/ MatchParam
  BY <1>1, Zenon DEF CheckLength, MatchLiteral, MatchParam, NoMatch, TypeOK
<1>2. CASE MatchWildcard \/ MatchEnd \/ NoRoute
  <2>1. any_path_matched' \in BOOLEAN
    BY <1>2, Zenon DEF MatchWildcard, MatchEnd, NoRoute, Matched, TypeOK
  <2>2. response' \in {response, MethodNotAllowed, NotFound} \/ \E c : response' = Handled(j, c)
    BY <1>2, Zenon DEF MatchWildcard, MatchEnd, NoRoute, Matched
  <2>3. /\ MethodNotAllowed.status = "405" /\ NotFound.status = "404"
        /\ \A c : Handled(j, c).status = "handled"
    BY Zenon DEF MethodNotAllowed, NotFound, Handled
  <2>4. response.status \in {"pending", "404", "405", "handled"}
    BY Zenon DEF TypeOK
  <2> QED
    BY <2>1, <2>2, <2>3, <2>4, Zenon
<1> QED
  BY <1>1, <1>2, Zenon DEF Step

LEMMA StepKeepsTypes == RouterTyped /\ Step => RouterTyped'
<1> SUFFICES ASSUME RouterTyped, Step PROVE RouterTyped'
  BY Zenon
<1>1. Given /\ TypeOK /\ UNCHANGED <<routes, request>>
  BY StepKeepsRequest, Zenon DEF RouterTyped
<1>2. Given'
  BY <1>1, Zenon DEF Given
<1>3. Len(routes) \in Nat /\ \A n \in 1..Len(routes) : Len(routes[n].segments) \in Nat
  BY <1>1, GivenLengths, Zenon
<1>4. j' \in 1..(Len(routes) + 1) /\ (j' <= Len(routes) => i' \in 0..(Len(routes[j'].segments) + 1))
  <2>1. /\ j \in 1..(Len(routes) + 1)
        /\ j <= Len(routes) => i \in 0..(Len(routes[j].segments) + 1)
    BY <1>1, Zenon DEF TypeOK, Pattern
  <2>2. CASE j <= Len(routes) /\ j' = j + 1 /\ i' = 0
    BY <1>3, <2>1, <2>2
  <2>3. CASE j <= Len(routes) /\ (i = 0 \/ i <= Len(Pattern)) /\ j' = j /\ i' = i + 1
    <3>1. j \in 1..Len(routes) /\ i \in 0..(Len(routes[j].segments) + 1)
      BY <1>3, <2>1, <2>3
    <3>2. Len(routes[j].segments) \in Nat /\ (i = 0 \/ i <= Len(routes[j].segments))
      BY <1>3, <2>3, <3>1, Zenon DEF Pattern
    <3> QED
      BY <2>1, <2>3, <3>1, <3>2
  <2>4. CASE j' = j /\ i' = i
    BY <2>1, <2>4, Zenon
  <2> QED
    BY <2>2, <2>3, <2>4, StepMoves, Zenon
<1> QED
  BY <1>1, <1>2, <1>4, StepAnswers, Zenon DEF RouterTyped, TypeOK, Pattern

LEMMA TypedInitially == Init => RouterTyped
<1> SUFFICES ASSUME Init PROVE RouterTyped
  BY Zenon
<1>1. Given /\ j = 1 /\ i = 0 /\ any_path_matched = FALSE /\ response = Pending
  BY Zenon DEF Init, Given
<1>2. Len(routes) \in Nat /\ \A n \in 1..Len(routes) : Len(routes[n].segments) \in Nat
  BY <1>1, GivenLengths, Zenon
<1>3. j \in 1..(Len(routes) + 1) /\ (j <= Len(routes) => i \in 0..(Len(Pattern) + 1))
  BY <1>1, <1>2 DEF Pattern
<1>4. response.status = "pending"
  BY <1>1, Zenon DEF Pending
<1> QED
  BY <1>1, <1>3, <1>4, Zenon DEF RouterTyped, TypeOK

----------------------------------------------------------------------------
(* The exchange.  What a response promises holds from the moment a handler    *)
(* built it; the id is the right one from the moment the middleware chose it; *)
(* and the open file has the length that was declared until it is written to. *)

WellShaped(o) ==
  /\ o = [status |-> o.status, body |-> o.body, headers |-> o.headers]
  /\ o.headers = [n \in HeaderName |-> o.headers[n]]

Declared(o) == WellShaped(o) /\ o.headers["content-length"] # <<>>

(* The names that are never the server's own.                                *)
Others == HeaderName \ Ours

Whole(o) ==
  /\ o.headers["content-length"] = <<o.body>>
  /\ \A n \in Others : o.headers[n] = <<>>

Places == {"redirect", "in", "dispatch", "handler", "stat", "open", "fstat", "send", "relay", "log",
           "stream", "done"}

PlaceInv ==
  /\ at \in Places
  /\ at = "redirect" => request.listener = "redirect"
  /\ at \notin {"redirect", "done"} => request.listener = "server"

IdInv ==
  /\ at \in {"redirect", "in"} => seen = {}
  /\ at # "in" /\ request.listener = "server" => id = IF request.id = Absent THEN "minted" ELSE request.id
  /\ seen = {} \/ seen = Forwarded

OutInv ==
  /\ at = "relay" => upstream \in Replies
  /\ at \in {"log", "stream", "done"} => Declared(out)
  /\ at \in {"log", "done"} /\ out.body # Streamed /\ out.status # upstream.status => Whole(out)
  /\ at \in {"stream", "done"} /\ request.listener = "server" => out.headers["x-request-id"] = <<id>>
  /\ at = "done" /\ request.listener = "redirect" =>
       \E port \in {"443", "8443"} : out.headers["location"] = <<Location(request.host, port)>>

FileInv ==
  /\ link \in [Paths -> Inode \cup {NoFile, Dir}] /\ size \in [Inode -> Nat]
  /\ sent \in Nat /\ touched \in BOOLEAN
  /\ at \notin {"stream", "done"} => sent = 0
  /\ at = "fstat" => handle \in Inode \cup {Dir}
  /\ at \in {"log", "stream"} /\ out.body = Streamed =>
       /\ handle \in Inode \cup {Dir}
       /\ ~touched /\ handle \in Inode =>
            out.headers["content-length"] = <<size[handle]>> /\ sent <= size[handle]
  /\ at = "stream" => out.body = Streamed
  /\ at \notin {"log", "stream", "done"} => ~touched
  /\ at = "done" /\ out.body = Streamed /\ ~broken /\ ~touched => out.headers["content-length"] = <<sent>>

EInv == PlaceInv /\ IdInv /\ OutInv /\ FileInv
IInv == RouterTyped /\ EInv

----------------------------------------------------------------------------
(* HeaderMaps.                                                               *)

LEMMA NamesApart ==
  /\ Others \subseteq HeaderName /\ Ours \subseteq HeaderName
  /\ \A n \in Others : n \notin Ours
BY HeaderNames, Zenon DEF Others

LEMMA HeaderAt ==
  ASSUME NEW a \in HeaderName, NEW v, NEW n \in HeaderName
  PROVE  NoHeaders[n] = <<>> /\ Header(a, v)[n] = IF n = a THEN <<v>> ELSE <<>>
BY Zenon DEF Header, NoHeaders

LEMMA AppendAllAt ==
  ASSUME NEW h, NEW g, NEW n \in HeaderName
  PROVE  AppendAll(h, g)[n] = h[n] \o g[n]
BY Zenon DEF AppendAll

LEMMA Appending ==
  /\ <<>> \o <<>> = <<>>
  /\ \A v : <<>> \o <<v>> = <<v>> /\ <<v>> \o <<>> = <<v>>
OBVIOUS

LEMMA LengthAndServerAt ==
  ASSUME NEW length
  PROVE  /\ \A n \in Others : LengthAndServer(length)[n] = <<>>
         /\ LengthAndServer(length)["content-length"] = <<length>>
<1>1. "content-length" \in HeaderName /\ "server" \in HeaderName
  BY NamesApart, Zenon DEF Ours
<1>2. \A n \in Others : n \in HeaderName /\ n \notin {"content-length", "server"}
  BY NamesApart, Zenon DEF Ours
<1> DEFINE declared == Header("content-length", length)
           server == Header("server", "rust-highperf-server")
<1>3. \A n \in HeaderName : LengthAndServer(length)[n] = declared[n] \o server[n]
  BY AppendAllAt, Zenon DEF LengthAndServer
<1>4. \A n \in Others : declared[n] = <<>> /\ server[n] = <<>>
  BY <1>1, <1>2, HeaderAt, Zenon
<1>5. declared["content-length"] = <<length>> /\ server["content-length"] = <<>>
  BY <1>1, HeaderAt, Zenon
<1> HIDE DEF declared, server
<1> QED
  BY <1>1, <1>2, <1>3, <1>4, <1>5, Appending, Zenon

LEMMA ShapeOfRecord ==
  ASSUME NEW s, NEW b, NEW h, NEW g
  PROVE  WellShaped([status |-> s, body |-> b, headers |-> AppendAll(h, g)])
<1>1. AppendAll(h, g) = [n \in HeaderName |-> AppendAll(h, g)[n]]
  BY Zenon DEF AppendAll
<1> DEFINE all == AppendAll(h, g)
<1> HIDE DEF all
<1> QED
  BY <1>1, Zenon DEF WellShaped, all

(* The names that only a declared length may give a value.                   *)
Blank(h) == \A n \in Others \cup {"content-length"} : h[n] = <<>>

LEMMA BlankHeaders ==
  /\ Blank(NoHeaders)
  /\ \A a \in Ours \ {"content-length"} : \A v : Blank(Header(a, v))
  /\ \A h, g : Blank(h) /\ Blank(g) => Blank(AppendAll(h, g))
<1>1. \A n \in Others \cup {"content-length"} : n \in HeaderName /\ n \notin Ours \ {"content-length"}
  BY NamesApart, Zenon DEF Ours
<1>2. Blank(NoHeaders)
  BY <1>1, Zenon DEF Blank, NoHeaders
<1>3. ASSUME NEW a \in Ours \ {"content-length"}, NEW v PROVE Blank(Header(a, v))
  BY <1>1, Zenon DEF Blank, Header, NoHeaders
<1>4. ASSUME NEW h, NEW g, Blank(h), Blank(g) PROVE Blank(AppendAll(h, g))
  <2> SUFFICES ASSUME NEW n \in Others \cup {"content-length"} PROVE AppendAll(h, g)[n] = <<>>
    BY Zenon DEF Blank
  <2>1. AppendAll(h, g)[n] = h[n] \o g[n]
    BY <1>1, AppendAllAt, Zenon
  <2>2. h[n] = <<>> /\ g[n] = <<>>
    BY <1>4, Zenon DEF Blank
  <2> QED
    BY <2>1, <2>2, Appending, Zenon
<1> QED
  BY <1>2, <1>3, <1>4, Zenon

Declares(o, length) ==
  /\ WellShaped(o) /\ o.body = length
  /\ \A n \in Others : o.headers[n] = <<>>
  /\ o.headers["content-length"] = <<length>>

LEMMA BuildDeclares ==
  ASSUME NEW status, NEW type, NEW length, NEW extra, Blank(extra)
  PROVE  Declares(Build(status, type, length, extra), length)
<1> DEFINE o == Build(status, type, length, extra)
           first == AppendAll(Header("content-type", type), LengthAndServer(length))
<1>1. o = [status |-> status, body |-> length, headers |-> AppendAll(first, extra)]
  BY Zenon DEF Build
<1>2. WellShaped(o)
  BY <1>1, ShapeOfRecord, Zenon
<1>3. "content-type" \in HeaderName /\ "content-length" \in HeaderName
  BY NamesApart, Zenon DEF Ours
<1>4. \A n \in Others : n \in HeaderName /\ n # "content-type"
  BY NamesApart, Zenon DEF Ours
<1>5. \A n \in Others : AppendAll(first, extra)[n] = <<>>
  <2> SUFFICES ASSUME NEW n \in Others PROVE AppendAll(first, extra)[n] = <<>>
    BY Zenon
  <2>1. Header("content-type", type)[n] = <<>>
    BY <1>3, <1>4, HeaderAt, Zenon
  <2>2. first[n] = <<>> \o <<>>
    <3>1. first[n] = Header("content-type", type)[n] \o LengthAndServer(length)[n]
      BY <1>4, AppendAllAt, Zenon
    <3>2. LengthAndServer(length)[n] = <<>>
      BY LengthAndServerAt, Zenon
    <3> QED
      BY <2>1, <3>1, <3>2, Zenon
  <2>3. AppendAll(first, extra)[n] = first[n] \o extra[n] /\ extra[n] = <<>>
    BY <1>4, AppendAllAt, Zenon DEF Blank
  <2> QED
    BY <2>2, <2>3, Appending, Zenon
<1>6. AppendAll(first, extra)["content-length"] = <<length>>
  <2>1. Header("content-type", type)["content-length"] = <<>>
    BY <1>3, HeaderAt, Zenon
  <2>2. first["content-length"] = <<>> \o <<length>>
    <3>1. first["content-length"]
            = Header("content-type", type)["content-length"] \o LengthAndServer(length)["content-length"]
      BY <1>3, AppendAllAt, Zenon
    <3>2. LengthAndServer(length)["content-length"] = <<length>>
      BY LengthAndServerAt, Zenon
    <3> QED
      BY <2>1, <3>1, <3>2, Zenon
  <2>3. /\ AppendAll(first, extra)["content-length"] = first["content-length"] \o extra["content-length"]
        /\ extra["content-length"] = <<>>
    BY <1>3, AppendAllAt, Zenon DEF Blank
  <2> QED
    BY <2>2, <2>3, Appending, Zenon
<1> HIDE DEF first
<1>7. o.body = length /\ o.headers = AppendAll(first, extra)
  BY <1>1
<1> HIDE DEF o
<1>8. Declares(o, length)
  BY <1>2, <1>5, <1>6, <1>7, Zenon DEF Declares
<1> QED
  BY <1>8, Zenon DEF o

(* What a handler answers with a body it has whole.                          *)
Plainly(o) == o.body # Streamed /\ Declares(o, o.body)

LEMMA NotStreamed == \A n \in Nat : n # Streamed
BY DEF Streamed

LEMMA RangeOfOne == \A v : Range(<<v>>) = {v} /\ <<v>> # <<>>
BY DEF Range

LEMMA PlainlyWhole ==
  ASSUME NEW o, Plainly(o)
  PROVE  Declared(o) /\ Whole(o)
BY RangeOfOne, Zenon DEF Plainly, Declares, Declared, Whole

LEMMA BuiltPlainly ==
  ASSUME NEW status, NEW type, NEW length \in {0, 1}, NEW extra, Blank(extra)
  PROVE  Plainly(Build(status, type, length, extra))
<1> DEFINE o == Build(status, type, length, extra)
<1>1. Declares(o, length) /\ length # Streamed
  BY BuildDeclares, NotStreamed, Zenon
<1> HIDE DEF o
<1>2. Plainly(o)
  BY <1>1, Zenon DEF Plainly, Declares
<1> QED
  BY <1>2, Zenon DEF o

LEMMA TextPlainly ==
  ASSUME NEW status
  PROVE  Plainly(Text(status)) /\ Plainly(JsonBody(status)) /\ Plainly(EmptyBody(status, NoHeaders))
BY BlankHeaders, BuiltPlainly, Zenon DEF Text, JsonBody, EmptyBody

LEMMA AnswersPlainly ==
  ASSUME NEW route, NEW o \in Answers(route)
  PROVE  Plainly(o)
<1>1. \A status : Plainly(Text(status)) /\ Plainly(JsonBody(status))
  BY TextPlainly, Zenon
<1>2. Plainly(ServerError)
  BY TextPlainly, Zenon DEF ServerError
<1>3. \A v : Blank(Header("location", v)) /\ Blank(Header("content-type", v))
  BY BlankHeaders, Zenon DEF Ours
<1>4. Plainly(SeeOther)
  BY <1>3, BuiltPlainly, Zenon DEF SeeOther, EmptyBody
<1>5. \A status, type : Plainly(TypedText(status, type))
  BY <1>3, BuiltPlainly, Zenon DEF TypedText
<1>6. \A r \in ApiAnswers \cup UiAnswers \cup PlainAnswers : Plainly(r)
  BY <1>1, <1>2, <1>4, <1>5, Zenon DEF ApiAnswers, UiAnswers, PlainAnswers, Page
<1> QED
  BY <1>6, Zenon DEF Answers

(* A response with the headers of the upstream but the connection's, and the *)
(* length of the body it has buffered, once more.                            *)
LEMMA NonemptyAppend ==
  ASSUME NEW S, NEW s \in Seq(S), NEW v
  PROVE  s \o <<v>> # <<>>
<1>1. Len(s \o <<v>>) = Len(s) + 1 /\ Len(s) \in Nat
  OBVIOUS
<1> QED
  BY <1>1

LEMMA RelayedDeclares ==
  ASSUME upstream \in Replies
  PROVE  Declared(Relayed(Buffered))
<1> DEFINE o == Relayed(Buffered)
           theirs == [n \in HeaderName |-> IF n \in HopByHop THEN <<>> ELSE upstream.headers[n]]
           ours == LengthAndServer(Buffered)
<1>1. o = [status |-> upstream.status, body |-> Buffered, headers |-> AppendAll(theirs, ours)]
  BY Zenon DEF Relayed
<1>2. WellShaped(o)
  BY <1>1, ShapeOfRecord, Zenon
<1>3. "content-length" \in HeaderName /\ "content-length" \notin HopByHop
  BY NamesApart, Zenon DEF Ours, HopByHop
<1>4. theirs["content-length"] = upstream.headers["content-length"] /\ ours["content-length"] = <<Buffered>>
  BY <1>3, LengthAndServerAt, Zenon
<1> HIDE DEF theirs, ours
<1>5. AppendAll(theirs, ours)["content-length"] = upstream.headers["content-length"] \o <<Buffered>>
  <2>1. AppendAll(theirs, ours)["content-length"] = theirs["content-length"] \o ours["content-length"]
    BY <1>3, AppendAllAt, Zenon
  <2> QED
    BY <1>4, <2>1, Zenon
<1>6. upstream.headers["content-length"] \in Seq({upstream.length})
  BY UpstreamHeads, Zenon
<1>7. upstream.headers["content-length"] \o <<Buffered>> # <<>>
  BY <1>6, NonemptyAppend, Zenon
<1> QED
  <2>1. o.headers = AppendAll(theirs, ours)
    BY <1>1
  <2> HIDE DEF o
  <2>2. Declared(o)
    BY <1>2, <1>5, <1>7, <2>1, Zenon DEF Declared
  <2> QED
    BY <2>2, Zenon DEF o

(* The response of serve_file, whose body is streamed.                       *)
OfFile(type, length) == [Build("200", type, length, NoHeaders) EXCEPT !.body = Streamed]

LEMMA StreamedDeclares ==
  ASSUME NEW o, NEW type, NEW length, o = OfFile(type, length)
  PROVE  Declared(o) /\ o.body = Streamed /\ o.headers["content-length"] = <<length>>
<1> DEFINE b == Build("200", type, length, NoHeaders)
<1>1. Declares(b, length)
  BY BlankHeaders, BuildDeclares, Zenon
<1> HIDE DEF b
<1>2. WellShaped(b) /\ b.headers["content-length"] = <<length>>
  BY <1>1, Zenon DEF Declares
<1>3. o = [status |-> b.status, body |-> Streamed, headers |-> b.headers]
  BY <1>2, Zenon DEF b, WellShaped, OfFile
<1> QED
  <2>1. o.body = Streamed /\ o.headers = b.headers /\ o.status = b.status
    BY <1>3
  <2>2. WellShaped(o)
    BY <1>2, <1>3, <2>1, Zenon DEF WellShaped
  <2>3. <<length>> # <<>>
    BY Zenon
  <2> QED
    BY <1>2, <2>1, <2>2, <2>3, Zenon DEF Declared

LEMMA RedirectWhole ==
  ASSUME NEW o, NEW where,
         o = [status |-> "308", body |-> 0,
              headers |-> AppendAll(Header("location", where), Header("content-length", 0))]
  PROVE  Declared(o) /\ Whole(o) /\ o.headers["location"] = <<where>>
<1> DEFINE to == Header("location", where)
           declared == Header("content-length", 0)
<1>1. WellShaped(o)
  BY ShapeOfRecord, Zenon
<1>2. "location" \in HeaderName /\ "content-length" \in HeaderName
      /\ \A n \in Others : n \in HeaderName /\ n \notin {"location", "content-length"}
  BY NamesApart, Zenon DEF Ours
<1>3. \A n \in HeaderName : o.headers[n] = to[n] \o declared[n]
  BY AppendAllAt, Zenon
<1>4. \A n \in Others : to[n] = <<>> /\ declared[n] = <<>>
  BY <1>2, HeaderAt, Zenon
<1>5. to["location"] = <<where>> /\ declared["location"] = <<>>
  BY <1>2, HeaderAt, Zenon
<1>6. to["content-length"] = <<>> /\ declared["content-length"] = <<0>>
  BY <1>2, HeaderAt, Zenon
<1> HIDE DEF to, declared
<1>7. /\ \A n \in Others : o.headers[n] = <<>>
      /\ o.headers["location"] = <<where>> /\ o.headers["content-length"] = <<0>>
  BY <1>2, <1>3, <1>4, <1>5, <1>6, Appending, Zenon
<1>8. o.body = 0
  BY Zenon
<1> QED
  BY <1>1, <1>7, <1>8, RangeOfOne, Zenon DEF Declared, Whole

(* HeaderMap::insert of the middleware changes one name.                     *)
WithId(o, v) == [o EXCEPT !.headers["x-request-id"] = <<v>>]

LEMMA InsertKeeps ==
  ASSUME NEW o, NEW v, Declared(o)
  PROVE  /\ Declared(WithId(o, v)) /\ (Whole(o) => Whole(WithId(o, v)))
         /\ WithId(o, v).body = o.body /\ WithId(o, v).status = o.status
         /\ WithId(o, v).headers["content-length"] = o.headers["content-length"]
         /\ WithId(o, v).headers["x-request-id"] = <<v>>
<1> DEFINE p == WithId(o, v)
<1>1. "x-request-id" \in HeaderName /\ "content-length" \in HeaderName
      /\ \A n \in Others : n \in HeaderName /\ n # "x-request-id"
  BY NamesApart, Zenon DEF Ours
<1> DEFINE h == [o.headers EXCEPT !["x-request-id"] = <<v>>]
<1>2. p = [status |-> o.status, body |-> o.body, headers |-> h]
  BY DEF Declared, WellShaped, WithId
<1>3. h = [n \in HeaderName |-> IF n = "x-request-id" THEN <<v>> ELSE o.headers[n]]
  BY Zenon DEF Declared, WellShaped
<1> HIDE DEF h, p
<1>4. p.body = o.body /\ p.headers = h /\ p.status = o.status
  BY <1>2, Zenon
<1>5. /\ h["content-length"] = o.headers["content-length"] /\ h["x-request-id"] = <<v>>
      /\ \A n \in Others : h[n] = o.headers[n]
  BY <1>1, <1>3, Zenon
<1>6. WellShaped(p)
  BY <1>2, <1>3, <1>4, Zenon DEF WellShaped
<1>7. /\ Declared(p) /\ (Whole(o) => Whole(p)) /\ p.body = o.body /\ p.status = o.status
      /\ p.headers["content-length"] = o.headers["content-length"]
      /\ p.headers["x-request-id"] = <<v>>
  BY <1>4, <1>5, <1>6, Zenon DEF Declared, Whole
<1> QED
  BY <1>7, Zenon DEF p

----------------------------------------------------------------------------
(* The redirect finds the host in what the client sent.                      *)

LEMMA BareHostNames ==
  ASSUME NEW table \in RouteTables, NEW r \in Requests(table), r.host # <<>>
  PROVE  BareHost(r.host) = r.named
<1> DEFINE host == r.host
           name == r.named
           n == Len(name)
           port == Port(r)
           colons == IndexesOf(host, ":")
           closing == IndexesOf(host, "]")
<1>1. /\ Named(name) /\ host \in Seq(STRING) /\ host = name \o port
      /\ port # <<>> => Len(port) = 2 /\ port[1] = ":" /\ port[2] # ":"
  BY ClientRequests, Zenon
<1>2. name \in Seq(STRING) /\ n \in Nat /\ n >= 1
  <2>1. name \in Seq(STRING) /\ name # <<>>
    BY <1>1, Zenon DEF Named
  <2> HIDE DEF name
  <2>2. n \in Nat /\ n # 0
    BY <2>1, NonemptyText, Zenon
  <2> QED
    BY <2>1, <2>2
<1>3. port \in Seq(STRING)
  <2> HIDE DEF host, name
  <2>1. Len(host) \in Nat /\ \A k \in (n + 1)..Len(host) : host[k] \in STRING
    BY <1>1, <1>2
  <2>2. n + 1 \in Int /\ Len(host) \in Int
    BY <1>2, <2>1
  <2>3. SubSeq(host, n + 1, Len(host)) \in Seq(STRING)
    BY <1>1, <2>1, <2>2, SubText, Zenon
  <2> QED
    BY <2>3, Zenon DEF Port, host, name
<1> HIDE DEF host, name, port
<1>4. /\ Len(host) = n + Len(port) /\ DOMAIN host = 1..Len(host) /\ Len(port) \in Nat
      /\ \A k \in 1..n : host[k] = name[k]
      /\ \A k \in 1..Len(port) : host[n + k] = port[k]
  BY <1>1, <1>2, <1>3
<1>5. SubSeq(host, 1, n) = name
  BY <1>2, <1>4, <1>1
<1>6. CASE name[1] = "["
  <2>1. n \in closing /\ \A l \in closing : l \in Nat /\ n <= l
    <3>1. \A k \in 1..n : name[k] = "]" <=> k = n
      BY <1>1, <1>6, Zenon DEF Named
    <3> QED
      BY <1>2, <1>4, <3>1, SMTT(40) DEF IndexesOf
  <2>2. (CHOOSE k \in closing : \A l \in closing : k <= l) = n
    BY <2>1
  <2>3. host[1] = "[" /\ closing # {}
    BY <1>2, <1>4, <1>6, <2>1
  <2> QED
    BY <1>5, <2>2, <2>3, Zenon DEF BareHost, host, name
<1>7. CASE name[1] # "["
  <2>1. \A k \in 1..n : name[k] # ":"
    BY <1>1, <1>7, Zenon DEF Named
  <2>2. host[1] # "["
    BY <1>2, <1>4, <1>7
  <2>3. CASE port = <<>>
    <3>1. host = name /\ Len(host) = n
      BY <1>1, <1>2, <2>3, NothingAdded, Zenon
    <3>2. colons = {}
      BY <1>4, <2>1, <3>1, Zenon DEF IndexesOf
    <3> QED
      BY <2>2, <3>1, <3>2, Zenon DEF BareHost, host, name
  <2>4. CASE port # <<>>
    <3>1. colons = {n + 1}
      <4>1. Len(host) = n + 2 /\ host[n + 1] = ":" /\ host[n + 2] # ":"
        <5>1. Len(port) = 2 /\ port[1] = ":" /\ port[2] # ":"
          BY <1>1, <2>4, Zenon
        <5>2. Len(host) = n + 2 /\ host[n + 1] = port[1] /\ host[n + 2] = port[2]
          BY <1>4, <5>1
        <5> QED
          BY <5>1, <5>2, Zenon
      <4>2. \A k \in 1..n : host[k] # ":"
        BY <1>4, <2>1, Zenon
      <4>3. DOMAIN host = 1..n \cup {n + 1, n + 2}
        <5>1. n \in Nat /\ DOMAIN host = 1..(n + 2)
          BY <1>2, <1>4, <4>1, Zenon
        <5> HIDE DEF n
        <5> QED
          BY <5>1
      <4> QED
        BY <1>2, <4>1, <4>2, <4>3, Zenon DEF IndexesOf
    <3>2. (CHOOSE k \in colons : \A l \in colons : l <= k) = n + 1 /\ n + 1 - 1 = n
      BY <1>2, <3>1
    <3> QED
      <4>1. colons # {}
        BY <3>1, Zenon
      <4>2. BareHost(host) = SubSeq(host, 1, (CHOOSE k \in colons : \A l \in colons : l <= k) - 1)
        BY <2>2, <4>1, Zenon DEF BareHost
      <4>3. BareHost(host) = name
        <5> DEFINE last == CHOOSE k \in colons : \A l \in colons : l <= k
        <5>1. last = n + 1
          BY <3>2, Zenon
        <5>2. BareHost(host) = SubSeq(host, 1, last - 1)
          BY <4>2, Zenon
        <5> HIDE DEF last
        <5>3. last - 1 = n
          BY <1>2, <5>1
        <5> QED
          BY <1>5, <5>2, <5>3, Zenon
      <4> QED
        BY <4>3, Zenon DEF host, name
  <2> QED
    BY <2>3, <2>4, Zenon
<1> QED
  BY <1>6, <1>7, Zenon

----------------------------------------------------------------------------
(* The steps.                                                                *)

LEMMA ExchangeInitially == ExchangeInit => IInv
<1> SUFFICES ASSUME ExchangeInit PROVE IInv
  BY Zenon
<1>1. RouterTyped
  BY TypedInitially, Zenon DEF ExchangeInit
<1>2. request.listener \in {"server", "redirect"}
  BY <1>1, ClientRequests, Zenon DEF RouterTyped, Given
<1>3. PlaceInv
  BY <1>2, Zenon DEF ExchangeInit, PlaceInv, Places
<1>4. seen = {} /\ at \in {"redirect", "in"} /\ (at = "redirect" => request.listener = "redirect")
  BY <1>2, Zenon DEF ExchangeInit, Init0
<1>5. IdInv /\ OutInv
  BY <1>4, Zenon DEF IdInv, OutInv
<1>6. link \in [Paths -> Inode \cup {NoFile, Dir}] /\ size \in [Inode -> Nat]
  BY Zenon DEF ExchangeInit
<1>7. sent = 0 /\ touched = FALSE
  BY Zenon DEF ExchangeInit, Init0
<1>8. FileInv
  BY <1>4, <1>6, <1>7, Zenon DEF FileInv
<1> QED
  BY <1>1, <1>3, <1>5, <1>8, Zenon DEF IInv, EInv

(* A handler, a timeout or an error answers, with a body it has whole.       *)
LEMMA AnswerKeeps ==
  ASSUME EInv, at \in {"dispatch", "handler", "stat", "open", "fstat", "send", "relay"},
         at' = "log", Declared(out'), Whole(out') \/ out'.status = upstream'.status, out'.body # Streamed,
         UNCHANGED <<request, id, seen, link, size, sent, touched>>
  PROVE  EInv'
<1>1. PlaceInv' /\ IdInv'
  BY Zenon DEF EInv, PlaceInv, Places, IdInv, Forwarded
<1>2. OutInv'
  BY Zenon DEF OutInv
<1>3. FileInv'
  BY Zenon DEF EInv, FileInv
<1> QED
  BY <1>1, <1>2, <1>3, Zenon DEF EInv

(* A handler goes on.                                                        *)
LEMMA MoveKeeps ==
  ASSUME EInv, at \in {"dispatch", "stat", "open", "send"},
         at' \in {"dispatch", "handler", "stat", "open", "fstat", "send", "relay"},
         at' = "relay" => upstream' \in Replies,
         at' = "fstat" => handle' \in Inode \cup {Dir},
         seen' = seen \/ seen' = Forwarded,
         UNCHANGED <<request, id, link, size, sent, touched>>
  PROVE  EInv'
<1>1. PlaceInv' /\ IdInv'
  BY Zenon DEF EInv, PlaceInv, Places, IdInv, Forwarded
<1>2. OutInv'
  BY Zenon DEF OutInv
<1>3. FileInv'
  BY Zenon DEF EInv, FileInv
<1> QED
  BY <1>1, <1>2, <1>3, Zenon DEF EInv

LEMMA PlainAnswerKeeps ==
  ASSUME EInv, at \in {"dispatch", "handler", "stat", "open", "fstat", "send", "relay"},
         NEW o, Plainly(o), Responds(o),
         UNCHANGED <<request, id, seen, link, size, sent, touched>>
  PROVE  EInv'
<1>1. out' = o /\ at' = "log"
  BY Zenon DEF Responds
<1>2. Declared(out') /\ Whole(out') /\ out'.body # Streamed
  BY <1>1, PlainlyWhole, Zenon DEF Plainly
<1> QED
  BY <1>1, <1>2, AnswerKeeps, Zenon

LEMMA LogRequestKeeps ==
  ASSUME EInv, LogRequest
  PROVE  EInv'
<1>1. /\ at = "in" /\ at' = "dispatch" /\ UNCHANGED <<vars, reply, disk, file>>
      /\ id' = IF request.id = Absent THEN "minted" ELSE request.id
  BY Zenon DEF LogRequest
<1>2. UNCHANGED <<request, seen, link, size, sent, touched>>
  BY <1>1, Zenon DEF vars, reply, disk, file
<1>3. PlaceInv' /\ IdInv'
  BY <1>1, <1>2, Zenon DEF EInv, PlaceInv, Places, IdInv
<1>4. OutInv'
  BY <1>1, Zenon DEF OutInv
<1>5. FileInv'
  BY <1>1, <1>2, Zenon DEF EInv, FileInv
<1> QED
  BY <1>3, <1>4, <1>5, Zenon DEF EInv

LEMMA DispatchKeeps ==
  ASSUME EInv, Dispatch
  PROVE  EInv'
<1>1. at = "dispatch" /\ UNCHANGED <<at, id, reply, disk, file>> /\ request' = request
  BY StepKeepsRequest, Zenon DEF Dispatch
<1> QED
  BY <1>1, MoveKeeps, Zenon DEF reply, disk, file

LEMMA CallHandlerKeeps ==
  ASSUME EInv, CallHandler
  PROVE  EInv'
BY MoveKeeps, Zenon DEF CallHandler, vars, reply, disk, file

LEMMA AnsweredKeeps ==
  ASSUME EInv, NotRouted \/ HandlerAnswers \/ Timeout
  PROVE  EInv'
<1>1. /\ at \in {"dispatch", "handler", "stat", "open", "fstat", "send", "relay"}
      /\ UNCHANGED <<request, id, seen, link, size, sent, touched>>
  BY Zenon DEF NotRouted, HandlerAnswers, Timeout, vars, disk, file
<1>2. \E o : Plainly(o) /\ Responds(o)
  BY TextPlainly, AnswersPlainly, Zenon DEF NotRouted, HandlerAnswers, Timeout
<1> QED
  BY <1>1, <1>2, PlainAnswerKeeps, Zenon

LEMMA LogResponseKeeps ==
  ASSUME EInv, LogResponse
  PROVE  EInv'
<1>1. /\ at = "log" /\ out' = WithId(out, id)
      /\ at' = IF out.body = Streamed THEN "stream" ELSE "done"
  BY Zenon DEF LogResponse, WithId
<1>2. UNCHANGED <<request, id, seen, upstream, link, size, handle, sent, broken, touched>>
  BY Zenon DEF LogResponse, vars, disk, file
<1>3. Declared(out) /\ request.listener = "server"
  BY <1>1, Zenon DEF EInv, OutInv, PlaceInv
<1>4. /\ Declared(out') /\ (Whole(out) => Whole(out')) /\ out'.body = out.body /\ out'.status = out.status
      /\ out'.headers["content-length"] = out.headers["content-length"]
      /\ out'.headers["x-request-id"] = <<id>>
  BY <1>1, <1>3, InsertKeeps, Zenon
<1>5. PlaceInv' /\ IdInv'
  BY <1>1, <1>2, <1>3, Zenon DEF EInv, PlaceInv, Places, IdInv, Forwarded
<1>6. OutInv'
  BY <1>1, <1>2, <1>3, <1>4, Zenon DEF EInv, OutInv
<1>7. FileInv'
  BY <1>1, <1>2, <1>4, Zenon DEF EInv, FileInv
<1> QED
  BY <1>5, <1>6, <1>7, Zenon DEF EInv

LEMMA ResolveFinds ==
  ASSUME link \in [Paths -> Inode \cup {NoFile, Dir}], NEW p,
         Resolve(p) # NoFile, Resolve(p) # "not a directory"
  PROVE  Resolve(p) \in Inode \cup {Dir}
BY Zenon DEF Resolve

(* serve_file up to the length of the open file.                             *)
LEMMA OpeningKeeps ==
  ASSUME EInv, ServeFile \/ IoError \/ Metadata \/ Open
  PROVE  EInv'
<1>1. /\ at \in {"dispatch", "stat", "open", "fstat"}
      /\ UNCHANGED <<request, id, seen, link, size, sent, touched>>
  BY Zenon DEF ServeFile, IoError, Metadata, Open, FileUnchanged, vars, disk
<1>2. \A status : Plainly(Text(status))
  BY TextPlainly, Zenon
<1>3. (\E status : Responds(Text(status))) => EInv'
  BY <1>1, <1>2, PlainAnswerKeeps, Zenon
<1>4. link \in [Paths -> Inode \cup {NoFile, Dir}]
  BY Zenon DEF EInv, FileInv
<1>5. CASE ServeFile
  <2>1. at = "dispatch" /\ (at' = "stat" \/ \E status : Responds(Text(status)))
    BY <1>5, Zenon DEF ServeFile
  <2> QED
    BY <1>1, <1>3, <2>1, MoveKeeps, Zenon
<1>6. CASE IoError
  BY <1>3, <1>6, Zenon DEF IoError
<1>7. CASE Metadata
  <2>1. at = "stat" /\ (at' = "open" \/ \E status : Responds(Text(status)))
    BY <1>7, Zenon DEF Metadata
  <2> QED
    BY <1>1, <1>3, <2>1, MoveKeeps, Zenon
<1>8. CASE Open
  <2>1. at = "open" /\ (\/ at' = "fstat" /\ handle' \in Inode \cup {Dir}
                        \/ \E status : Responds(Text(status)))
    BY <1>4, <1>8, ResolveFinds, Zenon DEF Open
  <2> QED
    BY <1>1, <1>3, <2>1, MoveKeeps, Zenon
<1> QED
  BY <1>5, <1>6, <1>7, <1>8, Zenon

(* The length is the open file's.                                            *)
LEMMA FstatKeeps ==
  ASSUME EInv, Fstat
  PROVE  EInv'
<1>1. /\ at = "fstat" /\ at' = "log" /\ UNCHANGED handle
      /\ UNCHANGED <<request, id, seen, link, size, sent, touched>>
  BY Zenon DEF Fstat, FileUnchanged, vars, disk
<1>2. out' = OfFile(FromPath(target), LengthOf(handle))
  BY Zenon DEF Fstat, OfFile
<1>3. /\ Declared(out') /\ out'.body = Streamed
      /\ out'.headers["content-length"] = <<LengthOf(handle)>>
  BY <1>2, StreamedDeclares, Zenon
<1>4. PlaceInv' /\ IdInv'
  BY <1>1, Zenon DEF EInv, PlaceInv, Places, IdInv, Forwarded
<1>5. OutInv'
  BY <1>1, <1>3, Zenon DEF OutInv
<1>6. FileInv'
  <2>1. handle \in Inode \cup {Dir} /\ sent = 0 /\ size \in [Inode -> Nat]
    BY <1>1, Zenon DEF EInv, FileInv
  <2>2. handle \in Inode => LengthOf(handle) = size[handle] /\ sent <= size[handle]
    BY <2>1 DEF LengthOf
  <2> QED
    BY <1>1, <1>3, <2>1, <2>2, Zenon DEF EInv, FileInv
<1> QED
  BY <1>4, <1>5, <1>6, Zenon DEF EInv

LEMMA StreamingKeeps ==
  ASSUME EInv, StreamChunk \/ StreamEnd \/ StreamError
  PROVE  EInv'
<1>1. /\ at = "stream" /\ at' \in {"stream", "done"}
      /\ UNCHANGED <<request, id, seen, upstream, out, link, size, handle, touched>>
  BY Zenon DEF StreamChunk, StreamEnd, StreamError, StreamUnchanged, vars, reply, disk
<1>2. PlaceInv' /\ IdInv'
  BY <1>1, Zenon DEF EInv, PlaceInv, Places, IdInv, Forwarded
<1>3. OutInv'
  BY <1>1, Zenon DEF EInv, PlaceInv, OutInv, FileInv
<1>4. /\ sent \in Nat /\ out.body = Streamed /\ size \in [Inode -> Nat]
      /\ ~touched /\ handle \in Inode =>
           out.headers["content-length"] = <<size[handle]>> /\ sent <= size[handle]
  BY <1>1, Zenon DEF EInv, FileInv
<1>5. CASE StreamChunk
  <2>1. at' = "stream" /\ handle \in Inode /\ sent < size[handle] /\ sent' = sent + 1
    BY <1>1, <1>5, Zenon DEF StreamChunk
  <2>2. sent' \in Nat /\ sent' <= size[handle]
    BY <1>4, <2>1
  <2>3. FileInv'
    BY <1>1, <1>4, <2>1, <2>2, Zenon DEF EInv, FileInv
  <2> QED
    BY <1>2, <1>3, <2>3, Zenon DEF EInv
<1>6. CASE StreamEnd
  <2>1. at' = "done" /\ handle \in Inode /\ sent >= size[handle] /\ sent' = sent /\ broken' = broken
    BY <1>6, Zenon DEF StreamEnd
  <2>2. ~touched => out.headers["content-length"] = <<sent>>
    <3>1. size[handle] \in Nat
      BY <1>4, <2>1, Zenon
    <3>2. sent <= size[handle] => sent = size[handle]
      BY <1>4, <2>1, <3>1
    <3> QED
      BY <1>4, <2>1, <3>2, Zenon
  <2>3. FileInv'
    BY <1>1, <1>4, <2>1, <2>2, Zenon DEF EInv, FileInv
  <2> QED
    BY <1>2, <1>3, <2>3, Zenon DEF EInv
<1>7. CASE StreamError
  <2>1. at' = "done" /\ broken' = TRUE /\ sent' = sent
    BY <1>7, Zenon DEF StreamError
  <2>2. FileInv'
    BY <1>1, <1>4, <2>1, Zenon DEF EInv, FileInv
  <2> QED
    BY <1>2, <1>3, <2>2, Zenon DEF EInv
<1> QED
  BY <1>5, <1>6, <1>7, Zenon

LEMMA ProxyKeeps ==
  ASSUME EInv, ProxyNext
  PROVE  EInv'
<1>1. /\ at \in {"dispatch", "send", "relay"}
      /\ UNCHANGED <<request, id, link, size, sent, touched>>
  BY Zenon DEF ProxyNext, Send, Unreachable, UpstreamHead, Relay, BodyFails, vars, disk, file
<1>2. CASE Send
  BY <1>1, <1>2, MoveKeeps, Zenon DEF Send
<1>3. CASE UpstreamHead
  BY <1>1, <1>3, MoveKeeps, Zenon DEF UpstreamHead
<1>4. CASE Unreachable \/ BodyFails
  <2>1. Responds(Text("502")) /\ seen' = seen
    BY <1>4, Zenon DEF Unreachable, BodyFails, BadGateway
  <2> QED
    BY <1>1, <2>1, TextPlainly, PlainAnswerKeeps, Zenon
<1>5. CASE Relay
  <2>1. at = "relay" /\ out' = Relayed(Buffered) /\ at' = "log" /\ seen' = seen
    BY <1>5, Zenon DEF Relay, Responds
  <2>2. upstream \in Replies
    BY <2>1, Zenon DEF EInv, OutInv
  <2>3. out'.body = Buffered /\ Buffered \in Nat /\ out'.status = upstream.status /\ upstream' = upstream
    BY <1>5, <2>1, <2>2, UpstreamHeads, Zenon DEF Relay, Relayed, Buffered
  <2>4. out'.body # Streamed
    BY <2>3, NotStreamed, Zenon
  <2> QED
    BY <1>1, <2>1, <2>2, <2>3, <2>4, RelayedDeclares, AnswerKeeps, Zenon
<1> QED
  BY <1>2, <1>3, <1>4, <1>5, Zenon DEF ProxyNext

(* Whatever is deployed, the open file keeps its length unless it is written *)
(* to.                                                                       *)
LEMMA DeployKeeps ==
  ASSUME EInv, Deploy
  PROVE  EInv'
<1>1. /\ at \in {"stat", "open", "fstat", "log", "stream"} /\ at' = at
      /\ UNCHANGED <<request, id, seen, upstream, out, handle, sent, broken>>
  BY Zenon DEF Deploy, Rename, Rewrite, Deploying, vars, reply
<1>2. PlaceInv' /\ IdInv' /\ OutInv'
  BY <1>1, Zenon DEF EInv, PlaceInv, IdInv, OutInv, Forwarded
<1>3. ASSUME NEW p \in Paths, NEW f \in Inode \cup {NoFile, Dir}, Rename(p, f) PROVE FileInv'
  <2>1. link' = [link EXCEPT ![p] = f] /\ UNCHANGED <<size, touched>>
    BY <1>3, Zenon DEF Rename
  <2>2. link' \in [Paths -> Inode \cup {NoFile, Dir}]
    BY <2>1, Zenon DEF EInv, FileInv
  <2> QED
    BY <1>1, <2>1, <2>2, Zenon DEF EInv, FileInv
<1>4. ASSUME NEW f \in Inode, NEW n \in 0..MaxLength, Rewrite(f, n) PROVE FileInv'
  <2>1. /\ size' = [size EXCEPT ![f] = n] /\ link' = link
        /\ touched' = (touched \/ (f = handle /\ at \in {"log", "stream"}))
    BY <1>4, Zenon DEF Rewrite
  <2>2. size' \in [Inode -> Nat]
    <3>1. n \in Nat
      OBVIOUS
    <3>2. size \in [Inode -> Nat]
      BY Zenon DEF EInv, FileInv
    <3> QED
      BY <2>1, <3>1, <3>2, Zenon
  <2>3. touched' \in BOOLEAN /\ (at \notin {"log", "stream"} => touched' = touched)
    BY <2>1, Zenon DEF EInv, FileInv
  <2>4. at \in {"log", "stream"} /\ ~touched' /\ handle \in Inode => ~touched /\ size'[handle] = size[handle]
    BY <2>1, Zenon DEF EInv, FileInv
  <2> QED
    BY <1>1, <2>1, <2>2, <2>3, <2>4, Zenon DEF EInv, FileInv
<1> QED
  BY <1>2, <1>3, <1>4, Zenon DEF Deploy, EInv

LEMMA RedirectKeeps ==
  ASSUME EInv, RedirectAnswer
  PROVE  EInv'
<1>1. /\ at = "redirect" /\ at' = "done" /\ request.listener = "redirect"
      /\ UNCHANGED <<request, id, seen, link, size, sent, touched>>
  BY Zenon DEF RedirectAnswer, vars, disk, file, EInv, PlaceInv
<1>2. PICK port \in {"443", "8443"} :
        out' = [status |-> "308", body |-> 0,
                headers |-> AppendAll(Header("location", Location(request.host, port)),
                                      Header("content-length", 0))]
  BY Zenon DEF RedirectAnswer
<1>3. /\ Declared(out') /\ Whole(out')
      /\ out'.headers["location"] = <<Location(request.host, port)>> /\ out'.body = 0
  BY <1>2, RedirectWhole, Zenon
<1>4. PlaceInv' /\ IdInv'
  BY <1>1, Zenon DEF EInv, PlaceInv, Places, IdInv
<1>5. OutInv'
  BY <1>1, <1>3, Zenon DEF OutInv, Location
<1>6. FileInv'
  <2>1. 0 # Streamed /\ out'.body = 0
    BY <1>3, NotStreamed
  <2> QED
    BY <1>1, <2>1, Zenon DEF EInv, FileInv
<1> QED
  BY <1>4, <1>5, <1>6, Zenon DEF EInv

LEMMA StutterKeeps ==
  ASSUME EInv, UNCHANGED evars
  PROVE  EInv'
<1>1. UNCHANGED <<request, at, id, seen, upstream, out, link, size, handle, sent, broken, touched>>
  BY Zenon DEF evars, vars, reply, disk, file
<1>2. PlaceInv' /\ IdInv'
  BY <1>1, Zenon DEF EInv, PlaceInv, IdInv, Forwarded
<1>3. OutInv'
  BY <1>1, Zenon DEF EInv, OutInv, Location
<1>4. FileInv'
  BY <1>1, Zenon DEF EInv, FileInv
<1> QED
  BY <1>2, <1>3, <1>4, Zenon DEF EInv

LEMMA Inductive == IInv /\ [ExchangeNext]_evars => IInv'
<1> SUFFICES ASSUME IInv, [ExchangeNext]_evars PROVE IInv'
  BY Zenon
<1>1. RouterTyped /\ EInv
  BY Zenon DEF IInv
<1>2. RouterTyped'
  <2>1. CASE Dispatch
    BY <1>1, <2>1, StepKeepsTypes, Zenon DEF Dispatch
  <2>2. CASE ~Dispatch
    <3>1. UNCHANGED vars
      BY <2>2, Zenon DEF ExchangeNext, LogRequest, NotRouted, CallHandler, HandlerAnswers, Timeout, LogResponse, Static,
         ServeFile, IoError, Metadata, Open, Fstat, FileUnchanged, StreamChunk, StreamEnd,
         StreamError, StreamUnchanged, ProxyNext, Send, Unreachable, UpstreamHead, Relay,
         BodyFails, Deploy, Rename, Rewrite, Deploying, RedirectAnswer, Finished, evars
    <3> QED
      BY <1>1, <3>1, Zenon DEF RouterTyped, Given, TypeOK, Pattern, vars
  <2> QED
    BY <2>1, <2>2, Zenon
<1>3. EInv'
  <2>1. CASE Static
    BY <1>1, <2>1, OpeningKeeps, FstatKeeps, StreamingKeeps, Zenon DEF Static
  <2>2. CASE Finished \/ UNCHANGED evars
    BY <1>1, <2>2, StutterKeeps, Zenon DEF Finished
  <2> QED
    BY <1>1, <2>1, <2>2, LogRequestKeeps, DispatchKeeps, CallHandlerKeeps, AnsweredKeeps, LogResponseKeeps,
       ProxyKeeps, DeployKeeps, RedirectKeeps, Zenon DEF ExchangeNext
<1> QED
  BY <1>2, <1>3, Zenon DEF IInv

THEOREM Invariance == ExchangeSpec => []IInv
BY ExchangeInitially, Inductive, PTL DEF ExchangeSpec

----------------------------------------------------------------------------
(* The theorems.                                                             *)

(* The response carries one x-request-id, the client's or the minted one, and *)
(* the upstream was sent the same (LoggingService::call, proxy_request).      *)
THEOREM IdCorrelates == ExchangeSpec => []RequestIdCorrelates
<1>1. IInv => RequestIdCorrelates
  <2> SUFFICES ASSUME IInv, FromServer PROVE RequestIdCorrelates
    BY Zenon DEF RequestIdCorrelates
  <2>1. at = "done" /\ request.listener = "server" /\ EInv /\ Given
    BY Zenon DEF FromServer, IInv, RouterTyped
  <2>2. "x-request-id" \notin request.headers
    BY <2>1, ClientRequests, Zenon DEF Given
  <2>3. out.headers["x-request-id"] = <<id>>
    BY <2>1, Zenon DEF EInv, OutInv
  <2>4. request.id # Absent => id = request.id
    BY <2>1, Zenon DEF EInv, IdInv
  <2>5. {h \in Forwarded : h[1] = "x-request-id"} = {<<"x-request-id", id>>}
    BY <2>2 DEF Forwarded
  <2>6. seen = {} \/ seen = Forwarded
    BY <2>1, Zenon DEF EInv, IdInv
  <2> QED
    BY <2>3, <2>4, <2>5, <2>6, Zenon DEF RequestIdCorrelates
<1> QED
  BY <1>1, Invariance, PTL

(* Every answer of the server's own declares one length, that of its body,    *)
(* and has no header of an upstream that failed or was late, for any replies  *)
(* (ResponseBuilder, bad_gateway, the timeout in handle_connection).          *)
THEOREM OwnAnswersAreWhole == ExchangeSpec => []OwnAnswersWhole
<1>1. IInv => OwnAnswersWhole
  BY Zenon DEF IInv, EInv, OutInv, Whole, Others, OwnAnswersWhole
<1> QED
  BY <1>1, Invariance, PTL

(* A file is sent as long as was declared, whatever is renamed meanwhile and  *)
(* for any lengths, unless the open file is written to or cannot be read      *)
(* (serve_file).                                                              *)
THEOREM ServedFileIsComplete == ExchangeSpec => []ServedFileComplete
<1>1. IInv => ServedFileComplete
  <2> SUFFICES ASSUME IInv, at = "done", out.body = Streamed, ~broken, ~touched
               PROVE  Values("content-length") = {sent}
    BY Zenon DEF ServedFileComplete
  <2>1. out.headers["content-length"] = <<sent>>
    BY Zenon DEF IInv, EInv, FileInv
  <2> QED
    BY <2>1 DEF Values, Range
<1> QED
  BY <1>1, Invariance, PTL

(* A redirect names the host the client named, without its port, whatever the *)
(* name or address (serve_redirect_connection).                               *)
THEOREM RedirectDoesKeepHost == ExchangeSpec => []RedirectKeepsHost
<1>1. IInv => RedirectKeepsHost
  <2> SUFFICES ASSUME IInv, at = "done", request.listener = "redirect", NEW l \in Values("location")
               PROVE  /\ l.path = request.path
                      /\ l.host = IF request.host = <<>> THEN <<"localhost">> ELSE request.named
    BY Zenon DEF RedirectKeepsHost
  <2>1. PICK port \in {"443", "8443"} : out.headers["location"] = <<Location(request.host, port)>>
    BY Zenon DEF IInv, EInv, OutInv
  <2>2. l = Location(request.host, port)
    BY <2>1, RangeOfOne, Zenon DEF Values
  <2>3. CASE request.host = <<>>
    <3>1. BareHost(<<"localhost">>) = <<"localhost">>
      BY DEF BareHost, IndexesOf
    <3> QED
      BY <2>2, <2>3, <3>1, Zenon DEF Location
  <2>4. CASE request.host # <<>>
    <3>1. BareHost(request.host) = request.named
      BY <2>4, BareHostNames, Zenon DEF IInv, RouterTyped, Given
    <3> QED
      BY <2>2, <2>4, <3>1, Zenon DEF Location
  <2> QED
    BY <2>3, <2>4, Zenon
<1> QED
  BY <1>1, Invariance, PTL

(* The types, and that no response leaves before a handler gave one or is     *)
(* streamed from no file.                                                     *)
THEOREM ExchangeTypes == ExchangeSpec => []ExchangeTypeOK
<1>1. IInv => ExchangeTypeOK
  <2> SUFFICES ASSUME IInv PROVE ExchangeTypeOK
    BY Zenon
  <2>1. TypeOK /\ at \in Places /\ sent \in Nat /\ link \in [Paths -> Inode \cup {NoFile, Dir}]
    BY Zenon DEF IInv, RouterTyped, EInv, PlaceInv, FileInv
  <2>2. at \in {"log", "stream", "done"} => out # Unanswered
    <3>1. "content-length" \in HeaderName
      BY NamesApart, Zenon DEF Ours
    <3>2. Unanswered.headers["content-length"] = <<>>
      BY <3>1, HeaderAt, Zenon DEF Unanswered
    <3> QED
      BY <3>2, Zenon DEF IInv, EInv, OutInv, Declared
  <2>3. at = "stream" => handle # "none"
    BY Inodes, Zenon DEF IInv, EInv, FileInv, Dir
  <2> QED
    BY <2>1, <2>2, <2>3, Zenon DEF ExchangeTypeOK, Places
<1> QED
  BY <1>1, Invariance, PTL
=============================================================================
