------------------------------ MODULE Exchange ------------------------------
(***************************************************************************)
(* One request from the logging middleware through the router to its        *)
(* handler and back, while the files it may serve are replaced and the      *)
(* upstream it may be proxied to answers or fails.  Handlers over the        *)
(* database are in UiSessions and ItemsApi; here they only answer.           *)
(*                                                                           *)
(* `request` of the Router has more fields: id and headers (the names of     *)
(* the others), fields (what was typed into a form), query, host, the        *)
(* listener it came to, and whether files are deployed while it is served.   *)
(***************************************************************************)
EXTENDS RouteTable, Forms, Functions

CONSTANTS HeaderName,  \* the names of headers
          Replies,     \* the heads an upstream may answer with (external)
          Inode,       \* regular files
          MaxLength,   \* bound: the length of a file
          MaxChanges   \* bound: changes on disk while a file is served

HopByHop == {"connection", "keep-alive", "proxy-authenticate", "proxy-authorization",
             "te", "trailer", "transfer-encoding", "upgrade"}

(* The names the server sets, but for cookies and the policies of a page.    *)
Ours == {"content-type", "content-length", "server", "location", "x-request-id"}

ASSUME HeaderNames == HopByHop \cup Ours \subseteq HeaderName

(* `length` is the length of the body, or the one it would have where the    *)
(* answer has none (see Buffered).  If a length is declared, it is this one: *)
(* a body of another length is an error of the body.                         *)
ASSUME UpstreamHeads ==
  \A r \in Replies : r.length \in Nat /\ r.headers["content-length"] \in Seq({r.length})

VARIABLES at,       \* where the request is
          id,       \* its x-request-id, after the middleware
          form,     \* what the handler read from the body or the query
          seen,     \* history: the headers the upstream was sent
          upstream, \* the head of the upstream's response
          out,      \* the response
          link,     \* the files of STATIC_DIR, by path
          size,     \* the length of each regular file
          target,   \* the path serve_file looks at
          handle,   \* the file it has open
          sent,     \* history: how much of the file was streamed
          broken,   \* history: a read failed
          touched,  \* history: the open file was written to
          changes   \* history: changes on disk

reply == <<form, seen, upstream, out>>
disk == <<link, size, changes>>
file == <<target, handle, sent, broken, touched>>
evars == <<vars, at, id, reply, disk, file>>

Absent == "absent"
Streamed == -1

(* A HeaderMap: the values of each name, in the order they were appended.    *)
NoHeaders == [n \in HeaderName |-> <<>>]
Header(name, value) == [NoHeaders EXCEPT ![name] = <<value>>]
AppendAll(h, g) == [n \in HeaderName |-> h[n] \o g[n]]

Unanswered == [status |-> "none", body |-> 0, headers |-> NoHeaders]
NoReply == [status |-> "none", length |-> 0, headers |-> NoHeaders]
NoHandler == [method |-> "none", segments |-> <<>>]

----------------------------------------------------------------------------
(* ResponseBuilder.  The lengths of bodies are 1, or 0 when empty.           *)
LengthAndServer(length) ==
  AppendAll(Header("content-length", length), Header("server", "rust-highperf-server"))

Build(status, type, length, extra) ==
  [status |-> status, body |-> length,
   headers |-> AppendAll(AppendAll(Header("content-type", type), LengthAndServer(length)), extra)]

Text(status) == Build(status, "text/plain", 1, NoHeaders)
JsonBody(status) == Build(status, "application/json", 1, NoHeaders)
EmptyBody(status, extra) == Build(status, "text/plain", 0, extra)
SeeOther == EmptyBody("302", Header("location", "a page"))

(* TemplateEngine::render and the text of /metrics set a type of their own   *)
(* besides the builder's.                                                    *)
TypedText(status, type) == Build(status, "text/plain", 1, Header("content-type", type))
Page == {TypedText("200", "text/html"), TypedText("500", "text/html")}

(* What the handlers that touch neither the disk nor the upstream answer, by *)
(* the group of their route; which of these an item or a session calls for   *)
(* is in ItemsApi and UiSessions.                                            *)
ServerError == EmptyBody("500", NoHeaders)

ApiHandlers == {AuthToken, ListItems, GetItem, CreateItem, DeleteItem}
UiHandlers == {UiIndex, UiLoginForm, UiLogin, UiLogout, UiItems, UiCreate, UiDelete, UiMetrics}

ApiAnswers == {JsonBody(s) : s \in {"200", "201", "400", "401", "404"}} \cup {ServerError}
UiAnswers == Page \cup {SeeOther, Text("403"), ServerError}
PlainAnswers == {Text("200"), TypedText("200", "text/plain"), SeeOther, ServerError}

Answers(route) ==
  CASE route \in ApiHandlers -> ApiAnswers
    [] route \in UiHandlers  -> UiAnswers
    [] OTHER               -> PlainAnswers

(* The handlers without an await: they answer when they are first polled.    *)
Immediate == {Root, Health, Echo, Ui, UiLoginForm, MetricsText}

----------------------------------------------------------------------------
(* The fields the handlers read.  Letters stand for the keys username,       *)
(* password, _csrf, name, description and flash.                             *)
KeyU == <<117>>
KeyP == <<112>>
KeyC == <<99>>
KeyN == <<110>>
KeyD == <<100>>
KeyF == <<102>>

Body == EncodeForm(request.fields)

Reads(route) ==
  CASE route = UiLogin  -> <<FormField(Body, KeyU), FormField(Body, KeyP)>>
    [] route = UiCreate -> <<UnwrapOrDefault(FormParam(Body, KeyC)), FormField(Body, KeyN), FormField(Body, KeyD)>>
    [] route \in {UiLogout, UiDelete} -> <<UnwrapOrDefault(FormParam(Body, KeyC))>>
    [] route = UiItems  -> <<FormParam(KeyF \o <<Equals>> \o request.query, KeyF)>>
    [] OTHER -> <<>>

----------------------------------------------------------------------------
Init0 ==
  /\ id = Absent /\ form = <<>> /\ seen = {} /\ upstream = NoReply /\ out = Unanswered
  /\ handle = "none" /\ target = <<>> /\ sent = 0 /\ broken = FALSE /\ touched = FALSE
  /\ changes = 0

Paths == {<<"a">>, <<"index.html">>}
NoFile == "no file"
Dir == "directory"

ASSUME Inodes == Inode \cap {"none", NoFile, Dir, "not a directory"} = {}

(* The disk is empty and stays so unless the request says otherwise.         *)
ExchangeInit ==
  /\ Init /\ Init0
  /\ at = IF request.listener = "redirect" THEN "redirect" ELSE "in"
  /\ link \in IF request.deployed THEN [Paths -> Inode \cup {NoFile, Dir}]
                        ELSE {[p \in Paths |-> NoFile]}
  /\ size = [f \in Inode |-> 1]

Responds(response_) == out' = response_ /\ at' = "log"

(* LoggingService::call, before the call of the inner service.               *)
LogRequest ==
  /\ at = "in" /\ at' = "dispatch"
  /\ id' = IF request.id = Absent THEN "minted" ELSE request.id
  /\ UNCHANGED <<vars, reply, disk, file>>

Dispatch == at = "dispatch" /\ Step /\ UNCHANGED <<at, id, reply, disk, file>>

NotRouted ==
  /\ at = "dispatch" /\ response.status \in {"404", "405"}
  /\ Responds(IF response.status = "405" THEN EmptyBody("405", NoHeaders) ELSE Text("404"))
  /\ UNCHANGED <<vars, id, form, seen, upstream, disk, file>>

Called == IF response.status = "handled" /\ routes \in Registered
            THEN routes[response.route] ELSE NoHandler

CallHandler ==
  /\ at = "dispatch" /\ Called \notin {NoHandler, StaticFile, Proxy}
  /\ at' = "handler"
  /\ UNCHANGED <<vars, id, reply, disk, file>>

HandlerAnswers ==
  /\ at = "handler"
  /\ form' = Reads(Called)
  /\ \E r \in Answers(Called) : Responds(r)
  /\ UNCHANGED <<vars, id, seen, upstream, disk, file>>

(* tokio::time::timeout around the dispatch: while a handler awaits.         *)
Timeout ==
  /\ \/ at = "handler" /\ Called \notin Immediate
     \/ at \in {"stat", "open", "fstat", "send", "relay"}
  /\ Responds(Text("503"))
  /\ UNCHANGED <<vars, id, form, seen, upstream, disk, file>>

(* Variant: the header is appended.                                          *)
LogResponseAppending ==
  /\ at = "log"
  /\ out' = [out EXCEPT !.headers["x-request-id"] = Append(@, id)]
  /\ at' = IF out.body = Streamed THEN "stream" ELSE "done"
  /\ UNCHANGED <<vars, id, form, seen, upstream, disk, file>>

(* LoggingService::call, after it: HeaderMap::insert replaces.  The body of  *)
(* a file is streamed afterwards.                                            *)
LogResponse ==
  /\ at = "log"
  /\ out' = [out EXCEPT !.headers["x-request-id"] = <<id>>]
  /\ at' = IF out.body = Streamed THEN "stream" ELSE "done"
  /\ UNCHANGED <<vars, id, form, seen, upstream, disk, file>>

----------------------------------------------------------------------------
(* serve_file.                                                               *)

(* sanitize_path, on the segments of the capture; they are not decoded.      *)
Filepath == LET c == {p \in response.params : p[1] = "filepath"}
            IN  IF c = {} THEN <<>> ELSE (CHOOSE p \in c : TRUE)[2]

Safe == ".." \notin Range(Filepath)
Sanitized == Without(Filepath, ".")

(* What the file system has at a path; STATIC_DIR itself is a directory.     *)
Resolve(p) ==
  IF p = <<>> THEN Dir
  ELSE IF p \in Paths THEN link[p]
  ELSE IF \E n \in 1..(Len(p) - 1) : SubSeq(p, 1, n) \in Paths /\ link[SubSeq(p, 1, n)] \in Inode
    THEN "not a directory"
  ELSE NoFile

FileUnchanged == UNCHANGED <<vars, id, form, seen, upstream, disk, sent, broken, touched>>

ServeFile ==
  /\ at = "dispatch" /\ Called = StaticFile
  /\ IF Safe THEN target' = Sanitized /\ at' = "stat" /\ UNCHANGED out
             ELSE Responds(Text("403")) /\ UNCHANGED target
  /\ UNCHANGED handle /\ FileUnchanged

(* Any call may fail for a reason of its own (500).                          *)
IoError ==
  /\ at \in {"stat", "open", "fstat"}
  /\ Responds(Text("500"))
  /\ UNCHANGED <<target, handle>> /\ FileUnchanged

Metadata ==
  /\ at = "stat"
  /\ LET found == Resolve(target) IN
       CASE found = NoFile            -> Responds(Text("404")) /\ UNCHANGED target
         [] found = "not a directory" -> Responds(Text("500")) /\ UNCHANGED target
         [] OTHER -> /\ target' = IF found = Dir THEN Append(target, "index.html") ELSE target
                     /\ at' = "open" /\ UNCHANGED out
  /\ UNCHANGED handle /\ FileUnchanged

(* A directory can be opened.                                                *)
Open ==
  /\ at = "open"
  /\ LET found == Resolve(target) IN
       CASE found = NoFile            -> Responds(Text("404")) /\ UNCHANGED handle
         [] found = "not a directory" -> Responds(Text("500")) /\ UNCHANGED handle
         [] OTHER -> handle' = found /\ at' = "fstat" /\ UNCHANGED out
  /\ UNCHANGED target /\ FileUnchanged

LengthOf(f) == IF f \in Inode THEN size[f] ELSE 1

(* mime::from_path: by the extension of the path that was opened.            *)
FromPath(p) == IF p[Len(p)] = "index.html" THEN "text/html" ELSE "application/octet-stream"

(* Variant: the length is looked up by path again.                           *)
FstatByPath ==
  /\ at = "fstat"
  /\ out' = [Build("200", FromPath(target), LengthOf(Resolve(target)), NoHeaders) EXCEPT !.body = Streamed]
  /\ at' = "log"
  /\ UNCHANGED <<target, handle>> /\ FileUnchanged

(* The length of the open file; then stream_body.                            *)
Fstat ==
  /\ at = "fstat"
  /\ out' = [Build("200", FromPath(target), LengthOf(handle), NoHeaders) EXCEPT !.body = Streamed]
  /\ at' = "log"
  /\ UNCHANGED <<target, handle>> /\ FileUnchanged

(* The ReaderStream: chunks until the end of the file as it is now.  An      *)
(* error ends it, and a directory gives nothing else.                        *)
StreamUnchanged == UNCHANGED <<vars, id, reply, disk, target, handle, touched>>

StreamChunk ==
  /\ at = "stream" /\ handle \in Inode /\ sent < size[handle]
  /\ sent' = sent + 1
  /\ UNCHANGED <<at, broken>> /\ StreamUnchanged

StreamEnd ==
  /\ at = "stream" /\ handle \in Inode /\ sent >= size[handle]
  /\ at' = "done"
  /\ UNCHANGED <<sent, broken>> /\ StreamUnchanged

StreamError ==
  /\ at = "stream"
  /\ broken' = TRUE /\ at' = "done"
  /\ UNCHANGED sent /\ StreamUnchanged

(* Meanwhile somebody deploys: a path is bound to another file (rename), to  *)
(* a directory or to nothing, or a file is written in place.                 *)
Deploying ==
  /\ request.deployed /\ at \in {"stat", "open", "fstat", "log", "stream"}
  /\ changes < MaxChanges /\ changes' = changes + 1
  /\ UNCHANGED <<vars, at, id, reply, target, handle, sent, broken>>

Rename(p, f) ==
  /\ Deploying
  /\ link' = [link EXCEPT ![p] = f]
  /\ UNCHANGED <<size, touched>>

Rewrite(f, n) ==
  /\ Deploying
  /\ size' = [size EXCEPT ![f] = n]
  /\ touched' = (touched \/ (f = handle /\ at \in {"log", "stream"}))
  /\ UNCHANGED link

----------------------------------------------------------------------------
(* proxy_request.                                                            *)
BadGateway == Text("502")

(* The middleware has put its id into the request's headers.  reqwest sets a *)
(* host of its own.                                                          *)
Forwarded ==
  {<<h, "client's">> : h \in request.headers \ (HopByHop \cup {"host"})}
    \cup {<<"x-request-id", id>>}

Send ==
  /\ at = "dispatch" /\ Called = Proxy
  /\ seen' = Forwarded
  /\ at' = "send"
  /\ UNCHANGED <<vars, id, form, upstream, out, disk, file>>

Unreachable ==
  /\ at = "send"
  /\ Responds(BadGateway)
  /\ UNCHANGED <<vars, id, form, seen, upstream, disk, file>>

UpstreamHead ==
  /\ at = "send" /\ at' = "relay"
  /\ \E r \in Replies : upstream' = r
  /\ UNCHANGED <<vars, id, form, seen, out, disk, file>>

(* upstream.bytes(): an answer to HEAD, and a 204 or a 304, have no body,    *)
(* whatever length they declare.                                             *)
Buffered == IF request.method = "HEAD" \/ upstream.status \in {"204", "304"} THEN 0 ELSE upstream.length

Relayed(length) ==
  [status |-> upstream.status, body |-> length,
   headers |-> AppendAll([n \in HeaderName |-> IF n \in HopByHop THEN <<>> ELSE upstream.headers[n]],
                       LengthAndServer(length))]

Relay ==
  /\ at = "relay"
  /\ Responds(Relayed(Buffered))
  /\ UNCHANGED <<vars, id, form, seen, upstream, disk, file>>

(* Variant: the response is under way when its body fails.                   *)
BodyFailsLate ==
  /\ at = "relay"
  /\ Responds([Relayed(Buffered) EXCEPT !.status = "502", !.body = 0])
  /\ UNCHANGED <<vars, id, form, seen, upstream, disk, file>>

(* upstream.bytes() failed.                                                  *)
BodyFails ==
  /\ at = "relay"
  /\ Responds(BadGateway)
  /\ UNCHANGED <<vars, id, form, seen, upstream, disk, file>>

----------------------------------------------------------------------------
(* serve_redirect_connection.  A host is the sequence of its parts: names,   *)
(* colons and brackets.  The HTTPS listener's port is 8443 or the default.   *)
IndexesOf(host, part) == {k \in DOMAIN host : host[k] = part}

(* Variant: the last colon ends any host.                                    *)
BareHostAtColon(host) ==
  LET colons == IndexesOf(host, ":")
  IN  IF colons = {} THEN host
      ELSE SubSeq(host, 1, (CHOOSE k \in colons : \A l \in colons : l <= k) - 1)

BareHost(host) ==
  LET colons == IndexesOf(host, ":")
      closing == IndexesOf(host, "]")
  IN  IF host[1] = "["
        THEN IF closing = {} THEN host
             ELSE SubSeq(host, 1, CHOOSE k \in closing : \A l \in closing : k <= l)
      ELSE IF colons = {} THEN host
      ELSE SubSeq(host, 1, (CHOOSE k \in colons : \A l \in colons : l <= k) - 1)

Location(host, port) ==
  [host |-> BareHost(IF host = <<>> THEN <<"localhost">> ELSE host),
   port |-> IF port = "443" THEN <<>> ELSE <<":", port>>, path |-> request.path]

(* A host as a client names it: a name or an IPv4 address, which have no     *)
(* colons, or an IPv6 address in brackets; then a port, if any.              *)
Named(name) ==
  /\ name \in Seq(STRING) /\ name # <<>>
  /\ IF name[1] = "[" THEN \A k \in 1..Len(name) : name[k] = "]" <=> k = Len(name)
                      ELSE \A k \in 1..Len(name) : name[k] # ":"

Port(r) == SubSeq(r.host, Len(r.named) + 1, Len(r.host))

(* What clients send.  `headers` are the names but x-request-id; the inputs  *)
(* of a form have different names; the query is one parameter.               *)
ASSUME ClientRequests ==
  \A table \in RouteTables : \A r \in Requests(table) :
    /\ r.listener \in {"server", "redirect"}
    /\ "x-request-id" \notin r.headers
    /\ r.fields \in Seq(Input)
    /\ \A k, l \in DOMAIN r.fields : r.fields[k].key = r.fields[l].key => k = l
    /\ r.query \in Seq(0..127 \ {Ampersand})
    /\ r.host # <<>> =>
         /\ Named(r.named) /\ r.host \in Seq(STRING) /\ r.host = r.named \o Port(r)
         /\ Port(r) # <<>> => Len(Port(r)) = 2 /\ Port(r)[1] = ":" /\ Port(r)[2] # ":"

RedirectAnswer ==
  /\ at = "redirect" /\ at' = "done"
  /\ \E port \in {"443", "8443"} :
       out' = [status |-> "308", body |-> 0,
               headers |-> AppendAll(Header("location", Location(request.host, port)),
                                   Header("content-length", 0))]
  /\ UNCHANGED <<vars, id, form, seen, upstream, disk, file>>

----------------------------------------------------------------------------
Static == ServeFile \/ IoError \/ Metadata \/ Open \/ Fstat
            \/ StreamChunk \/ StreamEnd \/ StreamError

ProxyNext == Send \/ Unreachable \/ UpstreamHead \/ Relay \/ BodyFails

Deploy == \/ \E p \in Paths, f \in Inode \cup {NoFile, Dir} : Rename(p, f)
          \/ \E f \in Inode, n \in 0..MaxLength : Rewrite(f, n)

Finished ==
  /\ at = "done" \/ (at = "dispatch" /\ response.status = "handled" /\ Called = NoHandler)
  /\ UNCHANGED evars

ExchangeNext ==
  \/ LogRequest \/ Dispatch \/ NotRouted \/ CallHandler \/ HandlerAnswers \/ Timeout \/ LogResponse
  \/ Static \/ ProxyNext \/ Deploy \/ RedirectAnswer \/ Finished

ExchangeSpec == ExchangeInit /\ [][ExchangeNext]_evars

----------------------------------------------------------------------------
Values(name) == Range(out.headers[name])
FromServer == at = "done" /\ request.listener = "server"

(* A client, the upstream and the log agree on the id of a request: the      *)
(* response has one x-request-id, which is the one the client sent, if any,   *)
(* and the one the upstream was sent, whatever the upstream, a timeout or an  *)
(* error did to the response (middleware/logging.rs: "so clients can         *)
(* correlate").                                                              *)
RequestIdCorrelates ==
  FromServer =>
    /\ out.headers["x-request-id"] = <<id>>
    /\ request.id # Absent => id = request.id
    /\ seen # {} => {h \in seen : h[1] = "x-request-id"} = {<<"x-request-id", id>>}

(* "The `content-length` header must always match the actual body byte       *)
(* count" (tests/phase6_integration.rs), and the proxy means to "Overwrite   *)
(* content-length (we buffer the body)" (proxy/mod.rs): a response whose     *)
(* body is in memory declares one length, that of the body.  The code        *)
(* appends its own to the upstream's instead.                                *)
ContentLengthHonest ==
  at = "done" /\ out.body # Streamed => out.headers["content-length"] = <<out.body>>

(* An answer of the server's own is whole: it declares one length, that of   *)
(* its body, and carries nothing of an upstream, not even when the upstream  *)
(* had answered and its body failed or the time was up.  An answer with      *)
(* another status than the upstream's is the server's own.                   *)
OwnAnswersWhole ==
  at = "done" /\ out.body # Streamed /\ out.status # upstream.status =>
    /\ out.headers["content-length"] = <<out.body>>
    /\ \A n \in HeaderName \ Ours : out.headers[n] = <<>>

(* A served file is complete whatever is deployed meanwhile: the body has    *)
(* the length that was declared, unless the open file itself was written to  *)
(* or could not be read ("avoids the TOCTOU window", static_files/mod.rs).   *)
ServedFileComplete ==
  at = "done" /\ out.body = Streamed /\ ~broken /\ ~touched =>
    Values("content-length") = {sent}

Typed(key) ==
  LET found == {n \in DOMAIN request.fields : request.fields[n].key = key}
  IN  IF found = {} THEN <<>> ELSE request.fields[Min(found)].value

(* What was typed into a browser's form is what the handler reads, in both   *)
(* ways the handlers have of reading a form; and percent_decode, given a     *)
(* query of any text that decodes to UTF-8, decodes the escapes its comment  *)
(* describes and leaves the rest as it is.  (Of bytes that are not UTF-8 the *)
(* comment says that they "are passed through unchanged"; the code puts      *)
(* U+FFFD in their place.)                                                   *)
FormRoundTrip ==
  FromServer /\ form # <<>> =>
    CASE Called = UiLogin  -> form = <<Typed(KeyU), Typed(KeyP)>>
      [] Called = UiCreate -> form = <<Typed(KeyC), Typed(KeyN), Typed(KeyD)>>
      [] Called \in {UiLogout, UiDelete} -> form = <<Typed(KeyC)>>
      [] Called = UiItems  -> IsUtf8(DecodedBytes(request.query)) =>
                                form = <<Utf8(DecodedBytes(request.query))>>
      [] OTHER -> TRUE

(* Redirected clients reach the host they named: a name, an IPv4 address or  *)
(* a bracketed IPv6 address, with or without a port.                         *)
RedirectKeepsHost ==
  at = "done" /\ request.listener = "redirect" =>
    \A l \in Values("location") :
      /\ l.path = request.path
      /\ l.host = IF request.host = <<>> THEN <<"localhost">> ELSE request.named

ExchangeTypeOK ==
  /\ TypeOK
  /\ at \in {"redirect", "in", "dispatch", "handler", "stat", "open", "fstat", "send", "relay", "log",
             "stream", "done"}
  /\ at \in {"log", "stream", "done"} => out # Unanswered
  /\ at = "stream" => handle # "none"
  /\ sent \in Nat /\ link \in [Paths -> Inode \cup {NoFile, Dir}]
=============================================================================
