--------------------------- MODULE RequestPipeline ---------------------------
(***************************************************************************)
(* One request after another on each connection: handle_connection in      *)
(* src/server/connection.rs with the middleware stack it composes (the     *)
(* rate limiter's refusal, the concurrency limiter of                      *)
(* src/middleware/concurrency.rs) and the counters of src/metrics.rs.      *)
(*                                                                         *)
(* Connections run in tasks of a multi-threaded runtime.  A step is what   *)
(* one poll of the task does up to its next await; the counters are        *)
(* atomics that nothing branches on, and their updates within a step       *)
(* commute with the steps of other tasks.  Requests on a connection follow *)
(* each other, as in HTTP/1.1.  Hyper parses and writes: it is modelled by *)
(* what handle_connection sees of it.                                      *)
(***************************************************************************)
EXTENDS Naturals, FiniteSets

CONSTANTS
  Conn,           \* accepted connections
  MaxConcurrent,  \* config.max_concurrent_requests
  MaxRequests     \* bound on the requests clients send

ASSUME ConnFinite == IsFiniteSet(Conn)
ASSUME MaxConcurrentNat == MaxConcurrent \in Nat

VARIABLES
  phase,      \* where each connection is
  graceful,   \* the flag of each connection's select loop
  broadcast,  \* the value of the shutdown watch channel
  available,  \* permits left in concurrency_limiter
  m,          \* the Metrics counters of requests
  requests,   \* history: requests the clients sent
  outcome     \* history: how each connection ended

vars == <<phase, graceful, broadcast, available, m, requests, outcome>>

(***************************************************************************)
(* An "idle" connection has no request.  The future of the request runs    *)
(* from "started" to "dispatch" and holds the permit; "writing" is left to *)
(* Hyper.  There is no await in "started": the select loop of the task     *)
(* cannot look at anything else before the phase is left.                  *)
(***************************************************************************)
Holding == {"started", "body", "dispatch"}
Busy == Holding \cup {"writing"}
Phase == Busy \cup {"idle", "over"}
Pollable == Phase \ {"started", "over"}

StatusClass == {"2xx", "3xx", "4xx", "5xx"}

In(S) == {c \in Conn : phase[c] \in S}

Metrics ==
  [requests_total : Nat, requests_active : Nat, responses_2xx : Nat,
   responses_4xx : Nat, responses_5xx : Nat, rate_limited : Nat,
   concurrency_limited : Nat, timed_out : Nat]

TypeOK ==
  /\ phase \in [Conn -> Phase]
  /\ graceful \in [Conn -> BOOLEAN]
  /\ broadcast \in BOOLEAN
  /\ available \in Nat
  /\ m \in Metrics
  /\ requests \in Nat
  /\ outcome \in [Conn -> {"open", "clean", "client", "keepalive", "cut",
                              "dropped"}]

Init ==
  /\ phase = [c \in Conn |-> "idle"]
  /\ graceful = [c \in Conn |-> FALSE]
  /\ broadcast = FALSE
  /\ available = MaxConcurrent
  /\ m = [requests_total |-> 0, requests_active |-> 0, responses_2xx |-> 0,
          responses_4xx |-> 0, responses_5xx |-> 0, rate_limited |-> 0,
          concurrency_limited |-> 0, timed_out |-> 0]
  /\ requests = 0
  /\ outcome = [c \in Conn |-> "open"]

Goes(c, from, to) == phase[c] = from /\ phase' = [phase EXCEPT ![c] = to]

ConnUnchanged == UNCHANGED <<graceful, broadcast, outcome>>

-----------------------------------------------------------------------------
(* The middleware stack: a request arrives whose head Hyper has parsed.    *)

Arrives == requests < MaxRequests /\ requests' = requests + 1

(* RateLimiterService::call answers 429 before the inner layers see the    *)
(* request; when it does so is the subject of RateLimiter.                 *)
RefuseRate(c) ==
  /\ Arrives
  /\ Goes(c, "idle", "writing")
  /\ ConnUnchanged /\ UNCHANGED <<available, m>>

(* ConcurrencyLimiterService::call: try_acquire_owned fails.               *)
RefuseConcurrency(c) ==
  /\ Arrives
  /\ available = 0
  /\ Goes(c, "idle", "writing")
  /\ ConnUnchanged /\ UNCHANGED <<available, m>>

(* try_acquire_owned succeeds, and the inner service counts the request.   *)
Admit(c) ==
  /\ Arrives
  /\ available > 0
  /\ Goes(c, "idle", "started")
  /\ available' = available - 1
  /\ m' = [m EXCEPT !.requests_total = @ + 1, !.requests_active = @ + 1]
  /\ ConnUnchanged

-----------------------------------------------------------------------------
(* The inner service.                                                      *)

(* A return before the dispatch: the permit is released with the future,   *)
(* the counters stay as they are.                                          *)
ReturnEarly(c, from) ==
  /\ Goes(c, from, "writing")
  /\ available' = available + 1
  /\ ConnUnchanged /\ UNCHANGED <<m, requests>>

(* 413: content-length is above max_body_bytes.                            *)
DeclaredTooLarge(c) == ReturnEarly(c, "started")

(* The body is awaited.                                                    *)
CollectBody(c) ==
  /\ Goes(c, "started", "body")
  /\ ConnUnchanged /\ UNCHANGED <<available, m, requests>>

(* 413, the body collected is above max_body_bytes, or 400, the client     *)
(* failed to send it.                                                      *)
BodyRejected(c) == ReturnEarly(c, "body")

BodyCollected(c) ==
  /\ Goes(c, "body", "dispatch")
  /\ ConnUnchanged /\ UNCHANGED <<available, m, requests>>

(* The counter a status class is added to.                                 *)
CountResponse(metrics, class) ==
  CASE class = "2xx"           -> [metrics EXCEPT !.responses_2xx = @ + 1]
    [] class \in {"3xx", "4xx"} -> [metrics EXCEPT !.responses_4xx = @ + 1]
    [] class = "5xx"           -> [metrics EXCEPT !.responses_5xx = @ + 1]

(* The end of the inner service, and of the future that holds the permit.  *)
Respond(c, metrics, class) ==
  /\ Goes(c, "dispatch", "writing")
  /\ m' = [CountResponse(metrics, class) EXCEPT !.requests_active = @ - 1]
  /\ available' = available + 1
  /\ ConnUnchanged /\ UNCHANGED requests

(* The handler the router chose returns a response.                        *)
DispatchDone(c) == \E class \in StatusClass : Respond(c, m, class)

(* REQUEST_TIMEOUT_SECS pass first: the handler is dropped, 503.           *)
DispatchTimeout(c) ==
  Respond(c, [m EXCEPT !.timed_out = @ + 1], "5xx")

-----------------------------------------------------------------------------
(* The select loop of handle_connection.                                   *)

(* Variant: the permit is only released by a future that completes.        *)
LeaveKeepingPermit(c, why) ==
  /\ phase[c] \in Pollable
  /\ phase' = [phase EXCEPT ![c] = "over"]
  /\ outcome' = [outcome EXCEPT ![c] = why]
  /\ UNCHANGED <<broadcast, available, m, requests>>

(* Leaving the loop drops the connection, with it the future of a request  *)
(* in progress, with it the permit.                                        *)
Leave(c, why) ==
  /\ phase[c] \in Pollable
  /\ phase' = [phase EXCEPT ![c] = "over"]
  /\ available' = IF phase[c] \in Holding THEN available + 1 ELSE available
  /\ outcome' = [outcome EXCEPT ![c] = why]
  /\ UNCHANGED <<broadcast, m, requests>>

(* Variant: a response does not end a connection that is shutting down.    *)
KeepAliveAnyway(c) ==
  /\ Goes(c, "writing", "idle")
  /\ ConnUnchanged /\ UNCHANGED <<available, m, requests>>

(* Hyper has written the response and waits for the next request.          *)
KeepAlive(c) ==
  /\ ~graceful[c]
  /\ Goes(c, "writing", "idle")
  /\ ConnUnchanged /\ UNCHANGED <<available, m, requests>>

(* The connection future ends after a response: it was told to shut down,  *)
(* or the client asked for it.                                             *)
ConnectionDone(c) ==
  /\ phase[c] = "writing"
  /\ Leave(c, "clean")
  /\ UNCHANGED graceful

(* The connection future ends because the client closed or broke it.       *)
ClientGone(c) ==
  /\ Leave(c, "client")
  /\ UNCHANGED graceful

(* shutdown_rx.changed(): graceful_shutdown() ends an idle connection, and *)
(* any other after its request.                                            *)
SeeBroadcast(c) ==
  /\ broadcast /\ ~graceful[c]
  /\ phase[c] \in Pollable
  /\ graceful' = [graceful EXCEPT ![c] = TRUE]
  /\ IF phase[c] = "idle"
       THEN Leave(c, "clean")
       ELSE UNCHANGED <<phase, broadcast, available, m, requests, outcome>>

(* Variant: the timer only ends a connection without a request.            *)
KaTimeoutWhenIdle(c) ==
  /\ ~graceful[c]
  /\ phase[c] = "idle"
  /\ Leave(c, "keepalive")
  /\ UNCHANGED graceful

(* ka_timeout, armed when the connection was accepted and never again.     *)
KaTimeout(c) ==
  /\ ~graceful[c]
  /\ Leave(c, IF phase[c] \in Busy THEN "cut" ELSE "keepalive")
  /\ UNCHANGED graceful

(* The drain is over and the runtime drops the task where it awaits.       *)
TaskDropped(c) ==
  /\ broadcast
  /\ Leave(c, "dropped")
  /\ UNCHANGED graceful

(* shutdown_tx.send(true) in the accept loop.                              *)
SendShutdown ==
  /\ ~broadcast
  /\ broadcast' = TRUE
  /\ UNCHANGED <<phase, graceful, available, m, requests, outcome>>

Done == In({"over"}) = Conn /\ broadcast /\ UNCHANGED vars

-----------------------------------------------------------------------------

Middleware(c) == RefuseRate(c) \/ RefuseConcurrency(c) \/ Admit(c)

Inner(c) ==
  \/ DeclaredTooLarge(c) \/ CollectBody(c)
  \/ BodyRejected(c) \/ BodyCollected(c)
  \/ DispatchDone(c) \/ DispatchTimeout(c)

Select(c) ==
  \/ KeepAlive(c) \/ ConnectionDone(c) \/ ClientGone(c)
  \/ SeeBroadcast(c) \/ KaTimeout(c) \/ TaskDropped(c)

Next ==
  \/ \E c \in Conn : Middleware(c) \/ Inner(c) \/ Select(c)
  \/ SendShutdown
  \/ Done

Spec == Init /\ [][Next]_vars

(***************************************************************************)
(* What the runtime guarantees: a task that was woken is polled, and a     *)
(* dispatch ends when its timer fires.  Nothing is assumed of clients.     *)
(***************************************************************************)
FairSpec ==
  /\ Spec
  /\ \A c \in Conn : /\ WF_vars(SeeBroadcast(c))
                     /\ WF_vars(DeclaredTooLarge(c) \/ CollectBody(c))
                     /\ WF_vars(DispatchTimeout(c))

-----------------------------------------------------------------------------
(* Properties.                                                             *)

(* "released (via Drop) when the response future completes, whether it     *)
(* succeeds, errors, or panics" (concurrency.rs): on every path, the early *)
(* returns, the timeout and a dropped connection included, the permits of  *)
(* the concurrency limiter are the free ones and those of the requests in  *)
(* progress.                                                               *)
PermitsConserved == available + Cardinality(In(Holding)) = MaxConcurrent

(* No request keeps its permit for good before the shutdown, although no   *)
(* timer of its own bounds the wait for its body: the dispatch has one,    *)
(* and the keep-alive timer of the connection, which is not rearmed by a   *)
(* request, drops a connection whose client does not send its body.  The   *)
(* timer fires: that is assumed.                                           *)
PermitsComeBack ==
  (\A c \in Conn : WF_vars(KaTimeout(c))) =>
    \A c \in Conn :
      phase[c] \in Holding ~> (phase[c] \notin Holding \/ broadcast)

(* Once the shutdown is broadcast, connections remain only for a client    *)
(* that is still sending a body, and for a response that is being written, *)
(* to a client that reads it or from a file that is read for it: no        *)
(* dispatch and no idle connection holds up the drain.                     *)
OnlyClientsHoldUpDrain ==
  broadcast ~> [](\A c \in Conn : phase[c] \in {"over", "body", "writing"})

(* "HTTP/1.1 connections with no in-flight request are closed after this   *)
(* many seconds of inactivity" (keep_alive_timeout_secs in config.rs): the *)
(* keep-alive timer leaves requests in progress alone.  It does not:       *)
(* ka_timeout is never reset.                                              *)
KeepAliveSparesRequests == \A c \in Conn : outcome[c] # "cut"

(* "In-flight requests currently being processed" (Metrics): the gauge     *)
(* returns to the number of requests in progress.  It does not: an early   *)
(* return or a dropped connection leaves it incremented.                   *)
GaugeIsExact == m.requests_active = Cardinality(In(Holding))
==============================================================================
