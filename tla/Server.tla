-------------------------------- MODULE Server --------------------------------
(***************************************************************************)
(* The server as a whole: the accept loop and its drain (AcceptLoop), the  *)
(* requests on the connections it spawns (RequestPipeline), the threads    *)
(* that run blocking closures (BlockingPool), and the end of the process   *)
(* in main.rs, which drops the runtime under all of them.                  *)
(*                                                                         *)
(* Every step is a step of one component, or a joint step where the code   *)
(* touches two: the broadcast, a connection task that sees it, the return  *)
(* of handle_connection, a handler that calls run_blocking or is dropped   *)
(* while it awaits it.                                                     *)
(***************************************************************************)
EXTENDS Naturals, Sequences, FiniteSets

CONSTANTS
  Conn, MaxConnections, TlsEnabled, PeerIp, BlockedIps, AllowedIps,
  MaxConcurrent, MaxRequests,
  HandlerAnswers,  \* the status classes handlers respond with
  Thread, Free, Detached

ASSUME ConnFinite == IsFiniteSet(Conn)
ASSUME LimitsNat == MaxConnections \in Nat /\ MaxConcurrent \in Nat
ASSUME TlsEnabledBool == TlsEnabled \in BOOLEAN
ASSUME AnswerClasses == HandlerAnswers \subseteq {"2xx", "3xx", "4xx", "5xx"}
ASSUME NoConn == Free \notin Conn /\ Detached \notin Conn

VARIABLES
  \* the accept loop and its tasks
  main, conn, shutdown, connection_limit, in_flight, permit, expired, drain,
  accepted, rejected_ip, late, stale,
  \* the watch channel
  broadcast,
  \* the requests
  phase, graceful, concurrency_limiter, m, requests, ended,
  \* the blocking pool
  queue, thread, result, down,
  \* the process: "running", then "stopping" while main drops the runtime
  process

loopVars == <<main, conn, shutdown, connection_limit, in_flight, permit,
              expired, drain, accepted, rejected_ip, late, stale>>
requestVars == <<phase, graceful, concurrency_limiter, m, requests, ended>>
poolVars == <<queue, thread, result, down>>

vars == <<loopVars, broadcast, requestVars, poolVars, process>>

A == INSTANCE AcceptLoop WITH available <- connection_limit, outcome <- drain

P == INSTANCE RequestPipeline WITH available <- concurrency_limiter,
                                   outcome <- ended

B == INSTANCE BlockingPool

Init ==
  /\ A!Init
  /\ P!Init
  /\ B!Init
  /\ process = "running"

-----------------------------------------------------------------------------
(* The accept loop, the handshakes and the ends of tasks, and the drain.   *)

LoopOnly == UNCHANGED <<requestVars, poolVars, process>>

ShutdownSignal == A!ShutdownSignal /\ LoopOnly

Main ==
  \/ A!Loop /\ LoopOnly
  \/ A!LoadBeforeSettle /\ LoopOnly
  \/ A!SettleOver /\ LoopOnly
  \/ A!LoadRemaining /\ LoopOnly
  \/ A!Recheck /\ LoopOnly
  \/ A!PollNotified /\ LoopOnly
  \/ A!PollTimer /\ LoopOnly
  \/ A!Woken /\ LoopOnly

DrainDeadline == A!DrainDeadline /\ LoopOnly

Handshake(c) == (A!HandshakeOk(c) \/ A!HandshakeFails(c)) /\ LoopOnly

(* Variant: the broadcast is sent, and then taken back.                    *)
SendShutdownSilently ==
  /\ A!MainGoes("send", "load")
  /\ UNCHANGED <<broadcast, conn, shutdown, connection_limit, in_flight,
                 permit, expired, drain, accepted, rejected_ip, late, stale>>
  /\ LoopOnly

SendShutdown ==
  /\ A!SendShutdown
  /\ P!SendShutdown
  /\ UNCHANGED <<poolVars, process>>

(* Variant: the task does not wait for handle_connection.                  *)
ConnectionEndsUnawaited(c) == A!ConnectionEnds(c) /\ LoopOnly

(* handle_connection has returned.                                         *)
ConnectionEnds(c) ==
  /\ phase[c] = "over"
  /\ A!ConnectionEnds(c)
  /\ LoopOnly

(* From the return of handle_connection a task runs to its end.            *)
TaskEnds(c) ==
  \/ ConnectionEnds(c)
  \/ (A!CountOut(c) \/ A!NotifyOne(c) \/ A!ReleasePermit(c)) /\ LoopOnly

-----------------------------------------------------------------------------
(* Requests, on a connection whose task runs handle_connection.            *)

Served(c) == conn[c] \in {"serving", "closing"}

RequestOnly == UNCHANGED <<loopVars, poolVars, process>>

Middleware(c) == Served(c) /\ P!Middleware(c) /\ RequestOnly

StartInner(c) ==
  /\ Served(c)
  /\ P!DeclaredTooLarge(c) \/ P!CollectBody(c)
  /\ RequestOnly

ReadBody(c) ==
  /\ Served(c)
  /\ P!BodyRejected(c) \/ P!BodyCollected(c)
  /\ RequestOnly

(* The handler hands a closure to the pool: fib, or a file operation.  The *)
(* body of a response that streams a file does so for each of its reads.   *)
CallBlocking(c) ==
  /\ Served(c)
  /\ phase[c] = "dispatch" \/ (phase[c] = "writing" /\ result[c] = "ready")
  /\ B!RunBlocking(c)
  /\ UNCHANGED <<loopVars, broadcast, requestVars, process>>

(* The handler is woken, if it awaited a closure, and responds: 500 when   *)
(* the closure was cancelled.  It is done with the pool, unless the body   *)
(* is a file that it has opened.                                           *)
HandlerResponds(c) ==
  /\ Served(c)
  /\ result[c] # "awaited"
  /\ \E class \in IF result[c] = "cancelled" THEN {"5xx"}
                                             ELSE HandlerAnswers :
       P!Respond(c, m, class)
  /\ B!Forget(c) \/ (result[c] = "ready" /\ UNCHANGED poolVars)
  /\ UNCHANGED <<loopVars, process>>

(* Variant: the response waits until a running closure has returned.       *)
DispatchTimeoutAwaiting(c) ==
  /\ Served(c)
  /\ result[c] # "awaited"
  /\ P!DispatchTimeout(c)
  /\ B!Forget(c)
  /\ UNCHANGED <<loopVars, process>>

(* The timeout drops the handler; the closure it awaited goes on.          *)
DispatchTimeout(c) ==
  /\ Served(c)
  /\ P!DispatchTimeout(c)
  /\ B!Forget(c)
  /\ UNCHANGED <<loopVars, process>>

(* The response is written to its end, and its body is dropped.            *)
NextRequest(c) ==
  /\ Served(c)
  /\ result[c] \in {"none", "ready"}
  /\ P!KeepAlive(c)
  /\ B!Forget(c)
  /\ UNCHANGED <<loopVars, process>>

(* handle_connection leaves its loop, with the handler of a request or the *)
(* body of a response.  A response does not end before its reads.          *)
LeaveLoop(c) ==
  /\ Served(c)
  /\ \/ P!ConnectionDone(c) /\ result[c] # "awaited"
     \/ P!ClientGone(c)
     \/ P!KaTimeout(c)
  /\ B!Forget(c)
  /\ UNCHANGED <<loopVars, process>>

SeeBroadcast(c) ==
  /\ A!SeeBroadcast(c)
  /\ P!SeeBroadcast(c)
  /\ UNCHANGED <<poolVars, process>>

-----------------------------------------------------------------------------
(* The blocking pool, and the end of main.                                 *)

PoolOnly == UNCHANGED <<loopVars, broadcast, requestVars, process>>

TakeClosure(t) == B!TakeClosure(t) /\ PoolOnly

ClosureReturns(t) == B!ClosureReturns(t) /\ PoolOnly

(* block_on has returned, and main drops the runtime.                      *)
DropRuntime ==
  /\ main = "returned"
  /\ process = "running"
  /\ process' = "stopping"
  /\ B!Shutdown
  /\ UNCHANGED <<loopVars, broadcast, requestVars>>

(* Variant: the permit of the limiter outlives the request.                *)
DropTaskKeepingPermit(c) ==
  /\ process = "stopping"
  /\ A!DropTask(c)
  /\ IF conn[c] = "handshake"
       THEN UNCHANGED requestVars
       ELSE /\ phase[c] \in P!Pollable
            /\ phase' = [phase EXCEPT ![c] = "over"]
            /\ ended' = [ended EXCEPT ![c] = "dropped"]
            /\ UNCHANGED <<graceful, concurrency_limiter, m, requests>>
  /\ B!Forget(c)
  /\ UNCHANGED process

(* A task is dropped where it awaits, and its request with it.             *)
DropTask(c) ==
  /\ process = "stopping"
  /\ A!DropTask(c)
  /\ IF conn[c] = "handshake" THEN UNCHANGED requestVars
                              ELSE P!TaskDropped(c)
  /\ B!Forget(c)
  /\ UNCHANGED process

(* The drop of the runtime waits for its threads.                          *)
Exit ==
  /\ process = "stopping"
  /\ A!In(A!Over) = Conn
  /\ B!Joined
  /\ process' = "exited"
  /\ UNCHANGED <<loopVars, broadcast, requestVars, poolVars>>

Exited == process = "exited" /\ UNCHANGED vars

-----------------------------------------------------------------------------

Task(c) ==
  \/ Handshake(c) \/ TaskEnds(c) \/ SeeBroadcast(c)
  \/ Middleware(c) \/ StartInner(c) \/ ReadBody(c) \/ CallBlocking(c)
  \/ HandlerResponds(c) \/ DispatchTimeout(c) \/ NextRequest(c)
  \/ LeaveLoop(c)

Next ==
  \/ ShutdownSignal \/ Main \/ SendShutdown \/ DrainDeadline
  \/ \E c \in Conn : Task(c) \/ DropTask(c)
  \/ \E t \in Thread : TakeClosure(t) \/ ClosureReturns(t)
  \/ DropRuntime \/ Exit \/ Exited

Spec == Init /\ [][Next]_vars

(* A task that need not wait for a client, a handler or a closure.         *)
Runs(c) == TaskEnds(c) \/ StartInner(c) \/ DispatchTimeout(c)

(* The runtime is dropped, its tasks one after another, then its threads.  *)
Teardown == DropRuntime \/ (\E c \in Conn : DropTask(c)) \/ Exit

(***************************************************************************)
(* What the runtime guarantees: the main task runs, a task that need not   *)
(* wait for anybody runs, a woken task is polled, the timer of a dispatch  *)
(* fires, an idle thread of the pool takes a closure, and dropping the     *)
(* runtime goes on.  Nothing is assumed of clients, handlers or closures.  *)
(***************************************************************************)
FairSpec ==
  /\ Spec
  /\ WF_vars(Main \/ SendShutdown)
  /\ \A c \in Conn : WF_vars(Runs(c)) /\ WF_vars(SeeBroadcast(c))
  /\ \A t \in Thread : WF_vars(TakeClosure(t))
  /\ WF_vars(Teardown)

-----------------------------------------------------------------------------
(* Properties.                                                             *)

TypeOK ==
  /\ A!TypeOK
  /\ P!TypeOK
  /\ B!TypeOK
  /\ process \in {"running", "stopping", "exited"}

(* The accept loop inside the server is the one AcceptLoop describes:      *)
(* serving requests adds nothing to what it does, and every result about   *)
(* AcceptLoop holds of the server.                                         *)
AcceptLoopImplemented == A!Spec

(* The requests inside the server are those RequestPipeline describes,     *)
(* although their connections are accepted, end and are dropped here.      *)
RequestPipelineImplemented == P!Spec

(* What in_flight reaching 0 tells the drain: a connection that was        *)
(* counted out, or never admitted, has no request in progress, holds no    *)
(* permit of the limiter and has no handler awaiting the pool.             *)
CountedOutIsFinished ==
  \A c \in Conn : conn[c] \notin {"serving", "closing"} =>
    /\ phase[c] \in {"idle", "over"}
    /\ result[c] = "none"
    /\ \A t \in Thread : thread[t] # c

(* "every active connection can finish its current request" (accept_loop): *)
(* the exit takes a request with it only after the drain timeout, or when  *)
(* a notification was left from before the drain.                          *)
ExitLosesNothing ==
  \A c \in Conn : ended[c] = "dropped" =>
    drain = "timeout" \/ (drain = "drained" /\ stale)

(* Once the shutdown is broadcast, no handler holds up the drain, even if  *)
(* the closures it calls never return: what is left to wait for are TLS    *)
(* handshakes, which no timer bounds and which do not watch the broadcast, *)
(* request bodies, and responses that are being written, to a client that  *)
(* reads them or from a file that the pool reads.                          *)
HandlersDoNotHoldUpDrain ==
  broadcast ~> [](\A c \in Conn :
    \/ conn[c] \in A!Over \cup {"handshake"}
    \/ Served(c) /\ phase[c] \in {"body", "writing"})

(* The process ends after a signal, whatever clients do, if the timer of   *)
(* the drain fires and the closures return: dropping the runtime cancels   *)
(* the closures that still wait and joins the threads.                     *)
ProcessExits ==
  WF_vars(DrainDeadline) /\ (\A t \in Thread : WF_vars(ClosureReturns(t)))
    => (shutdown ~> process = "exited")
==============================================================================
