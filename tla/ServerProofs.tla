----------------------------- MODULE ServerProofs -----------------------------
(***************************************************************************)
(* Proofs about Server: the composition implements each of the two         *)
(* components it is made of, so that what is proved of them holds of the   *)
(* server, and with that the two properties that need both.                *)
(***************************************************************************)
EXTENDS Server, TLAPS

-----------------------------------------------------------------------------
(* The composition implements the accept loop.                             *)

(* A step that leaves the variables of the loop and the channel alone.     *)
LEMMA LoopStutters ==
  ASSUME UNCHANGED <<loopVars, broadcast>>
  PROVE  UNCHANGED A!vars
BY Zenon DEF loopVars, A!vars

(* Requests only read the channel.                                         *)
LEMMA ChannelKept ==
  ASSUME NEW c \in Conn,
         \/ P!Middleware(c) \/ P!Inner(c)
         \/ P!KeepAlive(c) \/ P!ConnectionDone(c) \/ P!ClientGone(c)
         \/ P!SeeBroadcast(c) \/ P!KaTimeout(c) \/ P!TaskDropped(c)
  PROVE  UNCHANGED broadcast
<1>1. CASE P!Middleware(c)
  BY <1>1, Zenon DEF P!Middleware, P!RefuseRate, P!RefuseConcurrency, P!Admit,
              P!ConnUnchanged
<1>2. CASE P!Inner(c)
  BY <1>2, Zenon DEF P!Inner, P!DeclaredTooLarge, P!CollectBody, P!BodyRejected,
              P!BodyCollected, P!DispatchDone, P!DispatchTimeout, P!Respond,
              P!ReturnEarly, P!ConnUnchanged
<1>3. CASE \/ P!KeepAlive(c) \/ P!ConnectionDone(c) \/ P!ClientGone(c)
           \/ P!SeeBroadcast(c) \/ P!KaTimeout(c) \/ P!TaskDropped(c)
  BY <1>3, Zenon DEF P!KeepAlive, P!ConnectionDone, P!ClientGone, P!SeeBroadcast,
              P!KaTimeout, P!TaskDropped, P!Leave, P!ConnUnchanged
<1> QED
  BY <1>1, <1>2, <1>3, Zenon

LEMMA LoopStep == [Next]_vars => [A!Next]_(A!vars)
<1> SUFFICES ASSUME [Next]_vars PROVE [A!Next]_(A!vars)
  BY Zenon
<1>1. CASE ShutdownSignal \/ Main \/ SendShutdown \/ DrainDeadline
  BY <1>1, Zenon DEF ShutdownSignal, Main, SendShutdown, DrainDeadline, A!Next,
              A!Drain
<1>2. ASSUME NEW c \in Conn, Task(c) PROVE [A!Next]_(A!vars)
  <2>1. CASE Handshake(c) \/ TaskEnds(c) \/ SeeBroadcast(c)
    BY <2>1, Zenon DEF Handshake, TaskEnds, ConnectionEnds, SeeBroadcast, A!Next,
                A!Task
  <2>2. CASE CallBlocking(c)
    BY <2>2, LoopStutters, Zenon DEF CallBlocking
  <2>3. CASE Middleware(c) \/ StartInner(c) \/ ReadBody(c)
    BY <2>3, LoopStutters, ChannelKept, Zenon
       DEF Middleware, StartInner, ReadBody, RequestOnly, P!Inner
  <2>4. CASE HandlerResponds(c) \/ DispatchTimeout(c)
    <3>1. UNCHANGED broadcast
      BY <2>4, Zenon DEF HandlerResponds, DispatchTimeout, P!DispatchTimeout,
                  P!Respond, P!ConnUnchanged
    <3> QED
      BY <2>4, <3>1, LoopStutters, Zenon DEF HandlerResponds, DispatchTimeout
  <2>5. CASE NextRequest(c) \/ LeaveLoop(c)
    BY <2>5, LoopStutters, ChannelKept, Zenon DEF NextRequest, LeaveLoop
  <2> QED
    BY <1>2, <2>1, <2>2, <2>3, <2>4, <2>5, Zenon DEF Task
<1>3. ASSUME NEW c \in Conn, DropTask(c) PROVE [A!Next]_(A!vars)
  BY <1>3, Zenon DEF DropTask, A!Next
<1>4. ASSUME NEW t \in Thread, TakeClosure(t) \/ ClosureReturns(t)
      PROVE  [A!Next]_(A!vars)
  BY <1>4, LoopStutters, Zenon DEF TakeClosure, ClosureReturns, PoolOnly
<1>5. CASE DropRuntime \/ Exit \/ Exited \/ UNCHANGED vars
  BY <1>5, LoopStutters, Zenon DEF DropRuntime, Exit, Exited, vars
<1> QED
  BY <1>1, <1>2, <1>3, <1>4, <1>5, Zenon DEF Next

(* The server's accept loop is the one of AcceptLoop: requests, closures   *)
(* and the end of the process never change what it does.                   *)
THEOREM LoopImplemented == Spec => AcceptLoopImplemented
<1>1. Init => A!Init
  BY Zenon DEF Init
<1> QED
  BY <1>1, LoopStep, PTL DEF Spec, AcceptLoopImplemented, A!Spec

-----------------------------------------------------------------------------
(* The composition implements the requests.                                *)

LEMMA RequestsStutter ==
  ASSUME UNCHANGED <<requestVars, broadcast>>
  PROVE  UNCHANGED P!vars
BY Zenon DEF requestVars, P!vars

(* Only SendShutdown writes the channel.                                   *)
LEMMA LoopKeepsChannel ==
  ASSUME ShutdownSignal \/ Main \/ DrainDeadline
  PROVE  UNCHANGED broadcast
<1>1. CASE ShutdownSignal \/ DrainDeadline
  BY <1>1, Zenon DEF ShutdownSignal, DrainDeadline, A!ShutdownSignal,
              A!DrainDeadline
<1>2. CASE A!Loop
  BY <1>2, Zenon DEF A!Loop, A!PollShutdown, A!AcceptPending, A!AcceptError,
              A!BackoffOver, A!AcceptFiltered, A!AcceptAdmitted,
              A!AcceptRefused, A!Take, A!CountIn, A!Spawn
<1>3. CASE \/ A!LoadBeforeSettle \/ A!SettleOver \/ A!LoadRemaining
           \/ A!Recheck \/ A!PollNotified \/ A!PollTimer \/ A!Woken
  BY <1>3, Zenon DEF A!LoadBeforeSettle, A!SettleOver, A!LoadRemaining, A!Recheck,
              A!PollNotified, A!PollTimer, A!Woken
<1> QED
  BY <1>1, <1>2, <1>3, Zenon DEF Main

LEMMA TaskKeepsChannel ==
  ASSUME NEW c \in Conn,
         Handshake(c) \/ TaskEnds(c) \/ A!DropTask(c)
  PROVE  UNCHANGED broadcast
BY Zenon DEF Handshake, TaskEnds, ConnectionEnds, A!HandshakeOk, A!HandshakeFails,
       A!ConnectionEnds, A!CountOut, A!NotifyOne, A!ReleasePermit,
       A!DropTask, A!TaskUnchanged

LEMMA RequestStep == [Next]_vars => [P!Next]_(P!vars)
<1> SUFFICES ASSUME [Next]_vars PROVE [P!Next]_(P!vars)
  BY Zenon
<1>1. CASE ShutdownSignal \/ Main \/ DrainDeadline
  BY <1>1, LoopKeepsChannel, RequestsStutter, Zenon
     DEF ShutdownSignal, Main, DrainDeadline, LoopOnly
<1>2. CASE SendShutdown
  BY <1>2, Zenon DEF SendShutdown, P!Next
<1>3. ASSUME NEW c \in Conn, Task(c) PROVE [P!Next]_(P!vars)
  <2> SUFFICES ASSUME ~ UNCHANGED P!vars
               PROVE  P!Middleware(c) \/ P!Inner(c) \/ P!Select(c)
    BY Zenon DEF P!Next
  <2>1. CASE Handshake(c) \/ TaskEnds(c)
    BY <2>1, TaskKeepsChannel, RequestsStutter, Zenon
       DEF Handshake, TaskEnds, ConnectionEnds, LoopOnly
  <2>2. CASE CallBlocking(c)
    BY <2>2, RequestsStutter, Zenon DEF CallBlocking
  <2>3. CASE Middleware(c) \/ StartInner(c) \/ ReadBody(c)
    BY <2>3, Zenon DEF Middleware, StartInner, ReadBody, P!Inner
  <2>4. CASE HandlerResponds(c)
    <3>1. PICK class \in P!StatusClass : P!Respond(c, m, class)
      BY <2>4, AnswerClasses, Zenon DEF HandlerResponds, P!StatusClass
    <3> QED
      BY <3>1, Zenon DEF P!Inner, P!DispatchDone
  <2>5. CASE DispatchTimeout(c)
    BY <2>5, Zenon DEF DispatchTimeout, P!Inner
  <2>6. CASE NextRequest(c) \/ LeaveLoop(c) \/ SeeBroadcast(c)
    BY <2>6, Zenon DEF NextRequest, LeaveLoop, SeeBroadcast, P!Select
  <2> QED
    BY <1>3, <2>1, <2>2, <2>3, <2>4, <2>5, <2>6, Zenon DEF Task
<1>4. ASSUME NEW c \in Conn, DropTask(c) PROVE [P!Next]_(P!vars)
  BY <1>4, TaskKeepsChannel, RequestsStutter, Zenon DEF DropTask, P!Next, P!Select
<1>5. ASSUME NEW t \in Thread, TakeClosure(t) \/ ClosureReturns(t)
      PROVE  [P!Next]_(P!vars)
  BY <1>5, RequestsStutter, Zenon DEF TakeClosure, ClosureReturns, PoolOnly
<1>6. CASE DropRuntime \/ Exit \/ Exited \/ UNCHANGED vars
  BY <1>6, RequestsStutter, Zenon DEF DropRuntime, Exit, Exited, vars
<1> QED
  BY <1>1, <1>2, <1>3, <1>4, <1>5, <1>6, Zenon DEF Next

(* The server's requests are those of RequestPipeline: accepting, ending   *)
(* and dropping their connections does nothing it does not allow.          *)
THEOREM RequestsImplemented == Spec => RequestPipelineImplemented
<1>1. Init => P!Init
  BY Zenon DEF Init
<1> QED
  BY <1>1, RequestStep, PTL DEF Spec, RequestPipelineImplemented, P!Spec

-----------------------------------------------------------------------------
(* The pool: the closure of a handler is known to the handler alone.       *)

Idle(c) ==
  /\ result[c] = "none"
  /\ \A t \in Thread : thread[t] # c
  /\ \A i \in 1..Len(queue) : queue[i] # c

LEMMA ForgetStep ==
  ASSUME B!TypeOK, NEW c \in Conn, B!Forget(c)
  PROVE  /\ B!TypeOK'
         /\ Idle(c)'
         /\ \A d \in Conn : Idle(d) => Idle(d)'
<1> USE DEF B!TypeOK, B!Caller
<1>1. /\ queue' \in Seq(B!Caller) /\ Len(queue') = Len(queue)
      /\ \A i \in 1..Len(queue) :
           queue'[i] = IF queue[i] = c THEN Detached ELSE queue[i]
  BY SMTT(40) DEF B!Forget
<1>2. /\ thread' \in [Thread -> B!Caller \cup {Free}]
      /\ \A t \in Thread :
           thread'[t] = IF thread[t] = c THEN Detached ELSE thread[t]
  BY Zenon DEF B!Forget
<1>3. /\ result' \in [Conn -> {"none", "awaited", "ready", "cancelled"}]
      /\ \A d \in Conn : result'[d] = IF d = c THEN "none" ELSE result[d]
  BY Zenon DEF B!Forget, B!Tell
<1>4. down' \in BOOLEAN
  BY Zenon DEF B!Forget
<1>5. B!TypeOK'
  BY <1>1, <1>2, <1>3, <1>4, Zenon
<1>6. ASSUME NEW d \in Conn, d = c \/ Idle(d) PROVE Idle(d)'
  <2>1. result'[d] = "none"
    BY <1>3, <1>6, Zenon DEF Idle
  <2>2. \A t \in Thread : thread'[t] # d
    BY <1>2, <1>6, NoConn, Zenon DEF Idle
  <2>3. \A i \in 1..Len(queue') : queue'[i] # d
    BY <1>1, <1>6, NoConn, Zenon DEF Idle
  <2> QED
    BY <2>1, <2>2, <2>3, Zenon DEF Idle
<1> QED
  BY <1>5, <1>6, Zenon

LEMMA RunBlockingStep ==
  ASSUME B!TypeOK, NEW c \in Conn, B!RunBlocking(c)
  PROVE  /\ B!TypeOK'
         /\ \A d \in Conn \ {c} : Idle(d) => Idle(d)'
<1> USE DEF B!TypeOK, B!Caller
<1>1. /\ queue' \in Seq(B!Caller)
      /\ \A i \in 1..Len(queue') : queue'[i] = c \/ i \in 1..Len(queue)
      /\ \A i \in 1..Len(queue) : queue'[i] = queue[i]
  BY DEF B!RunBlocking
<1>2. /\ result' \in [Conn -> {"none", "awaited", "ready", "cancelled"}]
      /\ \A d \in Conn \ {c} : result'[d] = result[d]
      /\ UNCHANGED <<thread, down>>
  BY Zenon DEF B!RunBlocking, B!Tell
<1> QED
  BY <1>1, <1>2, Zenon DEF Idle

LEMMA TakeClosureStep ==
  ASSUME B!TypeOK, NEW t \in Thread, B!TakeClosure(t)
  PROVE  /\ B!TypeOK'
         /\ \A d \in Conn : Idle(d) => Idle(d)'
<1> USE DEF B!TypeOK, B!Caller
<1>1. /\ queue' \in Seq(B!Caller) /\ Len(queue) > 0
      /\ \A i \in 1..Len(queue') : i + 1 \in 1..Len(queue)
                                   /\ queue'[i] = queue[i + 1]
      /\ Head(queue) = queue[1] /\ Head(queue) \in B!Caller
  BY DEF B!TakeClosure
<1>2. /\ result' \in [Conn -> {"none", "awaited", "ready", "cancelled"}]
      /\ \A d \in Conn : d # Head(queue) => result'[d] = result[d]
  BY Zenon DEF B!TakeClosure, B!Tell
<1>3. /\ thread' \in [Thread -> B!Caller \cup {Free}]
      /\ \A u \in Thread : thread'[u] = thread[u] \/ thread'[u] = Head(queue)
  BY <1>1, Zenon DEF B!TakeClosure
<1>4. down' \in BOOLEAN
  BY Zenon DEF B!TakeClosure
<1>5. B!TypeOK'
  BY <1>1, <1>2, <1>3, <1>4, Zenon
<1>6. ASSUME NEW d \in Conn, Idle(d) PROVE Idle(d)'
  <2>1. d # Head(queue)
    BY <1>1, <1>6 DEF Idle
  <2>2. result'[d] = "none" /\ \A u \in Thread : thread'[u] # d
    BY <1>2, <1>3, <1>6, <2>1, Zenon DEF Idle
  <2>3. \A i \in 1..Len(queue') : queue'[i] # d
    BY <1>1, <1>6, Zenon DEF Idle
  <2> QED
    BY <2>2, <2>3, Zenon DEF Idle
<1> QED
  BY <1>5, <1>6, Zenon

LEMMA ClosureReturnsStep ==
  ASSUME B!TypeOK, NEW t \in Thread, B!ClosureReturns(t)
  PROVE  /\ B!TypeOK'
         /\ \A d \in Conn : Idle(d) => Idle(d)'
<1> USE DEF B!TypeOK, B!Caller
<1>1. /\ result' \in [Conn -> {"none", "awaited", "ready", "cancelled"}]
      /\ \A d \in Conn : d # thread[t] => result'[d] = result[d]
  BY Zenon DEF B!ClosureReturns, B!Tell
<1>2. /\ thread' \in [Thread -> B!Caller \cup {Free}]
      /\ \A u \in Thread : thread'[u] = thread[u] \/ thread'[u] = Free
      /\ UNCHANGED <<queue, down>>
  BY Zenon DEF B!ClosureReturns
<1> QED
  BY <1>1, <1>2, NoConn, Zenon DEF Idle

-----------------------------------------------------------------------------
(* What a step may change of a connection, of its request, and of the way  *)
(* the drain ended.                                                        *)

(* A request moves alone, and not to where a dropped task leaves it.       *)
LEMMA OneRequestMoves ==
  ASSUME P!TypeOK, NEW c \in Conn,
         \/ P!Middleware(c) \/ P!Inner(c)
         \/ P!KeepAlive(c) \/ P!ConnectionDone(c) \/ P!ClientGone(c)
         \/ P!SeeBroadcast(c) \/ P!KaTimeout(c)
  PROVE  /\ \A d \in Conn \ {c} : phase'[d] = phase[d]
         /\ \A d \in Conn : ended'[d] = "dropped" => ended[d] = "dropped"
<1> USE DEF P!TypeOK
<1>1. CASE P!Middleware(c)
  BY <1>1, Zenon DEF P!Middleware, P!RefuseRate, P!RefuseConcurrency, P!Admit,
              P!Goes, P!ConnUnchanged
<1>2. CASE P!Inner(c)
  BY <1>2, Zenon DEF P!Inner, P!DeclaredTooLarge, P!CollectBody, P!BodyRejected,
              P!BodyCollected, P!DispatchDone, P!DispatchTimeout, P!Respond,
              P!ReturnEarly, P!Goes, P!ConnUnchanged
<1>3. CASE \/ P!KeepAlive(c) \/ P!ConnectionDone(c) \/ P!ClientGone(c)
           \/ P!SeeBroadcast(c) \/ P!KaTimeout(c)
  BY <1>3, Zenon DEF P!KeepAlive, P!ConnectionDone, P!ClientGone, P!SeeBroadcast,
              P!KaTimeout, P!Leave, P!Goes, P!ConnUnchanged
<1> QED
  BY <1>1, <1>2, <1>3, Zenon

(* What a task does, other than to serve a request.                        *)
LEMMA TaskCases ==
  ASSUME NEW c \in Conn, Task(c)
  PROVE  \/ UNCHANGED requestVars
         \/ /\ Served(c)
            /\ \/ P!Middleware(c) \/ P!Inner(c)
               \/ P!KeepAlive(c) \/ P!ConnectionDone(c) \/ P!ClientGone(c)
               \/ P!SeeBroadcast(c) \/ P!KaTimeout(c)
<1>1. CASE Handshake(c) \/ TaskEnds(c) \/ CallBlocking(c)
  BY <1>1, Zenon DEF Handshake, TaskEnds, ConnectionEnds, CallBlocking, LoopOnly
<1>2. CASE Middleware(c) \/ StartInner(c) \/ ReadBody(c)
  BY <1>2, Zenon DEF Middleware, StartInner, ReadBody, P!Inner
<1>3. CASE HandlerResponds(c)
  <2>1. PICK class \in P!StatusClass : P!Respond(c, m, class)
    BY <1>3, AnswerClasses, Zenon DEF HandlerResponds, P!StatusClass
  <2> QED
    BY <1>3, <2>1, Zenon DEF HandlerResponds, P!Inner, P!DispatchDone
<1>4. CASE DispatchTimeout(c)
  BY <1>4, Zenon DEF DispatchTimeout, P!Inner
<1>5. CASE NextRequest(c) \/ LeaveLoop(c)
  BY <1>5, Zenon DEF NextRequest, LeaveLoop
<1>6. CASE SeeBroadcast(c)
  BY <1>6, Zenon DEF SeeBroadcast, A!SeeBroadcast, Served
<1> QED
  BY <1>1, <1>2, <1>3, <1>4, <1>5, <1>6, Zenon DEF Task

(* The loop and the ends of tasks leave the connections that are served to *)
(* handle_connection.                                                      *)
LEMMA LoopServes ==
  ASSUME A!TypeOK,
         \/ ShutdownSignal \/ Main \/ SendShutdown \/ DrainDeadline
         \/ \E c \in Conn : \/ Handshake(c) \/ A!CountOut(c)
                            \/ A!NotifyOne(c) \/ A!ReleasePermit(c)
                            \/ A!SeeBroadcast(c)
  PROVE  \A d \in Conn : Served(d) => Served(d)'
<1> USE DEF A!TypeOK, Served
<1>1. CASE ShutdownSignal \/ DrainDeadline \/ SendShutdown
  BY <1>1, Zenon DEF ShutdownSignal, DrainDeadline, SendShutdown,
              A!ShutdownSignal, A!DrainDeadline, A!SendShutdown,
              A!DrainUnchanged
<1>2. CASE A!Loop
  BY <1>2, Zenon DEF A!Loop, A!PollShutdown, A!AcceptPending, A!AcceptError,
              A!BackoffOver, A!AcceptFiltered, A!AcceptAdmitted,
              A!AcceptRefused, A!Take, A!CountIn, A!Spawn, A!ConnGoes
<1>3. CASE \/ A!LoadBeforeSettle \/ A!SettleOver \/ A!LoadRemaining
           \/ A!Recheck \/ A!PollNotified \/ A!PollTimer \/ A!Woken
  BY <1>3, Zenon DEF A!LoadBeforeSettle, A!SettleOver, A!LoadRemaining, A!Recheck,
              A!PollNotified, A!PollTimer, A!Woken, A!DrainUnchanged
<1>4. CASE \E c \in Conn : \/ Handshake(c) \/ A!CountOut(c)
                           \/ A!NotifyOne(c) \/ A!ReleasePermit(c)
                           \/ A!SeeBroadcast(c)
  BY <1>4, Zenon DEF Handshake, A!HandshakeOk, A!HandshakeFails, A!CountOut,
              A!NotifyOne, A!ReleasePermit, A!SeeBroadcast, A!ConnGoes
<1> QED
  BY <1>1, <1>2, <1>3, <1>4, Zenon DEF Main

(* accept_loop returns with an outcome, and changes nothing afterwards.    *)
LEMMA ReturnIsFinal ==
  ASSUME [A!Next]_(A!vars)
  PROVE  /\ main = "returned" => UNCHANGED <<main, drain, stale>>
         /\ main' = "returned" /\ main # "returned" => drain' # "none"
<1>1. CASE A!Loop
  BY <1>1, Zenon DEF A!Loop, A!PollShutdown, A!AcceptPending, A!AcceptError,
              A!BackoffOver, A!AcceptFiltered, A!AcceptAdmitted,
              A!AcceptRefused, A!Take, A!CountIn, A!Spawn, A!MainGoes
<1>2. CASE A!Drain \/ A!DrainDeadline
  BY <1>2, Zenon DEF A!Drain, A!LoadBeforeSettle, A!SettleOver, A!SendShutdown,
              A!LoadRemaining, A!Recheck, A!PollNotified, A!PollTimer,
              A!Woken, A!DrainDeadline, A!DrainUnchanged, A!MainGoes
<1>3. ASSUME NEW c \in Conn, A!Task(c) \/ A!DropTask(c)
      PROVE  UNCHANGED <<main, drain, stale>>
  BY <1>3, Zenon DEF A!Task, A!DropTask, A!HandshakeOk, A!HandshakeFails,
              A!SeeBroadcast, A!ConnectionEnds, A!CountOut, A!NotifyOne,
              A!ReleasePermit, A!TaskUnchanged
<1>4. CASE A!ShutdownSignal \/ A!Exited \/ UNCHANGED A!vars
  BY <1>4, Zenon DEF A!ShutdownSignal, A!Exited, A!vars
<1> QED
  BY <1>1, <1>2, <1>3, <1>4, Zenon DEF A!Next

-----------------------------------------------------------------------------
(* The inductive invariants.                                               *)

(* Only the handler of a request that is being dispatched, and the body of *)
(* a response that is being written, call the pool.                        *)
Calls == {"dispatch", "writing"}

PoolInv == B!TypeOK /\ \A c \in Conn : phase[c] \notin Calls => Idle(c)

(* Only handle_connection has a request in progress.                       *)
ServedInv == \A c \in Conn : ~Served(c) => phase[c] \in {"idle", "over"}

Excused == drain = "timeout" \/ (drain = "drained" /\ stale)

(* A request is dropped only after the return of accept_loop.              *)
LossInv ==
  /\ main = "returned" => drain # "none"
  /\ \A c \in Conn : ended[c] = "dropped" => main = "returned" /\ Excused

LEMMA LossStep ==
  ASSUME A!TypeOK, A!QuietExit, P!TypeOK, LossInv, [Next]_vars
  PROVE  LossInv'
<1>1. /\ main = "returned" => UNCHANGED <<main, drain, stale>>
      /\ main' = "returned" /\ main # "returned" => drain' # "none"
  BY LoopStep, ReturnIsFinal, Zenon
<1>2. (main = "returned" => drain # "none")'
  BY <1>1, Zenon DEF LossInv
<1>3. ASSUME NEW d \in Conn, ended'[d] = "dropped", ended[d] # "dropped"
      PROVE  main = "returned" /\ Excused
  <2>1. PICK c \in Conn : Task(c) \/ DropTask(c)
    BY <1>3, Zenon DEF Next, vars, requestVars, ShutdownSignal, Main, DrainDeadline,
                LoopOnly, SendShutdown, P!SendShutdown, TakeClosure,
                ClosureReturns, PoolOnly, DropRuntime, Exit, Exited
  <2>2. ~Task(c)
    BY <1>3, TaskCases, OneRequestMoves, Zenon DEF requestVars
  <2>3. /\ main = "returned" /\ conn[c] \in A!Awaiting
    BY <2>1, <2>2, Zenon DEF DropTask, A!DropTask
  <2>4. A!In(A!Counted) # {}
    BY <2>3, Zenon DEF A!In, A!Counted
  <2> QED
    BY <2>3, <2>4, Zenon DEF LossInv, Excused, A!QuietExit, A!TypeOK, A!Outcome
<1>4. main = "returned" /\ Excused => (main = "returned" /\ Excused)'
  BY <1>1, Zenon DEF Excused
<1>5. ASSUME NEW d \in Conn, ended'[d] = "dropped"
      PROVE  main = "returned" /\ Excused
  BY <1>3, <1>5, Zenon DEF LossInv
<1> QED
  BY <1>2, <1>4, <1>5, Zenon DEF LossInv

LEMMA ServedStep ==
  ASSUME A!TypeOK, P!TypeOK, ServedInv, [Next]_vars
  PROVE  ServedInv'
<1> SUFFICES ASSUME NEW d \in Conn, ~Served(d)'
             PROVE  phase'[d] \in {"idle", "over"}
  BY Zenon DEF ServedInv
<1>1. CASE ShutdownSignal \/ Main \/ SendShutdown \/ DrainDeadline
  <2>1. ~Served(d)
    BY <1>1, LoopServes, Zenon
  <2>2. UNCHANGED phase
    BY <1>1, Zenon DEF ShutdownSignal, Main, SendShutdown, DrainDeadline, LoopOnly,
                P!SendShutdown, requestVars
  <2> QED
    BY <2>1, <2>2, Zenon DEF ServedInv
<1>2. ASSUME NEW c \in Conn, Task(c)
      PROVE  phase'[d] \in {"idle", "over"}
  <2>1. CASE ConnectionEnds(c)
    <3>1. UNCHANGED phase /\ phase[c] = "over"
      BY <2>1, Zenon DEF ConnectionEnds, LoopOnly, requestVars
    <3>2. d # c => ~Served(d)
      BY <2>1, Zenon DEF ConnectionEnds, A!ConnectionEnds, A!ConnGoes, Served,
                  A!TypeOK
    <3> QED
      BY <3>1, <3>2, Zenon DEF ServedInv
  <2>2. CASE Handshake(c) \/ (TaskEnds(c) /\ ~ConnectionEnds(c))
    <3>1. ~Served(d)
      BY <2>2, LoopServes, Zenon DEF TaskEnds
    <3>2. UNCHANGED phase
      BY <2>2, Zenon DEF Handshake, TaskEnds, LoopOnly, requestVars
    <3> QED
      BY <3>1, <3>2, Zenon DEF ServedInv
  <2>3. CASE SeeBroadcast(c)
    <3>1. Served(c)'
      BY <2>3, Zenon DEF SeeBroadcast, A!SeeBroadcast, A!ConnGoes, Served, A!TypeOK
    <3>2. d # c /\ ~Served(d)
      BY <2>3, <3>1, LoopServes, Zenon DEF SeeBroadcast
    <3> QED
      BY <2>3, <3>2, OneRequestMoves, Zenon DEF SeeBroadcast, ServedInv
  <2>4. CASE UNCHANGED conn
    <3>1. ~Served(d)
      BY <2>4, Zenon DEF Served
    <3>2. phase'[d] = phase[d]
      BY <1>2, <3>1, TaskCases, OneRequestMoves, Zenon DEF requestVars
    <3> QED
      BY <3>1, <3>2, Zenon DEF ServedInv
  <2> QED
    BY <1>2, <2>1, <2>2, <2>3, <2>4, Zenon
       DEF Task, Middleware, StartInner, ReadBody, CallBlocking,
           HandlerResponds, DispatchTimeout, NextRequest, LeaveLoop,
           RequestOnly, loopVars
<1>3. ASSUME NEW c \in Conn, DropTask(c)
      PROVE  phase'[d] \in {"idle", "over"}
  <2>1. d # c => ~Served(d)
    BY <1>3, Zenon DEF DropTask, A!DropTask, A!ConnGoes, Served, A!TypeOK
  <2>2. CASE conn[c] = "handshake"
    BY <1>3, <2>1, <2>2, Zenon DEF DropTask, requestVars, ServedInv, Served
  <2>3. CASE conn[c] # "handshake"
    BY <1>3, <2>1, <2>3, Zenon DEF DropTask, P!TaskDropped, P!Leave, P!TypeOK,
                            ServedInv
  <2> QED
    BY <2>2, <2>3, Zenon
<1>4. CASE \/ \E t \in Thread : TakeClosure(t) \/ ClosureReturns(t)
           \/ DropRuntime \/ Exit \/ Exited \/ UNCHANGED vars
  BY <1>4, Zenon DEF TakeClosure, ClosureReturns, PoolOnly, DropRuntime, Exit,
              Exited, vars, loopVars, requestVars, Served, ServedInv
<1> QED
  BY <1>1, <1>2, <1>3, <1>4, Zenon DEF Next

LEMMA PoolStep ==
  ASSUME A!TypeOK, P!TypeOK, PoolInv, [Next]_vars
  PROVE  PoolInv'
<1>0. B!TypeOK /\ \A d \in Conn : phase[d] \notin Calls => Idle(d)
  BY Zenon DEF PoolInv
<1>1. CASE UNCHANGED <<poolVars, phase>>
  BY <1>0, <1>1, Zenon DEF PoolInv, poolVars, Idle, B!TypeOK
<1>2. ASSUME NEW c \in Conn, UNCHANGED poolVars,
             \A d \in Conn \ {c} : phase'[d] = phase[d],
             phase[c] \notin Calls
      PROVE  PoolInv'
  BY <1>0, <1>2, Zenon DEF PoolInv, poolVars, Idle, B!TypeOK
<1>3. ASSUME NEW c \in Conn, B!Forget(c),
             \A d \in Conn \ {c} : phase'[d] = phase[d]
      PROVE  PoolInv'
  BY <1>0, <1>3, ForgetStep, Zenon DEF PoolInv
<1>4. CASE \/ ShutdownSignal \/ Main \/ SendShutdown \/ DrainDeadline
           \/ Exit \/ Exited \/ UNCHANGED vars
  BY <1>1, <1>4, Zenon DEF ShutdownSignal, Main, SendShutdown, DrainDeadline, Exit,
                    Exited, vars, LoopOnly, P!SendShutdown, requestVars
<1>5. ASSUME NEW c \in Conn, Task(c) PROVE PoolInv'
  <2>1. CASE Handshake(c) \/ TaskEnds(c)
    BY <1>1, <2>1, Zenon DEF Handshake, TaskEnds, ConnectionEnds, LoopOnly,
                      requestVars
  <2>2. CASE Middleware(c) \/ StartInner(c) \/ ReadBody(c)
    <3>1. UNCHANGED poolVars /\ (P!Middleware(c) \/ P!Inner(c))
      BY <2>2, Zenon DEF Middleware, StartInner, ReadBody, RequestOnly, P!Inner
    <3>2. phase[c] \notin Calls
      BY <2>2, Zenon DEF Middleware, StartInner, ReadBody, Calls,
                  P!Middleware, P!RefuseRate, P!RefuseConcurrency, P!Admit,
                  P!DeclaredTooLarge, P!CollectBody, P!BodyRejected,
                  P!BodyCollected, P!ReturnEarly, P!Goes
    <3> QED
      BY <1>2, <3>1, <3>2, OneRequestMoves, Zenon
  <2>3. CASE CallBlocking(c)
    <3>1. /\ B!RunBlocking(c) /\ phase[c] \in Calls /\ UNCHANGED phase
      BY <2>3, Zenon DEF CallBlocking, Calls, requestVars
    <3> QED
      BY <1>0, <3>1, RunBlockingStep, Zenon DEF PoolInv
  <2>4. CASE \/ HandlerResponds(c) \/ DispatchTimeout(c) \/ NextRequest(c)
             \/ LeaveLoop(c)
    <3>1. \A d \in Conn \ {c} : phase'[d] = phase[d]
      BY <1>5, TaskCases, OneRequestMoves, Zenon DEF requestVars
    <3>2. CASE B!Forget(c)
      BY <1>3, <3>1, <3>2, Zenon
    <3>3. CASE HandlerResponds(c) /\ UNCHANGED poolVars
      <4>1. phase'[c] \in Calls
        BY <3>3, Zenon DEF HandlerResponds, P!Respond, P!Goes, P!TypeOK, Calls
      <4>2. \A d \in Conn : phase'[d] \notin Calls => Idle(d)
        BY <1>0, <3>1, <4>1, Zenon
      <4> QED
        BY <1>0, <3>3, <4>2, Zenon DEF PoolInv, poolVars, Idle, B!TypeOK
    <3> QED
      BY <2>4, <3>2, <3>3, Zenon
         DEF HandlerResponds, DispatchTimeout, NextRequest, LeaveLoop
  <2>5. CASE SeeBroadcast(c)
    <3>1. UNCHANGED poolVars /\ P!SeeBroadcast(c)
      BY <2>5, Zenon DEF SeeBroadcast
    <3>2. CASE phase[c] \in Calls
      BY <1>1, <3>1, <3>2, Zenon DEF P!SeeBroadcast, Calls
    <3>3. CASE phase[c] \notin Calls
      BY <1>2, <3>1, <3>3, OneRequestMoves, Zenon
    <3> QED
      BY <3>2, <3>3, Zenon
  <2> QED
    BY <1>5, <2>1, <2>2, <2>3, <2>4, <2>5, Zenon DEF Task
<1>6. ASSUME NEW c \in Conn, DropTask(c) PROVE PoolInv'
  <2>1. \A d \in Conn \ {c} : phase'[d] = phase[d]
    BY <1>6, Zenon DEF DropTask, P!TaskDropped, P!Leave, P!TypeOK, requestVars
  <2> QED
    BY <1>3, <1>6, <2>1, Zenon DEF DropTask
<1>7. ASSUME NEW t \in Thread, TakeClosure(t) \/ ClosureReturns(t)
      PROVE  PoolInv'
  <2>1. UNCHANGED phase
    BY <1>7, Zenon DEF TakeClosure, ClosureReturns, PoolOnly, requestVars
  <2> QED
    BY <1>0, <1>7, <2>1, TakeClosureStep, ClosureReturnsStep, Zenon
       DEF PoolInv, TakeClosure, ClosureReturns
<1>8. CASE DropRuntime
  BY <1>0, <1>8, Zenon DEF DropRuntime, B!Shutdown, requestVars, PoolInv, Idle,
                    B!TypeOK
<1> QED
  BY <1>4, <1>5, <1>6, <1>7, <1>8, Zenon DEF Next

LEMMA InitInvariants == Init => PoolInv /\ ServedInv /\ LossInv
<1> SUFFICES ASSUME Init PROVE PoolInv /\ ServedInv /\ LossInv
  BY Zenon
<1>1. B!TypeOK /\ Len(queue) = 0
  <2>1. queue \in Seq(B!Caller) /\ Len(queue) = 0
    BY DEF Init, B!Init
  <2>2. thread \in [Thread -> B!Caller \cup {Free}]
    BY Zenon DEF Init, B!Init
  <2>3. result \in [Conn -> {"none", "awaited", "ready", "cancelled"}]
    BY Zenon DEF Init, B!Init
  <2> QED
    BY <2>1, <2>2, <2>3, Zenon DEF Init, B!Init, B!TypeOK
<1>2. \A c \in Conn : result[c] = "none" /\ \A t \in Thread : thread[t] # c
  BY NoConn, Zenon DEF Init, B!Init
<1>3. PoolInv
  BY <1>1, <1>2 DEF PoolInv, Idle
<1>4. ServedInv /\ LossInv
  BY Zenon DEF Init, A!Init, P!Init, ServedInv, LossInv
<1> QED
  BY <1>3, <1>4, Zenon

-----------------------------------------------------------------------------
(* What is proved of the accept loop holds of the server.  AP is A, with   *)
(* the theorems about it.                                                  *)

AP == INSTANCE AcceptLoopProofs WITH available <- connection_limit,
                                     outcome <- drain

LEMMA SameLoop == A!Spec => AP!Spec
<1>1. A!Init => AP!Init
  BY Zenon DEF A!Init, AP!Init
<1>2. [A!Next]_(A!vars) => [AP!Next]_(AP!vars)
  BY Zenon DEF A!Next, AP!Next, A!ShutdownSignal, AP!ShutdownSignal, A!Loop,
         AP!Loop, A!Task, AP!Task, A!DropTask, AP!DropTask, A!Drain,
         AP!Drain, A!DrainDeadline, AP!DrainDeadline, A!Exited,
         AP!Exited, A!PollShutdown, AP!PollShutdown, A!AcceptPending,
         AP!AcceptPending, A!AcceptError, AP!AcceptError, A!BackoffOver,
         AP!BackoffOver, A!AcceptFiltered, AP!AcceptFiltered,
         A!AcceptAdmitted, AP!AcceptAdmitted, A!AcceptRefused,
         AP!AcceptRefused, A!CountIn, AP!CountIn, A!Spawn, AP!Spawn,
         A!HandshakeOk, AP!HandshakeOk, A!HandshakeFails,
         AP!HandshakeFails, A!SeeBroadcast, AP!SeeBroadcast,
         A!ConnectionEnds, AP!ConnectionEnds, A!CountOut, AP!CountOut,
         A!NotifyOne, AP!NotifyOne, A!ReleasePermit, AP!ReleasePermit,
         A!LoadBeforeSettle, AP!LoadBeforeSettle, A!SettleOver,
         AP!SettleOver, A!SendShutdown, AP!SendShutdown,
         A!LoadRemaining, AP!LoadRemaining, A!Recheck, AP!Recheck,
         A!PollNotified, AP!PollNotified, A!PollTimer, AP!PollTimer,
         A!Woken, AP!Woken, A!MainGoes, AP!MainGoes, A!ConnGoes,
         AP!ConnGoes, A!Take, AP!Take, A!is_blocked, AP!is_blocked,
         A!is_allowed, AP!is_allowed, A!TaskUnchanged, AP!TaskUnchanged,
         A!DrainUnchanged, AP!DrainUnchanged, A!Awaiting, AP!Awaiting,
         A!Uncounting, AP!Uncounting, A!Counted, AP!Counted, A!Holding,
         AP!Holding, A!Over, AP!Over, A!In, AP!In, A!vars, AP!vars
<1> QED
  BY <1>1, <1>2, PTL DEF A!Spec, AP!Spec

LEMMA LoopInvariants == Spec => [](A!TypeOK /\ A!QuietExit)
<1>1. AP!IsFiniteSet(Conn)
  BY ConnFinite, Zenon DEF AP!IsFiniteSet, IsFiniteSet
<1>2. AP!Spec => []AP!TypeOK
  BY <1>1, LimitsNat, TlsEnabledBool, AP!TypeCorrect, SMTT(40)
<1>3. AP!Spec => []AP!QuietExit
  BY <1>1, LimitsNat, TlsEnabledBool, AP!QuietExitHolds, SMTT(40)
<1>4. AP!TypeOK => A!TypeOK
  BY Zenon DEF A!TypeOK, AP!TypeOK, A!MainPhase, AP!MainPhase, A!ConnPhase,
         AP!ConnPhase, A!Counted, AP!Counted, A!Holding, AP!Holding, A!Over,
         AP!Over, A!Awaiting, AP!Awaiting, A!Uncounting, AP!Uncounting,
         A!Outcome, AP!Outcome
<1>5. AP!QuietExit => A!QuietExit
  BY SMTT(40) DEF A!QuietExit, AP!QuietExit, A!In, AP!In, A!Counted, AP!Counted,
         A!Awaiting, AP!Awaiting
<1> QED
  BY <1>2, <1>3, <1>4, <1>5, LoopImplemented, SameLoop, PTL
     DEF AcceptLoopImplemented

-----------------------------------------------------------------------------
(* And so does what is proved of the requests.                             *)

PP == INSTANCE RequestPipelineProofs WITH available <- concurrency_limiter,
                                          outcome <- ended

LEMMA SameRequests == P!Spec => PP!Spec
<1>1. P!Init => PP!Init
  BY ZenonT(40) DEF P!Init, PP!Init, P!StatusClass, PP!StatusClass
<1>2. [P!Next]_(P!vars) => [PP!Next]_(PP!vars)
  BY ZenonT(40) DEF P!Next, PP!Next, P!Middleware, PP!Middleware, P!Inner,
         PP!Inner, P!Select, PP!Select, P!SendShutdown, PP!SendShutdown,
         P!Done, PP!Done, P!RefuseRate, PP!RefuseRate,
         P!RefuseConcurrency, PP!RefuseConcurrency, P!Admit, PP!Admit,
         P!Arrives, PP!Arrives, P!Goes, PP!Goes,
         P!ConnUnchanged, PP!ConnUnchanged, P!DeclaredTooLarge,
         PP!DeclaredTooLarge, P!CollectBody, PP!CollectBody,
         P!BodyRejected, PP!BodyRejected, P!BodyCollected,
         PP!BodyCollected, P!DispatchDone, PP!DispatchDone,
         P!DispatchTimeout, PP!DispatchTimeout, P!Respond, PP!Respond,
         P!CountResponse, PP!CountResponse, P!ReturnEarly,
         PP!ReturnEarly, P!KeepAlive, PP!KeepAlive, P!ConnectionDone,
         PP!ConnectionDone, P!ClientGone, PP!ClientGone, P!SeeBroadcast,
         PP!SeeBroadcast, P!KaTimeout, PP!KaTimeout, P!TaskDropped,
         PP!TaskDropped, P!Leave, PP!Leave, P!Holding, PP!Holding,
         P!Busy, PP!Busy, P!Phase, PP!Phase, P!Pollable, PP!Pollable,
         P!StatusClass, PP!StatusClass, P!In, PP!In, P!vars, PP!vars
<1> QED
  BY <1>1, <1>2, PTL DEF P!Spec, PP!Spec

LEMMA RequestInvariants == Spec => []P!TypeOK
<1>1. PP!IsFiniteSet(Conn)
  BY ConnFinite, Zenon DEF PP!IsFiniteSet, IsFiniteSet
<1>2. PP!Spec => []PP!IInv
  BY <1>1, LimitsNat, PP!Invariance, SMTT(40)
<1>3. PP!IInv => P!TypeOK
  BY DEF PP!IInv, P!TypeOK, PP!TypeOK, P!Phase, PP!Phase, P!Busy, PP!Busy,
         P!Holding, PP!Holding, P!Metrics, PP!Metrics, P!StatusClass,
         PP!StatusClass
<1> QED
  BY <1>2, <1>3, RequestsImplemented, SameRequests, PTL
     DEF RequestPipelineImplemented

-----------------------------------------------------------------------------
(* The results that need both components.                                  *)

LEMMA ServerInvariants == Spec => [](PoolInv /\ ServedInv /\ LossInv)
<1>1. /\ PoolInv /\ ServedInv /\ LossInv
      /\ A!TypeOK /\ A!QuietExit /\ P!TypeOK /\ [Next]_vars
      => (PoolInv /\ ServedInv /\ LossInv)'
  BY PoolStep, ServedStep, LossStep, SMTT(40)
<1> QED
  BY <1>1, InitInvariants, LoopInvariants, RequestInvariants, PTL DEF Spec

(* The components keep their types in the composition, and the process    *)
(* runs, stops or has exited.                                              *)
THEOREM TypeCorrect == Spec => []TypeOK
<1> DEFINE ProcessOK == process \in {"running", "stopping", "exited"}
<1>1. Init => ProcessOK
  BY DEF Init
<1>2. ProcessOK /\ [Next]_vars => ProcessOK'
  <2> SUFFICES ASSUME ProcessOK, [Next]_vars PROVE ProcessOK'
    OBVIOUS
  <2>1. CASE ShutdownSignal \/ Main \/ SendShutdown \/ DrainDeadline
    BY <2>1, SMTT(40) DEF ShutdownSignal, Main, SendShutdown, DrainDeadline, LoopOnly
  <2>2. ASSUME NEW c \in Conn, Task(c) \/ DropTask(c) PROVE ProcessOK'
    BY <2>2, ZenonT(40) DEF Task, DropTask, Handshake, TaskEnds, ConnectionEnds, SeeBroadcast,
                Middleware, StartInner, ReadBody, CallBlocking, HandlerResponds,
                DispatchTimeout, NextRequest, LeaveLoop, LoopOnly, RequestOnly
  <2>3. ASSUME NEW t \in Thread, TakeClosure(t) \/ ClosureReturns(t) PROVE ProcessOK'
    BY <2>3, SMTT(40) DEF TakeClosure, ClosureReturns, PoolOnly
  <2>4. CASE DropRuntime \/ Exit \/ Exited \/ UNCHANGED vars
    BY <2>4, SMTT(40) DEF DropRuntime, Exit, Exited, vars
  <2> QED
    BY <2>1, <2>2, <2>3, <2>4, SMTT(40) DEF Next
<1>3. A!TypeOK /\ P!TypeOK /\ PoolInv /\ ProcessOK => TypeOK
  BY DEF PoolInv, TypeOK
<1> QED
  BY <1>1, <1>2, <1>3, LoopInvariants, RequestInvariants, ServerInvariants, PTL
     DEF Spec

(* When the drain reads that no connection is in flight, no request is in  *)
(* progress, no permit of the limiter is held and no handler waits for the *)
(* pool.                                                                   *)
THEOREM NoRequestLeft == Spec => []CountedOutIsFinished
<1>1. PoolInv /\ ServedInv => CountedOutIsFinished
  BY DEF PoolInv, Calls, ServedInv, CountedOutIsFinished, Idle, Served
<1> QED
  BY <1>1, ServerInvariants, PTL

(* The exit drops a request only after the drain timeout, or when a        *)
(* notification was left from before the drain.                            *)
THEOREM ExitIsClean == Spec => []ExitLosesNothing
<1>1. LossInv => ExitLosesNothing
  BY Zenon DEF LossInv, Excused, ExitLosesNothing
<1> QED
  BY <1>1, ServerInvariants, PTL
==============================================================================
