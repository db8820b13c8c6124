----------------------------- MODULE BlockingPool -----------------------------
(***************************************************************************)
(* The pool of threads behind run_blocking (src/server/task.rs), as its    *)
(* callers see it: the handler of /fib, those that open files, and the     *)
(* body of a response that streams one.  A closure belongs to the request  *)
(* whose handler or body awaits it.  Dropping either drops the JoinHandle, *)
(* which leaves the closure to itself.                                     *)
(***************************************************************************)
EXTENDS Naturals, Sequences

CONSTANTS
  Conn,     \* the callers: one request at a time on each connection
  Thread,   \* the max_blocking_threads threads
  Free,     \* a thread without a closure
  Detached  \* in place of the caller: nobody awaits the closure

VARIABLES
  queue,   \* the closures that wait for a thread, by their callers
  thread,  \* the closure that each thread runs
  result,  \* what each handler knows of the closure it called
  down     \* the pool has been told to shut down

vars == <<queue, thread, result, down>>

Caller == Conn \cup {Detached}

TypeOK ==
  /\ queue \in Seq(Caller)
  /\ thread \in [Thread -> Caller \cup {Free}]
  /\ result \in [Conn -> {"none", "awaited", "ready", "cancelled"}]
  /\ down \in BOOLEAN

Init ==
  /\ queue = <<>>
  /\ thread = [t \in Thread |-> Free]
  /\ result = [c \in Conn |-> "none"]
  /\ down = FALSE

(* Tell the handler of a closure, if there is one, how the closure ended.  *)
Tell(caller, what) ==
  result' = [c \in Conn |-> IF c = caller THEN what ELSE result[c]]

(* run_blocking: the closure is queued and its JoinHandle awaited.  A pool *)
(* that is shut down cancels it at once.                                   *)
RunBlocking(c) ==
  /\ result[c] \in {"none", "ready"}
  /\ queue' = IF down THEN queue ELSE Append(queue, c)
  /\ Tell(c, IF down THEN "cancelled" ELSE "awaited")
  /\ UNCHANGED <<thread, down>>

(* A thread takes the oldest closure; in a shutdown it only cancels it.    *)
TakeClosure(t) ==
  /\ thread[t] = Free
  /\ queue # <<>>
  /\ queue' = Tail(queue)
  /\ IF down
       THEN Tell(Head(queue), "cancelled") /\ UNCHANGED thread
       ELSE thread' = [thread EXCEPT ![t] = Head(queue)] /\ UNCHANGED result
  /\ UNCHANGED down

(* The closure returns, and whoever awaits it is woken.                    *)
ClosureReturns(t) ==
  /\ thread[t] # Free
  /\ Tell(thread[t], "ready")
  /\ thread' = [thread EXCEPT ![t] = Free]
  /\ UNCHANGED <<queue, down>>

(* The handler or body of c is gone, whether it ended or was dropped.      *)
Forget(c) ==
  /\ queue' = [i \in DOMAIN queue |->
                 IF queue[i] = c THEN Detached ELSE queue[i]]
  /\ thread' = [t \in Thread |->
                  IF thread[t] = c THEN Detached ELSE thread[t]]
  /\ Tell(c, "none")
  /\ UNCHANGED down

Shutdown ==
  /\ down' = TRUE
  /\ UNCHANGED <<queue, thread, result>>

(* Dropping the runtime waits for the threads of the pool.                 *)
Joined == down /\ queue = <<>> /\ \A t \in Thread : thread[t] = Free
==============================================================================
