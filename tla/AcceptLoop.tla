------------------------------ MODULE AcceptLoop ------------------------------
(***************************************************************************)
(* The accept loop of the server, the connection tasks it spawns and the   *)
(* graceful-shutdown drain: Server::accept_loop in src/server/mod.rs.      *)
(*                                                                         *)
(* The accept loop runs in the main task, each connection in a task of its *)
(* own on a multi-threaded runtime, so every access to shared state (the   *)
(* semaphore, the in_flight counter, the Notify, the watch channel) is a   *)
(* step of its own.  handle_connection is a phase here; its inside is the  *)
(* subject of module RequestPipeline.                                      *)
(***************************************************************************)
EXTENDS Naturals, FiniteSets

CONSTANTS
  Conn,            \* the TCP connections clients offer
  MaxConnections,  \* config.max_connections
  TlsEnabled,      \* both certificate and key are configured
  PeerIp,          \* the address of each connection
  BlockedIps,      \* config.blocked_ips
  AllowedIps       \* config.allowed_ips

ASSUME ConnFinite == IsFiniteSet(Conn)
ASSUME MaxConnectionsNat == MaxConnections \in Nat
ASSUME TlsEnabledBool == TlsEnabled \in BOOLEAN

VARIABLES
  main,        \* where the accept loop's task is
  conn,        \* where each connection is
  shutdown,    \* the shutdown future has resolved
  available,   \* permits left in connection_limit
  in_flight,   \* the AtomicUsize
  permit,      \* all_drained holds a stored notification
  broadcast,   \* the value of the watch channel
  expired,     \* the drain deadline has passed
  outcome,     \* how the drain ended
  accepted,    \* metrics.connections_accepted
  rejected_ip, \* metrics.connections_rejected_ip
  late,        \* history: connections taken after the shutdown resolved
  stale        \* history: a notification was pending when the loop ended

vars == <<main, conn, shutdown, available, in_flight, permit, broadcast,
          expired, outcome, accepted, rejected_ip, late, stale>>

MainPhase == {"select", "accept", "backoff", "spawning", "ended", "settle",
              "send", "load", "recheck", "poll", "timer", "waiting",
              "returned"}

(***************************************************************************)
(* A connection that waits in the kernel is "offered".  The main task      *)
(* holds an "admitted" and a "counted" connection, its own task the ones   *)
(* from "handshake" to "ending".  A "lost" connection is one whose task    *)
(* the runtime dropped before the task counted itself out.                 *)
(***************************************************************************)
Awaiting == {"handshake", "serving", "closing"}
Uncounting == {"notifying", "ending"}
Counted == {"counted", "finished", "lost"} \cup Awaiting
Holding == {"admitted", "counted", "finished"} \cup Awaiting \cup Uncounting
Over == {"offered", "filtered", "refused", "closed", "lost"}
ConnPhase == Counted \cup Holding \cup Over

Outcome == {"none", "idle", "drained", "timeout"}

In(phases) == {c \in Conn : conn[c] \in phases}

TypeOK ==
  /\ main \in MainPhase
  /\ conn \in [Conn -> ConnPhase]
  /\ shutdown \in BOOLEAN
  /\ available \in Nat
  /\ in_flight \in Nat
  /\ permit \in BOOLEAN
  /\ broadcast \in BOOLEAN
  /\ expired \in BOOLEAN
  /\ outcome \in Outcome
  /\ accepted \in Nat
  /\ rejected_ip \in Nat
  /\ late \in SUBSET Conn
  /\ stale \in BOOLEAN

Init ==
  /\ main = "select"
  /\ conn = [c \in Conn |-> "offered"]
  /\ shutdown = FALSE
  /\ available = MaxConnections
  /\ in_flight = 0
  /\ permit = FALSE
  /\ broadcast = FALSE
  /\ expired = FALSE
  /\ outcome = "none"
  /\ accepted = 0
  /\ rejected_ip = 0
  /\ late = {}
  /\ stale = FALSE

MainGoes(from, to) ==
  /\ main = from
  /\ main' = to

ConnGoes(c, to) == conn' = [conn EXCEPT ![c] = to]

-----------------------------------------------------------------------------
(* The shutdown future: a signal, or the future a caller passed in.        *)

ShutdownSignal ==
  /\ ~shutdown
  /\ shutdown' = TRUE
  /\ UNCHANGED <<main, conn, available, in_flight, permit, broadcast, expired,
                 outcome, accepted, rejected_ip, late, stale>>

-----------------------------------------------------------------------------
(* The loop.  One poll of the biased select! polls the shutdown future and *)
(* then the listener; the signal may arrive between the two.               *)

(* Variant: without `biased`, the listener may be polled first.            *)
PollShutdownUnbiased ==
  /\ main = "select"
  /\ main' \in IF shutdown THEN {"ended", "accept"} ELSE {"accept"}
  /\ stale' = (main' = "ended" /\ (permit \/ In({"notifying"}) # {}))
  /\ UNCHANGED <<conn, shutdown, available, in_flight, permit, broadcast,
                 expired, outcome, accepted, rejected_ip, late>>

PollShutdown ==
  /\ MainGoes("select", IF shutdown THEN "ended" ELSE "accept")
  /\ stale' = (shutdown /\ (permit \/ In({"notifying"}) # {}))
  /\ UNCHANGED <<conn, shutdown, available, in_flight, permit, broadcast,
                 expired, outcome, accepted, rejected_ip, late>>

AcceptPending ==
  /\ MainGoes("accept", "select")
  /\ UNCHANGED <<conn, shutdown, available, in_flight, permit, broadcast,
                 expired, outcome, accepted, rejected_ip, late, stale>>

AcceptError ==
  /\ MainGoes("accept", "backoff")
  /\ UNCHANGED <<conn, shutdown, available, in_flight, permit, broadcast,
                 expired, outcome, accepted, rejected_ip, late, stale>>

BackoffOver ==
  /\ MainGoes("backoff", "select")
  /\ UNCHANGED <<conn, shutdown, available, in_flight, permit, broadcast,
                 expired, outcome, accepted, rejected_ip, late, stale>>

is_blocked(ip) == ip \in BlockedIps

is_allowed(ip) == AllowedIps = {} \/ ip \in AllowedIps

(* listener.accept() returned c: count it, then see who is calling.        *)
Take(c) ==
  /\ main = "accept"
  /\ conn[c] = "offered"
  /\ accepted' = accepted + 1
  /\ late' = IF shutdown THEN late \cup {c} ELSE late
  /\ UNCHANGED <<shutdown, in_flight, permit, broadcast, expired, outcome,
                 stale>>

(* Variant: the rejection is not counted.                                  *)
AcceptFilteredUncounted(c) ==
  /\ Take(c)
  /\ is_blocked(PeerIp[c]) \/ ~is_allowed(PeerIp[c])
  /\ ConnGoes(c, "filtered")
  /\ main' = "select"
  /\ UNCHANGED <<available, rejected_ip>>

AcceptFiltered(c) ==
  /\ Take(c)
  /\ is_blocked(PeerIp[c]) \/ ~is_allowed(PeerIp[c])
  /\ rejected_ip' = rejected_ip + 1
  /\ ConnGoes(c, "filtered")
  /\ main' = "select"
  /\ UNCHANGED available

(* try_acquire_owned: a permit now, or the socket is dropped.              *)
AcceptAdmitted(c) ==
  /\ Take(c)
  /\ ~is_blocked(PeerIp[c]) /\ is_allowed(PeerIp[c])
  /\ available > 0
  /\ available' = available - 1
  /\ ConnGoes(c, "admitted")
  /\ main' = "spawning"
  /\ UNCHANGED rejected_ip

AcceptRefused(c) ==
  /\ Take(c)
  /\ ~is_blocked(PeerIp[c]) /\ is_allowed(PeerIp[c])
  /\ available = 0
  /\ ConnGoes(c, "refused")
  /\ main' = "select"
  /\ UNCHANGED <<available, rejected_ip>>

(* in_flight.fetch_add(1), before the task exists.                         *)
CountIn(c) ==
  /\ main = "spawning"
  /\ conn[c] = "admitted"
  /\ in_flight' = in_flight + 1
  /\ ConnGoes(c, "counted")
  /\ UNCHANGED <<main, shutdown, available, permit, broadcast, expired,
                 outcome, accepted, rejected_ip, late, stale>>

(* Variant: `let _ = permit` drops the permit when the task starts.        *)
SpawnDropsPermit(c) ==
  /\ MainGoes("spawning", "select")
  /\ conn[c] = "counted"
  /\ available' = available + 1
  /\ ConnGoes(c, IF TlsEnabled THEN "handshake" ELSE "serving")
  /\ UNCHANGED <<shutdown, in_flight, permit, broadcast, expired, outcome,
                 accepted, rejected_ip, late, stale>>

Spawn(c) ==
  /\ MainGoes("spawning", "select")
  /\ conn[c] = "counted"
  /\ ConnGoes(c, IF TlsEnabled THEN "handshake" ELSE "serving")
  /\ UNCHANGED <<shutdown, available, in_flight, permit, broadcast, expired,
                 outcome, accepted, rejected_ip, late, stale>>

-----------------------------------------------------------------------------
(* A connection task.                                                      *)

TaskUnchanged ==
  UNCHANGED <<main, shutdown, broadcast, expired, outcome, accepted,
              rejected_ip, late, stale>>

HandshakeOk(c) ==
  /\ conn[c] = "handshake"
  /\ ConnGoes(c, "serving")
  /\ TaskUnchanged /\ UNCHANGED <<available, in_flight, permit>>

(* Variant: the error arm returns and skips the fetch_sub.                 *)
HandshakeFailsReturning(c) ==
  /\ conn[c] = "handshake"
  /\ ConnGoes(c, "ending")
  /\ TaskUnchanged /\ UNCHANGED <<available, in_flight, permit>>

HandshakeFails(c) ==
  /\ conn[c] = "handshake"
  /\ ConnGoes(c, "finished")
  /\ TaskUnchanged /\ UNCHANGED <<available, in_flight, permit>>

(* handle_connection sees the broadcast and asks Hyper to close.           *)
SeeBroadcast(c) ==
  /\ conn[c] = "serving"
  /\ broadcast
  /\ ConnGoes(c, "closing")
  /\ TaskUnchanged /\ UNCHANGED <<available, in_flight, permit>>

(* handle_connection returns: the peer closed, an error, a timeout, or the *)
(* last response of a closing connection was written.                      *)
ConnectionEnds(c) ==
  /\ conn[c] \in {"serving", "closing"}
  /\ ConnGoes(c, "finished")
  /\ TaskUnchanged /\ UNCHANGED <<available, in_flight, permit>>

(* Variants: fetch_sub(1) compared with 0, or not compared at all.         *)
CountOutOffByOne(c) ==
  /\ conn[c] = "finished"
  /\ in_flight' = in_flight - 1
  /\ ConnGoes(c, IF in_flight = 0 THEN "notifying" ELSE "ending")
  /\ TaskUnchanged /\ UNCHANGED <<available, permit>>

CountOutAlwaysNotifying(c) ==
  /\ conn[c] = "finished"
  /\ in_flight' = in_flight - 1
  /\ ConnGoes(c, "notifying")
  /\ TaskUnchanged /\ UNCHANGED <<available, permit>>

(* counter.fetch_sub(1) == 1 decides whether this task notifies.           *)
CountOut(c) ==
  /\ conn[c] = "finished"
  /\ in_flight' = in_flight - 1
  /\ ConnGoes(c, IF in_flight = 1 THEN "notifying" ELSE "ending")
  /\ TaskUnchanged /\ UNCHANGED <<available, permit>>

(* Notify::notify_one wakes the waiter, or stores one notification that    *)
(* the next notified() takes.                                              *)
NotifyOne(c) ==
  /\ conn[c] = "notifying"
  /\ permit' = TRUE
  /\ ConnGoes(c, "ending")
  /\ TaskUnchanged /\ UNCHANGED <<available, in_flight>>

(* The end of the task drops _permit.                                      *)
ReleasePermit(c) ==
  /\ conn[c] = "ending"
  /\ available' = available + 1
  /\ ConnGoes(c, "closed")
  /\ TaskUnchanged /\ UNCHANGED <<in_flight, permit>>

-----------------------------------------------------------------------------
(* The drain, after the loop.                                              *)

DrainUnchanged ==
  UNCHANGED <<conn, shutdown, available, in_flight, accepted, rejected_ip,
              late, stale>>

LoadBeforeSettle ==
  /\ MainGoes("ended", IF in_flight > 0 THEN "settle" ELSE "send")
  /\ DrainUnchanged /\ UNCHANGED <<permit, broadcast, expired, outcome>>

SettleOver ==
  /\ MainGoes("settle", "send")
  /\ DrainUnchanged /\ UNCHANGED <<permit, broadcast, expired, outcome>>

SendShutdown ==
  /\ MainGoes("send", "load")
  /\ broadcast' = TRUE
  /\ DrainUnchanged /\ UNCHANGED <<permit, expired, outcome>>

(* Variant: the last connection is not waited for.                         *)
LoadRemainingOffByOne ==
  /\ MainGoes("load", IF in_flight > 1 THEN "recheck" ELSE "returned")
  /\ outcome' = IF in_flight > 1 THEN outcome ELSE "idle"
  /\ DrainUnchanged /\ UNCHANGED <<permit, broadcast, expired>>

(* Both loads of the counter: the drain goes on only while it is not 0.    *)
LoadRemaining ==
  /\ MainGoes("load", IF in_flight > 0 THEN "recheck" ELSE "returned")
  /\ outcome' = IF in_flight > 0 THEN outcome ELSE "idle"
  /\ DrainUnchanged /\ UNCHANGED <<permit, broadcast, expired>>

Recheck ==
  /\ MainGoes("recheck", IF in_flight > 0 THEN "poll" ELSE "returned")
  /\ outcome' = IF in_flight > 0 THEN outcome ELSE "idle"
  /\ DrainUnchanged /\ UNCHANGED <<permit, broadcast, expired>>

(* One poll of timeout(drain_timeout, draining): the Notified future       *)
(* first, then the timer; the task sleeps until one of them wakes it.      *)
PollNotified ==
  /\ MainGoes("poll", IF permit THEN "returned" ELSE "timer")
  /\ outcome' = IF permit THEN "drained" ELSE outcome
  /\ permit' = FALSE
  /\ DrainUnchanged /\ UNCHANGED <<broadcast, expired>>

PollTimer ==
  /\ MainGoes("timer", IF expired THEN "returned" ELSE "waiting")
  /\ outcome' = IF expired THEN "timeout" ELSE outcome
  /\ DrainUnchanged /\ UNCHANGED <<permit, broadcast, expired>>

(* Variant: the notification is awaited without the timeout.               *)
WokenByNotifyOnly ==
  /\ MainGoes("waiting", "poll")
  /\ permit
  /\ DrainUnchanged /\ UNCHANGED <<permit, broadcast, expired, outcome>>

Woken ==
  /\ MainGoes("waiting", "poll")
  /\ permit \/ expired
  /\ DrainUnchanged /\ UNCHANGED <<permit, broadcast, expired, outcome>>

DrainDeadline ==
  /\ main \in {"poll", "timer", "waiting"}
  /\ ~expired
  /\ expired' = TRUE
  /\ DrainUnchanged /\ UNCHANGED <<main, permit, broadcast, outcome>>

(* accept_loop has returned, block_on ends and the runtime is dropped: a   *)
(* task is dropped where it awaits, with what it owns.                     *)
DropTask(c) ==
  /\ main = "returned"
  /\ conn[c] \in Awaiting
  /\ available' = available + 1
  /\ ConnGoes(c, "lost")
  /\ TaskUnchanged /\ UNCHANGED <<in_flight, permit>>

Exited ==
  /\ main = "returned"
  /\ In(Over) = Conn
  /\ UNCHANGED vars

-----------------------------------------------------------------------------

Loop ==
  \/ PollShutdown \/ AcceptPending \/ AcceptError \/ BackoffOver
  \/ \E c \in Conn : \/ AcceptFiltered(c) \/ AcceptAdmitted(c)
                     \/ AcceptRefused(c) \/ CountIn(c) \/ Spawn(c)

Task(c) ==
  \/ HandshakeOk(c) \/ HandshakeFails(c) \/ SeeBroadcast(c)
  \/ ConnectionEnds(c) \/ CountOut(c) \/ NotifyOne(c) \/ ReleasePermit(c)

Drain ==
  \/ LoadBeforeSettle \/ SettleOver \/ SendShutdown \/ LoadRemaining
  \/ Recheck \/ PollNotified \/ PollTimer \/ Woken

Next ==
  \/ ShutdownSignal
  \/ Loop
  \/ \E c \in Conn : Task(c) \/ DropTask(c)
  \/ Drain \/ DrainDeadline
  \/ Exited

Spec == Init /\ [][Next]_vars

(***************************************************************************)
(* The runtime schedules the main task, and a task that has counted itself *)
(* out runs to its end without awaiting.  Nothing is assumed of clients,   *)
(* so nothing of the tasks that wait for them.                             *)
(***************************************************************************)
SchedulerSpec ==
  /\ Spec
  /\ WF_vars(Loop \/ Drain)
  /\ \A c \in Conn : WF_vars(NotifyOne(c))

-----------------------------------------------------------------------------
(* Properties.                                                             *)

(* A permit of connection_limit is never leaked and never duplicated: what *)
(* is left and what connections hold always add up to max_connections,     *)
(* through rejection, failed handshakes, normal ends and dropped tasks.    *)
(* Hence no more than max_connections connections are ever served.         *)
PermitsConserved == available + Cardinality(In(Holding)) = MaxConnections

(* in_flight counts exactly the connections that are between fetch_add and *)
(* fetch_sub (and those whose task was dropped there), so it never wraps   *)
(* below 0 and a 0 the drain reads means that nobody is being served.      *)
InFlightExact == in_flight = Cardinality(In(Counted))

(* Every accepted connection is accounted for once: filtered by address,   *)
(* refused at the cap, or admitted to a task.                              *)
AcceptedAccounted ==
  /\ rejected_ip = Cardinality(In({"filtered"}))
  /\ accepted = rejected_ip + Cardinality(In({"refused", "closed"}))
                 + Cardinality(In(Holding \cup {"lost"}))

(* The biased select!: at most one connection is still taken from the      *)
(* listener after the shutdown future resolved.                            *)
AtMostOneLate == \A c, d \in late : c = d

(* accept_loop returns without a timeout only when no connection is left   *)
(* and none will be dropped: at once when a load of in_flight gave 0, and  *)
(* after the notification unless one was already pending when the loop     *)
(* ended.                                                                  *)
QuietExit ==
  outcome = "idle" \/ (outcome = "drained" /\ ~stale) => In(Counted) = {}

(* "waits up to this many seconds for in-flight connections to close       *)
(* before forcing exit" (src/config.rs, shutdown_drain_secs): a connection *)
(* is dropped only after the drain timeout.                                *)
DroppedOnlyAfterTimeout == In({"lost"}) # {} => outcome = "timeout"

(* No lost wakeup: once the last connection has counted itself out, the    *)
(* drain ends without the help of its timer, wherever it was between its   *)
(* loads of in_flight and its poll of the Notify.                          *)
DrainWakesUp ==
  main \in {"recheck", "poll", "timer", "waiting"} /\ in_flight = 0
    ~> main = "returned"

(* The server always stops: if the drain's timer fires, then once the      *)
(* shutdown future resolves accept_loop returns, whatever clients do.      *)
ShutdownCompletes ==
  WF_vars(DrainDeadline) => (shutdown ~> main = "returned")
==============================================================================
