------------------------ MODULE RequestPipelineProofs ------------------------
(***************************************************************************)
(* Proofs of the safety properties of RequestPipeline, for any number of   *)
(* connections, any cap and any number of requests.                        *)
(***************************************************************************)
EXTENDS RequestPipeline, Integers, FiniteSetTheorems, TLAPS

(* The gauge is at least the number of requests in progress: fetch_sub     *)
(* never wraps.                                                            *)
GaugeCoversRequests == Cardinality(In(Holding)) <= m.requests_active

IInv == TypeOK /\ PermitsConserved /\ GaugeCoversRequests

-----------------------------------------------------------------------------

(* What the number of connections in the phases S changes by when one      *)
(* connection goes from one phase to another.                              *)
Delta(S, from, to) ==
  (IF to \in S THEN 1 ELSE 0) - (IF from \in S THEN 1 ELSE 0)

(* Connection c goes to phase `to`, and the semaphore with it.             *)
PhaseStep(c, to) ==
  /\ phase' = [phase EXCEPT ![c] = to]
  /\ available' = available - Delta(Holding, phase[c], to)
  /\ phase[c] \notin Holding /\ to \in Holding => available > 0

(* Such a step conserves permits, and changes the number of requests in    *)
(* progress by the move.                                                   *)
LEMMA HoldingMoves ==
  ASSUME TypeOK, PermitsConserved, NEW c \in Conn, NEW to, PhaseStep(c, to)
  PROVE  /\ PermitsConserved'
         /\ available' \in Nat
         /\ Cardinality(In(Holding)) \in Nat
         /\ Cardinality(In(Holding))'
              = Cardinality(In(Holding)) + Delta(Holding, phase[c], to)
         /\ phase[c] \in Holding => Cardinality(In(Holding)) > 0
<1> DEFINE H == In(Holding)
<1>1. /\ H \subseteq Conn
      /\ H' = IF to \in Holding THEN H \cup {c} ELSE H \ {c}
      /\ c \in H <=> phase[c] \in Holding
  BY DEF In, TypeOK, PhaseStep
<1>2. IsFiniteSet(H) /\ Cardinality(H) \in Nat
  BY <1>1, ConnFinite, FS_Subset, FS_CardinalityType
<1>3. Delta(Holding, phase[c], to) \in -1..1
  BY DEF Delta
<1>4. /\ Cardinality(H) \in Nat
      /\ Cardinality(H)' = Cardinality(H) + Delta(Holding, phase[c], to)
      /\ phase[c] \in Holding => Cardinality(H) > 0
  <2> HIDE DEF H
  <2>1. Cardinality(H \cup {c})
          = IF phase[c] \in Holding THEN Cardinality(H) ELSE Cardinality(H) + 1
    BY <1>1, <1>2, FS_AddElement
  <2>2. Cardinality(H \ {c})
          = IF phase[c] \in Holding THEN Cardinality(H) - 1 ELSE Cardinality(H)
    BY <1>1, <1>2, FS_RemoveElement, Zenon
  <2>3. phase[c] \in Holding => Cardinality(H) # 0
    BY <1>1, <1>2, FS_EmptySet
  <2>4. Cardinality(H)' = Cardinality(H) + Delta(Holding, phase[c], to)
    BY <1>1, <1>2, <2>1, <2>2 DEF Delta
  <2> QED
    BY <1>2, <2>3, <2>4
<1>5. available \in Nat /\ MaxConcurrent \in Nat
  BY MaxConcurrentNat DEF TypeOK
<1>6. PermitsConserved'
  BY <1>3, <1>4, <1>5 DEF PermitsConserved, PhaseStep
<1>7. available' \in Nat
  BY <1>5 DEF PhaseStep, Delta
<1> QED
  BY <1>4, <1>6, <1>7

LEMMA InitIInv == Init => IInv
<1> SUFFICES ASSUME Init PROVE IInv
  OBVIOUS
<1> USE DEF Init
<1>1. TypeOK
  BY MaxConcurrentNat, Zenon DEF TypeOK, Phase, Metrics
<1>2. In(Holding) = {}
  BY DEF In, Holding
<1>3. Cardinality(In(Holding)) = 0
  BY <1>2, FS_EmptySet
<1>4. PermitsConserved /\ GaugeCoversRequests
  BY <1>3, MaxConcurrentNat DEF PermitsConserved, GaugeCoversRequests
<1> QED
  BY <1>1, <1>4 DEF IInv

-----------------------------------------------------------------------------
(* The steps, by what they do to the gauge.                                *)

(* The gauge stays and no request starts.                                  *)
LEMMA GaugeKept ==
  ASSUME TypeOK, GaugeCoversRequests, PermitsConserved, NEW c \in Conn, NEW to,
         PhaseStep(c, to), to \in Holding => phase[c] \in Holding,
         UNCHANGED m
  PROVE  GaugeCoversRequests'
<1>1. /\ Cardinality(In(Holding)) \in Nat
      /\ Cardinality(In(Holding))'
           = Cardinality(In(Holding)) + Delta(Holding, phase[c], to)
  BY HoldingMoves
<1>2. Delta(Holding, phase[c], to) \in {-1, 0}
  BY DEF Delta
<1>3. m.requests_active \in Nat
  BY DEF TypeOK, Metrics
<1> QED
  BY <1>1, <1>2, <1>3 DEF GaugeCoversRequests

LEMMA MiddlewareStep ==
  ASSUME IInv, NEW c \in Conn, Middleware(c)
  PROVE  IInv'
<1>0. TypeOK /\ PermitsConserved /\ GaugeCoversRequests
  BY DEF IInv
<1>1. CASE RefuseRate(c) \/ RefuseConcurrency(c)
  <2>1. /\ PhaseStep(c, "writing") /\ phase[c] = "idle"
        /\ UNCHANGED <<graceful, broadcast, outcome, m>>
        /\ requests' = requests + 1
    BY <1>0, <1>1 DEF RefuseRate, RefuseConcurrency, Goes, PhaseStep, Delta,
                      Holding, ConnUnchanged, Arrives, TypeOK
  <2>2. PermitsConserved' /\ available' \in Nat
    BY <1>0, <2>1, HoldingMoves
  <2>3. TypeOK'
    BY <1>0, <2>1, <2>2 DEF TypeOK, PhaseStep, Phase, Busy
  <2>4. GaugeCoversRequests'
    BY <1>0, <2>1, GaugeKept DEF Holding
  <2> QED
    BY <2>2, <2>3, <2>4 DEF IInv
<1>2. CASE Admit(c)
  <2>1. /\ PhaseStep(c, "started") /\ phase[c] = "idle"
        /\ UNCHANGED <<graceful, broadcast, outcome>>
        /\ requests' = requests + 1
        /\ m' = [m EXCEPT !.requests_total = @ + 1, !.requests_active = @ + 1]
        /\ Delta(Holding, "idle", "started") = 1
    BY <1>0, <1>2 DEF Admit, Goes, PhaseStep, Delta, Holding, ConnUnchanged,
                      Arrives, TypeOK
  <2>2. /\ PermitsConserved' /\ available' \in Nat
        /\ Cardinality(In(Holding)) \in Nat
        /\ Cardinality(In(Holding))' = Cardinality(In(Holding)) + 1
    BY <1>0, <2>1, HoldingMoves
  <2>3. TypeOK'
    <3>1. m' \in Metrics
      <4> DEFINE n == [m EXCEPT !.requests_total = @ + 1]
      <4>1. n \in Metrics
        BY <1>0 DEF TypeOK, Metrics
      <4>2. m' = [n EXCEPT !.requests_active = @ + 1]
        BY <1>0, <2>1 DEF TypeOK, Metrics
      <4> HIDE DEF n
      <4> QED
        BY <4>1, <4>2 DEF Metrics
    <3>2. phase' \in [Conn -> Phase]
      BY <1>0, <2>1 DEF TypeOK, PhaseStep, Phase, Busy, Holding
    <3> QED
      BY <1>0, <2>1, <2>2, <3>1, <3>2 DEF TypeOK
  <2>4. GaugeCoversRequests'
    <3>1. m.requests_active \in Nat /\ m'.requests_active = m.requests_active + 1
      BY <1>0, <2>1 DEF TypeOK, Metrics
    <3> QED
      BY <1>0, <2>2, <3>1 DEF GaugeCoversRequests
  <2> QED
    BY <2>2, <2>3, <2>4 DEF IInv
<1> QED
  BY <1>1, <1>2 DEF Middleware

(* The counters after a response of some class.                            *)
LEMMA ResponseCounted ==
  ASSUME NEW metrics \in Metrics, NEW class \in StatusClass
  PROVE  LET n == CountResponse(metrics, class)
         IN  /\ n \in Metrics
             /\ n.requests_active = metrics.requests_active
<1>1. CASE class = "2xx"
  BY <1>1 DEF CountResponse, Metrics
<1>2. CASE class \in {"3xx", "4xx"}
  BY <1>2 DEF CountResponse, Metrics
<1>3. CASE class = "5xx"
  BY <1>3 DEF CountResponse, Metrics
<1> QED
  BY <1>1, <1>2, <1>3 DEF StatusClass

LEMMA RespondStep ==
  ASSUME IInv, NEW c \in Conn, NEW metrics \in Metrics,
         metrics.requests_active = m.requests_active,
         NEW class \in StatusClass, Respond(c, metrics, class)
  PROVE  IInv'
<1>0. TypeOK /\ PermitsConserved /\ GaugeCoversRequests
  BY DEF IInv
<1> DEFINE n == CountResponse(metrics, class)
<1>1. /\ PhaseStep(c, "writing") /\ phase[c] = "dispatch"
      /\ UNCHANGED <<graceful, broadcast, outcome, requests>>
      /\ m' = [n EXCEPT !.requests_active = @ - 1]
      /\ Delta(Holding, "dispatch", "writing") = -1
      /\ phase[c] \in Holding
  BY <1>0 DEF Respond, Goes, PhaseStep, Delta, Holding, ConnUnchanged, TypeOK
<1>2. /\ PermitsConserved' /\ available' \in Nat
      /\ Cardinality(In(Holding)) \in Nat
      /\ Cardinality(In(Holding))' = Cardinality(In(Holding)) - 1
      /\ Cardinality(In(Holding)) > 0
  BY <1>0, <1>1, HoldingMoves
<1>3. /\ n \in Metrics
      /\ n.requests_active = m.requests_active
  BY ResponseCounted
<1> HIDE DEF n
<1>4. m.requests_active \in Nat /\ m.requests_active > 0
  BY <1>0, <1>2 DEF TypeOK, Metrics, GaugeCoversRequests
<1>5. TypeOK'
  <2>1. m' \in Metrics
    BY <1>1, <1>3, <1>4 DEF Metrics
  <2>2. phase' \in [Conn -> Phase]
    BY <1>0, <1>1 DEF TypeOK, PhaseStep, Phase, Busy
  <2> QED
    BY <1>0, <1>1, <1>2, <2>1, <2>2 DEF TypeOK
<1>6. GaugeCoversRequests'
  <2>1. m'.requests_active = m.requests_active - 1
    BY <1>1, <1>3 DEF Metrics
  <2> QED
    BY <1>0, <1>2, <1>4, <2>1 DEF GaugeCoversRequests
<1> QED
  BY <1>2, <1>5, <1>6 DEF IInv

LEMMA InnerStep ==
  ASSUME IInv, NEW c \in Conn, Inner(c)
  PROVE  IInv'
<1>0. TypeOK /\ PermitsConserved /\ GaugeCoversRequests
  BY DEF IInv
<1>1. CASE DeclaredTooLarge(c) \/ BodyRejected(c)
  <2>1. /\ PhaseStep(c, "writing") /\ phase[c] \in Holding
        /\ UNCHANGED <<graceful, broadcast, outcome, m, requests>>
    BY <1>0, <1>1 DEF DeclaredTooLarge, BodyRejected, ReturnEarly, Goes,
                      PhaseStep, Delta, Holding, ConnUnchanged, TypeOK
  <2>2. PermitsConserved' /\ available' \in Nat
    BY <1>0, <2>1, HoldingMoves
  <2>3. TypeOK'
    <3>1. phase' \in [Conn -> Phase]
      BY <1>0, <2>1 DEF TypeOK, PhaseStep, Phase, Busy
    <3> QED
      BY <1>0, <2>1, <2>2, <3>1 DEF TypeOK
  <2>4. GaugeCoversRequests'
    BY <1>0, <2>1, GaugeKept
  <2> QED
    BY <2>2, <2>3, <2>4 DEF IInv
<1>2. CASE CollectBody(c) \/ BodyCollected(c)
  <2>1. PICK to \in Holding :
          /\ PhaseStep(c, to) /\ phase[c] \in Holding
          /\ UNCHANGED <<graceful, broadcast, outcome, available, m, requests>>
    <3>1. ASSUME CollectBody(c)
          PROVE  PhaseStep(c, "body")
      BY <1>0, <3>1 DEF CollectBody, Goes, PhaseStep, Delta, Holding, TypeOK
    <3>2. ASSUME BodyCollected(c)
          PROVE  PhaseStep(c, "dispatch")
      BY <1>0, <3>2 DEF BodyCollected, Goes, PhaseStep, Delta, Holding, TypeOK
    <3> QED
      BY <1>2, <3>1, <3>2 DEF CollectBody, BodyCollected, Goes, Holding,
                              ConnUnchanged
  <2>2. PermitsConserved' /\ available' \in Nat
    BY <1>0, <2>1, HoldingMoves
  <2>3. TypeOK'
    BY <1>0, <2>1, <2>2 DEF TypeOK, PhaseStep, Phase, Busy
  <2>4. GaugeCoversRequests'
    BY <1>0, <2>1, GaugeKept
  <2> QED
    BY <2>2, <2>3, <2>4 DEF IInv
<1>3. CASE DispatchDone(c)
  BY <1>0, <1>3, RespondStep DEF DispatchDone, TypeOK
<1>4. CASE DispatchTimeout(c)
  <2> DEFINE metrics == [m EXCEPT !.timed_out = @ + 1]
  <2>1. /\ metrics \in Metrics
        /\ metrics.requests_active = m.requests_active
    BY <1>0 DEF TypeOK, Metrics
  <2>2. Respond(c, metrics, "5xx") /\ "5xx" \in StatusClass
    BY <1>4 DEF DispatchTimeout, StatusClass
  <2> HIDE DEF metrics
  <2> QED
    BY <2>1, <2>2, RespondStep
<1> QED
  BY <1>1, <1>2, <1>3, <1>4 DEF Inner

LEMMA SelectStep ==
  ASSUME IInv, NEW c \in Conn, Select(c)
  PROVE  IInv'
<1>0. TypeOK /\ PermitsConserved /\ GaugeCoversRequests
  BY DEF IInv
(* Leaving the loop, for whatever reason, keeps permits and the gauge.     *)
<1>1. ASSUME NEW why \in {"clean", "client", "keepalive", "cut", "dropped"},
             Leave(c, why)
      PROVE  /\ PermitsConserved' /\ GaugeCoversRequests'
             /\ graceful' \in [Conn -> BOOLEAN] => TypeOK'
  <2>1. /\ PhaseStep(c, "over") /\ phase[c] # "over"
        /\ UNCHANGED <<broadcast, m, requests>>
        /\ outcome' = [outcome EXCEPT ![c] = why]
    BY <1>0, <1>1 DEF Leave, PhaseStep, Pollable, Delta, Holding, TypeOK
  <2>2. PermitsConserved' /\ available' \in Nat
    BY <1>0, <2>1, HoldingMoves
  <2>3. GaugeCoversRequests'
    BY <1>0, <2>1, GaugeKept DEF Holding
  <2>4. phase' \in [Conn -> Phase]
    BY <1>0, <2>1 DEF TypeOK, PhaseStep, Phase
  <2>5. outcome' \in [Conn -> {"open", "clean", "client", "keepalive", "cut",
                               "dropped"}]
    BY <1>0, <2>1 DEF TypeOK
  <2> QED
    BY <1>0, <2>1, <2>2, <2>3, <2>4, <2>5 DEF TypeOK
<1>2. CASE KeepAlive(c)
  <2>1. /\ PhaseStep(c, "idle") /\ phase[c] = "writing"
        /\ UNCHANGED <<graceful, broadcast, outcome, m, requests>>
    BY <1>0, <1>2 DEF KeepAlive, Goes, PhaseStep, Delta, Holding,
                      ConnUnchanged, TypeOK
  <2>2. PermitsConserved' /\ available' \in Nat
    BY <1>0, <2>1, HoldingMoves
  <2>3. TypeOK'
    BY <1>0, <2>1, <2>2 DEF TypeOK, PhaseStep, Phase
  <2>4. GaugeCoversRequests'
    BY <1>0, <2>1, GaugeKept DEF Holding
  <2> QED
    BY <2>2, <2>3, <2>4 DEF IInv
<1>3. CASE ConnectionDone(c) \/ ClientGone(c) \/ KaTimeout(c) \/ TaskDropped(c)
  <2>1. PICK why \in {"clean", "client", "keepalive", "cut", "dropped"} :
          Leave(c, why) /\ UNCHANGED graceful
    BY <1>3 DEF ConnectionDone, ClientGone, KaTimeout, TaskDropped
  <2>2. TypeOK' /\ PermitsConserved' /\ GaugeCoversRequests'
    BY <1>0, <1>1, <2>1 DEF TypeOK
  <2> QED
    BY <2>2 DEF IInv
<1>4. CASE SeeBroadcast(c)
  <2>1. graceful' \in [Conn -> BOOLEAN]
    BY <1>0, <1>4 DEF SeeBroadcast, TypeOK
  <2>2. CASE phase[c] = "idle"
    <3>1. Leave(c, "clean")
      BY <1>4, <2>2 DEF SeeBroadcast
    <3> QED
      BY <1>1, <2>1, <3>1 DEF IInv
  <2>3. CASE phase[c] # "idle"
    <3>1. UNCHANGED <<phase, broadcast, available, m, requests, outcome>>
      BY <1>4, <2>3 DEF SeeBroadcast
    <3> QED
      BY <1>0, <2>1, <3>1 DEF IInv, TypeOK, PermitsConserved,
                              GaugeCoversRequests, In
  <2> QED
    BY <2>2, <2>3
<1> QED
  BY <1>2, <1>3, <1>4 DEF Select

(* Every step preserves the inductive invariant.                           *)
LEMMA NextIInv == IInv /\ [Next]_vars => IInv'
<1> SUFFICES ASSUME IInv, [Next]_vars PROVE IInv'
  OBVIOUS
<1>1. CASE UNCHANGED vars \/ SendShutdown \/ Done
  <2>1. /\ UNCHANGED <<phase, graceful, available, m, requests, outcome>>
        /\ broadcast' \in BOOLEAN
    BY <1>1, Zenon DEF vars, SendShutdown, Done, IInv, TypeOK
  <2> QED
    BY <2>1 DEF IInv, TypeOK, PermitsConserved, GaugeCoversRequests, In
<1>2. CASE \E c \in Conn : Middleware(c) \/ Inner(c) \/ Select(c)
  BY <1>2, MiddlewareStep, InnerStep, SelectStep
<1> QED
  BY <1>1, <1>2 DEF Next

-----------------------------------------------------------------------------

(* The inductive invariant holds of every behaviour.                       *)
THEOREM Invariance == Spec => []IInv
BY InitIInv, NextIInv, PTL DEF Spec

(* Every variable keeps its type; in particular the unsigned counters and  *)
(* the semaphore of the concurrency limiter never go below 0.              *)
THEOREM TypeCorrect == Spec => []TypeOK
BY Invariance, PTL DEF IInv

(* On every path through the inner service and out of the select loop the  *)
(* permits of the concurrency limiter are conserved.                       *)
THEOREM PermitsBalance == Spec => []PermitsConserved
<1>1. IInv => PermitsConserved
  BY DEF IInv
<1> QED
  BY <1>1, Invariance, PTL
==============================================================================
