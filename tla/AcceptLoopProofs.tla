--------------------------- MODULE AcceptLoopProofs ---------------------------
(***************************************************************************)
(* Proofs of the safety properties of AcceptLoop, for any number of        *)
(* connections, any cap, with and without TLS and any address lists.       *)
(***************************************************************************)
EXTENDS AcceptLoop, Integers, FiniteSetTheorems, TLAPS

-----------------------------------------------------------------------------

(* What the number of connections in the phases S changes by when one      *)
(* connection goes from one phase to another.                              *)
Delta(S, from, to) ==
  (IF to \in S THEN 1 ELSE 0) - (IF from \in S THEN 1 ELSE 0)

(* Phases some connection is in are not empty.                             *)
LEMMA SomeIn ==
  ASSUME NEW S, NEW c \in Conn, conn[c] \in S
  PROVE  Cardinality(In(S)) > 0
<1>1. In(S) \subseteq Conn /\ In(S) # {}
  BY DEF In
<1>2. IsFiniteSet(In(S)) /\ Cardinality(In(S)) \in Nat
  BY <1>1, ConnFinite, FS_Subset, FS_CardinalityType
<1> QED
  BY <1>1, <1>2, FS_EmptySet

(* When a connection moves, the number of connections in the phases S      *)
(* changes by Delta.                                                       *)
LEMMA ConnMoves ==
  ASSUME TypeOK, NEW c \in Conn, NEW to, ConnGoes(c, to), NEW S
  PROVE  /\ Cardinality(In(S)) \in Nat
         /\ Cardinality(In(S))' = Cardinality(In(S)) + Delta(S, conn[c], to)
         /\ conn[c] \in S => Cardinality(In(S)) > 0
<1>1. /\ In(S) \subseteq Conn /\ In(S)' \subseteq Conn
      /\ In(S)' = IF to \in S THEN In(S) \cup {c} ELSE In(S) \ {c}
  BY DEF In, TypeOK, ConnGoes
<1>2. IsFiniteSet(In(S)) /\ Cardinality(In(S)) \in Nat
  BY <1>1, ConnFinite, FS_Subset, FS_CardinalityType
<1>3. c \in In(S) <=> conn[c] \in S
  BY DEF In
<1>4. Cardinality(In(S) \cup {c})
        = IF conn[c] \in S THEN Cardinality(In(S)) ELSE Cardinality(In(S)) + 1
  BY <1>2, <1>3, FS_AddElement
<1>5. Cardinality(In(S) \ {c})
        = IF conn[c] \in S THEN Cardinality(In(S)) - 1 ELSE Cardinality(In(S))
  BY <1>2, <1>3, FS_RemoveElement, Zenon
<1>6. Cardinality(In(S))' = Cardinality(In(S)) + Delta(S, conn[c], to)
  BY <1>1, <1>2, <1>4, <1>5 DEF Delta
<1> QED
  BY <1>2, <1>6, SomeIn

-----------------------------------------------------------------------------
(* The inductive invariant.                                                *)

AfterLoop == MainPhase \ {"select", "accept", "backoff", "spawning"}

(* The main task holds at most one connection, between its permit and its  *)
(* spawn, and only then.                                                   *)
SpawnInv ==
  /\ \A c \in Conn : conn[c] \in {"admitted", "counted"} => main = "spawning"
  /\ \A c, d \in Conn :
        conn[c] \in {"admitted", "counted"}
          /\ conn[d] \in {"admitted", "counted"} => c = d

(* A late connection is taken only by the poll that the signal overtook.   *)
LateInv ==
  /\ late # {} => shutdown /\ main # "accept"
  /\ AtMostOneLate

(* After the loop in_flight only falls, so that a notification sent after  *)
(* the loop, and a 0 read there, mean that it is 0 for good.               *)
DrainInv ==
  /\ outcome # "none" => main = "returned"
  /\ main \in AfterLoop /\ ~stale
       /\ (permit \/ \E c \in Conn : conn[c] = "notifying") => in_flight = 0
  /\ outcome = "idle" \/ (outcome = "drained" /\ ~stale) => in_flight = 0

Accounting == PermitsConserved /\ InFlightExact /\ AcceptedAccounted

IInv == TypeOK /\ Accounting /\ SpawnInv /\ LateInv /\ DrainInv

-----------------------------------------------------------------------------

LEMMA InitIInv == Init => IInv
<1> SUFFICES ASSUME Init PROVE IInv
  OBVIOUS
<1> USE DEF Init
<1>1. TypeOK
  BY MaxConnectionsNat, Zenon DEF TypeOK, MainPhase, ConnPhase, Over, Outcome
<1>2. Accounting
  <2>1. /\ In(Holding) = {} /\ In(Counted) = {} /\ In({"filtered"}) = {}
        /\ In({"refused", "closed"}) = {} /\ In(Holding \cup {"lost"}) = {}
    BY DEF In, Holding, Counted, Awaiting, Uncounting
  <2>2. Cardinality({}) = 0
    BY FS_EmptySet
  <2> QED
    BY <2>1, <2>2, MaxConnectionsNat
    DEF Accounting, PermitsConserved, InFlightExact, AcceptedAccounted
<1>3. SpawnInv /\ LateInv /\ DrainInv
  BY DEF SpawnInv, LateInv, AtMostOneLate, DrainInv, AfterLoop, MainPhase
<1> QED
  BY <1>1, <1>2, <1>3 DEF IInv

(* A step that moves one connection and changes the semaphore and the      *)
(* counters by what the move changes in the sets they stand for.           *)
Balanced(c, to) ==
  /\ ConnGoes(c, to)
  /\ available' = available - Delta(Holding, conn[c], to)
  /\ in_flight' = in_flight + Delta(Counted, conn[c], to)
  /\ rejected_ip' = rejected_ip + Delta({"filtered"}, conn[c], to)
  /\ accepted' = accepted + Delta({"filtered"}, conn[c], to)
                    + Delta({"refused", "closed"}, conn[c], to)
                    + Delta(Holding \cup {"lost"}, conn[c], to)

(* Such a step keeps the accounts.                                         *)
LEMMA AccountingMoves ==
  ASSUME TypeOK, Accounting, NEW c \in Conn, NEW to, Balanced(c, to)
  PROVE  Accounting'
<1> DEFINE Changes(S) == /\ Cardinality(In(S)) \in Nat
                         /\ Cardinality(In(S))'
                              = Cardinality(In(S)) + Delta(S, conn[c], to)
                         /\ Delta(S, conn[c], to) \in Int
<1>1. Changes(Holding) /\ Changes(Counted) /\ Changes({"filtered"})
  BY ConnMoves DEF Delta, Balanced
<1>2. Changes({"refused", "closed"}) /\ Changes(Holding \cup {"lost"})
  BY ConnMoves DEF Delta, Balanced
<1>3. available \in Nat /\ MaxConnections \in Nat
  BY MaxConnectionsNat DEF TypeOK
<1> QED
  BY <1>1, <1>2, <1>3
  DEF Balanced, Accounting, PermitsConserved, InFlightExact, AcceptedAccounted

(* A step that moves no connection and changes no counter keeps them.      *)
LEMMA AccountingStays ==
  ASSUME Accounting,
         UNCHANGED <<conn, available, in_flight, accepted, rejected_ip>>
  PROVE  Accounting'
BY DEF Accounting, PermitsConserved, InFlightExact, AcceptedAccounted, In

(* A connection that is counted makes in_flight positive.                  *)
LEMMA CountedPositive ==
  ASSUME TypeOK, Accounting, NEW c \in Conn, conn[c] \in Counted
  PROVE  in_flight > 0
BY SomeIn DEF Accounting, InFlightExact

(* Every step preserves the inductive invariant.                           *)
LEMMA NextIInv == IInv /\ [Next]_vars => IInv'
<1> SUFFICES ASSUME IInv, [Next]_vars PROVE IInv'
  OBVIOUS
<1> USE DEF IInv, TypeOK
<1>1. ASSUME Next PROVE IInv'
  <2>1. ASSUME ShutdownSignal
        PROVE  IInv'
    <3>1. TypeOK'
      BY <2>1 DEF ShutdownSignal, MainPhase, Outcome
    <3>2. Accounting'
      BY <2>1, AccountingStays DEF ShutdownSignal
    <3>3. SpawnInv' /\ LateInv' /\ DrainInv'
      BY <2>1
      DEF ShutdownSignal, SpawnInv, LateInv, AtMostOneLate, DrainInv,
          AfterLoop, MainPhase, In
    <3> QED
      BY <3>1, <3>2, <3>3 DEF IInv
  <2>2. ASSUME PollShutdown
        PROVE  IInv'
    <3>1. TypeOK'
      BY <2>2 DEF PollShutdown, MainGoes, MainPhase, Outcome
    <3>2. Accounting'
      BY <2>2, AccountingStays DEF PollShutdown, MainGoes
    <3>3. SpawnInv' /\ LateInv' /\ DrainInv'
      BY <2>2
      DEF PollShutdown, MainGoes, SpawnInv, LateInv, AtMostOneLate, DrainInv,
          AfterLoop, MainPhase, In
    <3> QED
      BY <3>1, <3>2, <3>3 DEF IInv
  <2>3. ASSUME AcceptPending
        PROVE  IInv'
    <3>1. TypeOK'
      BY <2>3 DEF AcceptPending, MainGoes, MainPhase, Outcome
    <3>2. Accounting'
      BY <2>3, AccountingStays DEF AcceptPending, MainGoes
    <3>3. SpawnInv' /\ LateInv' /\ DrainInv'
      BY <2>3
      DEF AcceptPending, MainGoes, SpawnInv, LateInv, AtMostOneLate, DrainInv,
          AfterLoop, MainPhase, In
    <3> QED
      BY <3>1, <3>2, <3>3 DEF IInv
  <2>4. ASSUME AcceptError
        PROVE  IInv'
    <3>1. TypeOK'
      BY <2>4 DEF AcceptError, MainGoes, MainPhase, Outcome
    <3>2. Accounting'
      BY <2>4, AccountingStays DEF AcceptError, MainGoes
    <3>3. SpawnInv' /\ LateInv' /\ DrainInv'
      BY <2>4
      DEF AcceptError, MainGoes, SpawnInv, LateInv, AtMostOneLate, DrainInv,
          AfterLoop, MainPhase, In
    <3> QED
      BY <3>1, <3>2, <3>3 DEF IInv
  <2>5. ASSUME BackoffOver
        PROVE  IInv'
    <3>1. TypeOK'
      BY <2>5 DEF BackoffOver, MainGoes, MainPhase, Outcome
    <3>2. Accounting'
      BY <2>5, AccountingStays DEF BackoffOver, MainGoes
    <3>3. SpawnInv' /\ LateInv' /\ DrainInv'
      BY <2>5
      DEF BackoffOver, MainGoes, SpawnInv, LateInv, AtMostOneLate, DrainInv,
          AfterLoop, MainPhase, In
    <3> QED
      BY <3>1, <3>2, <3>3 DEF IInv
  <2>6. ASSUME NEW c \in Conn, AcceptFiltered(c)
        PROVE  IInv'
    <3>1. TypeOK'
      BY <2>6
      DEF AcceptFiltered, Take, ConnGoes, MainPhase, ConnPhase, Counted,
          Holding, Over, Awaiting, Uncounting, Outcome
    <3>2. Balanced(c, "filtered")
      BY <2>6
      DEF AcceptFiltered, Take, Balanced, Delta, Counted, Holding, Awaiting,
          Uncounting
    <3>3. Accounting'
      BY <3>2, AccountingMoves
    <3>4. SpawnInv' /\ LateInv' /\ DrainInv'
      BY <2>6, CountedPositive
      DEF AcceptFiltered, Take, ConnGoes, SpawnInv, LateInv, AtMostOneLate,
          DrainInv, AfterLoop, MainPhase, Counted, Awaiting
    <3> QED
      BY <3>1, <3>3, <3>4 DEF IInv
  <2>7. ASSUME NEW c \in Conn, AcceptAdmitted(c)
        PROVE  IInv'
    <3>1. TypeOK'
      BY <2>7
      DEF AcceptAdmitted, Take, ConnGoes, MainPhase, ConnPhase, Counted,
          Holding, Over, Awaiting, Uncounting, Outcome
    <3>2. Balanced(c, "admitted")
      BY <2>7
      DEF AcceptAdmitted, Take, Balanced, Delta, Counted, Holding, Awaiting,
          Uncounting
    <3>3. Accounting'
      BY <3>2, AccountingMoves
    <3>4. SpawnInv' /\ LateInv' /\ DrainInv'
      BY <2>7, CountedPositive
      DEF AcceptAdmitted, Take, ConnGoes, SpawnInv, LateInv, AtMostOneLate,
          DrainInv, AfterLoop, MainPhase, Counted, Awaiting
    <3> QED
      BY <3>1, <3>3, <3>4 DEF IInv
  <2>8. ASSUME NEW c \in Conn, AcceptRefused(c)
        PROVE  IInv'
    <3>1. TypeOK'
      BY <2>8
      DEF AcceptRefused, Take, ConnGoes, MainPhase, ConnPhase, Counted,
          Holding, Over, Awaiting, Uncounting, Outcome
    <3>2. Balanced(c, "refused")
      <4>1. /\ Delta(Holding, "offered", "refused") = 0
            /\ Delta(Counted, "offered", "refused") = 0
            /\ Delta({"filtered"}, "offered", "refused") = 0
            /\ Delta({"refused", "closed"}, "offered", "refused") = 1
            /\ Delta(Holding \cup {"lost"}, "offered", "refused") = 0
        BY DEF Delta, Counted, Holding, Awaiting, Uncounting
      <4> QED
        BY <4>1, <2>8 DEF AcceptRefused, Take, Balanced
    <3>3. Accounting'
      BY <3>2, AccountingMoves
    <3>4. SpawnInv' /\ LateInv' /\ DrainInv'
      BY <2>8, CountedPositive
      DEF AcceptRefused, Take, ConnGoes, SpawnInv, LateInv, AtMostOneLate,
          DrainInv, AfterLoop, MainPhase, Counted, Awaiting
    <3> QED
      BY <3>1, <3>3, <3>4 DEF IInv
  <2>9. ASSUME NEW c \in Conn, CountIn(c)
        PROVE  IInv'
    <3>1. TypeOK'
      BY <2>9
      DEF CountIn, ConnGoes, MainPhase, ConnPhase, Counted, Holding, Over,
          Awaiting, Uncounting, Outcome
    <3>2. Balanced(c, "counted")
      BY <2>9
      DEF CountIn, Balanced, Delta, Counted, Holding, Awaiting, Uncounting
    <3>3. Accounting'
      BY <3>2, AccountingMoves
    <3>4. SpawnInv' /\ LateInv' /\ DrainInv'
      BY <2>9, CountedPositive
      DEF CountIn, ConnGoes, SpawnInv, LateInv, AtMostOneLate, DrainInv,
          AfterLoop, MainPhase, Counted, Awaiting
    <3> QED
      BY <3>1, <3>3, <3>4 DEF IInv
  <2>10. ASSUME NEW c \in Conn, Spawn(c)
        PROVE  IInv'
    <3>1. TypeOK'
      BY <2>10
      DEF Spawn, MainGoes, ConnGoes, MainPhase, ConnPhase, Counted, Holding,
          Over, Awaiting, Uncounting, Outcome
    <3>2. Balanced(c, IF TlsEnabled THEN "handshake" ELSE "serving")
      BY <2>10
      DEF Spawn, MainGoes, Balanced, Delta, Counted, Holding, Awaiting,
          Uncounting
    <3>3. Accounting'
      BY <3>2, AccountingMoves
    <3>4. SpawnInv' /\ LateInv' /\ DrainInv'
      BY <2>10, CountedPositive
      DEF Spawn, MainGoes, ConnGoes, SpawnInv, LateInv, AtMostOneLate,
          DrainInv, AfterLoop, MainPhase, Counted, Awaiting
    <3> QED
      BY <3>1, <3>3, <3>4 DEF IInv
  <2>11. ASSUME NEW c \in Conn, HandshakeOk(c)
        PROVE  IInv'
    <3>1. TypeOK'
      BY <2>11
      DEF HandshakeOk, TaskUnchanged, ConnGoes, MainPhase, ConnPhase, Counted,
          Holding, Over, Awaiting, Uncounting, Outcome
    <3>2. Balanced(c, "serving")
      BY <2>11
      DEF HandshakeOk, TaskUnchanged, Balanced, Delta, Counted, Holding,
          Awaiting, Uncounting
    <3>3. Accounting'
      BY <3>2, AccountingMoves
    <3>4. SpawnInv' /\ LateInv' /\ DrainInv'
      BY <2>11, CountedPositive
      DEF HandshakeOk, TaskUnchanged, ConnGoes, SpawnInv, LateInv,
          AtMostOneLate, DrainInv, AfterLoop, MainPhase, Counted, Awaiting
    <3> QED
      BY <3>1, <3>3, <3>4 DEF IInv
  <2>12. ASSUME NEW c \in Conn, HandshakeFails(c)
        PROVE  IInv'
    <3>1. TypeOK'
      BY <2>12
      DEF HandshakeFails, TaskUnchanged, ConnGoes, MainPhase, ConnPhase,
          Counted, Holding, Over, Awaiting, Uncounting, Outcome
    <3>2. Balanced(c, "finished")
      BY <2>12
      DEF HandshakeFails, TaskUnchanged, Balanced, Delta, Counted, Holding,
          Awaiting, Uncounting
    <3>3. Accounting'
      BY <3>2, AccountingMoves
    <3>4. SpawnInv' /\ LateInv' /\ DrainInv'
      BY <2>12, CountedPositive
      DEF HandshakeFails, TaskUnchanged, ConnGoes, SpawnInv, LateInv,
          AtMostOneLate, DrainInv, AfterLoop, MainPhase, Counted, Awaiting
    <3> QED
      BY <3>1, <3>3, <3>4 DEF IInv
  <2>13. ASSUME NEW c \in Conn, SeeBroadcast(c)
        PROVE  IInv'
    <3>1. TypeOK'
      BY <2>13
      DEF SeeBroadcast, TaskUnchanged, ConnGoes, MainPhase, ConnPhase, Counted,
          Holding, Over, Awaiting, Uncounting, Outcome
    <3>2. Balanced(c, "closing")
      BY <2>13
      DEF SeeBroadcast, TaskUnchanged, Balanced, Delta, Counted, Holding,
          Awaiting, Uncounting
    <3>3. Accounting'
      BY <3>2, AccountingMoves
    <3>4. SpawnInv' /\ LateInv' /\ DrainInv'
      BY <2>13, CountedPositive
      DEF SeeBroadcast, TaskUnchanged, ConnGoes, SpawnInv, LateInv,
          AtMostOneLate, DrainInv, AfterLoop, MainPhase, Counted, Awaiting
    <3> QED
      BY <3>1, <3>3, <3>4 DEF IInv
  <2>14. ASSUME NEW c \in Conn, ConnectionEnds(c)
        PROVE  IInv'
    <3>1. TypeOK'
      BY <2>14
      DEF ConnectionEnds, TaskUnchanged, ConnGoes, MainPhase, ConnPhase,
          Counted, Holding, Over, Awaiting, Uncounting, Outcome
    <3>2. Balanced(c, "finished")
      BY <2>14
      DEF ConnectionEnds, TaskUnchanged, Balanced, Delta, Counted, Holding,
          Awaiting, Uncounting
    <3>3. Accounting'
      BY <3>2, AccountingMoves
    <3>4. SpawnInv' /\ LateInv' /\ DrainInv'
      BY <2>14, CountedPositive
      DEF ConnectionEnds, TaskUnchanged, ConnGoes, SpawnInv, LateInv,
          AtMostOneLate, DrainInv, AfterLoop, MainPhase, Counted, Awaiting
    <3> QED
      BY <3>1, <3>3, <3>4 DEF IInv
  <2>15. ASSUME NEW c \in Conn, CountOut(c)
        PROVE  IInv'
    <3>1. TypeOK'
      BY <2>15, CountedPositive
      DEF CountOut, TaskUnchanged, ConnGoes, MainPhase, ConnPhase, Counted,
          Holding, Over, Awaiting, Uncounting, Outcome
    <3>2. Balanced(c, IF in_flight = 1 THEN "notifying" ELSE "ending")
      BY <2>15
      DEF CountOut, TaskUnchanged, Balanced, Delta, Counted, Holding, Awaiting,
          Uncounting
    <3>3. Accounting'
      BY <3>2, AccountingMoves
    <3>4. SpawnInv' /\ LateInv' /\ DrainInv'
      BY <2>15, CountedPositive
      DEF CountOut, TaskUnchanged, ConnGoes, SpawnInv, LateInv, AtMostOneLate,
          DrainInv, AfterLoop, MainPhase, Counted, Awaiting
    <3> QED
      BY <3>1, <3>3, <3>4 DEF IInv
  <2>16. ASSUME NEW c \in Conn, NotifyOne(c)
        PROVE  IInv'
    <3>1. TypeOK'
      BY <2>16
      DEF NotifyOne, TaskUnchanged, ConnGoes, MainPhase, ConnPhase, Counted,
          Holding, Over, Awaiting, Uncounting, Outcome
    <3>2. Balanced(c, "ending")
      BY <2>16
      DEF NotifyOne, TaskUnchanged, Balanced, Delta, Counted, Holding,
          Awaiting, Uncounting
    <3>3. Accounting'
      BY <3>2, AccountingMoves
    <3>4. SpawnInv' /\ LateInv' /\ DrainInv'
      BY <2>16, CountedPositive
      DEF NotifyOne, TaskUnchanged, ConnGoes, SpawnInv, LateInv, AtMostOneLate,
          DrainInv, AfterLoop, MainPhase, Counted, Awaiting
    <3> QED
      BY <3>1, <3>3, <3>4 DEF IInv
  <2>17. ASSUME NEW c \in Conn, ReleasePermit(c)
        PROVE  IInv'
    <3>1. TypeOK'
      BY <2>17
      DEF ReleasePermit, TaskUnchanged, ConnGoes, MainPhase, ConnPhase,
          Counted, Holding, Over, Awaiting, Uncounting, Outcome
    <3>2. Balanced(c, "closed")
      BY <2>17
      DEF ReleasePermit, TaskUnchanged, Balanced, Delta, Counted, Holding,
          Awaiting, Uncounting
    <3>3. Accounting'
      BY <3>2, AccountingMoves
    <3>4. SpawnInv' /\ LateInv' /\ DrainInv'
      BY <2>17, CountedPositive
      DEF ReleasePermit, TaskUnchanged, ConnGoes, SpawnInv, LateInv,
          AtMostOneLate, DrainInv, AfterLoop, MainPhase, Counted, Awaiting
    <3> QED
      BY <3>1, <3>3, <3>4 DEF IInv
  <2>18. ASSUME NEW c \in Conn, DropTask(c)
        PROVE  IInv'
    <3>1. TypeOK'
      BY <2>18
      DEF DropTask, TaskUnchanged, ConnGoes, MainPhase, ConnPhase, Counted,
          Holding, Over, Awaiting, Uncounting, Outcome
    <3>2. Balanced(c, "lost")
      BY <2>18
      DEF DropTask, TaskUnchanged, Balanced, Delta, Counted, Holding, Awaiting,
          Uncounting
    <3>3. Accounting'
      BY <3>2, AccountingMoves
    <3>4. SpawnInv' /\ LateInv' /\ DrainInv'
      BY <2>18, CountedPositive
      DEF DropTask, TaskUnchanged, ConnGoes, SpawnInv, LateInv, AtMostOneLate,
          DrainInv, AfterLoop, MainPhase, Counted, Awaiting
    <3> QED
      BY <3>1, <3>3, <3>4 DEF IInv
  <2>19. ASSUME LoadBeforeSettle
        PROVE  IInv'
    <3>1. TypeOK'
      BY <2>19
      DEF LoadBeforeSettle, DrainUnchanged, MainGoes, MainPhase, Outcome
    <3>2. Accounting'
      BY <2>19, AccountingStays DEF LoadBeforeSettle, DrainUnchanged, MainGoes
    <3>3. SpawnInv' /\ LateInv' /\ DrainInv'
      BY <2>19
      DEF LoadBeforeSettle, DrainUnchanged, MainGoes, SpawnInv, LateInv,
          AtMostOneLate, DrainInv, AfterLoop, MainPhase, In
    <3> QED
      BY <3>1, <3>2, <3>3 DEF IInv
  <2>20. ASSUME SettleOver
        PROVE  IInv'
    <3>1. TypeOK'
      BY <2>20 DEF SettleOver, DrainUnchanged, MainGoes, MainPhase, Outcome
    <3>2. Accounting'
      BY <2>20, AccountingStays DEF SettleOver, DrainUnchanged, MainGoes
    <3>3. SpawnInv' /\ LateInv' /\ DrainInv'
      BY <2>20
      DEF SettleOver, DrainUnchanged, MainGoes, SpawnInv, LateInv,
          AtMostOneLate, DrainInv, AfterLoop, MainPhase, In
    <3> QED
      BY <3>1, <3>2, <3>3 DEF IInv
  <2>21. ASSUME SendShutdown
        PROVE  IInv'
    <3>1. TypeOK'
      BY <2>21 DEF SendShutdown, DrainUnchanged, MainGoes, MainPhase, Outcome
    <3>2. Accounting'
      BY <2>21, AccountingStays DEF SendShutdown, DrainUnchanged, MainGoes
    <3>3. SpawnInv' /\ LateInv' /\ DrainInv'
      BY <2>21
      DEF SendShutdown, DrainUnchanged, MainGoes, SpawnInv, LateInv,
          AtMostOneLate, DrainInv, AfterLoop, MainPhase, In
    <3> QED
      BY <3>1, <3>2, <3>3 DEF IInv
  <2>22. ASSUME LoadRemaining
        PROVE  IInv'
    <3>1. TypeOK'
      BY <2>22 DEF LoadRemaining, DrainUnchanged, MainGoes, MainPhase, Outcome
    <3>2. Accounting'
      BY <2>22, AccountingStays DEF LoadRemaining, DrainUnchanged, MainGoes
    <3>3. SpawnInv' /\ LateInv' /\ DrainInv'
      BY <2>22
      DEF LoadRemaining, DrainUnchanged, MainGoes, SpawnInv, LateInv,
          AtMostOneLate, DrainInv, AfterLoop, MainPhase, In
    <3> QED
      BY <3>1, <3>2, <3>3 DEF IInv
  <2>23. ASSUME Recheck
        PROVE  IInv'
    <3>1. TypeOK'
      BY <2>23 DEF Recheck, DrainUnchanged, MainGoes, MainPhase, Outcome
    <3>2. Accounting'
      BY <2>23, AccountingStays DEF Recheck, DrainUnchanged, MainGoes
    <3>3. SpawnInv' /\ LateInv' /\ DrainInv'
      BY <2>23
      DEF Recheck, DrainUnchanged, MainGoes, SpawnInv, LateInv, AtMostOneLate,
          DrainInv, AfterLoop, MainPhase, In
    <3> QED
      BY <3>1, <3>2, <3>3 DEF IInv
  <2>24. ASSUME PollNotified
        PROVE  IInv'
    <3>1. TypeOK'
      BY <2>24, Zenon DEF PollNotified, DrainUnchanged, MainGoes, MainPhase, Outcome
    <3>2. Accounting'
      BY <2>24, AccountingStays DEF PollNotified, DrainUnchanged, MainGoes
    <3>3. SpawnInv' /\ LateInv' /\ DrainInv'
      BY <2>24
      DEF PollNotified, DrainUnchanged, MainGoes, SpawnInv, LateInv,
          AtMostOneLate, DrainInv, AfterLoop, MainPhase, In
    <3> QED
      BY <3>1, <3>2, <3>3 DEF IInv
  <2>25. ASSUME PollTimer
        PROVE  IInv'
    <3>1. TypeOK'
      BY <2>25 DEF PollTimer, DrainUnchanged, MainGoes, MainPhase, Outcome
    <3>2. Accounting'
      BY <2>25, AccountingStays DEF PollTimer, DrainUnchanged, MainGoes
    <3>3. SpawnInv' /\ LateInv' /\ DrainInv'
      BY <2>25
      DEF PollTimer, DrainUnchanged, MainGoes, SpawnInv, LateInv,
          AtMostOneLate, DrainInv, AfterLoop, MainPhase, In
    <3> QED
      BY <3>1, <3>2, <3>3 DEF IInv
  <2>26. ASSUME Woken
        PROVE  IInv'
    <3>1. TypeOK'
      BY <2>26 DEF Woken, DrainUnchanged, MainGoes, MainPhase, Outcome
    <3>2. Accounting'
      BY <2>26, AccountingStays DEF Woken, DrainUnchanged, MainGoes
    <3>3. SpawnInv' /\ LateInv' /\ DrainInv'
      BY <2>26
      DEF Woken, DrainUnchanged, MainGoes, SpawnInv, LateInv, AtMostOneLate,
          DrainInv, AfterLoop, MainPhase, In
    <3> QED
      BY <3>1, <3>2, <3>3 DEF IInv
  <2>27. ASSUME DrainDeadline
        PROVE  IInv'
    <3>1. TypeOK'
      BY <2>27 DEF DrainDeadline, DrainUnchanged, MainPhase, Outcome
    <3>2. Accounting'
      BY <2>27, AccountingStays DEF DrainDeadline, DrainUnchanged
    <3>3. SpawnInv' /\ LateInv' /\ DrainInv'
      BY <2>27
      DEF DrainDeadline, DrainUnchanged, SpawnInv, LateInv, AtMostOneLate,
          DrainInv, AfterLoop, MainPhase, In
    <3> QED
      BY <3>1, <3>2, <3>3 DEF IInv
  <2>28. ASSUME Exited
        PROVE  IInv'
    BY <2>28, AccountingStays
    DEF Exited, vars, SpawnInv, LateInv, AtMostOneLate, DrainInv
  <2> QED
    BY <1>1, <2>1, <2>2, <2>3, <2>4, <2>5, <2>6, <2>7, <2>8, <2>9, <2>10,
       <2>11, <2>12, <2>13, <2>14, <2>15, <2>16, <2>17, <2>18, <2>19, <2>20,
       <2>21, <2>22, <2>23, <2>24, <2>25, <2>26, <2>27, <2>28, Zenon
    DEF Next, Loop, Task, Drain
<1>2. ASSUME UNCHANGED vars PROVE IInv'
  BY <1>2, AccountingStays DEF vars, SpawnInv, LateInv, AtMostOneLate, DrainInv
<1> QED
  BY <1>1, <1>2

(* The inductive invariant holds in every reachable state.                 *)
THEOREM Invariance == Spec => []IInv
BY InitIInv, NextIInv, PTL DEF Spec

-----------------------------------------------------------------------------
(* What it gives.                                                          *)

(* Every variable of the accept loop keeps its type; in particular the     *)
(* unsigned in_flight and the semaphore never go below 0.                  *)
THEOREM TypeCorrect == Spec => []TypeOK
BY Invariance, PTL DEF IInv

(* No permit of connection_limit is leaked or duplicated, for any cap.     *)
THEOREM PermitsBalance == Spec => []PermitsConserved
BY Invariance, PTL DEF IInv, Accounting

(* in_flight is the number of connections between its two updates, for any *)
(* number of connections: it never wraps below 0.                          *)
THEOREM InFlightCounts == Spec => []InFlightExact
BY Invariance, PTL DEF IInv, Accounting

(* Every accepted connection was filtered, refused or admitted, once.      *)
THEOREM AcceptedAdds == Spec => []AcceptedAccounted
BY Invariance, PTL DEF IInv, Accounting

(* At most one connection is taken after the shutdown future resolved.     *)
THEOREM LateBound == Spec => []AtMostOneLate
BY Invariance, PTL DEF IInv, LateInv

(* accept_loop returns without a timeout, and without a notification left  *)
(* over from before the shutdown, only when no connection is in flight.    *)
THEOREM QuietExitHolds == Spec => []QuietExit
<1>1. ASSUME IInv PROVE QuietExit
  <2> SUFFICES ASSUME in_flight = 0 PROVE In(Counted) = {}
    BY <1>1 DEF IInv, DrainInv, QuietExit
  <2> SUFFICES ASSUME NEW c \in Conn, conn[c] \in Counted PROVE FALSE
    BY DEF In
  <2> QED
    BY <1>1, CountedPositive DEF IInv
<1> QED
  BY <1>1, Invariance, PTL
==============================================================================
