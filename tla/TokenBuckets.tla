----------------------------- MODULE TokenBuckets -----------------------------
(***************************************************************************)
(* What the rate limiter promises: one token bucket per client address,    *)
(* full at first, refilled as time passes, from which each admitted        *)
(* request takes one token.  Nothing is ever forgotten and nothing is ever *)
(* swept.                                                                  *)
(*                                                                         *)
(* A token is worth Cost units and a bucket gains one unit per tick.       *)
(***************************************************************************)
EXTENDS Naturals

CONSTANTS
  Ip,        \* client addresses
  Cost,      \* units one request takes
  Capacity   \* units a full bucket holds

VARIABLES
  level,     \* units in each bucket
  verdict    \* what the last check() answered, and for whom

vars == <<level, verdict>>

NoVerdict == [ip |-> "none", ok |-> TRUE]

Init ==
  /\ level = [ip \in Ip |-> Capacity]
  /\ verdict = NoVerdict

Tick ==
  /\ level' = [ip \in Ip |-> IF level[ip] < Capacity THEN level[ip] + 1
                                                     ELSE Capacity]
  /\ UNCHANGED verdict

Admit(ip) ==
  /\ level[ip] >= Cost
  /\ level' = [level EXCEPT ![ip] = @ - Cost]
  /\ verdict' = [ip |-> ip, ok |-> TRUE]

Deny(ip) ==
  /\ level[ip] < Cost
  /\ verdict' = [ip |-> ip, ok |-> FALSE]
  /\ UNCHANGED level

Next == Tick \/ \E ip \in Ip : Admit(ip) \/ Deny(ip)

Spec == Init /\ [][Next]_vars
==============================================================================
