------------------------------- MODULE MCServer -------------------------------
(* Server with two connections and one thread for closures.                *)
EXTENDS Server, TLC

CONSTANTS c1, c2, ip

Peers == c1 :> ip @@ c2 :> ip
==============================================================================
