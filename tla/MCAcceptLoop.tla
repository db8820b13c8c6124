---------------------------- MODULE MCAcceptLoop ----------------------------
(* AcceptLoop with three or four connections from two addresses.           *)
EXTENDS AcceptLoop, TLC

CONSTANTS c1, c2, c3, c4, ipA, ipB

ThreePeers == c1 :> ipA @@ c2 :> ipA @@ c3 :> ipB

FourPeers == ThreePeers @@ c4 :> ipA
=============================================================================
