----------------------------- MODULE MCOverlay ------------------------------
(***************************************************************************)
(* An instance of Overlay: two nodes on one host, each the other's seed,   *)
(* the second of which also has the first on its command line.             *)
(***************************************************************************)
EXTENDS Overlay, TLC

CONSTANTS na, nb, here

Hosts == na :> here @@ nb :> here
PeerPorts == na :> 8000 @@ nb :> 8001
Arguments == na :> None @@ nb :> na
=============================================================================
