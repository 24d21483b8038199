---------------------------- MODULE MCPeerStream ----------------------------
(***************************************************************************)
(* An instance of PeerStream: two lengths of messages the kernel has room  *)
(* for when it is not busy, and one that never fits.                       *)
(***************************************************************************)
EXTENDS PeerStream, TLC

CONSTANTS ping, block, chain

Lengths == ping :> 2 @@ block :> 3 @@ chain :> 5
=============================================================================
