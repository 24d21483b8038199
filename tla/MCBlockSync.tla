----------------------------- MODULE MCBlockSync -----------------------------
(***************************************************************************)
(* The networks on which TLC checks BlockSync.  The arrow of a link points *)
(* from the dialer to the acceptor.                                        *)
(***************************************************************************)
EXTENDS BlockSync, TLC

CONSTANTS na, nb, nc, ab, ba, cb, h0

\* Two nodes and one link: nb -> na.
PairDialer == ba :> nb
PairAcceptor == ba :> na

\* Two nodes that dial each other: na -> nb, nb -> na.
MutualDialer == (ba :> nb) @@ (ab :> na)
MutualAcceptor == (ba :> na) @@ (ab :> nb)

\* Three nodes in a row, the one in the middle accepts and dials: nc -> nb -> na.
ChainDialer == (ba :> nb) @@ (cb :> nc)
ChainAcceptor == (ba :> na) @@ (cb :> nb)

\* Nothing tells the hashes of mined blocks apart.
HashSymmetry == Permutations(Hash \ {GenesisHash})
=============================================================================
