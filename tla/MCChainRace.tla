---------------------------- MODULE MCChainRace -----------------------------
(***************************************************************************)
(* Instances of ChainRace: nothing tells the hashes of new blocks apart.   *)
(***************************************************************************)
EXTENDS ChainRace, TLC

HashSymmetry == Permutations(Hash \ {GenesisHash})

\* For hashes that are numbers: a new block gets the least hash that is in use nowhere,
\* which stands for any of them, in behaviours as in states.
LeastFresh == \A hash \in Fresh \ Fresh' : \A other \in Fresh : hash <= other
=============================================================================
