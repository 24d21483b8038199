------------------------------ MODULE Replicas -------------------------------
(***************************************************************************)
(* What block synchronisation promises, without messages, links or         *)
(* threads: every node holds a chain of blocks, and at any moment one node *)
(* puts a new block on its chain, takes up a block another node mined, or  *)
(* gives up its last block for a sibling of it.  BlockSync implements this *)
(* specification (with chain <- blocks).                                   *)
(*                                                                         *)
(* A chain is the set of its blocks, each with a height, a hash and the    *)
(* hash of its parent.                                                     *)
(***************************************************************************)
EXTENDS Integers

CONSTANTS Node, Hash, GenesisHash, NoHash, GenesisMiner

VARIABLES
  chain,   \* chain[n]: the blocks of node n
  mined    \* every block ever mined, and the genesis block

vars == <<chain, mined>>

Genesis == [height |-> 0, hash |-> GenesisHash, prevHash |-> NoHash, minedBy |-> GenesisMiner]

IsLast(last, blocks) == last \in blocks /\ \A block \in blocks : block.height <= last.height

Init ==
  /\ chain = [n \in Node |-> {Genesis}]
  /\ mined = {Genesis}

\* Node n mines a block, with a hash no block has, on its last one.
Mine(n) ==
  \E last \in chain[n], hash \in Hash \ {block.hash : block \in mined} :
    /\ IsLast(last, chain[n])
    /\ LET block == [height |-> last.height + 1, hash |-> hash,
                     prevHash |-> last.hash, minedBy |-> n] IN
       /\ mined' = mined \cup {block}
       /\ chain' = [chain EXCEPT ![n] = @ \cup {block}]

\* Node n puts a block it was told of on its last one.
TakeUp(n) ==
  \E last \in chain[n], block \in mined :
    /\ IsLast(last, chain[n])
    /\ block.height = last.height + 1 /\ block.prevHash = last.hash
    /\ chain' = [chain EXCEPT ![n] = @ \cup {block}]
    /\ UNCHANGED mined

\* Node n puts a block it was told of in the place of its last one.
GiveUp(n) ==
  \E last \in chain[n], block \in mined :
    /\ IsLast(last, chain[n])
    /\ block.height = last.height /\ block.prevHash = last.prevHash
    /\ chain' = [chain EXCEPT ![n] = (@ \ {last}) \cup {block}]
    /\ UNCHANGED mined

Next == \E n \in Node : Mine(n) \/ TakeUp(n) \/ GiveUp(n)

Spec == Init /\ [][Next]_vars

-----------------------------------------------------------------------------
\* One unbroken chain: a block on every height from 0 up, each on its parent.
Unbroken(blocks) ==
  /\ \A b1, b2 \in blocks : b1.height = b2.height => b1 = b2
  /\ \A block \in blocks : block.height > 0 =>
       \E parent \in blocks :
         parent.height = block.height - 1 /\ parent.hash = block.prevHash
  /\ \E block \in blocks : block.height = 0

\* Where two chains share a block they share everything below it.
SamePrefix(blocks1, blocks2) ==
  \A block \in blocks1 \cap blocks2 :
    {b \in blocks1 : b.height <= block.height} = {b \in blocks2 : b.height <= block.height}

\* Hashes tell mined blocks apart, and the parent of a mined block was mined.
WellMined ==
  /\ Genesis \in mined
  /\ \A block \in mined : block.height \in Nat
  /\ \A block \in mined : block.height = 0 => block = Genesis
  /\ \A b1, b2 \in mined : b1.hash = b2.hash => b1 = b2
  /\ \A block \in mined : block.height > 0 =>
       \E parent \in mined :
         parent.height = block.height - 1 /\ parent.hash = block.prevHash

ChainsOK ==
  /\ chain \in [Node -> SUBSET mined]
  /\ \A n \in Node : Unbroken(chain[n]) /\ \E last \in chain[n] : IsLast(last, chain[n])

Agreement == \A n, m \in Node : SamePrefix(chain[n], chain[m])

Inv == WellMined /\ ChainsOK /\ Agreement
=============================================================================
