--------------------------- MODULE Replicas_proofs ---------------------------
(***************************************************************************)
(* Proofs about Replicas: chains stay unbroken and, where two of them      *)
(* share a block, equal below it.  The two operations on a chain reduce to *)
(* two on sets of blocks: a block put on the last one (Grow), the last one *)
(* taken off (Cut); giving up a block for its sibling is a Cut and a Grow. *)
(***************************************************************************)
EXTENDS Replicas, TLAPS

-----------------------------------------------------------------------------
\* A block put on the last one of an unbroken chain leaves it unbroken.
LEMMA Grow ==
  ASSUME NEW blocks, NEW last, NEW block,
         \A b \in blocks : b.height \in Nat,
         Unbroken(blocks), IsLast(last, blocks),
         block.height = last.height + 1, block.prevHash = last.hash
  PROVE  Unbroken(blocks \cup {block}) /\ IsLast(block, blocks \cup {block})
<1> DEFINE grown == blocks \cup {block}
<1>0. last \in blocks /\ last.height \in Nat
  BY DEF IsLast
<1>1. \A b \in blocks : b.height < block.height
  BY <1>0 DEF IsLast
<1>2. \A b1, b2 \in grown : b1.height = b2.height => b1 = b2
  BY <1>1 DEF Unbroken
<1>3. \A b \in grown : b.height > 0 =>
        \E parent \in grown : parent.height = b.height - 1 /\ parent.hash = b.prevHash
  <2>1. last \in grown /\ last.height = block.height - 1 /\ last.hash = block.prevHash
    BY <1>0
  <2> QED  BY <2>1 DEF Unbroken
<1>4. \E b \in grown : b.height = 0
  BY DEF Unbroken
<1>5. IsLast(block, grown)
  BY <1>0, <1>1 DEF IsLast
<1> QED  BY <1>2, <1>3, <1>4, <1>5 DEF Unbroken

\* Growing a chain by a mined block keeps it in step with every other chain:
\* one that holds the block as well holds its parent, since hashes tell blocks
\* apart, and hence the same chain up to there.
LEMMA GrowAgrees ==
  ASSUME NEW M, NEW blocks, NEW other, NEW last, NEW block,
         blocks \subseteq M, other \subseteq M, block \in M,
         \A b \in M : b.height \in Nat,
         \A b1, b2 \in M : b1.hash = b2.hash => b1 = b2,
         Unbroken(blocks), Unbroken(other), IsLast(last, blocks),
         block.height = last.height + 1, block.prevHash = last.hash,
         SamePrefix(blocks, other)
  PROVE  SamePrefix(blocks \cup {block}, other)
<1> DEFINE grown == blocks \cup {block}
           Upto(S, b) == {x \in S : x.height <= b.height}
<1>0. last \in blocks /\ last \in M /\ last.height \in Nat
  BY DEF IsLast
<1>1. \A b \in blocks : b.height <= last.height /\ b.height \in Nat
  BY DEF IsLast
<1> SUFFICES ASSUME NEW b \in grown \cap other
             PROVE  Upto(grown, b) = Upto(other, b)
  BY DEF SamePrefix
<1>2. CASE b \in blocks
  <2>1. Upto(grown, b) = Upto(blocks, b)
    BY <1>0, <1>1, <1>2
  <2> QED  BY <1>2, <2>1 DEF SamePrefix
<1>3. CASE b = block
  <2>1. PICK parent \in other : parent.height = block.height - 1 /\ parent.hash = block.prevHash
    BY <1>0, <1>3 DEF Unbroken
  <2>2. parent = last
    BY <1>0, <2>1
  <2>3. Upto(blocks, last) = Upto(other, last)
    BY <1>0, <2>1, <2>2 DEF SamePrefix
  <2>4. ASSUME NEW x PROVE x \in Upto(grown, b) <=> x \in Upto(other, b)
    <3>1. CASE x = block
      BY <1>0, <1>3, <3>1
    <3>2. CASE x # block
      <4>1. x \in Upto(grown, b) <=> x \in Upto(blocks, last)
        BY <1>0, <1>1, <1>3, <3>2
      <4>2. x \in Upto(other, b) <=> x \in Upto(other, last)
        <5>1. x \in other => x.height # block.height
          BY <1>3, <3>2 DEF Unbroken
        <5>2. x \in other => x.height \in Nat
          OBVIOUS
        <5> QED  BY <1>0, <1>3, <5>1, <5>2
      <4> QED  BY <2>3, <4>1, <4>2
    <3> QED  BY <3>1, <3>2
  <2> QED  BY <2>4
<1> QED  BY <1>2, <1>3

\* Without its last block, an unbroken chain is unbroken and ends in the parent.
LEMMA Cut ==
  ASSUME NEW blocks, NEW last, NEW parent \in blocks,
         \A b \in blocks : b.height \in Nat,
         Unbroken(blocks), IsLast(last, blocks), last.height > 0,
         parent.height = last.height - 1
  PROVE  Unbroken(blocks \ {last}) /\ IsLast(parent, blocks \ {last})
<1> DEFINE cut == blocks \ {last}
<1>0. last \in blocks /\ last.height \in Nat /\ parent.height \in Nat
  BY DEF IsLast
<1>1. \A b \in cut : b.height < last.height /\ b.height \in Nat
  BY <1>0 DEF IsLast, Unbroken
<1>2. IsLast(parent, cut)
  BY <1>0, <1>1 DEF IsLast
<1>3. \A b \in cut : b.height > 0 =>
        \E p \in cut : p.height = b.height - 1 /\ p.hash = b.prevHash
  <2> SUFFICES ASSUME NEW b \in cut, b.height > 0
               PROVE  \E p \in cut : p.height = b.height - 1 /\ p.hash = b.prevHash
    OBVIOUS
  <2>1. PICK p \in blocks : p.height = b.height - 1 /\ p.hash = b.prevHash
    BY DEF Unbroken
  <2>2. p # last
    BY <1>0, <1>1, <2>1
  <2> QED  BY <2>1, <2>2
<1>4. \E b \in cut : b.height = 0
  BY <1>0 DEF Unbroken
<1>5. \A b1, b2 \in cut : b1.height = b2.height => b1 = b2
  BY DEF Unbroken
<1> QED  BY <1>2, <1>3, <1>4, <1>5 DEF Unbroken

\* Without its last block, a chain is still in step with every other chain.
LEMMA CutAgrees ==
  ASSUME NEW blocks, NEW other, NEW last,
         \A b \in blocks : b.height \in Nat,
         Unbroken(blocks), IsLast(last, blocks), SamePrefix(blocks, other)
  PROVE  SamePrefix(blocks \ {last}, other)
<1> SUFFICES ASSUME NEW b \in (blocks \ {last}) \cap other
             PROVE  {x \in blocks \ {last} : x.height <= b.height} = {x \in other : x.height <= b.height}
  BY DEF SamePrefix
<1>1. last \in blocks /\ last.height \in Nat /\ b.height \in Nat /\ b.height < last.height
  BY DEF IsLast, Unbroken
<1>2. {x \in blocks \ {last} : x.height <= b.height} = {x \in blocks : x.height <= b.height}
  BY <1>1
<1> QED  BY <1>2 DEF SamePrefix

LEMMA SamePrefixSymmetric ==
  ASSUME NEW blocks1, NEW blocks2, SamePrefix(blocks1, blocks2)
  PROVE  SamePrefix(blocks2, blocks1)
BY DEF SamePrefix

LEMMA SamePrefixReflexive ==
  ASSUME NEW blocks
  PROVE  SamePrefix(blocks, blocks)
BY DEF SamePrefix
-----------------------------------------------------------------------------
\* What the three actions do to the chains, for the lemmas above: node n's chain
\* becomes `after', the others stay, and nothing mined is forgotten.
LEMMA ChangeOfOne ==
  ASSUME Inv, WellMined', mined \subseteq mined',
         NEW n \in Node, NEW after \in SUBSET mined',
         chain' = [chain EXCEPT ![n] = after],
         Unbroken(after), \E last \in after : IsLast(last, after),
         \A m \in Node : m # n => SamePrefix(after, chain[m])
  PROVE  Inv'
<1>1. chain' \in [Node -> SUBSET mined']
  BY DEF Inv, ChainsOK
<1>2. \A m \in Node : chain'[m] = IF m = n THEN after ELSE chain[m]
  BY DEF Inv, ChainsOK
<1>3. ChainsOK'
  BY <1>1, <1>2 DEF Inv, ChainsOK
<1>4. Agreement'
  <2> SUFFICES ASSUME NEW m1 \in Node, NEW m2 \in Node
               PROVE  SamePrefix(chain'[m1], chain'[m2])
    BY DEF Agreement
  <2>1. CASE m1 = m2
    BY <2>1, SamePrefixReflexive
  <2>2. CASE m1 = n /\ m2 # n
    BY <1>2, <2>2
  <2>3. CASE m1 # n /\ m2 = n
    BY <1>2, <2>3, SamePrefixSymmetric
  <2>4. CASE m1 # n /\ m2 # n
    BY <1>2, <2>4 DEF Inv, Agreement
  <2> QED  BY <2>1, <2>2, <2>3, <2>4
<1> QED  BY <1>3, <1>4 DEF Inv

LEMMA MineStep ==
  ASSUME Inv, NEW n \in Node, Mine(n)
  PROVE  Inv'
<1>1. PICK last \in chain[n], hash \in Hash \ {block.hash : block \in mined} :
        /\ IsLast(last, chain[n])
        /\ mined' = mined \cup {[height |-> last.height + 1, hash |-> hash,
                                prevHash |-> last.hash, minedBy |-> n]}
        /\ chain' = [chain EXCEPT ![n] = @ \cup
                       {[height |-> last.height + 1, hash |-> hash,
                         prevHash |-> last.hash, minedBy |-> n]}]
  BY DEF Mine
<1> DEFINE block == [height |-> last.height + 1, hash |-> hash,
                     prevHash |-> last.hash, minedBy |-> n]
           after == chain[n] \cup {block}
<1>2. block.height = last.height + 1 /\ block.prevHash = last.hash /\ block.hash = hash
  OBVIOUS
<1> HIDE DEF block
<1>3. mined' = mined \cup {block} /\ chain' = [chain EXCEPT ![n] = after]
  BY <1>1 DEF block
<1>4. last \in mined /\ last.height \in Nat /\ block.height \in Nat /\ block.height > 0
  BY <1>1, <1>2 DEF Inv, ChainsOK, WellMined
<1>5. WellMined'
  <2>1. \A b1, b2 \in mined' : b1.hash = b2.hash => b1 = b2
    BY <1>1, <1>2, <1>3 DEF Inv, WellMined
  <2>2. \A b \in mined' : b.height > 0 =>
          \E parent \in mined' : parent.height = b.height - 1 /\ parent.hash = b.prevHash
    <3>1. \E parent \in mined' : parent.height = block.height - 1 /\ parent.hash = block.prevHash
      BY <1>2, <1>3, <1>4
    <3> QED  BY <1>3, <3>1 DEF Inv, WellMined
  <2> QED  BY <1>3, <1>4, <2>1, <2>2 DEF Inv, WellMined
<1>6. /\ chain[n] \subseteq mined' /\ block \in mined' /\ \A b \in mined' : b.height \in Nat
      /\ \A m \in Node : chain[m] \subseteq mined'
  BY <1>3, <1>5 DEF Inv, ChainsOK, WellMined
<1>7. Unbroken(after) /\ IsLast(block, after)
  BY <1>1, <1>2, <1>6, Grow DEF Inv, ChainsOK
<1>8. \A m \in Node : SamePrefix(after, chain[m])
  <2> TAKE m \in Node
  <2> QED  BY <1>1, <1>2, <1>5, <1>6, GrowAgrees DEF Inv, ChainsOK, Agreement, WellMined
<1>9. \E b \in after : IsLast(b, after)
  BY <1>7
<1>10. after \in SUBSET mined' /\ mined \subseteq mined'
  BY <1>3, <1>6
<1> HIDE DEF after
<1> QED  BY <1>3, <1>5, <1>7, <1>8, <1>9, <1>10, ChangeOfOne

LEMMA TakeUpStep ==
  ASSUME Inv, NEW n \in Node, TakeUp(n)
  PROVE  Inv'
<1>1. PICK last \in chain[n], block \in mined :
        /\ IsLast(last, chain[n])
        /\ block.height = last.height + 1 /\ block.prevHash = last.hash
        /\ chain' = [chain EXCEPT ![n] = @ \cup {block}]
        /\ UNCHANGED mined
  BY DEF TakeUp
<1> DEFINE after == chain[n] \cup {block}
<1>2. /\ \A m \in Node : chain[m] \subseteq mined
      /\ \A b \in mined : b.height \in Nat
  BY DEF Inv, ChainsOK, WellMined
<1>3. Unbroken(after) /\ IsLast(block, after)
  BY <1>1, <1>2, Grow DEF Inv, ChainsOK
<1>4. \A m \in Node : SamePrefix(after, chain[m])
  <2> TAKE m \in Node
  <2> QED  BY <1>1, <1>2, GrowAgrees DEF Inv, ChainsOK, Agreement, WellMined
<1>5. WellMined'
  BY <1>1 DEF Inv, WellMined
<1>6. /\ \E b \in after : IsLast(b, after)
      /\ after \in SUBSET mined' /\ mined \subseteq mined'
  BY <1>1, <1>2, <1>3
<1>7. chain' = [chain EXCEPT ![n] = after]
  BY <1>1
<1> HIDE DEF after
<1> QED  BY <1>3, <1>4, <1>5, <1>6, <1>7, ChangeOfOne

LEMMA GiveUpStep ==
  ASSUME Inv, NEW n \in Node, GiveUp(n)
  PROVE  Inv'
<1>1. PICK last \in chain[n], block \in mined :
        /\ IsLast(last, chain[n])
        /\ block.height = last.height /\ block.prevHash = last.prevHash
        /\ chain' = [chain EXCEPT ![n] = (@ \ {last}) \cup {block}]
        /\ UNCHANGED mined
  BY DEF GiveUp
<1> DEFINE before == chain[n] \ {last}
           after == before \cup {block}
<1>2. /\ \A m \in Node : chain[m] \subseteq mined /\ Unbroken(chain[m])
      /\ \A b \in mined : b.height \in Nat
      /\ last \in mined /\ last.height \in Nat
  BY DEF Inv, ChainsOK, WellMined
<1>3. WellMined' /\ after \in SUBSET mined' /\ mined \subseteq mined'
  BY <1>1, <1>2 DEF Inv, WellMined
<1>4. chain' = [chain EXCEPT ![n] = after]
  BY <1>1
<1>5. CASE last.height = 0
  <2>1. block = last
    BY <1>1, <1>2, <1>5 DEF Inv, WellMined
  <2>2. after = chain[n]
    BY <1>1, <2>1
  <2>3. Unbroken(after) /\ \E b \in after : IsLast(b, after)
    BY <1>2, <2>2 DEF Inv, ChainsOK
  <2>4. \A m \in Node : SamePrefix(after, chain[m])
    BY <2>2 DEF Inv, Agreement
  <2> HIDE DEF after
  <2> QED  BY <1>3, <1>4, <2>3, <2>4, ChangeOfOne
<1>6. CASE last.height > 0
  <2>1. PICK parent \in chain[n] : parent.height = last.height - 1 /\ parent.hash = last.prevHash
    BY <1>1, <1>2, <1>6 DEF Unbroken
  <2>2. Unbroken(before) /\ IsLast(parent, before)
    BY <1>1, <1>2, <1>6, <2>1, Cut
  <2>3. /\ before \subseteq mined
        /\ block.height = parent.height + 1 /\ block.prevHash = parent.hash
    BY <1>1, <1>2, <2>1
  <2>4. Unbroken(after) /\ IsLast(block, after)
    <3> HIDE DEF before
    <3> QED  BY <1>2, <2>2, <2>3, Grow
  <2>5. \A m \in Node : SamePrefix(after, chain[m])
    <3> TAKE m \in Node
    <3>1. SamePrefix(before, chain[m])
      BY <1>1, <1>2, CutAgrees DEF Inv, Agreement
    <3> HIDE DEF before
    <3> QED  BY <1>2, <2>2, <2>3, <3>1, GrowAgrees DEF Inv, WellMined
  <2>6. \E b \in after : IsLast(b, after)
    BY <2>4
  <2> HIDE DEF after
  <2> QED  BY <1>3, <1>4, <2>4, <2>5, <2>6, ChangeOfOne
<1> QED  BY <1>2, <1>5, <1>6

\* The inductive step: no action of Replicas disturbs Inv.
LEMMA InvStep == Inv /\ [Next]_vars => Inv'
<1> SUFFICES ASSUME Inv, [Next]_vars PROVE Inv'
  OBVIOUS
<1>1. CASE UNCHANGED vars
  BY <1>1 DEF vars, Inv, WellMined, ChainsOK, Agreement
<1>2. CASE Next
  BY <1>2, MineStep, TakeUpStep, GiveUpStep DEF Next
<1> QED  BY <1>1, <1>2

LEMMA InvInit == Init => Inv
<1> SUFFICES ASSUME Init PROVE Inv
  OBVIOUS
<1>0. Genesis.height = 0
  BY DEF Genesis
<1>1. WellMined
  BY <1>0 DEF Init, WellMined
<1>2. ChainsOK
  BY <1>0 DEF Init, ChainsOK, Unbroken, IsLast
<1>3. Agreement
  BY SamePrefixReflexive DEF Init, Agreement
<1> QED  BY <1>1, <1>2, <1>3 DEF Inv

\* Nodes that only mine, take up and give up blocks as Replicas allows always
\* hold unbroken chains that agree below every block they share.
THEOREM ReplicasInvariant == Spec => []Inv
BY InvInit, InvStep, PTL DEF Spec
=============================================================================
