-------------------------- MODULE BlockSync_proofs --------------------------
(***************************************************************************)
(* Proofs about BlockSync, for every network, every number of blocks and   *)
(* every bound.  The inductive invariant says that whatever travels or     *)
(* waits to be processed was mined, and that the block a mining thread     *)
(* works on has a mined parent; the chains themselves are taken care of by *)
(* the invariant of Replicas, every step of BlockSync being one of its     *)
(* steps or none.  In the same way the connections are those of Links, and *)
(* what Links promises holds of the nodes that exchange blocks.            *)
(***************************************************************************)
EXTENDS BlockSync, SequenceTheorems, TLAPS

P == INSTANCE Replicas_proofs WITH chain <- blocks
L == INSTANCE Links_proofs

WireOf(B) == [Link -> [Node -> Seq(MessageOf(B))]]

CandidatesOK ==
  \A n \in Node : candidate[n] # None =>
    \E parent \in mined :
      /\ parent.height = candidate[n].height - 1
      /\ parent.hash = candidate[n].prevHash

IInv ==
  /\ TypeOK
  /\ P!Inv
  /\ pending \in [Node -> SUBSET mined]
  /\ wire \in WireOf(mined)
  /\ CandidatesOK

-----------------------------------------------------------------------------
(* Messages and queues. *)

LEMMA MessageMonotone ==
  ASSUME NEW B1, NEW B2, B1 \subseteq B2
  PROVE  MessageOf(B1) \subseteq MessageOf(B2)
BY DEF MessageOf

LEMMA WireMonotone ==
  ASSUME NEW B1, NEW B2, B1 \subseteq B2
  PROVE  WireOf(B1) \subseteq WireOf(B2)
<1>1. Seq(MessageOf(B1)) \subseteq Seq(MessageOf(B2))
  BY MessageMonotone, SeqMonotonic
<1> QED  BY <1>1 DEF WireOf

\* What the parts of a received message are.
LEMMA MessageParts ==
  ASSUME NEW B, NEW msg \in MessageOf(B)
  PROVE  /\ msg.type = "NEW_BLOCK" => msg.block \in B
         /\ msg.type = "BLOCKS_RESPONSE" => msg.payload \subseteq B
         /\ msg.type = "GET_BLOCKS" => msg.from_height \in Nat
BY DEF MessageOf

LEMMA MessageBuilt ==
  ASSUME NEW B
  PROVE  /\ Handshake \in MessageOf(B)
         /\ \A from \in Nat : GetBlocks(from) \in MessageOf(B)
         /\ \A rows \in SUBSET B : BlocksResponse(rows) \in MessageOf(B)
         /\ \A block \in B : NewBlock(block) \in MessageOf(B)
BY DEF MessageOf, Handshake, GetBlocks, BlocksResponse, NewBlock

LEMMA ConsumedWire ==
  ASSUME NEW B, wire \in WireOf(B), NEW c \in Link, NEW n \in Node, wire[c][n] # <<>>
  PROVE  Consumed(c, n) \in WireOf(B) /\ Head(wire[c][n]) \in MessageOf(B)
<1>1. wire[c][n] \in Seq(MessageOf(B))
  BY DEF WireOf
<1>2. Tail(wire[c][n]) \in Seq(MessageOf(B)) /\ Head(wire[c][n]) \in MessageOf(B)
  BY <1>1, HeadTailProperties
<1> QED  BY <1>2 DEF WireOf, Consumed

LEMMA AppendedWire ==
  ASSUME NEW B, NEW w \in WireOf(B), NEW c \in Link, NEW n \in Node, NEW msg \in MessageOf(B)
  PROVE  [w EXCEPT ![c][n] = Append(@, msg)] \in WireOf(B)
<1>1. w[c][n] \in Seq(MessageOf(B))
  BY DEF WireOf
<1>2. Append(w[c][n], msg) \in Seq(MessageOf(B))
  BY <1>1, AppendProperties
<1> QED  BY <1>2 DEF WireOf

LEMMA SentWire ==
  ASSUME NEW B, NEW w \in WireOf(B), NEW c \in Link, NEW n \in Node, NEW msg \in MessageOf(B)
  PROVE  Send(w, c, n, msg) \in WireOf(B)
BY AppendedWire DEF Send

LEMMA BroadcastWire ==
  ASSUME NEW B, NEW w \in WireOf(B), NEW n \in Node, NEW block \in B
  PROVE  Broadcast(w, n, block) \in WireOf(B)
<1>1. NewBlock(block) \in MessageOf(B)
  BY MessageBuilt
<1>2. \A c \in Link : Append(w[c][Dialer[c]], NewBlock(block)) \in Seq(MessageOf(B))
  <2> TAKE c \in Link
  <2>1. w[c][Dialer[c]] \in Seq(MessageOf(B))
    BY LinkAssumption DEF WireOf
  <2> QED  BY <1>1, <2>1, AppendProperties
<1>3. \A c \in Link : [w[c] EXCEPT ![Dialer[c]] = Append(@, NewBlock(block))] \in [Node -> Seq(MessageOf(B))]
  BY <1>2 DEF WireOf
<1> QED  BY <1>3 DEF WireOf, Broadcast

LEMMA SilentWire ==
  ASSUME NEW B, wire \in WireOf(B), NEW gone
  PROVE  Silent(gone) \in WireOf(B)
<1>1. <<>> \in Seq(MessageOf(B))
  BY EmptySeq
<1> QED  BY <1>1 DEF WireOf, Silent

LEMMA OtherEnd ==
  ASSUME NEW c \in Link, NEW n \in Node
  PROVE  Other(c, n) \in Node
BY LinkAssumption DEF Other
-----------------------------------------------------------------------------
(* The table: under the invariant its last row is the tip. *)

LEMMA LastRow ==
  ASSUME NEW rows, NEW last \in rows,
         \A row \in rows : row.height \in Nat /\ row.height <= last.height,
         \A r1, r2 \in rows : r1.height = r2.height => r1 = r2
  PROVE  getLatestHeight(rows) = last.height /\ getBlockByHeight(rows, last.height) = {last}
<1>1. /\ last.height \in Heights(rows)
      /\ \A h \in Heights(rows) : h \in Nat /\ last.height >= h
  BY DEF Heights
<1>2. Max(Heights(rows)) \in Heights(rows) /\ \A h \in Heights(rows) : Max(Heights(rows)) >= h
  <2> DEFINE highest(h) == h \in Heights(rows) /\ \A g \in Heights(rows) : h >= g
  <2>1. \E h \in Heights(rows) : \A g \in Heights(rows) : h >= g
    BY <1>1
  <2> QED  BY <2>1 DEF Max
<1>3. Max(Heights(rows)) = last.height
  BY <1>1, <1>2
<1> QED  BY <1>3 DEF getLatestHeight, getBlockByHeight

LEMMA TipIsLast ==
  ASSUME IInv, NEW n \in Node
  PROVE  \E last \in blocks[n] :
           /\ P!IsLast(last, blocks[n])
           /\ last \in mined /\ last \in Block
           /\ Height(n) = last.height
           /\ Tip(n) = {last}
<1>1. PICK last \in blocks[n] : P!IsLast(last, blocks[n])
  BY DEF IInv, P!Inv, P!ChainsOK
<1>2. /\ blocks[n] \subseteq mined /\ mined \subseteq Block
      /\ \A r1, r2 \in blocks[n] : r1.height = r2.height => r1 = r2
  BY DEF IInv, P!Inv, P!ChainsOK, P!Unbroken, TypeOK
<1>3. \A row \in blocks[n] : row.height \in Nat /\ row.height <= last.height
  BY <1>1, <1>2 DEF P!IsLast, Block
<1>4. getLatestHeight(blocks[n]) = last.height /\ getBlockByHeight(blocks[n], last.height) = {last}
  BY <1>2, <1>3, LastRow
<1> QED  BY <1>1, <1>2, <1>4 DEF Height, Tip

\* How the chain of a node grows or trades its last block, seen from its height.
LEMMA HeightAfter ==
  ASSUME IInv, IInv', NEW n \in Node, NEW last \in blocks[n], NEW block \in mined',
         P!IsLast(last, blocks[n]),
         \/ block.height = last.height + 1 /\ blocks'[n] = blocks[n] \cup {block}
         \/ block.height = last.height /\ blocks'[n] = (blocks[n] \ {last}) \cup {block}
  PROVE  Height(n) = last.height /\ Height(n)' = block.height
<1>1. /\ blocks[n] \subseteq mined /\ \A row \in mined : row.height \in Nat
      /\ P!Unbroken(blocks[n]) /\ P!Unbroken(blocks'[n])
      /\ block.height \in Nat
  BY DEF IInv, P!Inv, P!ChainsOK, P!WellMined
<1>2. \A row \in blocks[n] : row.height \in Nat /\ row.height <= last.height
  BY <1>1 DEF P!IsLast
<1>3. Height(n) = last.height
  BY <1>1, <1>2, LastRow DEF Height, P!Unbroken
<1>4. /\ block \in blocks'[n]
      /\ \A row \in blocks'[n] : row.height \in Nat /\ row.height <= block.height
  BY <1>1, <1>2
<1>5. getLatestHeight(blocks'[n]) = block.height
  BY <1>1, <1>4, LastRow DEF P!Unbroken
<1>6. Height(n)' = getLatestHeight(blocks'[n])
  BY DEF Height, getLatestHeight, Heights, Max
<1> QED  BY <1>3, <1>5, <1>6

\* addBlock's checks leave only the next height: a block's parent is one below
\* it, and its hash says which block that is.
LEMMA AddIsTakeUp ==
  ASSUME IInv, NEW n \in Node, NEW block \in mined, CanAdd(blocks[n], block),
         blocks' = [blocks EXCEPT ![n] = @ \cup {block}], UNCHANGED mined
  PROVE  P!TakeUp(n)
<1>1. PICK last \in blocks[n] : /\ P!IsLast(last, blocks[n])
                               /\ last \in mined /\ last \in Block
                               /\ Height(n) = last.height
                               /\ Tip(n) = {last}
  BY TipIsLast
<1>2. block.height > last.height /\ last.hash = block.prevHash
  BY <1>1 DEF CanAdd, Height, Tip
<1>3. block \in Block /\ last.height \in Nat
  BY <1>1 DEF IInv, TypeOK, Block
<1>4. block.height \in Nat /\ block.height > 0
  BY <1>2, <1>3 DEF Block
<1>5. PICK parent \in mined : parent.height = block.height - 1 /\ parent.hash = block.prevHash
  BY <1>4 DEF IInv, P!Inv, P!WellMined
<1>6. parent = last
  BY <1>1, <1>2, <1>5 DEF IInv, P!Inv, P!WellMined
<1>7. block.height = last.height + 1
  BY <1>3, <1>4, <1>5, <1>6
<1> QED  BY <1>1, <1>2, <1>7 DEF P!TakeUp

LEMMA ReplaceIsGiveUp ==
  ASSUME IInv, NEW n \in Node, NEW block \in mined, CanReplace(blocks[n], block),
         blocks' = [blocks EXCEPT ![n] = Replaced(@, block)], UNCHANGED mined
  PROVE  P!GiveUp(n)
<1>1. PICK last \in blocks[n] : /\ P!IsLast(last, blocks[n])
                               /\ last \in mined /\ last \in Block
                               /\ Height(n) = last.height
                               /\ Tip(n) = {last}
  BY TipIsLast
<1>2. block.height = last.height /\ last.prevHash = block.prevHash
  BY <1>1 DEF CanReplace, Height, Tip
<1>3. Replaced(blocks[n], block) = (blocks[n] \ {last}) \cup {block}
  BY <1>1 DEF Replaced, WithoutLast, Height, Tip
<1>4. blocks' = [blocks EXCEPT ![n] = (blocks[n] \ {last}) \cup {block}]
  BY <1>3
<1> QED  BY <1>1, <1>2, <1>4 DEF P!GiveUp

LEMMA FinishIsMine ==
  ASSUME IInv, NEW n \in Node, FinishMining(n)
  PROVE  P!Mine(n)
<1>1. PICK last \in blocks[n] : /\ P!IsLast(last, blocks[n])
                               /\ last \in mined /\ last \in Block
                               /\ Height(n) = last.height
                               /\ Tip(n) = {last}
  BY TipIsLast
<1>2. candidate[n] # None /\ candidate[n] \in Candidate
  BY DEF FinishMining, IInv, TypeOK
<1>3. PICK hash \in Hash \ {block.hash : block \in mined} :
        LET block == [height |-> candidate[n].height, hash |-> hash,
                      prevHash |-> candidate[n].prevHash, minedBy |-> n] IN
        /\ CanAdd(blocks[n], block)
        /\ blocks' = [blocks EXCEPT ![n] = @ \cup {block}]
        /\ mined' = mined \cup {block}
  BY DEF FinishMining
<1> DEFINE block == [height |-> candidate[n].height, hash |-> hash,
                     prevHash |-> candidate[n].prevHash, minedBy |-> n]
<1>4. block.prevHash = last.hash
  BY <1>1, <1>3 DEF CanAdd, Height, Tip
<1>5. PICK parent \in mined : /\ parent.height = candidate[n].height - 1
                             /\ parent.hash = candidate[n].prevHash
  BY <1>2 DEF IInv, CandidatesOK
<1>6. parent = last
  BY <1>1, <1>4, <1>5 DEF IInv, P!Inv, P!WellMined
<1>7. candidate[n].height = last.height + 1
  BY <1>1, <1>2, <1>5, <1>6 DEF Block, Candidate
<1>8. block = [height |-> last.height + 1, hash |-> hash, prevHash |-> last.hash, minedBy |-> n]
  BY <1>4, <1>7
<1> HIDE DEF block
<1>9. mined' = mined \cup {block} /\ blocks' = [blocks EXCEPT ![n] = @ \cup {block}]
  BY <1>3 DEF block
<1> QED  BY <1>1, <1>8, <1>9 DEF P!Mine

-----------------------------------------------------------------------------
(* Every action is a step of Replicas, or none. *)

LEMMA HeadOfWire ==
  ASSUME IInv, NEW c \in Link, NEW n \in Node, NEW type, Ready(c, n, type)
  PROVE  /\ Consumed(c, n) \in WireOf(mined)
         /\ Head(wire[c][n]) \in MessageOf(mined)
         /\ Head(wire[c][n]).type = type
BY ConsumedWire DEF IInv, Ready

LEMMA BlockReceived ==
  ASSUME IInv, NEW c \in Link, NEW n \in Node, Ready(c, n, "NEW_BLOCK")
  PROVE  Head(wire[c][n]).block \in mined
BY HeadOfWire, MessageParts

LEMMA ChainStep ==
  ASSUME IInv, Next
  PROVE  P!Next \/ (blocks' = blocks /\ mined' = mined)
<1> USE DEF Next
<1>1. ASSUME NEW c \in Link, Connect(c) \/ Break(c)
      PROVE  blocks' = blocks /\ mined' = mined
  BY <1>1 DEF Connect, Break
<1>2. ASSUME NEW c \in Link, NEW n \in Node, Receive(c, n)
      PROVE  P!Next \/ (blocks' = blocks /\ mined' = mined)
  <2>1. CASE ReceiveExtension(c, n)
    <3> DEFINE block == Head(wire[c][n]).block
    <3>1. /\ block \in mined /\ CanAdd(blocks[n], block) /\ UNCHANGED mined
          /\ blocks' = [blocks EXCEPT ![n] = @ \cup {block}]
      BY <2>1, BlockReceived DEF ReceiveExtension
    <3> HIDE DEF block
    <3> QED  BY <3>1, AddIsTakeUp DEF P!Next
  <2>2. CASE ReceiveCompeting(c, n)
    <3> DEFINE block == Head(wire[c][n]).block
    <3>1. /\ block \in mined /\ CanReplace(blocks[n], block) /\ UNCHANGED mined
          /\ blocks' = [blocks EXCEPT ![n] = Replaced(@, block)]
      BY <2>2, BlockReceived DEF ReceiveCompeting
    <3> HIDE DEF block
    <3> QED  BY <3>1, ReplaceIsGiveUp DEF P!Next
  <2>3. CASE ReceiveHandshake(c, n) \/ ReceiveGetBlocks(c, n) \/ ReceiveBlocksResponse(c, n)
    BY <2>3 DEF ReceiveHandshake, ReceiveGetBlocks, ReceiveBlocksResponse
  <2>4. CASE ReceiveBeyond(c, n) \/ ReceiveIgnored(c, n)
    BY <2>4 DEF ReceiveBeyond, ReceiveIgnored
  <2> QED  BY <1>2, <2>1, <2>2, <2>3, <2>4 DEF Receive
<1>3. ASSUME NEW n \in Node, ProcessBlock(n)
      PROVE  P!Next \/ (blocks' = blocks /\ mined' = mined)
  <2>1. PICK block \in pending[n] :
          blocks' = IF CanAdd(blocks[n], block)
                    THEN [blocks EXCEPT ![n] = @ \cup {block}]
                    ELSE blocks
    BY <1>3 DEF ProcessBlock
  <2>2. block \in mined /\ UNCHANGED mined
    BY <1>3 DEF ProcessBlock, IInv
  <2> QED  BY <2>1, <2>2, AddIsTakeUp DEF P!Next
<1>4. ASSUME NEW n \in Node, FinishMining(n)
      PROVE  P!Next
  BY <1>4, FinishIsMine DEF P!Next
<1>5. ASSUME NEW c \in Link, NEW n \in Node, Swallow(c, n)
      PROVE  blocks' = blocks /\ mined' = mined
  BY <1>5 DEF Swallow
<1>6. ASSUME NEW n \in Node,
             Restart(n) \/ PeriodicSync(n) \/ StartMining(n) \/ StopMining(n)
      PROVE  blocks' = blocks /\ mined' = mined
  BY <1>6 DEF Restart, PeriodicSync, StartMining, StopMining
<1> QED  BY <1>1, <1>2, <1>3, <1>4, <1>5, <1>6

-----------------------------------------------------------------------------
(* The rest of the invariant. *)

LEMMA AskedWire ==
  ASSUME IInv, NEW w \in WireOf(mined), NEW c \in Link, NEW n \in Node
  PROVE  AskFromTop(w, c, n) \in WireOf(mined)
<1>1. Height(n) + 1 \in Nat
  BY TipIsLast DEF Block
<1> QED  BY <1>1, OtherEnd, MessageBuilt, SentWire DEF AskFromTop

LEMMA HungClients ==
  ASSUME TypeOK, NEW gone
  PROVE  Hung(gone) \in [Node -> Seq(Link \cup {None})]
<1> SUFFICES ASSUME NEW n \in Node
             PROVE  [i \in DOMAIN clients[n] |-> IF clients[n][i] \in gone THEN None ELSE clients[n][i]]
                      \in Seq(Link \cup {None})
  BY DEF Hung
<1>1. PICK k \in Nat : clients[n] \in [1..k -> Link \cup {None}]
  BY SeqDef DEF TypeOK
<1>2. [i \in DOMAIN clients[n] |-> IF clients[n][i] \in gone THEN None ELSE clients[n][i]]
        \in [1..k -> Link \cup {None}]
  BY <1>1
<1> QED  BY <1>2, SeqDef

LEMMA CandidatesKept ==
  ASSUME IInv, mined \subseteq mined', \A n \in Node : candidate'[n] \in {candidate[n], None}
  PROVE  CandidatesOK'
BY DEF IInv, CandidatesOK

\* All that is left to show of an action once it is known to be a step of
\* Replicas: mined blocks are blocks, and the other variables keep their types.
LEMMA Assembled ==
  ASSUME IInv, P!Next \/ (blocks' = blocks /\ mined' = mined),
         mined' \subseteq Block,
         rewards' \in [Node -> SUBSET Nat],
         candidate' \in [Node -> Candidate \cup {None}], CandidatesOK',
         pending' \in [Node -> SUBSET mined'],
         clients' \in [Node -> Seq(Link \cup {None})],
         link' \in [Link -> {"idle", "open", "closed"}],
         wire' \in WireOf(mined'),
         lost' \in 0..MaxLost, restarts' \in 0..MaxRestarts
  PROVE  IInv'
<1>1. P!Inv'
  BY P!InvStep DEF IInv, P!vars
<1>2. blocks' \in [Node -> SUBSET Block] /\ pending' \in [Node -> SUBSET Block]
  BY <1>1 DEF P!Inv, P!ChainsOK
<1>3. wire' \in [Link -> [Node -> Seq(MessageOf(Block))]]
  BY WireMonotone DEF WireOf
<1>4. TypeOK'
  BY <1>2, <1>3 DEF TypeOK
<1> QED  BY <1>1, <1>4 DEF IInv

\* The actions that leave the mined blocks and the candidates alone, but for a
\* candidate that is given up.
LEMMA Kept ==
  ASSUME IInv, P!Next \/ (blocks' = blocks /\ mined' = mined), mined' = mined,
         \A n \in Node : candidate'[n] \in {candidate[n], None},
         candidate' \in [Node -> Candidate \cup {None}],
         rewards' \in [Node -> SUBSET Nat],
         pending' \in [Node -> SUBSET mined],
         clients' \in [Node -> Seq(Link \cup {None})],
         link' \in [Link -> {"idle", "open", "closed"}],
         wire' \in WireOf(mined),
         lost' \in 0..MaxLost, restarts' \in 0..MaxRestarts
  PROVE  IInv'
BY CandidatesKept, Assembled DEF IInv, TypeOK

LEMMA ConnectStep ==
  ASSUME IInv, NEW c \in Link, Connect(c)
  PROVE  IInv'
<1>1. wire' \in WireOf(mined)
  BY AppendedWire, MessageBuilt, LinkAssumption DEF Connect, IInv
<1>2. Append(clients[Acceptor[c]], c) \in Seq(Link \cup {None})
  BY AppendProperties, LinkAssumption DEF IInv, TypeOK
<1>3. clients' \in [Node -> Seq(Link \cup {None})]
  BY <1>2 DEF Connect, IInv, TypeOK
<1>4. link' \in [Link -> {"idle", "open", "closed"}]
  BY DEF Connect, IInv, TypeOK
<1> QED  BY <1>1, <1>3, <1>4, Kept DEF Connect, IInv, TypeOK, bounds

LEMMA BreakStep ==
  ASSUME IInv, NEW c \in Link, Break(c)
  PROVE  IInv'
<1>1. wire' \in WireOf(mined) /\ clients' \in [Node -> Seq(Link \cup {None})]
  BY SilentWire, HungClients DEF Break, IInv
<1>2. link' \in [Link -> {"idle", "open", "closed"}]
  BY DEF Break, IInv, TypeOK
<1> QED  BY <1>1, <1>2, Kept DEF Break, IInv, TypeOK, bounds

LEMMA SwallowStep ==
  ASSUME IInv, NEW c \in Link, NEW n \in Node, Swallow(c, n)
  PROVE  IInv'
<1>1. wire' \in WireOf(mined)
  BY ConsumedWire DEF Swallow, IInv
<1>2. lost' \in 0..MaxLost
  BY BoundAssumption DEF Swallow, IInv, TypeOK
<1> QED  BY <1>1, <1>2, Kept DEF Swallow, IInv, TypeOK

LEMMA RestartStep ==
  ASSUME IInv, NEW n \in Node, Restart(n)
  PROVE  IInv'
<1> DEFINE gone == {c \in Link : n \in {Dialer[c], Acceptor[c]} /\ link[c] = "open"}
<1>1. wire' \in WireOf(mined) /\ Hung(gone) \in [Node -> Seq(Link \cup {None})]
  BY SilentWire, HungClients DEF Restart, IInv
<1>2. clients' \in [Node -> Seq(Link \cup {None})]
  BY <1>1, EmptySeq DEF Restart
<1>3. link' \in [Link -> {"idle", "open", "closed"}]
  BY DEF Restart, IInv, TypeOK
<1>4. restarts' \in 0..MaxRestarts
  BY BoundAssumption DEF Restart, IInv, TypeOK
<1>5. /\ candidate' \in [Node -> Candidate \cup {None}]
      /\ \A m \in Node : candidate'[m] \in {candidate[m], None}
  BY DEF Restart, IInv, TypeOK
<1>6. pending' \in [Node -> SUBSET mined]
  BY DEF Restart, IInv
<1> QED  BY <1>1, <1>2, <1>3, <1>4, <1>5, <1>6, Kept DEF Restart, IInv, TypeOK

LEMMA PeriodicSyncStep ==
  ASSUME IInv, NEW n \in Node, PeriodicSync(n)
  PROVE  IInv'
<1>1. clients[n] \in Seq(Link \cup {None}) /\ clients[n] # <<>>
  BY DEF PeriodicSync, IInv, TypeOK
<1>2. clients[n][1] \in Link
  BY <1>1, ElementOfSeq, EmptySeq, LenProperties DEF PeriodicSync
<1>3. wire' \in WireOf(mined)
  BY <1>2, AskedWire DEF PeriodicSync, IInv
<1> QED  BY <1>3, Kept DEF PeriodicSync, IInv, TypeOK, bounds

LEMMA ReceiveStep ==
  ASSUME IInv, NEW c \in Link, NEW n \in Node, Receive(c, n)
  PROVE  IInv'
<1>0. P!Next \/ (blocks' = blocks /\ mined' = mined)
  BY ChainStep DEF Next
<1>1. CASE ReceiveHandshake(c, n)
  <2>1. wire' \in WireOf(mined)
    BY <1>1, HeadOfWire, AskedWire DEF ReceiveHandshake
  <2> QED  BY <1>0, <1>1, <2>1, Kept DEF ReceiveHandshake, IInv, TypeOK, bounds
<1>2. CASE ReceiveGetBlocks(c, n)
  <2> DEFINE rows == {row \in blocks[n] : row.height >= Head(wire[c][n]).from_height}
  <2>1. Consumed(c, n) \in WireOf(mined) /\ BlocksResponse(rows) \in MessageOf(mined)
    BY <1>2, HeadOfWire, MessageBuilt DEF ReceiveGetBlocks, IInv, P!Inv, P!ChainsOK
  <2>2. wire' \in WireOf(mined)
    BY <1>2, <2>1, OtherEnd, SentWire DEF ReceiveGetBlocks
  <2> QED  BY <1>0, <1>2, <2>2, Kept DEF ReceiveGetBlocks, IInv, TypeOK, bounds
<1>3. CASE ReceiveBlocksResponse(c, n)
  <2>1. wire' \in WireOf(mined) /\ Head(wire[c][n]).payload \subseteq mined
    BY <1>3, HeadOfWire, MessageParts DEF ReceiveBlocksResponse
  <2>2. pending' \in [Node -> SUBSET mined]
    BY <1>3, <2>1 DEF ReceiveBlocksResponse, IInv
  <2> QED  BY <1>0, <1>3, <2>1, <2>2, Kept DEF ReceiveBlocksResponse, IInv, TypeOK, bounds
<1>4. CASE ReceiveExtension(c, n)
  <2>1. wire' \in WireOf(mined)
    BY <1>4, HeadOfWire, BlockReceived, BroadcastWire DEF ReceiveExtension
  <2>2. /\ candidate' \in [Node -> Candidate \cup {None}]
        /\ \A m \in Node : candidate'[m] \in {candidate[m], None}
    BY <1>4 DEF ReceiveExtension, IInv, TypeOK
  <2> QED  BY <1>0, <1>4, <2>1, <2>2, Kept DEF ReceiveExtension, IInv, TypeOK, bounds
<1>5. CASE ReceiveCompeting(c, n)
  <2>1. wire' \in WireOf(mined)
    BY <1>5, HeadOfWire, BlockReceived, BroadcastWire DEF ReceiveCompeting
  <2>2. /\ candidate' \in [Node -> Candidate \cup {None}]
        /\ \A m \in Node : candidate'[m] \in {candidate[m], None}
    BY <1>5 DEF ReceiveCompeting, IInv, TypeOK
  <2>3. rewards' \in [Node -> SUBSET Nat]
    BY <1>5 DEF ReceiveCompeting, IInv, TypeOK
  <2> QED  BY <1>0, <1>5, <2>1, <2>2, <2>3, Kept DEF ReceiveCompeting, IInv, TypeOK, bounds
<1>6. CASE ReceiveBeyond(c, n)
  <2>1. wire' \in WireOf(mined)
    BY <1>6, HeadOfWire, AskedWire DEF ReceiveBeyond
  <2> QED  BY <1>0, <1>6, <2>1, Kept DEF ReceiveBeyond, IInv, TypeOK, bounds
<1>7. CASE ReceiveIgnored(c, n)
  <2>1. wire' \in WireOf(mined)
    BY <1>7, HeadOfWire DEF ReceiveIgnored
  <2> QED  BY <1>0, <1>7, <2>1, Kept DEF ReceiveIgnored, IInv, TypeOK, bounds
<1> QED  BY <1>1, <1>2, <1>3, <1>4, <1>5, <1>6, <1>7 DEF Receive

LEMMA ProcessBlockStep ==
  ASSUME IInv, NEW n \in Node, ProcessBlock(n)
  PROVE  IInv'
<1>0. P!Next \/ (blocks' = blocks /\ mined' = mined)
  BY ChainStep DEF Next
<1>1. pending' \in [Node -> SUBSET mined]
  BY DEF ProcessBlock, IInv
<1> QED  BY <1>0, <1>1, Kept DEF ProcessBlock, IInv, TypeOK, bounds

LEMMA StartMiningStep ==
  ASSUME IInv, NEW n \in Node, StartMining(n)
  PROVE  IInv'
<1>1. PICK last \in blocks[n] : /\ last \in mined /\ last \in Block
                               /\ Height(n) = last.height
                               /\ Tip(n) = {last}
  BY TipIsLast
<1> DEFINE work == [height |-> last.height + 1, prevHash |-> last.hash]
<1>2. candidate' = [candidate EXCEPT ![n] = work]
  BY <1>1 DEF StartMining
<1>3. work \in Candidate /\ last.height = work.height - 1 /\ last.hash = work.prevHash
  BY <1>1 DEF Candidate, Block
<1> HIDE DEF work
<1>4. candidate' \in [Node -> Candidate \cup {None}]
  BY <1>2, <1>3 DEF IInv, TypeOK
<1>5. \A m \in Node : candidate'[m] = IF m = n THEN work ELSE candidate[m]
  BY <1>2 DEF IInv, TypeOK
<1>6. UNCHANGED <<blocks, rewards, pending, clients, link, wire, mined, lost, restarts>>
  BY DEF StartMining, bounds
<1>7. CandidatesOK'
  BY <1>1, <1>3, <1>5, <1>6 DEF CandidatesOK, IInv
<1> QED  BY <1>4, <1>6, <1>7, Assembled DEF IInv, TypeOK

LEMMA FinishMiningStep ==
  ASSUME IInv, NEW n \in Node, FinishMining(n)
  PROVE  IInv'
<1>1. PICK hash \in Hash \ {block.hash : block \in mined} :
        LET block == [height |-> candidate[n].height, hash |-> hash,
                      prevHash |-> candidate[n].prevHash, minedBy |-> n] IN
        /\ rewards' = [rewards EXCEPT ![n] = @ \cup {block.height}]
        /\ mined' = mined \cup {block}
        /\ wire' = Broadcast(wire, n, block)
  BY DEF FinishMining
<1> DEFINE block == [height |-> candidate[n].height, hash |-> hash,
                     prevHash |-> candidate[n].prevHash, minedBy |-> n]
<1>2. candidate[n] \in Candidate
  BY DEF FinishMining, IInv, TypeOK
<1>3. block \in Block /\ block.height \in Nat
  BY <1>2 DEF Block, Candidate
<1> HIDE DEF block
<1>4. /\ mined' = mined \cup {block} /\ wire' = Broadcast(wire, n, block)
      /\ rewards' = [rewards EXCEPT ![n] = @ \cup {block.height}]
  BY <1>1 DEF block
<1>5. wire \in WireOf(mined')
  BY <1>4, WireMonotone DEF IInv
<1>6. wire' \in WireOf(mined')
  BY <1>4, <1>5, BroadcastWire
<1>7. P!Next
  BY FinishIsMine DEF P!Next
<1>8. mined' \subseteq Block /\ mined \subseteq mined' /\ pending' \in [Node -> SUBSET mined']
  BY <1>3, <1>4 DEF FinishMining, IInv, TypeOK
<1>9. rewards' \in [Node -> SUBSET Nat]
  BY <1>3, <1>4 DEF IInv, TypeOK
<1>10. /\ candidate' \in [Node -> Candidate \cup {None}]
       /\ \A m \in Node : candidate'[m] \in {candidate[m], None}
  BY DEF FinishMining, IInv, TypeOK
<1>11. CandidatesOK'
  BY <1>8, <1>10, CandidatesKept
<1>12. UNCHANGED <<clients, link, lost, restarts>>
  BY DEF FinishMining, bounds
<1> QED  BY <1>6, <1>7, <1>8, <1>9, <1>10, <1>11, <1>12, Assembled DEF IInv, TypeOK

LEMMA StopMiningStep ==
  ASSUME IInv, NEW n \in Node, StopMining(n)
  PROVE  IInv'
<1>1. /\ candidate' \in [Node -> Candidate \cup {None}]
      /\ \A m \in Node : candidate'[m] \in {candidate[m], None}
  BY DEF StopMining, IInv, TypeOK
<1> QED  BY <1>1, Kept DEF StopMining, IInv, TypeOK, bounds

-----------------------------------------------------------------------------
(* The inductive invariant, and the theorems. *)

LEMMA IInvInit == Init => IInv
<1> SUFFICES ASSUME Init PROVE IInv
  OBVIOUS
<1>1. Genesis \in Block
  BY NameAssumption DEF Genesis, Block
<1>2. P!Inv
  <2>1. P!Init
    BY DEF Init, P!Init, Genesis, P!Genesis
  <2> QED  BY <2>1, P!InvInit
<1>3. wire \in WireOf(mined) /\ wire \in WireOf(Block)
  BY EmptySeq DEF Init, WireOf
<1>4. TypeOK
  BY <1>1, <1>3, EmptySeq, BoundAssumption DEF Init, TypeOK, WireOf
<1> QED  BY <1>2, <1>3, <1>4 DEF Init, IInv, CandidatesOK

LEMMA IInvStep == IInv /\ [Next]_vars => IInv'
<1> SUFFICES ASSUME IInv, [Next]_vars PROVE IInv'
  OBVIOUS
<1>1. CASE UNCHANGED vars
  BY <1>1 DEF vars, bounds, IInv, TypeOK, CandidatesOK, P!Inv, P!WellMined, P!ChainsOK, P!Agreement
<1>2. CASE Next
  <2>1. ASSUME NEW c \in Link, Connect(c) \/ Break(c) PROVE IInv'
    BY <2>1, ConnectStep, BreakStep
  <2>2. ASSUME NEW c \in Link, NEW n \in Node, Swallow(c, n) \/ Receive(c, n) PROVE IInv'
    BY <2>2, SwallowStep, ReceiveStep
  <2>3. ASSUME NEW n \in Node, Restart(n) \/ PeriodicSync(n) \/ ProcessBlock(n) PROVE IInv'
    BY <2>3, RestartStep, PeriodicSyncStep, ProcessBlockStep
  <2>4. ASSUME NEW n \in Node, StartMining(n) \/ FinishMining(n) \/ StopMining(n) PROVE IInv'
    BY <2>4, StartMiningStep, FinishMiningStep, StopMiningStep
  <2> QED  BY <1>2, <2>1, <2>2, <2>3, <2>4 DEF Next
<1> QED  BY <1>1, <1>2

LEMMA Invariance == Spec => []IInv
BY IInvInit, IInvStep, PTL DEF Spec

\* The variables of the network keep their types: what a handler builds from a
\* message, and what it sends, is again a chain of blocks and a message.
THEOREM TypeCorrect == Spec => []TypeOK
BY Invariance, PTL DEF IInv

\* Every node's `blocks' table is one unbroken chain, in every network and
\* whatever is lost, restarted or mined at the same time.
THEOREM ChainsStayIntact == Spec => []ChainIntact
<1>1. IInv => ChainIntact
  BY DEF IInv, P!Inv, P!ChainsOK, P!Unbroken, ChainIntact, Linked
<1> QED  BY <1>1, Invariance, PTL

\* Two nodes that hold a block in common hold everything below it in common.
THEOREM PrefixesAgree == Spec => []PrefixAgreement
<1>1. IInv => PrefixAgreement
  BY DEF IInv, P!Inv, P!Agreement, P!SamePrefix, PrefixAgreement
<1> QED  BY <1>1, Invariance, PTL

\* Block synchronisation implements Replicas: whatever the messages do, a node's
\* chain gains a block on top, trades its last one, or stays.
THEOREM ImplementationOfReplicas == Spec => ImplementsReplicas
<1>1. Init => Promise!Init
  BY DEF Init, Promise!Init, Genesis, Promise!Genesis
<1>2. IInv /\ [Next]_vars => [Promise!Next]_(Promise!vars)
  <2> SUFFICES ASSUME IInv, [Next]_vars PROVE [Promise!Next]_(Promise!vars)
    OBVIOUS
  <2>1. CASE UNCHANGED vars
    BY <2>1 DEF vars, Promise!vars
  <2>2. CASE Next
    <3>1. P!Next \/ (blocks' = blocks /\ mined' = mined)
      BY <2>2, ChainStep
    <3>2. P!Next => Promise!Next
      BY DEF P!Next, P!Mine, P!TakeUp, P!GiveUp, P!IsLast,
             Promise!Next, Promise!Mine, Promise!TakeUp, Promise!GiveUp, Promise!IsLast
    <3> QED  BY <3>1, <3>2 DEF Promise!vars
  <2> QED  BY <2>1, <2>2
<1> QED  BY <1>1, <1>2, Invariance, PTL DEF Spec, ImplementsReplicas, Promise!Spec

\* In one step a node's chain changes at its end or not at all, and it never
\* gets shorter.
THEOREM OnlyTheTipChanges == Spec => OnlyTipChanges
<1> DEFINE Change(n) ==
      /\ {row \in blocks[n] : row.height < Height(n)} \subseteq blocks'[n]
      /\ Height(n)' \in {Height(n), Height(n) + 1}
      /\ Height(n)' = Height(n) + 1 => blocks[n] \subseteq blocks'[n]
<1>1. ASSUME IInv, NEW n \in Node, blocks'[n] = blocks[n]
      PROVE  Change(n)
  <2>1. Height(n)' = Height(n) /\ Height(n) \in Nat
    BY <1>1, TipIsLast DEF Height, Block
  <2> QED  BY <1>1, <2>1
<1>2. ASSUME IInv, IInv', NEW n \in Node, NEW last \in blocks[n], NEW block \in mined',
             P!IsLast(last, blocks[n]),
             \/ block.height = last.height + 1 /\ blocks'[n] = blocks[n] \cup {block}
             \/ block.height = last.height /\ blocks'[n] = (blocks[n] \ {last}) \cup {block}
      PROVE  Change(n)
  <2>1. /\ blocks[n] \subseteq mined /\ \A row \in mined : row.height \in Nat
        /\ P!Unbroken(blocks[n]) /\ P!Unbroken(blocks'[n])
        /\ block.height \in Nat
    BY <1>2 DEF IInv, P!Inv, P!ChainsOK, P!WellMined
  <2>2. \A row \in blocks[n] : row.height \in Nat /\ row.height <= last.height
    BY <1>2, <2>1 DEF P!IsLast
  <2>3. Height(n) = last.height /\ Height(n)' = block.height
    BY <1>2, HeightAfter
  <2>4. {row \in blocks[n] : row.height < Height(n)} \subseteq blocks'[n]
    BY <1>2, <2>2, <2>3
  <2>5. last.height \in Nat
    BY <2>2
  <2>6. CASE block.height = last.height + 1 /\ blocks'[n] = blocks[n] \cup {block}
    <3>1. Height(n)' = Height(n) + 1 /\ blocks[n] \subseteq blocks'[n]
      BY <2>3, <2>6
    <3> QED  BY <2>4, <3>1
  <2>7. CASE block.height = last.height
    <3>1. Height(n)' = Height(n) /\ Height(n) # Height(n) + 1
      BY <2>3, <2>5, <2>7
    <3> QED  BY <2>4, <3>1
  <2> QED  BY <1>2, <2>6, <2>7
<1>3. ASSUME IInv, IInv', NEW m \in Node, P!Mine(m) \/ P!TakeUp(m) \/ P!GiveUp(m),
             NEW n \in Node
      PROVE  Change(n)
  <2>0. blocks \in [Node -> SUBSET mined]
    BY <1>3 DEF IInv, P!Inv, P!ChainsOK
  <2>1. CASE n # m
    BY <1>1, <1>3, <2>0, <2>1 DEF P!Mine, P!TakeUp, P!GiveUp
  <2>2. CASE n = m /\ P!Mine(m)
    <3>1. PICK last \in blocks[n], block \in mined' :
            /\ P!IsLast(last, blocks[n]) /\ block.height = last.height + 1
            /\ blocks'[n] = blocks[n] \cup {block}
      BY <2>0, <2>2 DEF P!Mine
    <3> QED  BY <1>2, <1>3, <3>1
  <2>3. CASE n = m /\ P!TakeUp(m)
    <3>1. PICK last \in blocks[n], block \in mined' :
            /\ P!IsLast(last, blocks[n]) /\ block.height = last.height + 1
            /\ blocks'[n] = blocks[n] \cup {block}
      BY <2>0, <2>3 DEF P!TakeUp
    <3> QED  BY <1>2, <1>3, <3>1
  <2>4. CASE n = m /\ P!GiveUp(m)
    <3>1. PICK last \in blocks[n], block \in mined' :
            /\ P!IsLast(last, blocks[n]) /\ block.height = last.height
            /\ blocks'[n] = (blocks[n] \ {last}) \cup {block}
      BY <2>0, <2>4 DEF P!GiveUp
    <3> QED  BY <1>2, <1>3, <3>1
  <2> QED  BY <1>3, <2>1, <2>2, <2>3, <2>4
<1>4. IInv /\ IInv' /\ [Next]_vars => [\A n \in Node : Change(n)]_vars
  <2> SUFFICES ASSUME IInv, IInv', Next, NEW n \in Node PROVE Change(n)
    BY DEF vars
  <2>1. CASE P!Next
    BY <1>3, <2>1 DEF P!Next
  <2>2. CASE blocks' = blocks
    BY <1>1, <2>2
  <2> QED  BY <2>1, <2>2, ChainStep
<1> QED  BY <1>4, Invariance, PTL DEF Spec, OnlyTipChanges

-----------------------------------------------------------------------------
(* Links: connecting, breaking and restarting are its steps, and no other handler
   touches a link or clients_. *)

\* What the steps of BlockSync do to its links, in the words of Links.
LEMMA LinkStep == [Next]_vars => [L!Next]_(L!vars)
<1> SUFFICES ASSUME [Next]_vars PROVE [L!Next]_(L!vars)
  OBVIOUS
<1>1. ASSUME NEW c \in Link, Connect(c) PROVE L!Open(c)
  BY <1>1 DEF Connect, L!Open
<1>2. ASSUME NEW c \in Link, Break(c) PROVE L!Close(c)
  BY <1>2 DEF Break, Hung, L!Close, L!Hung
<1>3. ASSUME NEW n \in Node, Restart(n) PROVE L!Restart(n)
  <2> DEFINE gone == {c \in Link : n \in {Dialer[c], Acceptor[c]} /\ link[c] = "open"}
             waiting == {c \in Link : Acceptor[c] = n /\ link[c] = "idle"}
  <2>1. link' = [c \in Link |-> IF Dialer[c] = n THEN "idle" ELSE IF c \in gone THEN "closed" ELSE link[c]]
    BY <1>3 DEF Restart
  <2>2. clients' = [L!Hung(gone) EXCEPT ![n] = <<>>]
    BY <1>3 DEF Restart, Hung, L!Hung
  <2>3. {} \in SUBSET waiting
    OBVIOUS
  <2>4. link' = [c \in Link |-> IF Dialer[c] = n THEN "idle" ELSE IF c \in gone \cup {} THEN "closed" ELSE link[c]]
    BY <2>1
  <2> QED
    BY <2>2, <2>3, <2>4 DEF L!Restart
<1>4. ASSUME NEW c \in Link, NEW n \in Node, Swallow(c, n) \/ Receive(c, n) PROVE UNCHANGED L!vars
  <2>1. CASE Swallow(c, n)
    BY <2>1 DEF Swallow, L!vars
  <2>2. CASE Receive(c, n)
    BY <2>2 DEF Receive, ReceiveHandshake, ReceiveGetBlocks, ReceiveBlocksResponse, ReceiveExtension,
                ReceiveCompeting, ReceiveBeyond, ReceiveIgnored, L!vars
  <2> QED
    BY <1>4, <2>1, <2>2
<1>5. ASSUME NEW n \in Node,
             PeriodicSync(n) \/ ProcessBlock(n) \/ StartMining(n) \/ FinishMining(n) \/ StopMining(n)
      PROVE  UNCHANGED L!vars
  BY <1>5 DEF PeriodicSync, ProcessBlock, StartMining, FinishMining, StopMining, L!vars
<1>6. CASE UNCHANGED vars
  BY <1>6 DEF vars, L!vars
<1> QED
  BY <1>1, <1>2, <1>3, <1>4, <1>5, <1>6 DEF Next, L!Next

LEMMA NoLinkIsNone == L!NamesOK
BY LinkAssumption, NameAssumption DEF L!NamesOK

\* clients_ is the list of the accepted links, in the order of their acceptance, and
\* its entries never move or go (handleConnection's push_back, and nothing else).
THEOREM ImplementationOfLinks == Spec => ImplementsLinks
<1>1. Init => Connections!Init
  BY DEF Init, Connections!Init
<1>2. [Next]_vars => [Connections!Next]_(Connections!vars)
  <2>1. L!Next => Connections!Next
    BY DEF L!Next, L!Open, L!Fail, L!Stillborn, L!Close, L!Restart, L!Hung,
           Connections!Next, Connections!Open, Connections!Fail, Connections!Stillborn,
           Connections!Close, Connections!Restart, Connections!Hung
  <2> QED
    BY <2>1, LinkStep DEF L!vars, Connections!vars
<1> QED
  BY <1>1, <1>2, PTL DEF Spec, ImplementsLinks, Connections!Spec

\* A message to all of clients_ reaches the dialer of every open link that the node
\* accepted, once, and nobody else (the loops over clients_ in broadcastBlock).
THEOREM EachAcceptedLinkOnce == Spec => []Connections!EachOnce
<1>1. Init => L!IInv
  <2>1. Init => L!Init
    BY DEF Init, L!Init
  <2> QED
    BY <2>1, NoLinkIsNone, L!InitIInv
<1>2. L!IInv /\ [Next]_vars => L!IInv'
  BY LinkStep, NoLinkIsNone, L!NextIInv
<1>3. L!IInv => Connections!EachOnce
  BY DEF L!IInv, L!EachOnce, Connections!EachOnce
<1> QED
  BY <1>1, <1>2, <1>3, PTL DEF Spec

-----------------------------------------------------------------------------
(* What the nodes mine.  The mining thread works on the last block, on every
   network.  Where the links have no cycle, an announced block never reaches the node
   that mined it, and a node's coinbase rows are those of its own blocks in its chain. *)

LEMMA SameChainSameTip ==
  ASSUME NEW n \in Node, blocks'[n] = blocks[n]
  PROVE  Height(n)' = Height(n) /\ Tip(n)' = Tip(n)
BY DEF Height, Tip, getLatestHeight, getBlockByHeight, Heights, Max

\* A candidate above the chain is exactly one above it.
LEMMA CandidateIsNext ==
  ASSUME IInv, MinerOnTip, NEW n \in Node, candidate[n] # None,
         candidate[n].height > Height(n)
  PROVE  candidate[n].height = Height(n) + 1
<1>1. PICK last \in blocks[n] : /\ last \in mined /\ last \in Block
                               /\ Height(n) = last.height
                               /\ Tip(n) = {last}
  BY TipIsLast
<1>2. PICK parent \in mined : /\ parent.height = candidate[n].height - 1
                             /\ parent.hash = candidate[n].prevHash
  BY DEF IInv, CandidatesOK
<1>3. parent = last
  BY <1>1, <1>2 DEF MinerOnTip, IInv, P!Inv, P!WellMined
<1>4. candidate[n] \in Candidate
  BY DEF IInv, TypeOK
<1> QED  BY <1>1, <1>2, <1>3, <1>4 DEF Candidate, Block

-----------------------------------------------------------------------------
(* The mining thread works on the last block. *)

\* Of all actions only a start of the mining thread brings a candidate, and only
\* ProcessBlock changes a chain under one.
LEMMA CandidateChange ==
  ASSUME IInv, Next, NEW n \in Node
  PROVE  \/ blocks'[n] = blocks[n] /\ candidate'[n] = candidate[n]
         \/ candidate'[n] = None
         \/ StartMining(n)
         \/ ProcessBlock(n)
<1>0. /\ blocks \in [Node -> SUBSET mined]
      /\ candidate \in [Node -> Candidate \cup {None}]
  BY DEF IInv, P!Inv, P!ChainsOK, TypeOK
<1>1. ASSUME NEW c \in Link, Connect(c) \/ Break(c)
      PROVE  blocks' = blocks /\ candidate' = candidate
  BY <1>1 DEF Connect, Break
<1>2. ASSUME NEW c \in Link, NEW m \in Node, Swallow(c, m) \/ Receive(c, m)
      PROVE  \/ blocks'[n] = blocks[n] /\ candidate'[n] = candidate[n]
             \/ candidate'[n] = None
  <2>1. CASE ReceiveExtension(c, m)
    BY <1>0, <2>1 DEF ReceiveExtension
  <2>2. CASE ReceiveCompeting(c, m)
    BY <1>0, <2>2 DEF ReceiveCompeting
  <2>3. CASE Swallow(c, m) \/ ReceiveHandshake(c, m) \/ ReceiveGetBlocks(c, m)
    BY <2>3 DEF Swallow, ReceiveHandshake, ReceiveGetBlocks
  <2>4. CASE ReceiveBlocksResponse(c, m) \/ ReceiveBeyond(c, m) \/ ReceiveIgnored(c, m)
    BY <2>4 DEF ReceiveBlocksResponse, ReceiveBeyond, ReceiveIgnored
  <2> QED  BY <1>2, <2>1, <2>2, <2>3, <2>4 DEF Receive
<1>3. ASSUME NEW m \in Node, Restart(m) \/ PeriodicSync(m) \/ StopMining(m)
      PROVE  \/ blocks'[n] = blocks[n] /\ candidate'[n] = candidate[n]
             \/ candidate'[n] = None
  BY <1>0, <1>3 DEF Restart, PeriodicSync, StopMining
<1>4. ASSUME NEW m \in Node, FinishMining(m)
      PROVE  \/ blocks'[n] = blocks[n] /\ candidate'[n] = candidate[n]
             \/ candidate'[n] = None
  BY <1>0, <1>4 DEF FinishMining
<1>5. ASSUME NEW m \in Node, StartMining(m), m # n
      PROVE  blocks'[n] = blocks[n] /\ candidate'[n] = candidate[n]
  BY <1>0, <1>5 DEF StartMining
<1>6. ASSUME NEW m \in Node, ProcessBlock(m), m # n
      PROVE  blocks'[n] = blocks[n] /\ candidate'[n] = candidate[n]
  BY <1>0, <1>6 DEF ProcessBlock
<1> QED  BY <1>1, <1>2, <1>3, <1>4, <1>5, <1>6 DEF Next

\* What the loop over a BLOCKS_RESPONSE does to a node's chain.
LEMMA ProcessedBlock ==
  ASSUME IInv, NEW n \in Node, ProcessBlock(n)
  PROVE  P!TakeUp(n) \/ blocks' = blocks
<1>1. PICK block \in pending[n] :
        blocks' = IF CanAdd(blocks[n], block)
                  THEN [blocks EXCEPT ![n] = @ \cup {block}]
                  ELSE blocks
  BY DEF ProcessBlock
<1>2. block \in mined /\ UNCHANGED mined
  BY DEF ProcessBlock, IInv
<1> QED  BY <1>1, <1>2, AddIsTakeUp

LEMMA MinerStep ==
  ASSUME IInv, IInv', MinerOnTip, [Next]_vars
  PROVE  MinerOnTip'
<1> SUFFICES ASSUME NEW n \in Node, candidate'[n] # None, candidate'[n].height > Height(n)'
             PROVE  \E last \in Tip(n)' : candidate'[n].prevHash = last.hash
  BY DEF MinerOnTip
<1>1. CASE blocks'[n] = blocks[n] /\ candidate'[n] = candidate[n]
  BY <1>1, SameChainSameTip DEF MinerOnTip
<1>2. CASE StartMining(n)
  <2>1. PICK last \in Tip(n) :
          candidate' = [candidate EXCEPT ![n] =
                          [height |-> Height(n) + 1, prevHash |-> last.hash]]
    BY <1>2 DEF StartMining
  <2>2. candidate'[n].prevHash = last.hash /\ blocks'[n] = blocks[n]
    BY <1>2, <2>1 DEF StartMining, IInv, TypeOK
  <2> QED  BY <2>2, SameChainSameTip
<1>3. CASE ProcessBlock(n)
  <2>0. candidate'[n] = candidate[n]
    BY <1>3 DEF ProcessBlock
  <2>1. CASE blocks' = blocks
    BY <1>1, <2>0, <2>1
  <2>2. CASE P!TakeUp(n)
    <3>1. PICK last \in blocks[n], block \in mined :
            /\ P!IsLast(last, blocks[n]) /\ block.height = last.height + 1
            /\ blocks' = [blocks EXCEPT ![n] = @ \cup {block}] /\ UNCHANGED mined
      BY <2>2 DEF P!TakeUp
    <3>2. block \in mined' /\ blocks'[n] = blocks[n] \cup {block}
      BY <3>1 DEF IInv, TypeOK
    <3>3. Height(n) = last.height /\ Height(n)' = last.height + 1
      BY <3>1, <3>2, HeightAfter
    <3>4. last.height \in Nat /\ candidate[n] \in Candidate
      BY <2>0 DEF IInv, TypeOK, Block
    <3>5. candidate[n].height > Height(n)
      BY <2>0, <3>3, <3>4 DEF Candidate
    \* The chain has reached the candidate's height, so there is nothing to show.
    <3>6. candidate[n].height = Height(n) + 1
      BY <2>0, <3>5, CandidateIsNext
    <3> QED  BY <2>0, <3>3, <3>4, <3>6
  <2> QED  BY <1>3, <2>1, <2>2, ProcessedBlock
<1>4. CASE UNCHANGED vars
  BY <1>1, <1>4 DEF vars
<1> QED  BY <1>1, <1>2, <1>3, <1>4, CandidateChange

\* On every network, and however pushed and requested blocks change the chain
\* under it: the block a mining thread works on, unless the chain has overtaken
\* it, names the hash of the node's last block.
THEOREM MinersStayOnTip == Spec => []MinerOnTip
<1>1. Init => MinerOnTip
  BY DEF Init, MinerOnTip
<1> QED  BY <1>1, MinerStep, Invariance, PTL DEF Spec

-----------------------------------------------------------------------------
(* Networks without a cycle: every node has a rank, and each link is dialled *)
(* by the node of the higher rank.  Announcements travel upwards, so that a  *)
(* node only hears of blocks mined below it.                                 *)

Uphill(rank) ==
  /\ rank \in [Node -> Nat]
  /\ \A c \in Link : rank[Acceptor[c]] < rank[Dialer[c]]

MinedBelow(rank, block, n) ==
  block.minedBy \in Node => rank[block.minedBy] < rank[n]

\* The messages a node can receive.
FitMessage(rank, n) ==
  {msg \in MessageOf(Block) : msg.type = "NEW_BLOCK" => MinedBelow(rank, msg.block, n)}

FitWire(rank) ==
  {w \in [Link -> [Node -> Seq(MessageOf(Block))]] :
     \A c \in Link, n \in Node : w[c][n] \in Seq(FitMessage(rank, n))}

\* clients_ holds only links the node has accepted.
Accepted(n) == {c \in Link : Acceptor[c] = n} \cup {None}

\* A node's chain has reached every block the node has mined.
OwnBlocksReached ==
  \A n \in Node : \A block \in mined : block.minedBy = n => block.height <= Height(n)

RInv(rank) ==
  /\ wire \in FitWire(rank)
  /\ \A n \in Node : clients[n] \in Seq(Accepted(n))
  /\ OwnBlocksReached
  /\ RewardsMatchChain

LEMMA FitConsumed ==
  ASSUME NEW rank, wire \in FitWire(rank), NEW c \in Link, NEW n \in Node, wire[c][n] # <<>>
  PROVE  Consumed(c, n) \in FitWire(rank) /\ Head(wire[c][n]) \in FitMessage(rank, n)
<1>1. wire[c][n] \in Seq(FitMessage(rank, n)) /\ wire[c][n] \in Seq(MessageOf(Block))
  BY DEF FitWire
<1>2. /\ Tail(wire[c][n]) \in Seq(FitMessage(rank, n))
      /\ Head(wire[c][n]) \in FitMessage(rank, n)
  BY <1>1, HeadTailProperties
<1>3. Tail(wire[c][n]) \in Seq(MessageOf(Block))
  BY <1>1, HeadTailProperties
<1> QED  BY <1>2, <1>3 DEF FitWire, Consumed

LEMMA FitSent ==
  ASSUME NEW rank, NEW w \in FitWire(rank), NEW c \in Link, NEW n \in Node,
         NEW msg \in FitMessage(rank, n)
  PROVE  [w EXCEPT ![c][n] = Append(@, msg)] \in FitWire(rank) /\ Send(w, c, n, msg) \in FitWire(rank)
<1>1. w[c][n] \in Seq(FitMessage(rank, n)) /\ w[c][n] \in Seq(MessageOf(Block))
  BY DEF FitWire
<1>2. Append(w[c][n], msg) \in Seq(FitMessage(rank, n))
  BY <1>1, AppendProperties
<1>3. Append(w[c][n], msg) \in Seq(MessageOf(Block))
  BY <1>1, AppendProperties DEF FitMessage
<1>4. [w EXCEPT ![c][n] = Append(@, msg)] \in FitWire(rank)
  BY <1>2, <1>3 DEF FitWire
<1> QED  BY <1>4 DEF Send

LEMMA FitBuilt ==
  ASSUME NEW rank, NEW n \in Node
  PROVE  /\ Handshake \in FitMessage(rank, n)
         /\ \A from \in Nat : GetBlocks(from) \in FitMessage(rank, n)
         /\ \A rows \in SUBSET Block : BlocksResponse(rows) \in FitMessage(rank, n)
         /\ \A block \in Block : MinedBelow(rank, block, n) => NewBlock(block) \in FitMessage(rank, n)
BY MessageBuilt DEF FitMessage, Handshake, GetBlocks, BlocksResponse, NewBlock

LEMMA FitSilent ==
  ASSUME NEW rank, wire \in FitWire(rank), NEW gone
  PROVE  Silent(gone) \in FitWire(rank)
<1>1. <<>> \in Seq(MessageOf(Block)) /\ \A n \in Node : <<>> \in Seq(FitMessage(rank, n))
  BY EmptySeq
<1> QED  BY <1>1 DEF FitWire, Silent

\* Those who are told of a block rank above the node that tells them.
LEMMA FitBroadcast ==
  ASSUME NEW rank, Uphill(rank), RInv(rank), NEW w \in FitWire(rank), NEW n \in Node,
         NEW block \in Block, MinedBelow(rank, block, n) \/ block.minedBy = n
  PROVE  Broadcast(w, n, block) \in FitWire(rank)
<1>1. ASSUME NEW c \in Audience(n)
      PROVE  c \in Link /\ Acceptor[c] = n /\ NewBlock(block) \in FitMessage(rank, Dialer[c])
  <2>1. c \in Link /\ c \in Range(clients[n])
    BY <1>1 DEF Audience
  <2>2. PICK i \in DOMAIN clients[n] : clients[n][i] = c
    BY <2>1 DEF Range
  <2>3. clients[n] \in Seq(Accepted(n))
    BY DEF RInv
  <2>4. c \in Accepted(n)
    BY <2>2, <2>3, ElementOfSeq, LenProperties
  <2>5. Acceptor[c] = n
    BY <2>1, <2>4, NameAssumption DEF Accepted
  <2>6. Dialer[c] \in Node /\ rank[n] < rank[Dialer[c]]
    BY <2>1, <2>5, LinkAssumption DEF Uphill
  <2>7. MinedBelow(rank, block, Dialer[c])
    BY <2>6 DEF MinedBelow, Uphill
  <2> QED  BY <2>1, <2>5, <2>6, <2>7, FitBuilt
<1> DEFINE told(c) == [w[c] EXCEPT ![Dialer[c]] = Append(@, NewBlock(block))]
<1>2. ASSUME NEW c \in Link, c \in Audience(n)
      PROVE  /\ told(c) \in [Node -> Seq(MessageOf(Block))]
             /\ \A m \in Node : told(c)[m] \in Seq(FitMessage(rank, m))
  <2> DEFINE after == [w EXCEPT ![c][Dialer[c]] = Append(@, NewBlock(block))]
  <2>1. after \in FitWire(rank)
    BY <1>1, <1>2, FitSent, LinkAssumption
  <2>2. after[c] = told(c)
    BY DEF FitWire
  <2> HIDE DEF after, told
  <2>3. /\ after[c] \in [Node -> Seq(MessageOf(Block))]
        /\ \A m \in Node : after[c][m] \in Seq(FitMessage(rank, m))
    BY <2>1 DEF FitWire
  <2> QED  BY <2>2, <2>3
<1>3. Broadcast(w, n, block) = [c \in Link |-> IF c \in Audience(n) THEN told(c) ELSE w[c]]
  BY DEF Broadcast
<1> HIDE DEF told
<1> QED  BY <1>2, <1>3 DEF FitWire

LEMMA FitAsked ==
  ASSUME NEW rank, IInv, NEW w \in FitWire(rank), NEW c \in Link, NEW n \in Node
  PROVE  AskFromTop(w, c, n) \in FitWire(rank)
<1>1. Height(n) + 1 \in Nat
  BY TipIsLast DEF Block
<1> QED  BY <1>1, OtherEnd, FitBuilt, FitSent DEF AskFromTop

-----------------------------------------------------------------------------
(* Every action keeps the messages fit and the entries of clients_ accepted. *)

LEMMA ReceiveFits ==
  ASSUME NEW rank, Uphill(rank), IInv, RInv(rank),
         NEW c \in Link, NEW n \in Node, Receive(c, n)
  PROVE  wire' \in FitWire(rank)
<1>1. wire \in FitWire(rank) /\ wire[c][n] # <<>>
  BY DEF RInv, Receive, ReceiveHandshake, ReceiveGetBlocks, ReceiveBlocksResponse,
         ReceiveExtension, ReceiveCompeting, ReceiveBeyond, ReceiveIgnored, Ready
<1>2. Consumed(c, n) \in FitWire(rank) /\ Head(wire[c][n]) \in FitMessage(rank, n)
  BY <1>1, FitConsumed
<1>3. ASSUME Ready(c, n, "NEW_BLOCK")
      PROVE  /\ Head(wire[c][n]).block \in Block
             /\ MinedBelow(rank, Head(wire[c][n]).block, n)
  BY <1>2, <1>3, MessageParts DEF FitMessage, Ready
<1>4. CASE ReceiveExtension(c, n) \/ ReceiveCompeting(c, n)
  BY <1>2, <1>3, <1>4, FitBroadcast DEF ReceiveExtension, ReceiveCompeting
<1>5. CASE ReceiveHandshake(c, n) \/ ReceiveBeyond(c, n)
  BY <1>2, <1>5, FitAsked DEF ReceiveHandshake, ReceiveBeyond
<1>6. CASE ReceiveGetBlocks(c, n)
  <2> DEFINE rows == {row \in blocks[n] : row.height >= Head(wire[c][n]).from_height}
  <2>1. rows \in SUBSET Block
    BY DEF IInv, TypeOK
  <2>2. BlocksResponse(rows) \in FitMessage(rank, Other(c, n))
    BY <2>1, FitBuilt, OtherEnd
  <2> HIDE DEF rows
  <2>3. Send(Consumed(c, n), c, Other(c, n), BlocksResponse(rows)) \in FitWire(rank)
    BY <1>2, <2>2, FitSent, OtherEnd
  <2> QED  BY <1>2, <1>6, <2>3 DEF ReceiveGetBlocks, rows
<1>7. CASE ReceiveBlocksResponse(c, n) \/ ReceiveIgnored(c, n)
  BY <1>2, <1>7 DEF ReceiveBlocksResponse, ReceiveIgnored
<1> QED  BY <1>4, <1>5, <1>6, <1>7 DEF Receive

LEMMA FinishFits ==
  ASSUME NEW rank, Uphill(rank), IInv, RInv(rank), NEW n \in Node, FinishMining(n)
  PROVE  wire' \in FitWire(rank)
<1>1. PICK hash \in Hash :
        wire' = Broadcast(wire, n, [height |-> candidate[n].height, hash |-> hash,
                                    prevHash |-> candidate[n].prevHash, minedBy |-> n])
  BY DEF FinishMining
<1> DEFINE block == [height |-> candidate[n].height, hash |-> hash,
                     prevHash |-> candidate[n].prevHash, minedBy |-> n]
<1>2. candidate[n] \in Candidate
  BY DEF FinishMining, IInv, TypeOK
<1>3. block \in Block /\ block.minedBy = n
  BY <1>2 DEF Block, Candidate
<1> HIDE DEF block
<1>4. wire' = Broadcast(wire, n, block)
  BY <1>1 DEF block
<1> QED  BY <1>3, <1>4, FitBroadcast DEF RInv

LEMMA WireFits ==
  ASSUME NEW rank, Uphill(rank), IInv, RInv(rank), [Next]_vars
  PROVE  wire' \in FitWire(rank)
<1>0. wire \in FitWire(rank)
  BY DEF RInv
<1>1. ASSUME NEW c \in Link, Connect(c)
      PROVE  wire' \in FitWire(rank)
  BY <1>0, <1>1, FitSent, FitBuilt, LinkAssumption DEF Connect
<1>2. ASSUME NEW c \in Link, Break(c)
      PROVE  wire' \in FitWire(rank)
  BY <1>0, <1>2, FitSilent DEF Break
<1>3. ASSUME NEW c \in Link, NEW n \in Node, Swallow(c, n)
      PROVE  wire' \in FitWire(rank)
  BY <1>0, <1>3, FitConsumed DEF Swallow
<1>4. ASSUME NEW n \in Node, Restart(n)
      PROVE  wire' \in FitWire(rank)
  BY <1>0, <1>4, FitSilent DEF Restart
<1>5. ASSUME NEW n \in Node, PeriodicSync(n)
      PROVE  wire' \in FitWire(rank)
  <2>1. clients[n] \in Seq(Link \cup {None}) /\ clients[n] # <<>>
    BY <1>5 DEF PeriodicSync, IInv, TypeOK
  <2>2. clients[n][1] \in Link
    BY <1>5, <2>1, ElementOfSeq, EmptySeq, LenProperties DEF PeriodicSync
  <2> QED  BY <1>0, <1>5, <2>2, FitAsked DEF PeriodicSync
<1>6. ASSUME NEW n \in Node, ProcessBlock(n) \/ StartMining(n) \/ StopMining(n)
      PROVE  wire' \in FitWire(rank)
  BY <1>0, <1>6 DEF ProcessBlock, StartMining, StopMining
<1>7. CASE UNCHANGED vars
  BY <1>0, <1>7 DEF vars
<1> QED  BY <1>1, <1>2, <1>3, <1>4, <1>5, <1>6, <1>7, ReceiveFits, FinishFits DEF Next

LEMMA HungAccepted ==
  ASSUME IInv, \A n \in Node : clients[n] \in Seq(Accepted(n)), NEW gone, NEW n \in Node
  PROVE  Hung(gone)[n] \in Seq(Accepted(n))
<1>1. PICK k \in Nat : clients[n] \in [1..k -> Accepted(n)]
  BY SeqDef
<1>2. Hung(gone)[n] \in [1..k -> Accepted(n)]
  BY <1>1 DEF Hung, Accepted
<1> QED  BY <1>2, SeqDef

LEMMA ClientsFit ==
  ASSUME IInv, \A n \in Node : clients[n] \in Seq(Accepted(n)), [Next]_vars, NEW n \in Node
  PROVE  clients'[n] \in Seq(Accepted(n))
<1>1. ASSUME NEW c \in Link, Connect(c)
      PROVE  clients'[n] \in Seq(Accepted(n))
  <2>1. CASE n = Acceptor[c]
    <3>1. clients'[n] = Append(clients[n], c) /\ c \in Accepted(n)
      BY <1>1, <2>1 DEF Connect, Accepted, IInv, TypeOK
    <3> QED  BY <3>1, AppendProperties
  <2>2. CASE n # Acceptor[c]
    BY <1>1, <2>2 DEF Connect, IInv, TypeOK
  <2> QED  BY <2>1, <2>2
<1>2. ASSUME NEW c \in Link, Break(c)
      PROVE  clients'[n] \in Seq(Accepted(n))
  BY <1>2, HungAccepted DEF Break
<1>3. ASSUME NEW m \in Node, Restart(m)
      PROVE  clients'[n] \in Seq(Accepted(n))
  <2>1. PICK gone : clients' = [Hung(gone) EXCEPT ![m] = <<>>]
    BY <1>3 DEF Restart
  <2>2. clients'[n] = <<>> \/ clients'[n] = Hung(gone)[n]
    BY <2>1 DEF Hung
  <2> QED  BY <2>2, HungAccepted, EmptySeq
<1>4. ASSUME NEW c \in Link, NEW m \in Node, Swallow(c, m) \/ Receive(c, m)
      PROVE  clients' = clients
  BY <1>4 DEF Swallow, Receive, ReceiveHandshake, ReceiveGetBlocks, ReceiveBlocksResponse,
              ReceiveExtension, ReceiveCompeting, ReceiveBeyond, ReceiveIgnored
<1>5. ASSUME NEW m \in Node, PeriodicSync(m) \/ ProcessBlock(m) \/ StartMining(m)
                             \/ FinishMining(m) \/ StopMining(m)
      PROVE  clients' = clients
  BY <1>5 DEF PeriodicSync, ProcessBlock, StartMining, FinishMining, StopMining
<1>6. CASE UNCHANGED vars
  BY <1>6 DEF vars
<1> QED  BY <1>1, <1>2, <1>3, <1>4, <1>5, <1>6 DEF Next

-----------------------------------------------------------------------------
(* The chain of a node and its coinbase rows change together. *)

\* Node n's chain and books stay as they are, and n mines nothing.
Untouched(n) ==
  /\ blocks'[n] = blocks[n] /\ rewards'[n] = rewards[n]
  /\ \A block \in mined' \ mined : block.minedBy # n

\* Node n's chain grows by this block on top of its last one.
GrownBy(n, block) ==
  \E last \in blocks[n] :
    /\ P!IsLast(last, blocks[n]) /\ block.height = last.height + 1
    /\ blocks'[n] = blocks[n] \cup {block}

\* It grows by a block of another node.
GrownByOther(n) ==
  \E block \in mined : GrownBy(n, block) /\ block.minedBy # n /\ UNCHANGED <<rewards, mined>>

\* Its last block gives way to one of another node.
SwappedForOther(n) ==
  \E last \in blocks[n], block \in mined :
    /\ P!IsLast(last, blocks[n]) /\ block.height = last.height /\ block.minedBy # n
    /\ blocks'[n] = (blocks[n] \ {last}) \cup {block}
    /\ rewards'[n] = rewards[n] \ {block.height}
    /\ UNCHANGED mined

\* It grows by a block of its own.
GrownByOwn(n) ==
  \E block \in Block :
    /\ GrownBy(n, block) /\ block.minedBy = n
    /\ rewards'[n] = rewards[n] \cup {block.height}
    /\ mined' = mined \cup {block}

LEMMA ExtensionEffect ==
  ASSUME NEW rank, Uphill(rank), IInv, RInv(rank),
         NEW c \in Link, NEW n \in Node, ReceiveExtension(c, n)
  PROVE  GrownByOther(n)
<1> DEFINE block == Head(wire[c][n]).block
<1>1. Ready(c, n, "NEW_BLOCK") /\ wire[c][n] # <<>> /\ wire \in FitWire(rank)
  BY DEF ReceiveExtension, Ready, RInv
<1>2. Head(wire[c][n]) \in FitMessage(rank, n)
  BY <1>1, FitConsumed
<1>3. block \in mined /\ MinedBelow(rank, block, n)
  BY <1>1, <1>2, BlockReceived DEF FitMessage, Ready
<1>4. block.minedBy # n
  BY <1>3 DEF MinedBelow, Uphill
<1>5. PICK last \in blocks[n] : P!IsLast(last, blocks[n]) /\ Height(n) = last.height
  BY TipIsLast
<1>6. /\ block.height = Height(n) + 1
      /\ blocks' = [blocks EXCEPT ![n] = @ \cup {block}] /\ UNCHANGED <<rewards, mined>>
  BY DEF ReceiveExtension, ExtendsTip
<1> HIDE DEF block
<1>7. blocks'[n] = blocks[n] \cup {block}
  BY <1>6 DEF IInv, TypeOK
<1> QED  BY <1>3, <1>4, <1>5, <1>6, <1>7 DEF GrownByOther, GrownBy

LEMMA CompetingEffect ==
  ASSUME NEW rank, Uphill(rank), IInv, RInv(rank),
         NEW c \in Link, NEW n \in Node, ReceiveCompeting(c, n)
  PROVE  SwappedForOther(n)
<1> DEFINE block == Head(wire[c][n]).block
<1>1. Ready(c, n, "NEW_BLOCK") /\ wire[c][n] # <<>> /\ wire \in FitWire(rank)
  BY DEF ReceiveCompeting, Ready, RInv
<1>2. Head(wire[c][n]) \in FitMessage(rank, n)
  BY <1>1, FitConsumed
<1>3. block \in mined /\ MinedBelow(rank, block, n)
  BY <1>1, <1>2, BlockReceived DEF FitMessage, Ready
<1>4. block.minedBy # n
  BY <1>3 DEF MinedBelow, Uphill
<1>5. PICK last \in blocks[n] : /\ P!IsLast(last, blocks[n]) /\ Height(n) = last.height
                               /\ Tip(n) = {last}
  BY TipIsLast
<1>6. /\ block.height = Height(n)
      /\ blocks' = [blocks EXCEPT ![n] = Replaced(@, block)]
      /\ rewards' = [rewards EXCEPT ![n] = @ \ {block.height}]
      /\ UNCHANGED mined
  BY DEF ReceiveCompeting, CompetesWithTip
<1>7. Replaced(blocks[n], block) = (blocks[n] \ {last}) \cup {block}
  BY <1>5 DEF Replaced, WithoutLast, Height, Tip
<1> HIDE DEF block
<1>8. /\ blocks'[n] = (blocks[n] \ {last}) \cup {block}
      /\ rewards'[n] = rewards[n] \ {block.height}
  BY <1>6, <1>7 DEF IInv, TypeOK
<1> QED  BY <1>3, <1>4, <1>5, <1>6, <1>8 DEF SwappedForOther

LEMMA ProcessEffect ==
  ASSUME IInv, OwnBlocksReached, NEW n \in Node, ProcessBlock(n)
  PROVE  GrownByOther(n) \/ Untouched(n)
<1>1. UNCHANGED <<rewards, mined>>
  BY DEF ProcessBlock
<1>2. CASE blocks' = blocks
  BY <1>1, <1>2 DEF Untouched
<1>3. CASE P!TakeUp(n)
  <2>1. PICK last \in blocks[n], block \in mined :
          /\ P!IsLast(last, blocks[n]) /\ block.height = last.height + 1
          /\ blocks' = [blocks EXCEPT ![n] = @ \cup {block}]
    BY <1>3 DEF P!TakeUp
  <2>2. blocks'[n] = blocks[n] \cup {block}
    BY <2>1 DEF IInv, TypeOK
  <2>3. Height(n) = last.height /\ last.height \in Nat
    <3>1. PICK top \in blocks[n] : /\ P!IsLast(top, blocks[n]) /\ Height(n) = top.height
                                  /\ top \in Block
      BY TipIsLast
    <3>2. last \in Block
      BY <2>1 DEF IInv, TypeOK
    <3> QED  BY <2>1, <3>1, <3>2 DEF P!IsLast, Block
  <2>4. block.minedBy # n
    BY <2>1, <2>3 DEF OwnBlocksReached
  <2> QED  BY <1>1, <2>1, <2>2, <2>4 DEF GrownByOther, GrownBy
<1> QED  BY <1>2, <1>3, ProcessedBlock

LEMMA FinishEffect ==
  ASSUME IInv, MinerOnTip, NEW n \in Node, FinishMining(n)
  PROVE  GrownByOwn(n)
<1>1. PICK last \in blocks[n] : P!IsLast(last, blocks[n]) /\ Height(n) = last.height
                               /\ last \in Block
  BY TipIsLast
<1>2. PICK hash \in Hash :
        LET block == [height |-> candidate[n].height, hash |-> hash,
                      prevHash |-> candidate[n].prevHash, minedBy |-> n] IN
        /\ blocks' = [blocks EXCEPT ![n] = @ \cup {block}]
        /\ rewards' = [rewards EXCEPT ![n] = @ \cup {block.height}]
        /\ mined' = mined \cup {block}
  BY DEF FinishMining
<1> DEFINE block == [height |-> candidate[n].height, hash |-> hash,
                     prevHash |-> candidate[n].prevHash, minedBy |-> n]
<1>3. candidate[n] # None /\ candidate[n] \in Candidate /\ candidate[n].height > Height(n)
  BY <1>1 DEF FinishMining, IInv, TypeOK, Block, Candidate
<1>4. block.height = last.height + 1
  BY <1>1, <1>3, CandidateIsNext
<1>5. block \in Block /\ block.minedBy = n
  BY <1>3 DEF Block, Candidate
<1> HIDE DEF block
<1>6. /\ blocks' = [blocks EXCEPT ![n] = @ \cup {block}]
      /\ rewards' = [rewards EXCEPT ![n] = @ \cup {block.height}]
      /\ mined' = mined \cup {block}
  BY <1>2 DEF block
<1>7. /\ blocks'[n] = blocks[n] \cup {block}
      /\ rewards'[n] = rewards[n] \cup {block.height}
  BY <1>6 DEF IInv, TypeOK
<1> QED  BY <1>1, <1>4, <1>5, <1>6, <1>7 DEF GrownByOwn, GrownBy

\* Whatever a node does leaves the chains and books of the others alone.
LEMMA Effects ==
  ASSUME NEW rank, Uphill(rank), IInv, MinerOnTip, RInv(rank), [Next]_vars, NEW n \in Node
  PROVE  Untouched(n) \/ GrownByOther(n) \/ SwappedForOther(n) \/ GrownByOwn(n)
<1>0. blocks \in [Node -> SUBSET Block] /\ rewards \in [Node -> SUBSET Nat] /\ OwnBlocksReached
  BY DEF IInv, TypeOK, RInv
<1>1. ASSUME NEW c \in Link, Connect(c) \/ Break(c)
      PROVE  Untouched(n)
  BY <1>1 DEF Connect, Break, Untouched
<1>2. ASSUME NEW c \in Link, NEW m \in Node, Swallow(c, m) \/ Receive(c, m)
      PROVE  Untouched(n) \/ GrownByOther(n) \/ SwappedForOther(n)
  <2>1. CASE ReceiveExtension(c, m) /\ n # m
    BY <1>0, <2>1 DEF ReceiveExtension, Untouched
  <2>2. CASE ReceiveCompeting(c, m) /\ n # m
    BY <1>0, <2>2 DEF ReceiveCompeting, Untouched
  <2>3. CASE Swallow(c, m) \/ ReceiveHandshake(c, m) \/ ReceiveGetBlocks(c, m)
    BY <2>3 DEF Swallow, ReceiveHandshake, ReceiveGetBlocks, Untouched
  <2>4. CASE ReceiveBlocksResponse(c, m) \/ ReceiveBeyond(c, m) \/ ReceiveIgnored(c, m)
    BY <2>4 DEF ReceiveBlocksResponse, ReceiveBeyond, ReceiveIgnored, Untouched
  <2> QED  BY <1>2, <2>1, <2>2, <2>3, <2>4, ExtensionEffect, CompetingEffect DEF Receive
<1>3. ASSUME NEW m \in Node, Restart(m) \/ PeriodicSync(m) \/ StartMining(m) \/ StopMining(m)
      PROVE  Untouched(n)
  BY <1>3 DEF Restart, PeriodicSync, StartMining, StopMining, Untouched
<1>4. ASSUME NEW m \in Node, ProcessBlock(m)
      PROVE  Untouched(n) \/ GrownByOther(n)
  <2>1. CASE n # m
    BY <1>0, <1>4, <2>1 DEF ProcessBlock, Untouched
  <2> QED  BY <1>0, <1>4, <2>1, ProcessEffect
<1>5. ASSUME NEW m \in Node, FinishMining(m)
      PROVE  Untouched(n) \/ GrownByOwn(n)
  <2>1. CASE n # m
    BY <1>0, <1>5, <2>1 DEF FinishMining, Untouched
  <2> QED  BY <1>5, <2>1, FinishEffect
<1>6. CASE UNCHANGED vars
  BY <1>6 DEF vars, Untouched
<1> QED  BY <1>1, <1>2, <1>3, <1>4, <1>5, <1>6 DEF Next

OwnHeights(rows, n) == {row.height : row \in {r \in rows : r.minedBy = n}}

LEMMA BooksStep ==
  ASSUME NEW rank, Uphill(rank), IInv, IInv', MinerOnTip, RInv(rank), [Next]_vars, NEW n \in Node
  PROVE  /\ \A block \in mined' : block.minedBy = n => block.height <= Height(n)'
         /\ rewards'[n] = OwnHeights(blocks'[n], n)
<1>0. /\ rewards[n] = OwnHeights(blocks[n], n)
      /\ \A block \in mined : block.minedBy = n => block.height <= Height(n)
  BY DEF RInv, RewardsMatchChain, OwnHeights, OwnBlocksReached
<1>1. /\ \A block \in mined' : block.height \in Nat
      /\ \A r1, r2 \in blocks[n] : r1.height = r2.height => r1 = r2
      /\ blocks[n] \subseteq mined /\ mined \subseteq mined'
  <2>1. mined \subseteq mined'
    BY ChainStep DEF P!Next, P!Mine, P!TakeUp, P!GiveUp, vars
  <2> QED  BY <2>1 DEF IInv, P!Inv, P!WellMined, P!ChainsOK, P!Unbroken
<1>2. CASE Untouched(n)
  BY <1>0, <1>2, SameChainSameTip DEF Untouched
<1>3. ASSUME NEW block \in mined', GrownBy(n, block)
      PROVE  /\ Height(n)' = Height(n) + 1 /\ Height(n)' = block.height
             /\ Height(n) \in Nat
             /\ blocks'[n] = blocks[n] \cup {block}
  BY <1>1, <1>3, HeightAfter DEF GrownBy
<1>4. CASE GrownByOther(n)
  <2>1. PICK block \in mined : GrownBy(n, block) /\ block.minedBy # n /\ UNCHANGED <<rewards, mined>>
    BY <1>4 DEF GrownByOther
  <2>2. OwnHeights(blocks'[n], n) = OwnHeights(blocks[n], n)
    BY <1>1, <1>3, <2>1 DEF OwnHeights
  <2>3. /\ Height(n)' = Height(n) + 1 /\ Height(n) \in Nat
        /\ \A b \in mined : b.height \in Nat
    BY <1>1, <1>3, <2>1
  <2> QED  BY <1>0, <2>1, <2>2, <2>3
<1>5. CASE SwappedForOther(n)
  <2>1. PICK last \in blocks[n], block \in mined :
          /\ P!IsLast(last, blocks[n]) /\ block.height = last.height /\ block.minedBy # n
          /\ blocks'[n] = (blocks[n] \ {last}) \cup {block}
          /\ rewards'[n] = rewards[n] \ {block.height}
          /\ UNCHANGED mined
    BY <1>5 DEF SwappedForOther
  <2>2. OwnHeights(blocks'[n], n) = OwnHeights(blocks[n], n) \ {last.height}
    BY <1>1, <2>1 DEF OwnHeights
  <2>3. Height(n)' = Height(n)
    BY <1>1, <2>1, HeightAfter
  <2> QED  BY <1>0, <2>1, <2>2, <2>3
<1>6. CASE GrownByOwn(n)
  <2>1. PICK block \in Block :
          /\ GrownBy(n, block) /\ block.minedBy = n
          /\ rewards'[n] = rewards[n] \cup {block.height}
          /\ mined' = mined \cup {block}
    BY <1>6 DEF GrownByOwn
  <2>2. OwnHeights(blocks'[n], n) = OwnHeights(blocks[n], n) \cup {block.height}
    BY <1>3, <2>1 DEF OwnHeights
  <2>3. /\ Height(n)' = Height(n) + 1 /\ Height(n)' = block.height /\ Height(n) \in Nat
        /\ \A b \in mined : b.height \in Nat
    BY <1>1, <1>3, <2>1
  <2> QED  BY <1>0, <2>1, <2>2, <2>3
<1> QED  BY <1>2, <1>4, <1>5, <1>6, Effects

LEMMA RInvStep ==
  ASSUME NEW rank, Uphill(rank), IInv, IInv', MinerOnTip, RInv(rank), [Next]_vars
  PROVE  RInv(rank)'
<1>1. OwnBlocksReached' /\ RewardsMatchChain'
  BY BooksStep DEF OwnBlocksReached, RewardsMatchChain, OwnHeights
<1>2. \A n \in Node : clients'[n] \in Seq(Accepted(n))
  BY ClientsFit DEF RInv
<1> QED  BY <1>1, <1>2, WireFits DEF RInv

LEMMA RInvInit ==
  ASSUME NEW rank, Init
  PROVE  RInv(rank)
<1>1. wire \in FitWire(rank) /\ \A n \in Node : clients[n] \in Seq(Accepted(n))
  BY EmptySeq DEF Init, FitWire
<1>2. OwnBlocksReached /\ RewardsMatchChain
  BY NameAssumption DEF Init, OwnBlocksReached, RewardsMatchChain, Genesis
<1> QED  BY <1>1, <1>2 DEF RInv

Acyclic == \E rank : Uphill(rank)

LEMMA RInvariance ==
  ASSUME NEW rank, Uphill(rank)
  PROVE  Spec => []RInv(rank)
<1>1. Init => RInv(rank)
  BY RInvInit
<1>2. IInv /\ IInv' /\ MinerOnTip /\ RInv(rank) /\ [Next]_vars => RInv(rank)'
  BY RInvStep
<1> QED  BY <1>1, <1>2, Invariance, MinersStayOnTip, PTL DEF Spec

\* On a network without a cycle of links, a node has a coinbase row for exactly
\* those blocks of its chain that it mined: neither a pushed, a requested nor a
\* competing block takes a reward away that the chain still grants.  (With a
\* cycle a node can replace its last block by itself and lose the reward.)
THEOREM RewardsKept == Acyclic => (Spec => []RewardsMatchChain)
<1> SUFFICES ASSUME NEW rank, Uphill(rank)
             PROVE  Spec => []RewardsMatchChain
  BY DEF Acyclic
<1>1. RInv(rank) => RewardsMatchChain
  BY DEF RInv
<1> QED  BY <1>1, RInvariance, PTL

\* On a network without a cycle of links, no announcement comes back to the node
\* that mined the block.
THEOREM AnnouncementsMoveOn == Acyclic => (Spec => []OwnBlocksDoNotReturn)
<1> SUFFICES ASSUME NEW rank, Uphill(rank)
             PROVE  Spec => []OwnBlocksDoNotReturn
  BY DEF Acyclic
<1>1. RInv(rank) => OwnBlocksDoNotReturn
  <2> SUFFICES ASSUME RInv(rank), NEW c \in Link, NEW n \in Node, NEW i \in DOMAIN wire[c][n],
                      wire[c][n][i].type = "NEW_BLOCK", wire[c][n][i].block.minedBy = n
               PROVE  FALSE
    BY DEF OwnBlocksDoNotReturn
  <2>1. wire[c][n] \in Seq(FitMessage(rank, n))
    BY DEF RInv, FitWire
  <2>2. wire[c][n][i] \in FitMessage(rank, n)
    BY <2>1, ElementOfSeq, LenProperties
  <2> QED  BY <2>2 DEF FitMessage, MinedBelow, Uphill
<1> QED  BY <1>1, RInvariance, PTL
=============================================================================
