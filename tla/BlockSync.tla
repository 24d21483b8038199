------------------------------ MODULE BlockSync ------------------------------
(***************************************************************************)
(* How the nodes of a Nexus Ledger network exchange blocks: Node           *)
(* (core/node.cpp) on top of Blockchain (blockchain/blockchain.cpp) and of *)
(* the TCP links of network/.                                              *)
(*                                                                         *)
(* One action is one handler of the node's io thread, one step of its      *)
(* mining thread or one tick of its sync thread, and it runs to its end    *)
(* before another touches the same Blockchain.  Blockchain has no lock, so *)
(* that is an assumption; module ChainRace takes it away.                  *)
(*                                                                         *)
(* A link c is a TCP connection which node Dialer[c] opens when it starts  *)
(* (to a saved peer, a seed or the address on its command line) and node   *)
(* Acceptor[c] accepts.  Client::connect never calls                       *)
(* the connection handler when it succeeds, so the dialer does not enter   *)
(* the link in its clients_; the acceptor does.  Everything a node sends   *)
(* on its own account therefore goes from the acceptor to the dialer, and  *)
(* the dialer only ever answers or asks for blocks.                        *)
(*                                                                         *)
(* Left out: PING, PONG and GET_PEERS (no state but a time stamp),         *)
(* PEERS_LIST and NEW_TRANSACTION (never sent: see the README), what the   *)
(* blocks contain (module Ledger), difficulty and the checks of a hash     *)
(* (no code path of a node calls Block::validate).  A hash is fresh for    *)
(* every block mined.                                                      *)
(***************************************************************************)
EXTENDS ChainTable, Sequences, SequencesExt

CONSTANTS
  Node,          \* the nodes of the network
  Miners,        \* the nodes whose mempool can be non-empty
  Link,          \* the links the dialers' peer lists call for
  Dialer,        \* Dialer[c]: the node that opens link c
  Acceptor,      \* Acceptor[c]: the node that accepts it
  Breakable,     \* the links that may break
  Lossy,         \* the links that may lose messages
  Restartable,   \* the nodes that may be restarted
  Hash,          \* block hashes; a bound on the number of blocks mined
  GenesisHash,   \* the hash schema.sql gives the block of height 0
  NoHash,        \* the prev_hash of that block
  GenesisMiner,  \* its mined_by
  None,          \* no link, no candidate block
  MaxLost,       \* bound: messages the links lose
  MaxRestarts,   \* bound: restarts
  MaxWire        \* bound: periodic requests wait while this much is in flight

ASSUME LinkAssumption ==
  /\ Miners \subseteq Node
  /\ Breakable \subseteq Link /\ Lossy \subseteq Link
  /\ Restartable \subseteq Node
  /\ Dialer \in [Link -> Node]
  /\ Acceptor \in [Link -> Node]
  /\ \A c \in Link : Dialer[c] # Acceptor[c]

ASSUME NameAssumption ==
  /\ GenesisHash \in Hash
  /\ NoHash \notin Hash
  /\ GenesisMiner \notin Node
  /\ None \notin Link
  /\ None \notin [height : Nat, prevHash : Hash]

ASSUME BoundAssumption == MaxLost \in Nat /\ MaxRestarts \in Nat /\ MaxWire \in Nat

VARIABLES
  blocks,     \* blocks[n]: the `blocks' table of node n, on disk
  rewards,    \* rewards[n]: heights with a coinbase row for n in its `transactions'
  candidate,  \* candidate[n]: the block n's mining thread works on, or None
  pending,    \* pending[n]: what is left of the BLOCKS_RESPONSE n's io thread handles
  clients,    \* clients[n]: n's clients_; None for an entry whose socket is gone
  link,       \* link[c]: "idle" (to be dialled), "open" or "closed" (for good)
  wire,       \* wire[c][n]: messages on link c on their way to node n
  mined,      \* history: every block ever mined, and the genesis block
  lost,       \* bound counter
  restarts    \* bound counter

vars == <<blocks, rewards, candidate, pending, clients, link, wire, mined, lost, restarts>>
bounds == <<lost, restarts>>

-----------------------------------------------------------------------------
Genesis == [height |-> 0, hash |-> GenesisHash, prevHash |-> NoHash, minedBy |-> GenesisMiner]

Block == [height : Nat, hash : Hash, prevHash : Hash \cup {NoHash}, minedBy : Node \cup {GenesisMiner}]

Candidate == [height : Nat, prevHash : Hash]

\* The messages a node can receive when the blocks in them come from the set B.
MessageOf(B) ==
       [type : {"HANDSHAKE"}]
  \cup [type : {"GET_BLOCKS"}, from_height : Nat]
  \cup [type : {"BLOCKS_RESPONSE"}, payload : SUBSET B]
  \cup [type : {"NEW_BLOCK"}, block : B]

Handshake == [type |-> "HANDSHAKE"]
GetBlocks(from) == [type |-> "GET_BLOCKS", from_height |-> from]
BlocksResponse(rows) == [type |-> "BLOCKS_RESPONSE", payload |-> rows]
NewBlock(block) == [type |-> "NEW_BLOCK", block |-> block]

TypeOK ==
  /\ blocks \in [Node -> SUBSET Block]
  /\ rewards \in [Node -> SUBSET Nat]
  /\ candidate \in [Node -> Candidate \cup {None}]
  /\ pending \in [Node -> SUBSET Block]
  /\ clients \in [Node -> Seq(Link \cup {None})]
  /\ link \in [Link -> {"idle", "open", "closed"}]
  /\ wire \in [Link -> [Node -> Seq(MessageOf(Block))]]
  /\ mined \in SUBSET Block
  /\ lost \in 0..MaxLost
  /\ restarts \in 0..MaxRestarts

\* A node's database holds the genesis block from its first start on.
Init ==
  /\ blocks = [n \in Node |-> {Genesis}]
  /\ rewards = [n \in Node |-> {}]
  /\ candidate = [n \in Node |-> None]
  /\ pending = [n \in Node |-> {}]
  /\ clients = [n \in Node |-> <<>>]
  /\ link = [c \in Link |-> "idle"]
  /\ wire = [c \in Link |-> [n \in Node |-> <<>>]]
  /\ mined = {Genesis}
  /\ lost = 0
  /\ restarts = 0

-----------------------------------------------------------------------------
Height(n) == getLatestHeight(blocks[n])
Tip(n) == getBlockByHeight(blocks[n], Height(n))   \* the last block, as a set of rows

Other(c, n) == IF n = Dialer[c] THEN Acceptor[c] ELSE Dialer[c]

\* Peer::send: the message reaches the link's queue when the socket is open.
Send(w, c, n, msg) == IF link[c] = "open" THEN [w EXCEPT ![c][n] = Append(@, msg)] ELSE w

\* Mutant of Broadcast: the dialer has the links it opened in its clients_ too.
BroadcastBothWays(w, n, block) ==
  [c \in Link |-> IF n \in {Dialer[c], Acceptor[c]} /\ link[c] = "open"
                  THEN [w[c] EXCEPT ![Other(c, n)] = Append(@, NewBlock(block))]
                  ELSE w[c]]

\* Node::broadcastBlock: one copy to every connected entry of clients_, and the
\* peers of these entries are the dialers of the links.
Audience(n) == {c \in Link : c \in Range(clients[n]) /\ link[c] = "open"}
Broadcast(w, n, block) ==
  [c \in Link |-> IF c \in Audience(n)
                  THEN [w[c] EXCEPT ![Dialer[c]] = Append(@, NewBlock(block))]
                  ELSE w[c]]

\* Mutant of AskFromTop: the height of the next block is counted twice.
AskBeyondTop(w, c, n) == Send(w, c, Other(c, n), GetBlocks(Height(n) + 2))

\* Node::syncWithPeer: ask for what lies above the own chain.
AskFromTop(w, c, n) == Send(w, c, Other(c, n), GetBlocks(Height(n) + 1))

\* Node n's io thread is free and the next message on link c is of this type.
Ready(c, n, type) ==
  /\ pending[n] = {}
  /\ wire[c][n] # <<>>
  /\ Head(wire[c][n]).type = type

Consumed(c, n) == [wire EXCEPT ![c][n] = Tail(@)]

-----------------------------------------------------------------------------
(* Links. *)

\* Server::handle_accept and Node::handleConnection: the acceptor enters the
\* link in clients_ and sends its HANDSHAKE; Client::connect at the dialer only
\* starts to read.
Connect(c) ==
  /\ link[c] = "idle"
  /\ pending[Acceptor[c]] = {}
  /\ link' = [link EXCEPT ![c] = "open"]
  /\ clients' = [clients EXCEPT ![Acceptor[c]] = Append(@, c)]
  /\ wire' = [wire EXCEPT ![c][Dialer[c]] = Append(@, Handshake)]
  /\ UNCHANGED <<blocks, rewards, candidate, pending, mined, bounds>>

\* Mutant of Hung: an entry goes with its connection.
HungRemoving(gone) == [n \in Node |-> SelectSeq(clients[n], LAMBDA c : c \notin gone)]

\* Entries of clients_ are never removed: the closed socket stays in its place.
Hung(gone) == [n \in Node |-> [i \in DOMAIN clients[n] |->
                 IF clients[n][i] \in gone THEN None ELSE clients[n][i]]]
Silent(gone) == [c \in Link |-> IF c \in gone THEN [n \in Node |-> <<>>] ELSE wire[c]]

\* The TCP connection fails: both ends see a read error (Peer::read) and close.
\* Nothing dials again while the node runs.
Break(c) ==
  /\ c \in Breakable /\ link[c] = "open"
  /\ link' = [link EXCEPT ![c] = "closed"]
  /\ clients' = Hung({c})
  /\ wire' = Silent({c})
  /\ UNCHANGED <<blocks, rewards, candidate, pending, mined, bounds>>

\* Peer::read takes the line it hands over out of the buffer twice, so that the
\* messages the same segment brought after it vanish.  A message is lost behind
\* any other, those that the model leaves out (PING, GET_PEERS) included.
Swallow(c, n) ==
  /\ c \in Lossy /\ lost < MaxLost
  /\ wire[c][n] # <<>>
  /\ wire' = Consumed(c, n)
  /\ lost' = lost + 1
  /\ UNCHANGED <<blocks, rewards, candidate, pending, clients, link, mined, restarts>>

\* The process ends and is started again: the database is all that it keeps.
\* It dials its links again; nobody else does.
Restart(n) ==
  LET gone == {c \in Link : n \in {Dialer[c], Acceptor[c]} /\ link[c] = "open"} IN
  /\ n \in Restartable /\ restarts < MaxRestarts
  /\ restarts' = restarts + 1
  /\ link' = [c \in Link |-> IF Dialer[c] = n THEN "idle"
                             ELSE IF c \in gone THEN "closed" ELSE link[c]]
  /\ clients' = [Hung(gone) EXCEPT ![n] = <<>>]
  /\ wire' = Silent(gone)
  /\ candidate' = [candidate EXCEPT ![n] = None]
  /\ pending' = [pending EXCEPT ![n] = {}]
  /\ UNCHANGED <<blocks, rewards, mined, lost>>

\* The sync thread of Node::start: every 30 seconds it asks the first entry of
\* clients_, connected or not.
PeriodicSync(n) ==
  /\ clients[n] # <<>>
  /\ LET c == clients[n][1] IN
     /\ c # None
     /\ Len(wire[c][Dialer[c]]) + Len(wire[c][n]) < MaxWire
     /\ wire' = AskFromTop(wire, c, n)
  /\ UNCHANGED <<blocks, rewards, candidate, pending, clients, link, mined, bounds>>

-----------------------------------------------------------------------------
(* Node::handleMessage, one action per message type and outcome. *)

\* Mutant of ReceiveHandshake: nothing is asked for.
ReceiveHandshakeOnly(c, n) ==
  /\ Ready(c, n, "HANDSHAKE")
  /\ wire' = Consumed(c, n)
  /\ UNCHANGED <<blocks, rewards, candidate, pending, clients, link, mined, bounds>>

ReceiveHandshake(c, n) ==
  /\ Ready(c, n, "HANDSHAKE")
  /\ wire' = AskFromTop(Consumed(c, n), c, n)
  /\ UNCHANGED <<blocks, rewards, candidate, pending, clients, link, mined, bounds>>

\* Nothing is answered when there is nothing at or above from_height.
ReceiveGetBlocks(c, n) ==
  /\ Ready(c, n, "GET_BLOCKS")
  /\ LET rows == {row \in blocks[n] : row.height >= Head(wire[c][n]).from_height} IN
     wire' = IF rows = {} THEN Consumed(c, n)
             ELSE Send(Consumed(c, n), c, Other(c, n), BlocksResponse(rows))
  /\ UNCHANGED <<blocks, rewards, candidate, pending, clients, link, mined, bounds>>

ReceiveBlocksResponse(c, n) ==
  /\ Ready(c, n, "BLOCKS_RESPONSE")
  /\ pending' = [pending EXCEPT ![n] = Head(wire[c][n]).payload]
  /\ wire' = Consumed(c, n)
  /\ UNCHANGED <<blocks, rewards, candidate, clients, link, mined, bounds>>

\* The body of the loop over a BLOCKS_RESPONSE, whose blocks come in the order
\* of their heights.  The mining thread runs on: other than for NEW_BLOCK it is
\* not restarted, and the block is not passed on.
ProcessBlock(n) ==
  /\ \E block \in pending[n] :
       /\ \A later \in pending[n] : block.height <= later.height
       /\ pending' = [pending EXCEPT ![n] = @ \ {block}]
       /\ blocks' = IF CanAdd(blocks[n], block)
                    THEN [blocks EXCEPT ![n] = @ \cup {block}]
                    ELSE blocks
  /\ UNCHANGED <<rewards, candidate, clients, link, wire, mined, bounds>>

\* The three cases NEW_BLOCK distinguishes, for a block and node n's chain.
ExtendsTip(n, block) ==
  block.height = Height(n) + 1 /\ \E last \in Tip(n) : block.prevHash = last.hash
CompetesWithTip(n, block) ==
  block.height = Height(n) /\ \E last \in Tip(n) : block.prevHash = last.prevHash
BeyondTip(n, block) ==
  block.height > Height(n) /\ ~ExtendsTip(n, block)

\* 1. The block continues the chain: it is added and passed on, and the mining
\* thread is joined and started anew.
ReceiveExtension(c, n) ==
  /\ Ready(c, n, "NEW_BLOCK")
  /\ LET block == Head(wire[c][n]).block IN
     /\ ExtendsTip(n, block)
     /\ CanAdd(blocks[n], block)
     /\ blocks' = [blocks EXCEPT ![n] = @ \cup {block}]
     /\ wire' = Broadcast(Consumed(c, n), n, block)
  /\ candidate' = [candidate EXCEPT ![n] = None]
  /\ UNCHANGED <<rewards, pending, clients, link, mined, bounds>>

\* Mutant of ReceiveCompeting: the mining thread is left running.
ReceiveCompetingMining(c, n) ==
  /\ Ready(c, n, "NEW_BLOCK")
  /\ LET block == Head(wire[c][n]).block IN
     /\ CompetesWithTip(n, block)
     /\ CanReplace(blocks[n], block)
     /\ blocks' = [blocks EXCEPT ![n] = Replaced(@, block)]
     /\ rewards' = [rewards EXCEPT ![n] = @ \ {block.height}]
     /\ wire' = Broadcast(Consumed(c, n), n, block)
  /\ UNCHANGED <<candidate, pending, clients, link, mined, bounds>>

\* 2. A block with the height and the parent of the last one takes its place;
\* the rows of `transactions' at that height go, and the new block brings none.
ReceiveCompeting(c, n) ==
  /\ Ready(c, n, "NEW_BLOCK")
  /\ LET block == Head(wire[c][n]).block IN
     /\ CompetesWithTip(n, block)
     /\ CanReplace(blocks[n], block)
     /\ blocks' = [blocks EXCEPT ![n] = Replaced(@, block)]
     /\ rewards' = [rewards EXCEPT ![n] = @ \ {block.height}]
     /\ wire' = Broadcast(Consumed(c, n), n, block)
  /\ candidate' = [candidate EXCEPT ![n] = None]
  /\ UNCHANGED <<pending, clients, link, mined, bounds>>

\* 3. The block is above the chain and does not continue it: the sender is asked
\* for what lies above the own chain.
ReceiveBeyond(c, n) ==
  /\ Ready(c, n, "NEW_BLOCK")
  /\ BeyondTip(n, Head(wire[c][n]).block)
  /\ wire' = AskFromTop(Consumed(c, n), c, n)
  /\ UNCHANGED <<blocks, rewards, candidate, pending, clients, link, mined, bounds>>

\* Everything else is ignored, or refused by the table.
ReceiveIgnored(c, n) ==
  /\ Ready(c, n, "NEW_BLOCK")
  /\ LET block == Head(wire[c][n]).block IN
     /\ ~(ExtendsTip(n, block) /\ CanAdd(blocks[n], block))
     /\ ~(CompetesWithTip(n, block) /\ CanReplace(blocks[n], block))
     /\ ~BeyondTip(n, block)
  /\ wire' = Consumed(c, n)
  /\ UNCHANGED <<blocks, rewards, candidate, pending, clients, link, mined, bounds>>

Receive(c, n) ==
  \/ ReceiveHandshake(c, n)
  \/ ReceiveGetBlocks(c, n)
  \/ ReceiveBlocksResponse(c, n)
  \/ ReceiveExtension(c, n)
  \/ ReceiveCompeting(c, n)
  \/ ReceiveBeyond(c, n)
  \/ ReceiveIgnored(c, n)

-----------------------------------------------------------------------------
(* Node::mine_loop. *)

\* Mutant of StartMining: the new block names the parent of the last one.
StartMiningOnParent(n) ==
  /\ n \in Miners
  /\ candidate[n] = None
  /\ \E last \in Tip(n) :
       candidate' = [candidate EXCEPT ![n] =
                       [height |-> Height(n) + 1, prevHash |-> last.prevHash]]
  /\ UNCHANGED <<blocks, rewards, pending, clients, link, wire, mined, bounds>>

\* The mempool is not empty: createBlock builds a block on the last one.
StartMining(n) ==
  /\ n \in Miners
  /\ candidate[n] = None
  /\ \E last \in Tip(n) :
       candidate' = [candidate EXCEPT ![n] =
                       [height |-> Height(n) + 1, prevHash |-> last.hash]]
  /\ UNCHANGED <<blocks, rewards, pending, clients, link, wire, mined, bounds>>

\* A nonce fits while the height is still free: addBlock stores the block and
\* its coinbase, and the block is announced.
FinishMining(n) ==
  /\ candidate[n] # None
  /\ Height(n) < candidate[n].height
  /\ \E hash \in Hash \ {block.hash : block \in mined} :
       LET block == [height |-> candidate[n].height, hash |-> hash,
                     prevHash |-> candidate[n].prevHash, minedBy |-> n] IN
       /\ CanAdd(blocks[n], block)
       /\ blocks' = [blocks EXCEPT ![n] = @ \cup {block}]
       /\ rewards' = [rewards EXCEPT ![n] = @ \cup {block.height}]
       /\ mined' = mined \cup {block}
       /\ wire' = Broadcast(wire, n, block)
  /\ candidate' = [candidate EXCEPT ![n] = None]
  /\ UNCHANGED <<pending, clients, link, bounds>>

\* The million nonces are used up, or the height is taken, or addBlock refuses.
StopMining(n) ==
  /\ candidate[n] # None
  /\ candidate' = [candidate EXCEPT ![n] = None]
  /\ UNCHANGED <<blocks, rewards, pending, clients, link, wire, mined, bounds>>

-----------------------------------------------------------------------------
Next ==
  \/ \E c \in Link : Connect(c) \/ Break(c)
  \/ \E c \in Link, n \in Node : Swallow(c, n) \/ Receive(c, n)
  \/ \E n \in Node :
       \/ Restart(n)
       \/ PeriodicSync(n)
       \/ ProcessBlock(n)
       \/ StartMining(n)
       \/ FinishMining(n)
       \/ StopMining(n)

Spec == Init /\ [][Next]_vars

\* What the running process does by itself: its io thread goes on with what has
\* arrived, and its sync thread comes around every 30 seconds.
SyncFairness ==
  /\ \A c \in Link : WF_vars(Connect(c))
  /\ \A c \in Link, n \in Node : WF_vars(Receive(c, n))
  /\ \A n \in Node : WF_vars(ProcessBlock(n)) /\ WF_vars(PeriodicSync(n))

LiveSpec == Spec /\ SyncFairness

-----------------------------------------------------------------------------
(* Properties. *)

\* Every node's table is one unbroken chain from the genesis block, whatever
\* mixture of pushed, requested and competing blocks it was built from
\* (Blockchain::addBlock and replaceLastBlock, called in turn).
ChainIntact == \A n \in Node : Linked(blocks[n])

\* Two nodes that hold the same block hold the same blocks below it: chains part
\* once and never run together again.
PrefixAgreement ==
  \A n, m \in Node : \A block \in blocks[n] \cap blocks[m] :
    {row \in blocks[n] : row.height <= block.height}
      = {row \in blocks[m] : row.height <= block.height}

\* A coinbase is on the books exactly for the blocks of the chain that the node
\* mined: replacing the last block takes its reward away, and nothing else does
\* (replaceLastBlock's DELETE FROM transactions, addBlock's INSERT).
RewardsMatchChain ==
  \A n \in Node : rewards[n] = {row.height : row \in {r \in blocks[n] : r.minedBy = n}}

\* The mining thread never works for the next height on a block that is no
\* longer the last one (the restarts of mining_thread_ in NEW_BLOCK).
MinerOnTip ==
  \A n \in Node : candidate[n] # None /\ candidate[n].height > Height(n) =>
    \E last \in Tip(n) : candidate[n].prevHash = last.hash

\* A step changes a node's chain at its end or not at all: it adds one block on
\* top or puts another in the place of the last, and never goes down.
OnlyTipChanges ==
  [][\A n \in Node :
       /\ {row \in blocks[n] : row.height < Height(n)} \subseteq blocks'[n]
       /\ Height(n)' \in {Height(n), Height(n) + 1}
       /\ Height(n)' = Height(n) + 1 => blocks[n] \subseteq blocks'[n]]_vars

\* Abstractly: every node holds a chain that it only extends, by blocks of its
\* own or by blocks mined elsewhere, or whose last block it swaps for a sibling.
Promise == INSTANCE Replicas WITH chain <- blocks
ImplementsReplicas == Promise!Spec

\* And, as to the connections: clients_ holds the links a node has accepted, in this
\* order and for ever.
Connections == INSTANCE Links
ImplementsLinks == Connections!Spec

\* An announcement never comes back to the node that mined the block: announced
\* blocks travel from acceptors to dialers only.  (A node that hears of its own last
\* block replaces it by itself: ReceiveCompeting.)
OwnBlocksDoNotReturn ==
  \A c \in Link, n \in Node : \A i \in DOMAIN wire[c][n] :
    wire[c][n][i].type = "NEW_BLOCK" => wire[c][n][i].block.minedBy # n

\* All nodes end up with the same chain.
Convergence == <>[](\A n, m \in Node : blocks[n] = blocks[m])
=============================================================================
