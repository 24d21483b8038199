# Nexus Ledger in TLA+

A verification development for Nexus Ledger, a peer-to-peer block chain node in
C++20 (Boost.Asio, SQLite). It models how nodes find and call each other, what
becomes of a message on a connection, how nodes exchange blocks, how the threads
of a node start, end and share its chain, and what becomes of a transaction
between its acceptance and a block. TLC checks the models on small instances; TLAPS proves
every safety property that the passing runs check, invariant, action property or refinement,
for any nodes, links, blocks, messages, amounts and bounds. Liveness is left to TLC.

Paths below are relative to the repository's `src/` directory.

## 1. The system

One process is one `Node` (`core/node.cpp`). It owns a `Blockchain`
(`blockchain/blockchain.cpp`), which owns a `LedgerDB` (`storage/ledger_db.cpp`,
one SQLite connection), and it talks to other nodes through `Server`, `Client`
and `Peer` (`network/`).

| Component | State | Operations | Models |
|---|---|---|---|
| Block table and chain rules (`Blockchain`, `LedgerDB`, `schema.sql`) | tables `blocks`, `transactions` | `getHeight`, `getBlock`, `addBlock`, `replaceLastBlock` | `ChainTable`, `ChainRace` |
| Block synchronisation (`Node::handleMessage`, the sync thread) | `clients_`, messages in flight | `HANDSHAKE`, `GET_BLOCKS`, `BLOCKS_RESPONSE`, `NEW_BLOCK`, a request every 30 s | `BlockSync`, `Replicas` |
| Mining thread (`Node::mine_loop`) | the block it works on, `mining_` | a round: template, nonces, `addBlock`, broadcast | `BlockSync`, `ChainRace`, `Ledger` |
| Mempool and balances (`Blockchain`, view `wallet_balance`) | `mempool`, `mempool_by_priority`, `transactions` | `addTransaction`, `cleanMempool`, `createBlock` | `Ledger` |
| HTTP API (`Node::startHttpServer`) | its thread | bind, accept, read, `POST /transaction` | `Ledger` (`Submit`), `Lifecycle` |
| TCP links (`network/`) | sockets, `read_buffer_`, writes under way | connect, accept, send, read, disconnect | `PeerStream`, `Overlay`; `BlockSync` (links as lossy queues) |
| Peer discovery | `clients_`, table `peers` | seeds, argument, `HANDSHAKE`, `GET_PEERS`, lists of peers | `Overlay`, `Links` |
| Start and stop (`Node`, `main`) | `running_`, `mining_`, eight threads | constructor, `start`, `stop`, destructor | `Lifecycle` |
| Difficulty | none | `getCurrentDifficulty` | not modelled |
| Metrics, command line, scripts | – | – | not modelled |

### How the parts interact

* The **io thread** runs `handleMessage` for every message of every peer, one at
  a time. It adds blocks, replaces the last one, answers requests and passes
  announcements on. For a `NEW_BLOCK` that it takes, it stops the mining thread,
  *joins* it and starts another.
* The **mining thread** reads the chain, builds a block, tries up to a million
  nonces (looking at the height before each), and calls `addBlock` itself.
* The **cleaner**, **HTTP** and **sync** threads call `cleanMempool`,
  `addTransaction` and `syncWithPeer`; the **ping**, **gossip** and **GET_PEERS**
  threads write to the peers in `clients_`.
* **main** constructs the node (which dials the seeds, then listens, then starts the
  HTTP thread), starts it, waits for a signal and stops it. It shares `mining_` and
  `mining_thread_` with the io thread, each of them checking, joining and assigning
  the thread in separate steps.
* Nothing is locked: not `Blockchain`, not `clients_`, and no database
  transaction is ever opened (`beginTransaction` has no caller). SQLite makes each
  statement atomic, and nothing makes two of them so.

Two facts about the network decide much of what follows. Both are read off
`Client::connect` and `Node::connectToPeer`:

1. `Client::connect` reports failure to its connection handler but never success.
   The dialer of a connection therefore never enters it in `clients_` and never
   sends a `HANDSHAKE`; the acceptor does both (`handleConnection`). So
   announcements and periodic requests go **from the acceptor to the dialer
   only**; the dialer answers and asks, but never announces.
2. For the same reason no peer ever has a `p2p_port` and no list of peers is ever
   sent (`NoListTravels`), against what `README.md` and the comments promise (run
   `no_lists`); the overlay is what the command line and the seed list make it. Calls
   are made once, and any error ends them; a connection that ends is not made again
   while both processes run, and its entry stays in `clients_`.

And one fact about a connection: `Peer::read` takes each line out of its buffer
twice, so that what came in the same segment behind a message is lost, in whole or
in part. The server's own callback, with its test for HTTP, is never installed:
`handle_accept` calls `read` while the state is still `DISCONNECTED`.

### What is hard

Concurrent writers without locks; messages lost, late, duplicated on two ways or
returning to their origin; forks; a crash between two statements; a thread joined
in a message handler; threads that start and stop each other; pieces of messages
in front of others; caches (`mempool_by_priority`, the block being mined,
`clients_[0]`) that outlive what they were computed from. `PROJECT.json` lists
each hazard at its line with the properties that watch it.

### What makes it correct

* Chain: the table is one unbroken chain (`ChainIntact`, `ChainLinked`), changed
  at its tip only (`OnlyTipChanges`); two nodes agree on everything below a
  common block (`PrefixAgreement`); all nodes get to the same chain
  (`Convergence`).
* Rewards: on an acyclic network whose handlers and mining thread take turns, a coinbase
  for exactly the own blocks in the chain (`RewardsMatchChain`). With the two threads
  interleaved and crashes, no coinbase but for those (`PaidForOwnBlocks`) and none
  missing (`OwnBlocksPaid`), each with the exceptions its formula names, all of them real.
* Mining: on the tip or not at all (`MinerOnTip`), and never in the way of the io
  thread (`JoinReturns`).
* Threads: one mining thread (`OneMiner`), no handler that ends the process while the node
  serves, unless `start` came into its way (`ServingSurvives`), an HTTP thread that is
  there (`ApiUp`), a stop that waits for the threads it joins (`StopWaits`) and returns
  unless one of two things holds it (`StopReturns`).
* Connections: `clients_` holds the accepted links, each once (`ImplementsLinks`,
  `EachLinkOnce`), only what is left of an old connection gets a new one refused
  (`OnlyGhostsRefuse`), the handshake arrives unless another message went out before it
  (`HandshakeArrives`).
* Streams: order (`InOrder`), recovery from losses (`Healed`, `AloneIsHeard`).
* Mempool: what can be mined can be paid for (`IndexedFunded`), a transaction leaves in
  one of five ways (`NothingDropped`), and when nobody submits any more, all do
  (`DrainsAfterLoad`).

## 2. Modules

| Module | Contents |
|---|---|
| `ChainTable` | The `blocks` table as a set of rows, and the reads, guards and changes of `addBlock` and `replaceLastBlock` as operators. Used by `Replicas`, `BlockSync` and `ChainRace`. |
| `Replicas` | Abstract specification: every node holds a chain; it mines on it, takes a block up, or swaps its last block for a sibling. No messages, links or threads. |
| `Links` | Abstract specification: `clients_` is the list of the links a node accepted; entries become empty and are never removed. |
| `BlockSync` | Nodes, links, messages, handlers, mining, restarts. Implements `Replicas` with `chain <- blocks`, and `Links`. |
| `Overlay` | How the links come about: constructors that dial, listening, accepting and refusing, handshakes, lists of peers, ends of processes. Implements `Links`. |
| `PeerStream` | One direction of one connection: `send`, the kernel, segments, the loop of `read`. |
| `Lifecycle` | The threads of one process: constructor, `start`, `NEW_BLOCK`'s restart of the mining thread, `stop`, destructor. |
| `ChainRace` | One node, two threads, one action per SQL statement, crashes anywhere. What `BlockSync` assumes to be atomic is taken apart here. |
| `Ledger` | One node's mempool, index, rows and rewards, one action per call. |
| `MCBlockSync`, `MCChainRace`, `MCLedger`, `MCOverlay`, `MCPeerStream` | Topologies, transactions, addresses, lengths and symmetry for TLC. |
| `Replicas_proofs`, `Links_proofs` | Theorems about the abstract specifications. |
| `BlockSync_proofs`, `Overlay_proofs`, `PeerStream_proofs`, `Lifecycle_proofs`, `ChainRace_proofs`, `Ledger_proofs` | Theorems about the detailed ones. |

Operators whose comment begins with "Mutant of" are variants of the definition
they stand next to, with a plausible mistake in it. They are part of no
specification; each shows that a property notices the mistake.

### BlockSync and the code

| State | Code |
|---|---|
| `blocks[n]` | table `blocks` of node n (survives a restart) |
| `rewards[n]` | `transactions` rows of n's coinbases (survives a restart) |
| `candidate[n]` | `new_block` in `mine_loop` while nonces are tried |
| `pending[n]` | the blocks the loop of `BLOCKS_RESPONSE` has still to go through |
| `clients[n]` | `Node::clients_`; a closed socket stays as `None` |
| `link[c]`, `wire[c][n]` | a TCP connection, and the messages on their way to n |
| `mined` | history: the blocks that exist |

| Action | Code |
|---|---|
| `Connect` | `Client::connect`, `Server::handle_accept`, `Node::handleConnection` |
| `Break`, `Swallow` | the error branch of `Peer::read`; its second `consume` |
| `Restart` | end of the process and `Node::Node`, `Node::start` |
| `PeriodicSync` | the 30 s thread of `Node::start` |
| `ReceiveHandshake`, `ReceiveGetBlocks`, `ReceiveBlocksResponse` and `ProcessBlock` | the cases of `handleMessage` |
| `ReceiveExtension`, `ReceiveCompeting`, `ReceiveBeyond`, `ReceiveIgnored` | the cases 1, 2, 3 and the last of `NEW_BLOCK` |
| `StartMining`, `FinishMining`, `StopMining` | the round of `mine_loop` |

`ProcessBlock` is an action of its own because each turn of the loop calls
`addBlock` anew, and the mining thread may store a block between two turns. Until
`pending` is empty the io thread handles nothing else. The mempool of a miner is
taken to be filled whenever its thread looks.

### ChainRace and the code

`pc` and `job` hold where each thread is and the block in its hands. `Add…` are
the statements of `addBlock`, `Replace…` those of `replaceLastBlock`, `ReadLast`
the two reads of `NEW_BLOCK`, `StopMiner` and `Join` the restart of the mining
thread, `Round` to `LeaveLoop` the loop of `mine_loop` with `createBlock`'s two
reads apart. What a thread computes between two statements belongs to the
earlier of them. `getLatestHeight` answers 0 on an empty table, because
`sqlite3_column_int` reads a NULL as 0. Two variables are history:

* `clashed`: `replaceLastBlock`'s DELETE has hit a table other than the one its checks had
  read, or a mining thread past its own checks (`Clash`). `ChainLinked` and
  `PaidForOwnBlocks` say what holds otherwise, and the run `race_replace` what does not
  hold because of it.
* `parted`: the heights at which block and coinbase may have parted, and by what: the
  process ended between `addBlock`'s two INSERTs or `replaceLastBlock`'s two DELETEs
  (`crash`), the mining thread stored its block between the two DELETEs (`between`), or
  a block of the node came back without its transactions (`return`).
  `PaidForOwnBlocks` and `OwnBlocksPaid` except these heights and no others.

### Ledger and the code

`mempool` is the set of keys of the map, `index` the set of `TxPriority` entries.
`Before` is `TxPriority::operator<`, which leaves the hash out: of two entries
with equal fee and second, `std::set` takes one, and the other transaction is in
the map but not in the index (`InsertEntry`). The time stamp of an entry is taken
after the transaction's own, so it may be a second later. A block that arrives has
no transactions; a transaction that is mined keeps its pending row, because its
second INSERT meets UNIQUE `tx_hash` (`InsertRow`); so balances come from the
genesis row and the coinbase rows (`Balance`). The loop that limits the size looks at the
index only (`Lowest`); the map may be larger.

### Lifecycle and the code

| State | Code |
|---|---|
| `pc["main"]` | where `main` is in `Node::start`, `sigwait`, `Node::stop`, the destructor |
| `pc["io"]` | `ioContext_.run()`, idle or in the `NEW_BLOCK` handler |
| `pc["http"]`, `loop[t]` | the HTTP thread, at `bind`, `while (running_)`, `accept` or `read`; the ping, gossip, GET_PEERS, sync and cleaner loops |
| `miner[m]`, `handle`, `created[t]` | the mine_loops there are; `mining_thread_`; a thread object not yet assigned |
| `running`, `mining`, `stopped` | `running_`, `mining_`, `ioContext_.stop()` |
| `missed`, `early`, `late` | history: the overlaps that the properties except |

The three statements `mining_ = false`, `if (joinable()) join()`, `mining_ = true;
mining_thread_ = std::thread(...)` occur in `stop`, in `start` and twice in the
handler. They are one set of actions with the thread as parameter
(`StopMining` … `Assign`), since it is their interleaving that matters. `join` on a
thread that the other one is joining throws: in the handler the callback's `catch`
takes it, in `stop` nothing does. `Assign` to a joinable thread is
`std::terminate`. `Destroy` always is: `mempool_cleaner_thread_` is joinable and
nobody joins it, so **no stop of this program is a clean exit**; the service
manager starts it again (`Restart`).

### Overlay and the code

| State | Code |
|---|---|
| `phase[n]` | no process, in the constructor's calls, or listening |
| `link[c]`, `port[c]` | the state of one call, and the dialer's ephemeral port |
| `backlog[n]` | connections the kernel has accepted and `handle_accept` has not seen |
| `clients[n]` | `clients_`, with `is_connected()` and "has `p2p_port` and `id`" of each peer |
| `ready` | the dialers whose `Peer` has got its `HANDSHAKE` |
| `wire[c][n]` | `HANDSHAKE`, `GET_PEERS`, `PEERS_LIST` on their way |
| `greeting` | the nodes whose io thread is in `handleConnection`, between `push_back` and the `HANDSHAKE` |
| `overtaken` | history: links on which another thread's message went out before the `HANDSHAKE` |

| Action | Code |
|---|---|
| `Begin`, `Listen` | `Node::Node`: the calls, then `Server`'s constructor |
| `Dial`, `DialFails` | `Client::connect`, in the constructor (seeds) or after `start` (argument) |
| `Admit`, `Refuse` | `Server::handle_accept` with `Node::handleConnection` up to `push_back`, or to the refusal |
| `Greet` | the `HANDSHAKE` that `handleConnection` sends at its end |
| `Swallow` | the second `consume` of `Peer::read` |
| `ReceiveHandshake`, `ReceiveGetPeers` | cases of `handleMessage` |
| `RequestPeers`, `PeriodicPeers`, `Gossip` | three of the periodic threads |
| `Break`, `End` | a read error; the end of a process |

The kernel of a listening node completes a connection before the node knows of it,
so a dialer may be gone when it is admitted. A call may fail at any time
(`Client::connect` gives up on every error) and is not repeated. The three periodic
threads send while the io thread is between `Admit` and `Greet` too; messages and new
connections wait for it (`IoFree`). Since `NoListTravels` holds, the handler
of `PEERS_LIST` never runs and is left out, and with it the table `peers`.

### PeerStream and the code

A message is a row of units with a newline at its end. `stream` is what the kernel
has, at most `Room`; `buffer` is `read_buffer_`; `writes` are the `async_write`
operations under way, with what each has written. `Send` writes what fits at once,
as Asio's first attempt does. `WriteMore` writes the rest from a string that no
longer exists: the text is still there, or a later message's, or something else.
`Read` is the completion handler: the line, then `consume` of as many units. `alone`
and `stale` are history. `BlockSync` needs of this what it assumes of a link:
messages in order, some of them missing behind others (`Swallow`), and a message
that is alone heard. It takes every message to fit the kernel's buffer.

## 3. Runs

| Run | Module | Shows |
|---|---|---|
| `pair` | `MCBlockSync` | two miners, one link, one loss, a break, a restart, three blocks: all safety properties, `ImplementsReplicas` and `ImplementsLinks` |
| `chain` | `MCBlockSync` | nc dials nb, nb dials na, nb mines: announcements and the handshake for nc (restarted once), the periodic request for na (two losses): `Convergence` |
| `ledger` | `MCLedger` | the mempool's four properties |
| `race` | `MCChainRace` | the two threads, all messages and a crash, statement by statement: the table, the books, and that the join returns |
| `lifecycle` | `Lifecycle` | the threads of a process, from constructor to end and again |
| `overlay` | `MCOverlay` | two nodes on one host, each the other's seed, one with the other as argument |
| `stream` | `MCPeerStream` | four messages of three lengths, any segments |
| `fork` | `MCBlockSync` | **violated**: `Convergence` when both nodes mine |
| `mutual` | `MCBlockSync` | **violated**: `RewardsMatchChain` when two nodes dial each other |
| `race_replace` | `MCChainRace` | **violated**: `LinkedAtRest`, `replaceLastBlock` against `addBlock` |
| `no_lists` | `MCOverlay` | **violated**: `PeersAreSent` |
| `returned` | `MCLedger` | **violated**: `ReturnedToMempool` |

### What the violated runs show

* `fork`. Both nodes mine a block of height 1 and each announces it. Only the
  acceptor's announcement travels, so one of them may swap its block for the
  other's; but once either has a second block, the announcements are "beyond",
  each asks from its own height + 1, and `addBlock` refuses the answer because
  its parent is unknown. They stay apart.
* `mutual`. na's block goes to nb over the link nb dialled; nb passes it on over
  the link na dialled; na finds a block with the height and parent of its last one –
  its own – and replaces it by itself without the coinbase.
* `race_replace`. The io thread has checked that a competing block replaces the
  last; before its DELETE the mining thread stores the next block on top. The
  DELETE names the old height, and the new top has lost its parent.
* `no_lists`. Two nodes, connected for good: the periodic threads go round, no entry of
  `clients_` ever has a `p2p_port`, and nothing is sent.
* `returned`. A block of the node with a transaction is replaced. The
  transaction's row never got the block's height, so `old_block->transactions`
  does not hold it, and it does not come back to the mempool.

### What the passing runs of this kind show

* `chain`. Its topology is what `Convergence` depends on. Three other instances of
  `MCBlockSync` break it:
  - the dialer of `ba` mines and is restarted (`PairDialer`, `Miners = {nb}`,
    `Restartable = {nb}`, no losses): the acceptor's `clients_` is then
    `<<closed, open>>`, and the sync thread asks `clients_[0]`;
  - the acceptor mines and one message is lost (`PairDialer`, `Miners = {na}`,
    `Lossy = {ba}`, `MaxLost = 1`, `MaxWire = 2`): the second of two announcements goes
    behind the first, is not repeated, and nb, which dialled, asks nobody periodically;
  - na mines instead of nb (`ChainDialer`, `Miners = {na}`, one block, no losses,
    `Breakable` and `Restartable` empty): nc asks nb, which has nothing yet; nb then asks na and
    stores the block with `BLOCKS_RESPONSE`, whose handler announces nothing.
* `ledger`. The limit of the mempool cuts back the index: of transactions with one fee
  and second the map keeps all and the index one, so that the map may be larger than
  `PoolLimit`. Four of the five ways out of the mempool are what one expects. The fifth is
  that of transactions that are not in the index: `createBlock` throws them away when it
  finds nothing else. As long as others come in that it can use, they wait, so
  `DrainsAfterLoad` is about the time after the last submission.
* `race`. Without the exceptions for `clashed` and `parted` the invariants fail; so the
  UNIQUE columns of the table are enough for `addBlock` against `addBlock`, and what is
  missing is a database transaction around `replaceLastBlock` and around `addBlock`'s rows.
  One of them: `replaceLastBlock` has deleted the last block; the mining thread finds the
  height free and stores its own block and coinbase there; the second DELETE, by height,
  takes that coinbase, and the INSERT of the competing block fails (`between`).
* `lifecycle`. The exceptions are real, each is reached: an HTTP thread that was
  quicker than `start` (`missed`); a `NEW_BLOCK` in the moment in which `start` sets
  `mining_` and assigns the thread (`early`), after which an assignment ends the process
  or the io thread joins a miner that nobody stops; a handler that sets `mining_`
  between `stop`'s `mining_ = false` and its join, which then does not return; a
  handler that starts a miner after `stop` has joined the old one (`late`); an HTTP thread
  that waits in `accept`, or in `read` for a client that says nothing, and `stop` for it.
* `overlay`. A restarted dialer that gets its old port is refused because of its old
  entry. A `HANDSHAKE` is lost if a periodic thread sends to the new entry before
  `handleConnection` does (`overtaken`), and both come in one segment.
* `stream`. Losses are not limited to whole messages, but heal with the last unit
  of what was sent.

### Bounds

* `Hash` bounds the blocks mined: three in `pair` and `fork`, two in the others. Two
  are enough for a fork and a replaced block, three for a fork that cannot be healed
  by replacing the last block and for a node two behind.
* `MaxLost`, `MaxRestarts` bound faults (at most two losses, one restart); a
  restart already gives a second connection on the same link and a stale entry in
  `clients_`.
* `MaxWire` keeps the periodic request from filling a wire with copies of itself:
  it waits while as many messages are in flight on the link. With 1 and 2 there are
  still two requests, or a request and an answer, under way at a time.
* `Ledger`: three transactions, of two senders, one of whom can pay only with
  rewards; `PoolLimit = 2` and `BlockLimit = 1` where the code has 10000 and 10, so
  that the third entry is one too many for the index, and a block does not take all of
  it; two seconds, so that index entries collide. The clock's bound ends all submissions,
  which is why `DrainsAfterLoad` has their end as its hypothesis.
* `ChainRace`: three blocks besides genesis and one crash. A replaced last block needs
  one, a block on top of it a second, a competitor the third.
* `Lifecycle`: two slots for mine_loops (a third is never wanted: `OneMiner`), the sync
  thread for all of `background_threads_`, no bound on handlers or restarts.
* `Overlay`: `Port` has two elements, so that a port is used again; `MaxStops` = 3 ends
  of processes, none in `no_lists`; periodic messages wait while one is in flight (`MaxWire`).
* `PeerStream`: four messages, of 2, 3 and 5 units, `Room` = 4: two short ones share a
  segment, the long one never fits, the middle one does if nothing is before it.
  `MaxStale` = 1 write from memory given up; after it, nothing is claimed but for what
  was sent before.
* Symmetry over hashes is used only in runs without temporal formulas
  or with action formulas that do not tell hashes apart. `race`, which has a temporal
  formula, has numbers for hashes and the action constraint `LeastFresh`: a new block gets
  the least hash that occurs nowhere in the state. Hashes that occur nowhere are
  interchangeable, no property and no fairness condition names one, and one of them is
  always left to choose when any is; so nothing is lost by it.

### Fairness

* `BlockSync`: weak fairness of `Connect`, of every reception, of the loop over a
  response and of the periodic request. They stand for the io thread, which goes
  on while there is work, and the sync thread's sleep. Fairness of `Connect` says
  that the acceptor is up when its dialer starts: the code dials once. Nothing says
  that mining succeeds, that a link does not break or that messages are not lost.
* `Ledger`: weak fairness of time, `CreateBlock` and `StopMining`, strong fairness
  of `FinishMining`: a round tries a million nonces for a prefix of four digits
  (six at most), and each round has a new time stamp and so a new set of hashes;
  a round may fail, not all of them. Foreign blocks are bounded, so that a round
  is not cut short for ever.
* `ChainRace`: weak fairness of each thread as a whole, in `race`; the arrival of
  blocks and crashes are not fair.
* `Lifecycle`: weak fairness of every thread, but not of `Accept` and `Request`: `accept`
  and `read` have no timeout, and nobody need connect to the HTTP port or, once connected,
  say anything. Neither a signal nor a block is assumed to come.
* `Overlay`: weak fairness of `Listen`, of the calls, which may end either way, of
  accepting, greeting and handling, and of the three periodic threads. Nobody is assumed
  to start or to stay.
* `PeerStream`: weak fairness of `Arrive` and `Read`: what the kernel has is read.

Deadlock is checked where the system goes on. It is off in `overlay` (two nodes
whose calls have failed, or whose connection is gone, have nothing left to do, and
the bound on ends is used up) and in `stream` (a closed connection).

## 4. Proofs

`Replicas_proofs` proves `ReplicasInvariant`: `Spec => []Inv` with `Inv` the
conjunction of

* `WellMined` – hashes tell mined blocks apart, and the parent of a mined block
  was mined. This is why a hash stands for the whole chain below it;
* `ChainsOK` – every chain is unbroken, made of mined blocks, and has a last one;
* `Agreement` – two chains that share a block share everything below it.

`Agreement` alone is not inductive: taking up a block would break it without
`WellMined`. `GrowAgrees` and `CutAgrees` show for one chain what `TakeUp`/`Mine`
and `GiveUp` do to its agreement with any other.

`BlockSync_proofs` proves, for every set of nodes, links and hashes and all
bounds that satisfy the assumptions of `BlockSync`:

* `TypeCorrect` – `Spec => []TypeOK`;
* `ChainsStayIntact` – `Spec => []ChainIntact`;
* `PrefixesAgree` – `Spec => []PrefixAgreement`;
* `ImplementationOfReplicas` – `Spec => ImplementsReplicas`;
* `OnlyTheTipChanges` – `Spec => OnlyTipChanges`.

The inductive invariant `IInv` is `TypeOK`, the abstract invariant read through
the refinement mapping (`Promise!Inv`), and the fact that everything on a wire or
in `pending` was mined. The last part is what makes the handlers abstract steps:
a block that `addBlock` or `replaceLastBlock` accepts comes from `mined`.
`ChainStep` says once that each action mines, takes up, gives up or leaves the
chains alone; type correctness and what is on the wires have a lemma per action;
the invariant of `Replicas` is preserved because its own step lemma is cited, not
proved again.

Its second part is about what the nodes mine:

* `MinersStayOnTip` – `Spec => []MinerOnTip`, on every network. `MinerOnTip` is
  inductive next to `IInv`: hashes tell blocks apart, so a candidate that is above
  the chain is exactly one above it (`CandidateIsNext`), and a `BLOCKS_RESPONSE`,
  which leaves the mining thread running, overtakes the candidate with its first
  block;
* `RewardsKept` – `Acyclic => (Spec => []RewardsMatchChain)`;
* `AnnouncementsMoveOn` – `Acyclic => (Spec => []OwnBlocksDoNotReturn)`.

`Acyclic` says that the nodes can be ranked so that every link is dialled by the
higher end. Without it an own block comes back and its reward is lost (run `mutual`). The
inductive invariant `RInv(rank)` says that an announcement on its way to a node
is of a block mined below that node, that `clients_` holds only links the node
accepted (which is why announcements travel upwards), that a node's chain has
reached every block the node ever mined (so that a requested block put on top is
never its own), and `RewardsMatchChain`. `Effects` says once what an action does
to a node's chain and books together.

`Links_proofs` proves `LinksInvariant`: the types of `Links` and `EachOnce`, which
are inductive together (an open link is in its acceptor's list, so a link that opens
is in none). `BlockSync_proofs` carries it over:

* `ImplementationOfLinks` – `Spec => ImplementsLinks`. `LinkStep` says that
  connecting, breaking and restarting are the steps of `Links` and that no handler
  touches a link or `clients_`;
* `EachAcceptedLinkOnce` – `Spec => []EachOnce` of `Links`, by citing its step lemma.

`Overlay_proofs`, for any addresses, seeds and arguments:

* `DiscoveryNeverBegins` – `Spec => []NoListTravels`, which is not inductive alone: a
  `HANDSHAKE` that reached an acceptor would complete an entry. `Unheard` adds that
  nothing is ever on a wire to an acceptor, because all sending goes over `clients_`,
  and that no entry of `clients_` or of a backlog is known;
* `TypeCorrect`, `RefusedForGhosts` (`OnlyGhostsRefuse`), `EachAcceptedLinkOnce`
  (`EachLinkOnce`) and `ImplementationOfLinks` rest on `Books`: entries in use and links
  in use match one to one, on either side of `accept`, and connections that wait have
  addresses that differ from each other and from those of the entries in use. So a new
  connection can only be taken for one that is over. `Kept` says this of one node's two
  lists, and a lemma per kind of change (an entry queued, admitted, refused, ended, a
  process begun) shows that it lasts. A call that waits is an idle link in `Links`, one
  that failed a closed one.

`PeerStream_proofs`, for any messages, lengths, segments and sizes of the socket, proves
`TypeCorrect`, `DeliveredInOrder` (`InOrder`) and `LossesHeal` (`Healed`). The inductive
invariant takes `read_buffer_` and what the kernel has as one `Pipe`. While no write was
left over, the numbers in the pipe do not fall and rise behind each newline
(`Ascending`), all were sent (`WasSent`) and are above those delivered (`Ahead`), and
with no write waiting the pipe ends with a newline (`Complete`). That is all `read`
needs: it takes away a prefix that reaches at least to the newline (`PipeAfterRead`), so
what remains is of later messages, whatever was cut.

`Lifecycle_proofs`, for any periodic threads and any number of mining threads, proves
`TypeCorrect`, `OneMinerAtATime` (`OneMiner`), `StopWaitsForThreads` (`StopWaits`),
`ApiUpWhileServing` (`ApiUp`) and `HandlersDoNotAbort` (`ServingSurvives`). The invariant
has three parts:

* `Held`: a `mine_loop` that has begun is in `mining_thread_` or in the hands of a
  thread about to assign it. `OneMiner` is this, and that a handle holds one thread;
* `Serving`: what is true until `stop`, above all that a handler about to assign finds
  `mining_thread_` empty unless `start` came in between (`early`);
* `Stopping`: what `stop` has behind it at each of its joins.

`ChainRace_proofs`, for any hashes and any number of crashes, proves `TypeCorrect`,
`ChainStaysLinked` (`ChainLinked`), `OnlyOwnBlocksPaid` (`PaidForOwnBlocks`),
`OwnBlocksArePaid` (`OwnBlocksPaid`) and
`LastBlockIsThere` (`LastBlockThere`). `Stored` says what is in the table whatever
happens: blocks that were mined, the genesis block among them. `Jobs` says what each
thread knows at each statement, and survives the other one's statements: the height
`addBlock` has read is below its block's, for instance, and heights fall only by
`replaceLastBlock`. `ReadyToWrite` says what does not survive a clash: that the parent is
still there. `addBlock` compares the parent's hash with that of the last row and takes any
greater height; that the block is exactly one above follows from `WellMined`, hashes
telling blocks apart, and that two threads past the same check do not both get in is
left to the `UNIQUE` columns (`Insertable`). `Accounts` is the books: `PaidForOwnBlocks`,
`OwnBlocksPaid`, and that between its two DELETEs `replaceLastBlock` has left a row at its
height only where the mining thread has stored one since (`Emptied`). `NextAccounts`
preserves it next to the rest, with one lemma per kind of statement.

`Ledger_proofs`, for any transactions, funds and limits, proves `TypeCorrect`,
`MempoolIsFunded` (`IndexedFunded`), `NoneIsDropped` (`NothingDropped`), and
`NothingIsConfirmed`, which no run checks on its own: `Spec => []RowsStayPending`.
`addTransaction` writes the row of a transaction with height -1, so the
`INSERT OR IGNORE` of its block changes nothing (`SameRows`), and the query by height in
`replaceLastBlock` finds nothing to return (`NoneReturned`). That is behind run
`returned`, and it is what makes `IndexedFunded` inductive: balances never depend on
blocks, but for rewards, and the one call that takes a reward away cleans up.

The proofs use no induction over data. Where a loop or a search over a finite set has to
be reasoned about (the folds of `Ledger`, the last row of a table), a lemma takes a
smallest counterexample, by the theorem that strict inclusion of finite sets is well
founded.

Assumptions: those named in `BlockSync` (`LinkAssumption`, `NameAssumption`,
`BoundAssumption`), `Overlay` (`AddressAssumption`, `NoneAssumption`), `PeerStream`
(`LengthAssumption`), `Lifecycle` (`ThreadAssumption`), `ChainRace` (`NameAssumption`,
`NoBlockAssumption`) and `Ledger` (`TransactionAssumption`, `AmountAssumption`), which TLC
evaluates in each run of theirs. They say that constants have their types, that names
differ from each other, and that a link has two ends. `NamesOK` of `Links_proofs`
follows from those of `BlockSync`. `Acyclic` is the one hypothesis that not every network meets; run `pair` has one that does, and run `mutual`
shows what happens without it.

Not proved, model-checked only: liveness under fairness (`Convergence`,
`DrainsAfterLoad`, `JoinReturns`, `StopReturns`, `HandlerReturns`, `HandshakeArrives`,
`AloneIsHeard`), which is out of the prover's reach, as is `ENABLED`. That the runs
which expect a violation find one is a matter of an instance, and so of TLC.

## 5. Not modelled

* `PING`, `PONG`: a time stamp. `NEW_TRANSACTION`: handled, but sent only by its
  own handler. `PEERS_LIST` and the table `peers`: never sent, never filled.
  `handleFork`, `Block::validate`, `Peer::connect`, `Server::broadcast`,
  `send_to_peer` and `remove_peer`, `begin`/`commit`/`rollbackTransaction`,
  `getMempool`: no callers.
* The data races proper (`std::map`, `std::set` and `std::vector` changed by
  several threads): undefined, with no useful set of outcomes. `Ledger` takes each
  call on the mempool as a whole, `BlockSync` each walk over `clients_`.
* Proof of work and difficulty; merkle roots; wallet nonces (checked nowhere).
* Metrics, scripts, the demonstration modes of `main`.

## 6. Plan

Done, in order of weight: `ChainTable`, `Replicas`, `BlockSync`, `Ledger`, `ChainRace`,
`Lifecycle`, `Overlay` with `Links`, `PeerStream`, and proofs of their safety properties.
Next:

1. `Difficulty`: the window and the limits of `getCurrentDifficulty` over bounded
   time stamps, and that it stays within its limits, as a theorem.
2. An abstract table for `ChainRace`. `Replicas` will not do as it is, even until a
   clash: between the `DELETE` and the `INSERT` of `replaceLastBlock` the mining thread can
   put its own block in the gap, which replaces a last block by one that was not mined
   before, in one step.
