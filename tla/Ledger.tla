------------------------------- MODULE Ledger --------------------------------
(***************************************************************************)
(* One node's books: the mempool of Blockchain (a map of transactions and  *)
(* an index of them by priority), the `transactions' table and the rewards *)
(* the node has earned, under the calls of the HTTP thread                 *)
(* (addTransaction), the mining thread (createBlock, addBlock), the        *)
(* cleaner thread (cleanMempool) and the io thread (addBlock and           *)
(* replaceLastBlock for blocks that arrived).  Each call is one action:    *)
(* see ChainRace for what happens when two of them overlap.                *)
(*                                                                         *)
(* A block that arrives never brings transactions: broadcastBlock sends    *)
(* none and the handler of BLOCKS_RESPONSE reads none.  Balances come from *)
(* the confirmed rows of `transactions', which are the genesis row and the *)
(* coinbase rows of the node's own blocks; every other row is written as   *)
(* pending by addTransaction and stays so, because the INSERT with the     *)
(* block's height runs into UNIQUE tx_hash.                                *)
(*                                                                         *)
(* Left out: wallet rows and their nonces (written, decided on nowhere),   *)
(* the `mempool' table (written, read nowhere), transactions refused for   *)
(* their amount or the sender's balance (no change), and NEW_TRANSACTION   *)
(* (never sent).  Transactions stand for their hashes.                     *)
(***************************************************************************)
EXTENDS Integers, FiniteSets, FiniteSetsExt

CONSTANTS
  Tx,           \* transaction hashes
  Address,      \* wallet addresses
  Self,         \* the address this node mines for, its nodeId_
  Sender,       \* Sender[tx]
  Cost,         \* Cost[tx]: amount and fee
  FeePerByte,   \* FeePerByte[tx], as a rank
  Timestamp,    \* Timestamp[tx]: the second in the transaction, part of its hash
  Funds,        \* Funds[a]: what the genesis row gives address a
  Reward,       \* REWARD: 100.0 in the code
  PoolLimit,    \* 10000 in the code
  BlockLimit,   \* 10 in the code
  None,         \* no candidate block
  MaxTime,      \* bound: seconds
  MaxForeign,   \* bound: blocks from other nodes
  MaxRestarts   \* bound: restarts

ASSUME TransactionAssumption ==
  /\ Self \in Address
  /\ Sender \in [Tx -> Address]
  /\ Cost \in [Tx -> Nat \ {0}]
  /\ FeePerByte \in [Tx -> Nat]
  /\ Timestamp \in [Tx -> 0..MaxTime - 1]

ASSUME AmountAssumption ==
  /\ Funds \in [Address -> Nat]
  /\ {Reward, PoolLimit, BlockLimit} \subseteq Nat \ {0}
  /\ {MaxForeign, MaxRestarts} \subseteq Nat /\ MaxTime \in Nat \ {0}

VARIABLES
  height,     \* the height of the last block
  rewards,    \* heights with a coinbase row for this node
  rows,       \* rows of `transactions' for Tx: [tx, height], height -1 when pending
  mempool,    \* the keys of Blockchain::mempool
  index,      \* Blockchain::mempool_by_priority
  candidate,  \* the block the mining thread works on, or None
  included,   \* history: [tx, height] for the blocks of the chain this node mined
  clock,      \* seconds, as time(nullptr) gives them
  lastRound,  \* the second of the last createBlock
  foreign,    \* bound counter
  restarts    \* bound counter

vars == <<height, rewards, rows, mempool, index, candidate, included, clock, lastRound, foreign, restarts>>

-----------------------------------------------------------------------------
Entry == [fee_per_byte : Nat, tx_hash : Tx, timestamp : 0..MaxTime]
Row == [tx : Tx, height : {-1} \cup Nat]
Candidate == [height : Nat, txs : SUBSET Tx]

TypeOK ==
  /\ height \in Nat /\ rewards \in SUBSET (1..height)
  /\ rows \in SUBSET Row
  /\ mempool \in SUBSET Tx
  /\ index \in SUBSET Entry
  /\ candidate \in Candidate \cup {None}
  /\ included \in SUBSET Row
  /\ {clock, lastRound} \subseteq 0..MaxTime /\ foreign \in 0..MaxForeign /\ restarts \in 0..MaxRestarts

\* TxPriority::operator<: first the higher fee, then the older entry.  Entries
\* neither of which comes first are one and the same to std::set.
Before(e, f) ==
  \/ e.fee_per_byte > f.fee_per_byte
  \/ e.fee_per_byte = f.fee_per_byte /\ e.timestamp < f.timestamp

InsertEntry(entries, e) ==
  IF \E f \in entries : ~Before(e, f) /\ ~Before(f, e) THEN entries ELSE entries \cup {e}

NewEntry(tx, now) == [fee_per_byte |-> FeePerByte[tx], tx_hash |-> tx, timestamp |-> now]

\* Mutant of Lowest: the k entries at its beginning.
Highest(entries, k) == {e \in entries : Cardinality({f \in entries : Before(f, e)}) < k}

\* The k entries at the end of the index.
Lowest(entries, k) == {e \in entries : Cardinality({f \in entries : Before(e, f)}) < k}

\* LedgerDB::getBalance, when there are coinbase rows at the heights `paid'.
Balance(a, paid) == Funds[a] + (IF a = Self THEN Reward * Cardinality(paid) ELSE 0)
Funded(tx, paid) == Balance(Sender[tx], paid) >= Cost[tx]

\* LedgerDB::addTransaction: INSERT INTO transactions, where tx_hash is UNIQUE.
InsertRow(table, tx, h) ==
  IF \E row \in table : row.tx = tx THEN table ELSE table \cup {[tx |-> tx, height |-> h]}

\* The part of Blockchain that addTransaction and cleanMempool work on.
Pool(pool, entries, table) == [mempool |-> pool, index |-> entries, rows |-> table]

\* Blockchain::addTransaction at the second `now' (paid as above).  When it
\* accepts, the index is cut back to its limit, and the map with it.
AddTransaction(s, tx, now, paid) ==
  LET grown == InsertEntry(s.index, NewEntry(tx, now))
      evicted == Lowest(grown, Cardinality(grown) - PoolLimit)
  IN  IF Funded(tx, paid)
      THEN Pool((s.mempool \cup {tx}) \ {e.tx_hash : e \in evicted},
                grown \ evicted,
                InsertRow(s.rows, tx, -1))
      ELSE s

\* Blockchain::cleanMempool: indexed transactions whose sender cannot pay go.
CleanMempool(s, paid) ==
  LET invalid == {e \in s.index : e.tx_hash \in s.mempool /\ ~Funded(e.tx_hash, paid)}
  IN  Pool(s.mempool \ {e.tx_hash : e \in invalid}, s.index \ invalid, s.rows)

Become(s) == mempool' = s.mempool /\ index' = s.index /\ rows' = s.rows

-----------------------------------------------------------------------------
Init ==
  /\ height = 0 /\ rewards = {}
  /\ rows = {} /\ mempool = {} /\ index = {}
  /\ candidate = None /\ included = {}
  /\ clock = 0 /\ lastRound = 0 /\ foreign = 0 /\ restarts = 0

\* The HTTP thread: POST /transaction.  Equal requests within one second make the
\* same transaction.  The time stamp of the index entry is taken after several
\* writes to the database, when the second may have changed.
Submit(tx) ==
  /\ clock = Timestamp[tx]
  /\ Funded(tx, rewards)
  /\ \E now \in {clock, clock + 1} \cap 0..MaxTime :
       /\ Become(AddTransaction(Pool(mempool, index, rows), tx, now, rewards))
       /\ clock' = now
  /\ UNCHANGED <<height, rewards, candidate, included, lastRound, foreign, restarts>>

Tick ==
  /\ clock < MaxTime
  /\ clock' = clock + 1
  /\ UNCHANGED <<height, rewards, rows, mempool, index, candidate, included, lastRound, foreign, restarts>>

\* The cleaner thread, every 30 seconds, and the mining thread in each round.
Clean ==
  /\ Become(CleanMempool(Pool(mempool, index, rows), rewards))
  /\ UNCHANGED <<height, rewards, candidate, included, clock, lastRound, foreign, restarts>>

\* createBlock's choice: going down the index, the first BlockLimit entries that
\* are in the map and paid for.
Selected ==
  LET usable == {e \in index : e.tx_hash \in mempool /\ Funded(e.tx_hash, rewards)}
  IN  {e \in usable : Cardinality({f \in usable : Before(f, e)}) < BlockLimit}

\* Mutant of CreateBlock: the mempool is thrown away unless all of the index was used.
CreateBlockClearing ==
  /\ candidate = None
  /\ mempool # {}
  /\ lastRound < clock \/ clock = MaxTime
  /\ lastRound' = clock
  /\ candidate' = [height |-> height + 1, txs |-> {e.tx_hash : e \in Selected}]
  /\ IF Cardinality(Selected) < Cardinality(index) THEN mempool' = {} /\ index' = {}
     ELSE UNCHANGED <<mempool, index>>
  /\ UNCHANGED <<height, rewards, rows, included, clock, foreign, restarts>>

\* Mutant of CreateBlock: no block, and nothing thrown away, when the index has
\* nothing that can be used.
CreateBlockOfSome ==
  /\ candidate = None
  /\ Selected # {}
  /\ lastRound < clock \/ clock = MaxTime
  /\ lastRound' = clock
  /\ candidate' = [height |-> height + 1, txs |-> {e.tx_hash : e \in Selected}]
  /\ UNCHANGED <<height, rewards, rows, mempool, index, included, clock, foreign, restarts>>

\* The mining thread calls createBlock when the map is not empty, after a sleep
\* of 10 seconds and so not twice in one (the clock stands still at its bound).
\* When nothing in the map can be used, all of it is thrown away and the block has
\* a coinbase only.
CreateBlock ==
  /\ candidate = None
  /\ mempool # {}
  /\ lastRound < clock \/ clock = MaxTime
  /\ lastRound' = clock
  /\ candidate' = [height |-> height + 1, txs |-> {e.tx_hash : e \in Selected}]
  /\ IF Selected = {} THEN mempool' = {} /\ index' = {} ELSE UNCHANGED <<mempool, index>>
  /\ UNCHANGED <<height, rewards, rows, included, clock, foreign, restarts>>

\* Mutant of FinishMining: the coinbase is booked at the height after the block's.
FinishMiningAhead ==
  /\ candidate # None
  /\ candidate.height = height + 1
  /\ height' = candidate.height
  /\ rewards' = rewards \cup {candidate.height + 1}
  /\ included' = included \cup [tx : candidate.txs, height : {candidate.height}]
  /\ Become(CleanMempool(Pool(mempool \ candidate.txs, index, rows), rewards'))
  /\ candidate' = None
  /\ UNCHANGED <<clock, lastRound, foreign, restarts>>

\* addBlock of an own block: rows for the coinbase and, where tx_hash is new, the
\* transactions; these leave the map, but not the index.
FinishMining ==
  /\ candidate # None
  /\ candidate.height = height + 1
  /\ height' = candidate.height
  /\ rewards' = rewards \cup {candidate.height}
  /\ included' = included \cup [tx : candidate.txs, height : {candidate.height}]
  /\ LET table == FoldSet(LAMBDA tx, t : InsertRow(t, tx, candidate.height), rows, candidate.txs)
     IN  Become(CleanMempool(Pool(mempool \ candidate.txs, index, table), rewards'))
  /\ candidate' = None
  /\ UNCHANGED <<clock, lastRound, foreign, restarts>>

\* No nonce fits, or the height is taken.
StopMining ==
  /\ candidate # None
  /\ candidate' = None
  /\ UNCHANGED <<height, rewards, rows, mempool, index, included, clock, lastRound, foreign, restarts>>

\* addBlock of a block that arrived: with NEW_BLOCK the mining thread starts
\* anew, with BLOCKS_RESPONSE it does not.
ForeignBlock ==
  /\ foreign < MaxForeign
  /\ foreign' = foreign + 1
  /\ height' = height + 1
  /\ Become(CleanMempool(Pool(mempool, index, rows), rewards))
  /\ candidate' \in {candidate, None}
  /\ UNCHANGED <<rewards, included, clock, lastRound, restarts>>

\* Mutant of ForeignReplacement: the mempool is not gone through afterwards.
ForeignReplacementOnly ==
  /\ foreign < MaxForeign
  /\ height > 0
  /\ foreign' = foreign + 1
  /\ rewards' = rewards \ {height}
  /\ included' = {row \in included : row.height # height}
  /\ rows' = {row \in rows : row.height # height}
  /\ candidate' = None
  /\ UNCHANGED <<height, mempool, index, clock, lastRound, restarts>>

\* replaceLastBlock: the rows of the last height go, and what getBlock found
\* there, coinbase apart, is handed to addTransaction again.
ForeignReplacement ==
  /\ foreign < MaxForeign
  /\ height > 0
  /\ foreign' = foreign + 1
  /\ rewards' = rewards \ {height}
  /\ included' = {row \in included : row.height # height}
  /\ LET old == {row \in rows : row.height = height}
         returned == FoldSet(LAMBDA tx, s : AddTransaction(s, tx, clock, rewards'),
                             Pool(mempool, index, rows \ old),
                             {row.tx : row \in old})
     IN  Become(CleanMempool(returned, rewards'))
  /\ candidate' = None
  /\ UNCHANGED <<height, clock, lastRound, restarts>>

\* The process is started anew: the database is what is left.
Restart ==
  /\ restarts < MaxRestarts
  /\ restarts' = restarts + 1
  /\ mempool' = {} /\ index' = {} /\ candidate' = None
  /\ UNCHANGED <<height, rewards, rows, included, clock, lastRound, foreign>>

Next ==
  \/ \E tx \in Tx : Submit(tx)
  \/ Tick \/ Clean
  \/ CreateBlock \/ FinishMining \/ StopMining
  \/ ForeignBlock \/ ForeignReplacement
  \/ Restart

Spec == Init /\ [][Next]_vars

\* Time passes, the mining thread goes on, and it does not fail to find a nonce
\* for ever: a million tries for a prefix of one to six digits, with a new time
\* stamp (and so new hashes) in every round.
LiveSpec == Spec /\ WF_vars(Tick) /\ WF_vars(CreateBlock) /\ SF_vars(FinishMining) /\ WF_vars(StopMining)

-----------------------------------------------------------------------------
(* Properties. *)

\* What createBlock can choose from is paid for at any time, not just when it was
\* accepted: the one call that lowers a balance, replaceLastBlock, cleans up.
IndexedFunded == \A e \in index : e.tx_hash \in mempool => Funded(e.tx_hash, rewards)

\* An entry of tx came last in an index above its limit, with what this step's
\* submission added to it.
Evicted(tx) == \E new \in Tx :
  /\ Submit(new)
  /\ LET entries == index \cup {NewEntry(new, clock')}
     IN  /\ Cardinality(entries) > PoolLimit
         /\ \E e \in entries \ index' : e.tx_hash = tx /\ \A f \in index' : Before(f, e)

\* createBlock found nothing it could use, and no entry of the index is tx's.
ThrownAway(tx) == CreateBlock /\ Selected = {} /\ \A e \in index : e.tx_hash # tx

\* A transaction leaves the mempool in a block of this node, when its sender cannot pay
\* any more, as the last of an index that a submission has put above its limit, with the
\* process, or, if InsertEntry had left it out of the index, when createBlock throws the
\* mempool away; an indexed one not then.
NothingDropped ==
  [][\A tx \in mempool \ mempool' :
       \/ [tx |-> tx, height |-> height'] \in included' \ included
       \/ ~Funded(tx, rewards')
       \/ Evicted(tx)
       \/ restarts' # restarts
       \/ ThrownAway(tx)]_vars

\* Once nobody submits any more, the mempool gets and stays empty, also of transactions
\* that are not in the index.  Under load these may wait for ever.
DrainsAfterLoad == <>[][\A tx \in Tx : ~Submit(tx)]_vars => <>[](mempool = {})

\* The transactions of a block that is replaced are in the mempool again.
ReturnedToMempool ==
  [][ForeignReplacement =>
       \A row \in included : row.height = height /\ Funded(row.tx, rewards') =>
         row.tx \in mempool']_vars

=============================================================================
