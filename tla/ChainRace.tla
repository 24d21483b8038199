------------------------------ MODULE ChainRace ------------------------------
(***************************************************************************)
(* The `blocks' table of one node under its two writers: the io thread     *)
(* (Node::handleMessage) and the mining thread (Node::mine_loop).          *)
(* Blockchain takes no lock and opens no database transaction, so between  *)
(* two SQL statements of one thread any number of the other's can run, and *)
(* the process can end between them.  One statement is one action; what a  *)
(* thread computes before its next statement belongs to the action.        *)
(*                                                                         *)
(* The actions of BlockSync are the calls that are not interrupted here.   *)
(*                                                                         *)
(* Left out: the mempool, the transactions of a block other than its       *)
(* coinbase (the INSERTs of the others do nothing, see Ledger), and        *)
(* getCurrentDifficulty's reads, on which the table does not depend.       *)
(***************************************************************************)
EXTENDS ChainTable

CONSTANTS
  Hash,         \* block hashes; a bound on the number of blocks
  GenesisHash, NoHash, GenesisMiner,
  Self,         \* this node
  Others,       \* stands for all other nodes
  NoBlock,      \* no block in the hands of a thread
  Messages,     \* the types of message that bring blocks
  MaxCrashes    \* bound

ASSUME NameAssumption ==
  /\ GenesisHash \in Hash /\ NoHash \notin Hash
  /\ Cardinality({GenesisMiner, Self, Others}) = 3
  /\ Messages \subseteq {"NEW_BLOCK", "BLOCKS_RESPONSE"} /\ MaxCrashes \in Nat

Thread == {"io", "miner"}

VARIABLES
  rows,      \* the `blocks' table
  rewards,   \* heights with a coinbase row in `transactions'
  pc,        \* pc[t]: the statement thread t runs next
  job,       \* job[t]: the block it works on, the height it has read, what follows
  target,    \* target_height of the mining thread
  mining,    \* Node::mining_
  mined,     \* history: every block some node has stored
  clashed,   \* history: a replaceLastBlock has deleted what an addBlock was building on
  parted,    \* history: heights where block and coinbase may have parted, and by what
  crashes    \* bound counter

vars == <<rows, rewards, pc, job, target, mining, mined, clashed, parted, crashes>>

-----------------------------------------------------------------------------
Genesis == [height |-> 0, hash |-> GenesisHash, prevHash |-> NoHash, minedBy |-> GenesisMiner]

Block == [height : Nat, hash : Hash, prevHash : Hash \cup {NoHash}, minedBy : {Self, Others, GenesisMiner}]

\* While it is built, the block of the mining thread has no hash.
Draft == [height : Nat, hash : {NoHash}, prevHash : Hash \cup {NoHash}, minedBy : {Self}]

\* Where a thread can be.  "idle" is outside a handler, or in the sleep of a
\* mining round; "off" is the mining thread after its loop.
Point == {"idle", "last", "height", "parent", "insert", "coinbase", "replace", "old",
          "delete", "forget", "reinsert", "join", "template", "tip", "nonce", "off"}

Job == [block : Block \cup Draft \cup {NoBlock}, seen : Nat, then : {"idle", "join"}]

ASSUME NoBlockAssumption == NoBlock \notin Block \cup Draft

\* The process ended between the two, the mining thread stored its block between the
\* two DELETEs, or a block of this node came back from another one.
Part == [height : Nat, by : {"crash", "between", "return"}]

NoJob == [block |-> NoBlock, seen |-> 0, then |-> "idle"]

TypeOK ==
  /\ rows \in SUBSET Block /\ mined \in SUBSET Block
  /\ rewards \in SUBSET Nat
  /\ pc \in [Thread -> Point] /\ job \in [Thread -> Job]
  /\ target \in Nat /\ {mining, clashed} \subseteq BOOLEAN
  /\ parted \in SUBSET Part /\ crashes \in 0..MaxCrashes

Init ==
  /\ rows = {Genesis} /\ mined = {Genesis}
  /\ rewards = {}
  /\ pc = [t \in Thread |-> "idle"] /\ job = [t \in Thread |-> NoJob]
  /\ target = 0 /\ mining = TRUE /\ clashed = FALSE /\ parted = {} /\ crashes = 0

At(t, point) == pc[t] = point
Goto(t, point, j) == pc' = [pc EXCEPT ![t] = point] /\ job' = [job EXCEPT ![t] = j]
Done(t) == Goto(t, "idle", NoJob)

\* The hashes no block has yet.
Fresh == Hash \ {block.hash : block \in mined \cup ({job[t].block : t \in Thread} \ {NoBlock})}

-----------------------------------------------------------------------------
(* Blockchain::addBlock, called by thread t for job[t].block. *)

AddReadHeight(t) ==
  /\ At(t, "height")
  /\ LET currentHeight == getLatestHeight(rows) IN
     IF job[t].block.height > currentHeight
     THEN Goto(t, "parent", [job[t] EXCEPT !.seen = currentHeight])
     ELSE Done(t)
  /\ UNCHANGED <<rows, rewards, target, mining, mined, clashed, parted, crashes>>

AddReadParent(t) ==
  /\ At(t, "parent")
  /\ IF \E prev \in getBlockByHeight(rows, job[t].seen) : prev.hash = job[t].block.prevHash
     THEN Goto(t, "insert", job[t])
     ELSE Done(t)
  /\ UNCHANGED <<rows, rewards, target, mining, mined, clashed, parted, crashes>>

\* Mutant of AddInsert: the result of the INSERT is not looked at.
AddInsertUnchecked(t) ==
  /\ At(t, "insert")
  /\ rows' = IF Insertable(rows, job[t].block) THEN rows \cup {job[t].block} ELSE rows
  /\ mined' = mined \cup (rows' \ rows)
  /\ Goto(t, IF t = "miner" THEN "coinbase" ELSE job[t].then, job[t])
  /\ UNCHANGED <<rewards, target, mining, clashed, parted, crashes>>

\* What is to be noted when the block of thread t is stored.
Parting(t) ==
  LET block == job[t].block IN
  CASE t = "io" /\ block.minedBy = Self -> {[height |-> block.height, by |-> "return"]}
    [] t = "miner" /\ At("io", "forget") /\ job["io"].seen = block.height ->
         {[height |-> block.height, by |-> "between"]}
    [] OTHER -> {}

AddInsert(t) ==
  /\ At(t, "insert")
  /\ IF Insertable(rows, job[t].block)
     THEN /\ rows' = rows \cup {job[t].block}
          /\ mined' = mined \cup {job[t].block}
          /\ parted' = parted \cup Parting(t)
          /\ Goto(t, IF t = "miner" THEN "coinbase" ELSE job[t].then, job[t])
     ELSE Done(t) /\ UNCHANGED <<rows, mined, parted>>
  /\ UNCHANGED <<rewards, target, mining, clashed, crashes>>

\* Only the miner's own copy of a block has transactions, and so a coinbase.
AddCoinbase(t) ==
  /\ At(t, "coinbase")
  /\ rewards' = rewards \cup {job[t].block.height}
  /\ Done(t)
  /\ UNCHANGED <<rows, target, mining, mined, clashed, parted, crashes>>

-----------------------------------------------------------------------------
(* The io thread. *)

\* A block comes in, one that some node has stored or one that another node has
\* just mined on such a block.  NEW_BLOCK reads the height first, BLOCKS_RESPONSE
\* calls addBlock right away (its own check of the height is addBlock's first).
\* The genesis block is never announced, and never asked for.
Arrivals ==
  (mined \ {Genesis}) \cup {[height |-> parent.height + 1, hash |-> hash, prevHash |-> parent.hash,
                             minedBy |-> Others] : parent \in mined, hash \in Fresh}

Receive ==
  /\ At("io", "idle")
  /\ \E block \in Arrivals :
       /\ mined' = mined \cup {block}
       /\ \/ /\ "NEW_BLOCK" \in Messages
             /\ Goto("io", "last", [block |-> block, seen |-> getLatestHeight(rows), then |-> "join"])
          \/ /\ "BLOCKS_RESPONSE" \in Messages
             /\ Goto("io", "height", [NoJob EXCEPT !.block = block])
  /\ UNCHANGED <<rows, rewards, target, mining, clashed, parted, crashes>>

\* NEW_BLOCK reads the last block and tells its cases apart; in the third, it asks
\* for blocks, in the last, it ignores this one.
ReadLast ==
  /\ At("io", "last")
  /\ \E last_block \in getBlockByHeight(rows, job["io"].seen) :
       LET block == job["io"].block
           extends == block.height = last_block.height + 1 /\ block.prevHash = last_block.hash
           competes == block.height = last_block.height /\ block.prevHash = last_block.prevHash
       IN  \/ extends /\ Goto("io", "height", job["io"])
           \/ competes /\ Goto("io", "replace", job["io"])
           \/ ~extends /\ ~competes /\ Done("io")
  /\ UNCHANGED <<rows, rewards, target, mining, mined, clashed, parted, crashes>>

\* Blockchain::replaceLastBlock: two checks, two DELETEs and an INSERT.
ReplaceReadHeight ==
  /\ At("io", "replace")
  /\ IF job["io"].block.height = getLatestHeight(rows)
     THEN Goto("io", "old", [job["io"] EXCEPT !.seen = getLatestHeight(rows)])
     ELSE Done("io")
  /\ UNCHANGED <<rows, rewards, target, mining, mined, clashed, parted, crashes>>

ReplaceReadOld ==
  /\ At("io", "old")
  /\ IF \E old \in getBlockByHeight(rows, job["io"].seen) : old.prevHash = job["io"].block.prevHash
     THEN Goto("io", "delete", job["io"])
     ELSE Done("io")
  /\ UNCHANGED <<rows, rewards, target, mining, mined, clashed, parted, crashes>>

\* It clashes with an addBlock of the mining thread that has already put a block
\* on top, or that is past its reads.
Clash ==
  \/ job["io"].seen # getLatestHeight(rows)
  \/ pc["miner"] \in {"insert", "coinbase"}

ReplaceDelete ==
  /\ At("io", "delete")
  /\ rows' = rows \ getBlockByHeight(rows, job["io"].seen)
  /\ clashed' = (clashed \/ Clash)
  /\ parted' = {part \in parted : part.height = job["io"].seen => part.by = "crash"}
  /\ Goto("io", "forget", job["io"])
  /\ UNCHANGED <<rewards, target, mining, mined, crashes>>

\* Mutant of ReplaceForget: the height is read again for the second DELETE.
ReplaceForgetLast ==
  /\ At("io", "forget")
  /\ rewards' = rewards \ {getLatestHeight(rows)}
  /\ parted' = {part \in parted : part.height = job["io"].seen => part.by = "between"}
  /\ Goto("io", "reinsert", job["io"])
  /\ UNCHANGED <<rows, target, mining, mined, clashed, crashes>>

ReplaceForget ==
  /\ At("io", "forget")
  /\ rewards' = rewards \ {job["io"].seen}
  /\ parted' = {part \in parted : part.height = job["io"].seen => part.by = "between"}
  /\ Goto("io", "reinsert", job["io"])
  /\ UNCHANGED <<rows, target, mining, mined, clashed, crashes>>

ReplaceInsert ==
  /\ At("io", "reinsert")
  /\ IF Insertable(rows, job["io"].block)
     THEN /\ rows' = rows \cup {job["io"].block}
          /\ parted' = parted \cup Parting("io")
          /\ Goto("io", "join", job["io"])
     ELSE Done("io") /\ UNCHANGED <<rows, parted>>
  /\ UNCHANGED <<rewards, target, mining, mined, clashed, crashes>>

\* The handler of a NEW_BLOCK it took stops the mining thread and waits for it.
StopMiner ==
  /\ At("io", "join") /\ mining
  /\ mining' = FALSE
  /\ UNCHANGED <<rows, rewards, pc, job, target, mined, clashed, parted, crashes>>

Join ==
  /\ At("io", "join") /\ At("miner", "off")
  /\ mining' = TRUE
  /\ pc' = [io |-> "idle", miner |-> "idle"]
  /\ job' = [job EXCEPT !["io"] = NoJob]
  /\ UNCHANGED <<rows, rewards, target, mined, clashed, parted, crashes>>

-----------------------------------------------------------------------------
(* The mining thread. *)

\* Mutant of Round: the loop does not look at mining_.
RoundAlways ==
  /\ At("miner", "idle")
  /\ target' = getLatestHeight(rows) + 1
  /\ Goto("miner", "template", NoJob)
  /\ UNCHANGED <<rows, rewards, mining, mined, clashed, parted, crashes>>

\* The mempool is not empty.
Round ==
  /\ At("miner", "idle") /\ mining
  /\ target' = getLatestHeight(rows) + 1
  /\ Goto("miner", "template", NoJob)
  /\ UNCHANGED <<rows, rewards, mining, mined, clashed, parted, crashes>>

\* createBlock reads the height, and in a second statement the block there; when
\* that is gone by then, the new block is one of height 0.
ReadLatest ==
  /\ At("miner", "template")
  /\ Goto("miner", "tip", [NoJob EXCEPT !.seen = getLatestHeight(rows)])
  /\ UNCHANGED <<rows, rewards, target, mining, mined, clashed, parted, crashes>>

ReadTip ==
  /\ At("miner", "tip")
  /\ \E prev \in IF getBlockByHeight(rows, job["miner"].seen) # {}
                 THEN getBlockByHeight(rows, job["miner"].seen)
                 ELSE {[height |-> -1, hash |-> NoHash]} :
       Goto("miner", "nonce", [job["miner"] EXCEPT !.block =
         [height |-> prev.height + 1, hash |-> NoHash, prevHash |-> prev.hash, minedBy |-> Self]])
  /\ UNCHANGED <<rows, rewards, target, mining, mined, clashed, parted, crashes>>

\* Mutant of Nonce: the hash that fits is not put into the block.
NonceOnly ==
  /\ At("miner", "nonce") /\ mining
  /\ getLatestHeight(rows) < target
  /\ Goto("miner", "height", job["miner"])
  /\ UNCHANGED <<rows, rewards, target, mining, mined, clashed, parted, crashes>>

\* The loop over the nonces looks at mining_ and at the height each time; with a
\* hash that fits, the block goes to addBlock.
Nonce ==
  /\ At("miner", "nonce") /\ mining
  /\ getLatestHeight(rows) < target
  /\ \E hash \in Fresh : Goto("miner", "height", [job["miner"] EXCEPT !.block.hash = hash])
  /\ UNCHANGED <<rows, rewards, target, mining, mined, clashed, parted, crashes>>

\* The nonces run out, the height is taken, or the thread is to stop.
GiveUp ==
  /\ At("miner", "nonce")
  /\ Done("miner")
  /\ UNCHANGED <<rows, rewards, target, mining, mined, clashed, parted, crashes>>

LeaveLoop ==
  /\ At("miner", "idle") /\ ~mining
  /\ Goto("miner", "off", NoJob)
  /\ UNCHANGED <<rows, rewards, target, mining, mined, clashed, parted, crashes>>

\* The process ends anywhere and is started again: the database is what is left.
Crash ==
  /\ crashes < MaxCrashes
  /\ crashes' = crashes + 1
  /\ pc' = [t \in Thread |-> "idle"] /\ job' = [t \in Thread |-> NoJob]
  /\ mining' = TRUE
  /\ parted' = parted \cup {[height |-> h, by |-> "crash"] : h \in
       (IF At("io", "forget") THEN {job["io"].seen} ELSE {}) \cup
       (IF At("miner", "coinbase") THEN {job["miner"].block.height} ELSE {})}
  /\ UNCHANGED <<rows, rewards, target, mined, clashed>>

-----------------------------------------------------------------------------
AddBlock(t) == AddReadHeight(t) \/ AddReadParent(t) \/ AddInsert(t)

IoStep ==
  \/ ReadLast \/ AddBlock("io")
  \/ ReplaceReadHeight \/ ReplaceReadOld \/ ReplaceDelete \/ ReplaceForget \/ ReplaceInsert
  \/ StopMiner \/ Join

MinerStep ==
  \/ Round \/ ReadLatest \/ ReadTip \/ Nonce \/ GiveUp
  \/ AddBlock("miner") \/ AddCoinbase("miner")
  \/ LeaveLoop

Next == Receive \/ IoStep \/ MinerStep \/ Crash

Spec == Init /\ [][Next]_vars

\* Both threads run on; that a block arrives is up to others.
LiveSpec == Spec /\ WF_vars(IoStep) /\ WF_vars(MinerStep)

-----------------------------------------------------------------------------
(* Properties. *)

\* The table is one unbroken chain between any two statements, whatever the two
\* threads and a crash do to each other; only a replaceLastBlock that deletes under
\* a running addBlock can break it (run race_replace shows that it does).
ChainLinked == ~clashed => Linked(rows)

\* The same when no thread is inside a call: what the two threads leave behind.
LinkedAtRest == (\A t \in Thread : At(t, "idle")) => Linked(rows)

PartedAt(h, ways) == \E part \in parted : part.height = h /\ part.by \in ways

\* There is a coinbase only for blocks of the table which this node mined, however the
\* two threads interleave.  Excepted are the moment between replaceLastBlock's two
\* DELETEs, a process that ended there, and what ChainLinked excepts.
PaidForOwnBlocks ==
  ~clashed => \A h \in rewards :
    \/ \E row \in rows : row.height = h /\ row.minedBy = Self
    \/ At("io", "forget") /\ job["io"].seen = h
    \/ PartedAt(h, {"crash"})

\* The other way round, clash or not: each block of this node in the table has its
\* coinbase.  Excepted are the moment between addBlock's two INSERTs, a process that
\* ended there, a block that comes back without transactions, and one that the mining
\* thread stored between replaceLastBlock's DELETEs, the second of which takes its coinbase.
OwnBlocksPaid ==
  \A row \in rows : row.minedBy = Self =>
    \/ row.height \in rewards
    \/ At("miner", "coinbase") /\ job["miner"].block = row
    \/ PartedAt(row.height, {"crash", "between", "return"})

\* NEW_BLOCK finds the row of the height it has just read, which it uses without
\* asking whether it is there (last_block->hash): nothing deletes it in between.
LastBlockThere == At("io", "last") => getBlockByHeight(rows, job["io"].seen) # {}

\* The handler of NEW_BLOCK does not wait for ever for the mining thread.
JoinReturns == At("io", "join") ~> At("io", "idle")
=============================================================================
