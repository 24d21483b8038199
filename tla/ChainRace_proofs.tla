-------------------------- MODULE ChainRace_proofs --------------------------
(***************************************************************************)
(* Proofs about ChainRace, for any number of blocks and crashes: what the  *)
(* UNIQUE columns and the checks of addBlock and replaceLastBlock give     *)
(* when the statements of two threads interleave.  The inductive invariant *)
(* says what each thread knows of the table at each of its statements, and *)
(* which part of that a replaceLastBlock of the other one can take away    *)
(* (the parts with ~clashed).                                              *)
(***************************************************************************)
EXTENDS ChainRace, FiniteSetTheorems, WellFoundedInduction, TLAPS

IsParent(prev, block) == prev.height = block.height - 1 /\ prev.hash = block.prevHash

IoPoint == {"idle", "last", "height", "parent", "insert", "replace", "old", "delete",
            "forget", "reinsert", "join"}
MinerPoint == {"idle", "template", "tip", "nonce", "height", "parent", "insert", "coinbase", "off"}
Points == pc["io"] \in IoPoint /\ pc["miner"] \in MinerPoint

\* Hashes tell stored blocks apart, and the parent of a stored block was stored.
WellMined ==
  /\ \A a, b \in mined : a.hash = b.hash => a = b
  /\ \A block \in mined : block = Genesis \/ (block.height > 0 /\ \E prev \in mined : IsParent(prev, block))

\* The table holds some of them, the first one always.
TableOK == IsFiniteSet(rows) /\ rows \subseteq mined /\ Genesis \in rows

\* The block in the hands of a thread.
IoJob ==
  /\ pc["io"] # "idle" => job["io"].block \in mined \ {Genesis}
  /\ pc["io"] \in {"old", "delete", "forget", "reinsert"} => job["io"].seen = job["io"].block.height
MinerJob ==
  LET block == job["miner"].block IN
  /\ pc["miner"] = "nonce" => block \in Draft
  /\ pc["miner"] \in {"height", "parent", "insert", "coinbase"} => block \in Block /\ block.minedBy = Self
  /\ pc["miner"] \in {"nonce", "height", "parent", "insert"} =>
       block.height = 0 \/ \E prev \in mined : IsParent(prev, block)
  /\ pc["miner"] \in {"height", "parent", "insert"} => \A b \in mined : b.hash # block.hash
  /\ pc["miner"] \in {"parent", "insert"} => block.height > 0
AboveSeen == \A t \in Thread : pc[t] = "parent" => job[t].block.height > job[t].seen

\* A thread that is about to write has its block's parent in the table.
ParentThere(t) == \E prev \in rows : IsParent(prev, job[t].block)
ReadyToWrite ==
  ~clashed =>
    /\ pc["io"] \in {"insert", "delete", "forget", "reinsert"} => ParentThere("io")
    /\ pc["miner"] = "insert" => ParentThere("miner")
    /\ pc["miner"] = "coinbase" => job["miner"].block \in rows

Stored == WellMined /\ TableOK
Jobs == Points /\ IoJob /\ MinerJob /\ AboveSeen
Sound == LastBlockThere /\ ReadyToWrite /\ ChainLinked

IInv == TypeOK /\ Stored /\ Jobs /\ Sound

\* Between its two DELETEs, replaceLastBlock has left a row of its height only where the
\* mining thread has stored one since.
Emptied ==
  At("io", "forget") => \A row \in rows :
    row.height = job["io"].seen => PartedAt(row.height, {"between"})

Accounts == PaidForOwnBlocks /\ OwnBlocksPaid /\ Emptied

-----------------------------------------------------------------------------
(* The last row. *)

\* A finite set of blocks has a highest one.
LEMMA FiniteTop ==
  ASSUME NEW S, IsFiniteSet(S), S # {}, \A r \in S : r.height \in Nat
  PROVE  \E top \in S : \A r \in S : r.height <= top.height
<1> DEFINE HasTop(T) == \E top \in T : \A r \in T : r.height <= top.height
           Topless == {T \in FiniteSubsetsOf(S) : T # {} /\ ~HasTop(T)}
<1> SUFFICES ASSUME Topless # {} PROVE FALSE
  <2>1. S \in FiniteSubsetsOf(S)
    BY DEF FiniteSubsetsOf
  <2> QED
    BY <2>1
<1>1. PICK T \in Topless : \A U \in Topless : <<U, T>> \notin StrictSubsetOrdering(S)
  <2>1. Topless \subseteq FiniteSubsetsOf(S)
    OBVIOUS
  <2> HIDE DEF Topless
  <2> QED
    BY <2>1, WFMin, FS_StrictSubsetOrderingWellFounded
<1>2. T \subseteq S /\ IsFiniteSet(T) /\ T # {} /\ ~HasTop(T)
  BY DEF FiniteSubsetsOf
<1>3. PICK x \in T : TRUE
  BY <1>2
<1>4. IsFiniteSet(T \ {x}) /\ T \ {x} \subseteq S
  BY <1>2, FS_Subset
<1>5. <<T \ {x}, T>> \in StrictSubsetOrdering(S)
  BY <1>2, <1>3, <1>4 DEF StrictSubsetOrdering
<1>6. T \ {x} = {} \/ HasTop(T \ {x})
  BY <1>1, <1>4, <1>5 DEF FiniteSubsetsOf
<1>7. CASE T \ {x} = {}
  BY <1>2, <1>3, <1>7
<1>8. CASE HasTop(T \ {x})
  <2>1. PICK top \in T \ {x} : \A r \in T \ {x} : r.height <= top.height
    BY <1>8
  <2>2. top.height \in Nat /\ x.height \in Nat /\ \A r \in T : r.height \in Nat
    BY <1>2, <1>3, <2>1
  <2>3. CASE x.height <= top.height
    BY <1>2, <2>1, <2>2, <2>3
  <2>4. CASE top.height < x.height
    <3>1. \A r \in T : r.height <= x.height
      BY <2>1, <2>2, <2>4
    <3> QED
      BY <1>2, <1>3, <3>1
  <2> QED
    BY <2>2, <2>3, <2>4
<1> QED
  BY <1>6, <1>7, <1>8

LEMMA TopRow ==
  ASSUME TypeOK, TableOK
  PROVE  /\ getLatestHeight(rows) \in Nat
         /\ \E row \in rows : row.height = getLatestHeight(rows)
         /\ \A row \in rows : row.height <= getLatestHeight(rows)
<1>1. rows # {} /\ IsFiniteSet(rows) /\ \A row \in rows : row.height \in Nat
  BY DEF TypeOK, TableOK, Block
<1>2. PICK top \in rows : \A row \in rows : row.height <= top.height
  BY <1>1, FiniteTop
<1>3. top.height \in Heights(rows) /\ \A h \in Heights(rows) : top.height >= h /\ h \in Nat
  BY <1>1, <1>2 DEF Heights
<1>4. Max(Heights(rows)) = top.height
  BY <1>3 DEF Max
<1> QED
  BY <1>1, <1>2, <1>4 DEF getLatestHeight

USE DEF At, Goto, Done, Thread

-----------------------------------------------------------------------------
(* Steps. *)

LEMMA InitIInv == Init => IInv
<1> SUFFICES ASSUME Init PROVE IInv
  OBVIOUS
<1>1. Genesis \in Block /\ Genesis.height = 0 /\ Genesis.hash = GenesisHash
  BY NameAssumption DEF Genesis, Block
<1>2. TypeOK
  <2>1. NoJob \in Job
    BY DEF NoJob, Job
  <2>2. 0 \in 0..MaxCrashes
    BY NameAssumption
  <2> QED
    BY <1>1, <2>1, <2>2 DEF Init, TypeOK, Point
<1>3. Stored
  <2>1. IsFiniteSet(rows)
    BY FS_Singleton DEF Init
  <2> QED
    BY <2>1 DEF Init, Stored, WellMined, TableOK
<1>4. Jobs
  BY DEF Init, Jobs, Points, IoPoint, MinerPoint, IoJob, MinerJob, AboveSeen
<1>5. Sound
  BY <1>1 DEF Init, Sound, LastBlockThere, ReadyToWrite, ChainLinked, Linked
<1> QED
  BY <1>2, <1>3, <1>4, <1>5 DEF IInv

LEMMA AddReadHeightStep == ASSUME IInv, NEW t \in Thread, AddReadHeight(t) PROVE IInv'
<1>0. getLatestHeight(rows) \in Nat
  BY TopRow DEF IInv, Stored
<1>1. TypeOK'
  BY <1>0 DEF IInv, TypeOK, Point, Job, NoJob, AddReadHeight
<1>2. Stored'
  BY DEF IInv, Stored, WellMined, TableOK, AddReadHeight
<1>3. Jobs'
  <2>1. Points' /\ IoJob' /\ AboveSeen'
    BY <1>0 DEF IInv, TypeOK, Jobs, Points, IoPoint, MinerPoint, Job, NoJob, IoJob, AboveSeen, AddReadHeight
  <2>2. MinerJob'
    <3>1. CASE t = "io"
      BY <3>1 DEF IInv, TypeOK, Jobs, MinerJob, AddReadHeight
    <3>2. CASE t = "miner" /\ job["miner"].block.height > getLatestHeight(rows)
      <4>1. job["miner"].block \in Block
        BY <3>2 DEF IInv, Jobs, MinerJob, AddReadHeight
      <4>2. job["miner"].block.height > 0
        BY <1>0, <3>2, <4>1 DEF Block
      <4>3. pc'["miner"] = "parent" /\ job'["miner"].block = job["miner"].block
        BY <3>2 DEF IInv, TypeOK, Job, AddReadHeight
      <4> QED
        BY <3>2, <4>2, <4>3 DEF IInv, Jobs, MinerJob, AddReadHeight
    <3>3. CASE t = "miner" /\ ~(job["miner"].block.height > getLatestHeight(rows))
      BY <3>3 DEF IInv, TypeOK, MinerJob, AddReadHeight
    <3> QED
      BY <3>1, <3>2, <3>3
  <2> QED
    BY <2>1, <2>2 DEF Jobs
<1>4. Sound'
  BY DEF IInv, TypeOK, Job, NoJob, Sound, LastBlockThere, ReadyToWrite, ParentThere, ChainLinked, AddReadHeight
<1> QED
  BY <1>1, <1>2, <1>3, <1>4 DEF IInv

\* The row of the height that was read has the hash the block names: it is the parent.
LEMMA AddReadParentStep == ASSUME IInv, NEW t \in Thread, AddReadParent(t) PROVE IInv'
<1>1. TypeOK'
  BY DEF IInv, TypeOK, Point, Job, NoJob, AddReadParent
<1>2. Stored'
  BY DEF IInv, Stored, WellMined, TableOK, AddReadParent
<1>3. Jobs'
  BY DEF IInv, TypeOK, Jobs, Points, IoPoint, MinerPoint, Job, NoJob, IoJob, MinerJob, AboveSeen, AddReadParent
<1>4. Sound'
  <2>1. LastBlockThere' /\ ChainLinked'
    BY DEF IInv, TypeOK, Sound, LastBlockThere, ChainLinked, AddReadParent
  <2>2. ReadyToWrite'
    <3>1. CASE \E prev \in getBlockByHeight(rows, job[t].seen) : prev.hash = job[t].block.prevHash
      <4>1. PICK prev \in rows : prev.height = job[t].seen /\ prev.hash = job[t].block.prevHash
        BY <3>1 DEF getBlockByHeight
      <4>2. \E parent \in mined : IsParent(parent, job[t].block)
        BY DEF IInv, TypeOK, Jobs, IoJob, MinerJob, Stored, WellMined, Block, AddReadParent
      <4>3. IsParent(prev, job[t].block)
        BY <4>1, <4>2 DEF IInv, Stored, TableOK, WellMined, IsParent
      <4>4. job' = job /\ rows' = rows /\ clashed' = clashed
            /\ pc' = [pc EXCEPT ![t] = "insert"]
        BY <3>1 DEF IInv, TypeOK, AddReadParent
      <4> QED
        BY <4>1, <4>3, <4>4 DEF IInv, TypeOK, Sound, ReadyToWrite, ParentThere
    <3>2. CASE ~\E prev \in getBlockByHeight(rows, job[t].seen) : prev.hash = job[t].block.prevHash
      BY <3>2 DEF IInv, TypeOK, Sound, ReadyToWrite, ParentThere, AddReadParent
    <3> QED
      BY <3>1, <3>2
  <2> QED
    BY <2>1, <2>2 DEF Sound
<1> QED
  BY <1>1, <1>2, <1>3, <1>4 DEF IInv

\* The INSERT adds a block whose parent is there and whose height is free.
LEMMA AddInsertStep == ASSUME IInv, NEW t \in Thread, AddInsert(t) PROVE IInv'
<1> DEFINE block == job[t].block
<1>1. block \in Block
  BY DEF IInv, TypeOK, Jobs, IoJob, MinerJob, AddInsert
<1>2. CASE Insertable(rows, block)
  <2>1. /\ rows' = rows \cup {block} /\ mined' = mined \cup {block}
        /\ pc' = [pc EXCEPT ![t] = IF t = "miner" THEN "coinbase" ELSE job[t].then]
        /\ job' = job
        /\ parted' = parted \cup Parting(t)
        /\ UNCHANGED <<rewards, target, mining, clashed, crashes>>
    BY <1>2 DEF IInv, TypeOK, AddInsert
  <2>2. pc[t] = "insert"
    BY DEF AddInsert
  <2>3. TypeOK'
    <3>1. Parting(t) \subseteq Part
      BY <1>1 DEF Parting, Part, Block
    <3> QED
      BY <1>1, <2>1, <3>1 DEF IInv, TypeOK, Point, Job
  <2>4. Stored'
    <3>1. block = Genesis \/ (block.height > 0 /\ \E prev \in mined : IsParent(prev, block))
      BY <1>1, <2>2 DEF IInv, Jobs, IoJob, MinerJob, Stored, WellMined, Block
    <3>2. block \in mined \/ \A b \in mined : b.hash # block.hash
      BY <2>2 DEF IInv, Jobs, IoJob, MinerJob
    <3>3. WellMined'
      BY <2>1, <3>1, <3>2 DEF IInv, Stored, WellMined
    <3>4. IsFiniteSet(rows \cup {block})
      BY FS_AddElement DEF IInv, Stored, TableOK
    <3>5. TableOK'
      BY <2>1, <3>4 DEF IInv, Stored, TableOK
    <3> QED
      BY <3>3, <3>5 DEF Stored
  <2>5. Jobs'
    <3>1. Points' /\ IoJob' /\ AboveSeen'
      BY <2>1, <2>2 DEF IInv, TypeOK, Job, Jobs, Points, IoPoint, MinerPoint, IoJob, AboveSeen
    <3>2. MinerJob'
      <4>1. CASE t = "miner"
        BY <2>1, <2>2, <4>1 DEF IInv, TypeOK, Jobs, MinerJob
      <4>2. CASE t = "io"
        <5>1. mined' = mined /\ pc'["miner"] = pc["miner"]
          BY <2>1, <2>2, <4>2 DEF IInv, TypeOK, Jobs, IoJob
        <5> QED
          BY <2>1, <5>1 DEF IInv, Jobs, MinerJob
      <4> QED
        BY <4>1, <4>2
    <3> QED
      BY <3>1, <3>2 DEF Jobs
  <2>6. Sound'
    <3>1. LastBlockThere'
      BY <2>1, <2>2 DEF IInv, TypeOK, Job, Sound, LastBlockThere, getBlockByHeight
    <3>2. ReadyToWrite'
      BY <2>1, <2>2 DEF IInv, TypeOK, Job, Sound, ReadyToWrite, ParentThere
    <3>3. ASSUME ~clashed PROVE Linked(rows \cup {block})
      <4>1. PICK prev \in rows : IsParent(prev, block)
        BY <2>2, <3>3 DEF IInv, Sound, ReadyToWrite, ParentThere
      <4>2. Linked(rows)
        BY <3>3 DEF IInv, Sound, ChainLinked
      <4> HIDE DEF block
      <4> QED
        BY <1>2, <4>1, <4>2 DEF Linked, Insertable, IsParent
    <3>4. ChainLinked'
      BY <2>1, <3>3 DEF ChainLinked
    <3> QED
      BY <3>1, <3>2, <3>4 DEF Sound
  <2> QED
    BY <2>3, <2>4, <2>5, <2>6 DEF IInv
<1>3. CASE ~Insertable(rows, block)
  <2>1. /\ rows' = rows /\ mined' = mined
        /\ pc' = [pc EXCEPT ![t] = "idle"] /\ job' = [job EXCEPT ![t] = NoJob]
        /\ UNCHANGED <<rewards, target, mining, clashed, parted, crashes>>
    BY <1>3 DEF AddInsert
  <2>2. TypeOK'
    BY <2>1 DEF IInv, TypeOK, Point, Job, NoJob
  <2>3. Stored'
    BY <2>1 DEF IInv, Stored, WellMined, TableOK
  <2>4. Jobs'
    BY <2>1 DEF IInv, TypeOK, Jobs, Points, IoPoint, MinerPoint, IoJob, MinerJob, AboveSeen
  <2>5. Sound'
    BY <2>1 DEF IInv, TypeOK, Sound, LastBlockThere, ReadyToWrite, ParentThere, ChainLinked, AddInsert
  <2> QED
    BY <2>2, <2>3, <2>4, <2>5 DEF IInv
<1> QED
  BY <1>2, <1>3

LEMMA AddCoinbaseStep == ASSUME IInv, AddCoinbase("miner") PROVE IInv'
<1>0. job["miner"].block \in Block /\ job["miner"].block.minedBy = Self
  BY DEF IInv, Jobs, MinerJob, AddCoinbase
<1>1. TypeOK'
  <2>1. job["miner"].block.height \in Nat
    BY <1>0 DEF Block
  <2> QED
    BY <2>1 DEF IInv, TypeOK, Point, Job, NoJob, AddCoinbase
<1>2. Stored'
  BY DEF IInv, Stored, WellMined, TableOK, AddCoinbase
<1>3. Jobs'
  BY DEF IInv, TypeOK, Jobs, Points, IoPoint, MinerPoint, IoJob, MinerJob, AboveSeen, AddCoinbase
<1>4. Sound'
  BY DEF IInv, TypeOK, Sound, LastBlockThere, ReadyToWrite, ParentThere, ChainLinked, AddCoinbase
<1> QED
  BY <1>1, <1>2, <1>3, <1>4 DEF IInv

\* A block that comes in is one the network knows, or a new one with a hash of its own.
LEMMA ReceiveStep == ASSUME IInv, Receive PROVE IInv'
<1>0. PICK block \in Arrivals :
        /\ mined' = mined \cup {block}
        /\ pc["io"] = "idle"
        /\ \/ /\ pc' = [pc EXCEPT !["io"] = "last"]
              /\ job' = [job EXCEPT !["io"] = [block |-> block, seen |-> getLatestHeight(rows), then |-> "join"]]
           \/ /\ pc' = [pc EXCEPT !["io"] = "height"]
              /\ job' = [job EXCEPT !["io"] = [block |-> block, seen |-> 0, then |-> "idle"]]
  BY DEF Receive, NoJob
<1>1. UNCHANGED <<rows, rewards, target, mining, clashed, parted, crashes>>
  BY DEF Receive
<1>3. getLatestHeight(rows) \in Nat /\ \E row \in rows : row.height = getLatestHeight(rows)
  BY TopRow DEF IInv, Stored
<1>4. \/ block \in mined \ {Genesis}
      \/ \E parent \in mined, hash \in Fresh :
           block = [height |-> parent.height + 1, hash |-> hash, prevHash |-> parent.hash, minedBy |-> Others]
  BY DEF Arrivals
<1>5. /\ block \in Block /\ block # Genesis /\ block.height > 0
      /\ \E prev \in mined : IsParent(prev, block)
      /\ block \in mined \/ \A b \in mined : b.hash # block.hash
      /\ block \in mined \/ (job["miner"].block \in Block => job["miner"].block.hash # block.hash)
  <2>1. CASE block \in mined \ {Genesis}
    BY <2>1 DEF IInv, TypeOK, Stored, WellMined
  <2>2. ASSUME NEW parent \in mined, NEW hash \in Fresh,
               block = [height |-> parent.height + 1, hash |-> hash, prevHash |-> parent.hash, minedBy |-> Others]
        PROVE  /\ block \in Block /\ block # Genesis /\ block.height > 0
               /\ \E prev \in mined : IsParent(prev, block)
               /\ block \in mined \/ \A b \in mined : b.hash # block.hash
               /\ block \in mined \/ (job["miner"].block \in Block => job["miner"].block.hash # block.hash)
    <3>1. parent \in Block /\ parent.height \in Nat /\ parent.hash \in Hash
      BY DEF IInv, TypeOK, Block
    <3>2. hash \in Hash /\ \A b \in mined : b.hash # hash
      BY DEF Fresh
    <3>3. job["miner"].block \in Block => job["miner"].block.hash # hash
      BY NoBlockAssumption DEF Fresh, Thread
    <3>4. block.height = parent.height + 1 /\ block.hash = hash /\ block.prevHash = parent.hash
      BY <2>2
    <3>5. block \in Block
      BY <2>2, <3>1, <3>2 DEF Block
    <3>6. block.height > 0 /\ parent.height = block.height - 1
      BY <3>1, <3>4
    <3>7. block # Genesis
      BY <3>6 DEF Genesis
    <3>8. IsParent(parent, block)
      BY <3>4, <3>6 DEF IsParent
    <3> QED
      BY <3>2, <3>3, <3>4, <3>5, <3>6, <3>7, <3>8
  <2> QED
    BY <1>4, <2>1, <2>2
<1>6. TypeOK'
  BY <1>0, <1>1, <1>3, <1>5 DEF IInv, TypeOK, Point, Job
<1>7. Stored'
  BY <1>0, <1>1, <1>5 DEF IInv, Stored, WellMined, TableOK
<1>8. Jobs'
  <2>1. Points' /\ AboveSeen'
    BY <1>0 DEF IInv, TypeOK, Jobs, Points, IoPoint, MinerPoint, AboveSeen
  <2>2. IoJob'
    BY <1>0, <1>5 DEF IInv, TypeOK, IoJob
  <2>3. pc'["miner"] = pc["miner"] /\ job'["miner"] = job["miner"]
    BY <1>0 DEF IInv, TypeOK
  <2>4. MinerJob'
    BY <1>0, <1>5, <2>3 DEF IInv, Jobs, MinerJob
  <2> QED
    BY <2>1, <2>2, <2>4 DEF Jobs
<1>9. Sound'
  BY <1>0, <1>1, <1>3 DEF IInv, TypeOK, Sound, LastBlockThere, getBlockByHeight, ReadyToWrite, ParentThere, ChainLinked
<1> QED
  BY <1>6, <1>7, <1>8, <1>9 DEF IInv

\* The block to be replaced has the same parent, which its chain holds.
LEMMA ReplaceReadOldStep == ASSUME IInv, ReplaceReadOld PROVE IInv'
<1>1. TypeOK'
  BY DEF IInv, TypeOK, Point, Job, NoJob, ReplaceReadOld
<1>2. Stored'
  BY DEF IInv, Stored, WellMined, TableOK, ReplaceReadOld
<1>3. Jobs'
  BY DEF IInv, TypeOK, Jobs, Points, IoPoint, MinerPoint, IoJob, MinerJob, AboveSeen, ReplaceReadOld
<1>4. Sound'
  <2>1. LastBlockThere' /\ ChainLinked'
    BY DEF IInv, TypeOK, Sound, LastBlockThere, ChainLinked, ReplaceReadOld
  <2>2. ReadyToWrite'
    <3>1. ASSUME ~clashed,
                 NEW old \in getBlockByHeight(rows, job["io"].seen), old.prevHash = job["io"].block.prevHash
          PROVE  ParentThere("io")
      <4>1. old \in rows /\ old.height = job["io"].block.height /\ old.height > 0
        BY DEF IInv, Jobs, IoJob, Stored, WellMined, getBlockByHeight, ReplaceReadOld
      <4>2. \E prev \in rows : prev.height = old.height - 1 /\ prev.hash = old.prevHash
        BY <3>1, <4>1 DEF IInv, Sound, ChainLinked, Linked
      <4> QED
        BY <3>1, <4>1, <4>2 DEF ParentThere, IsParent
    <3>2. \/ pc'["io"] = "idle"
          \/ /\ \E old \in getBlockByHeight(rows, job["io"].seen) : old.prevHash = job["io"].block.prevHash
             /\ pc'["io"] = "delete" /\ job'["io"] = job["io"]
      BY DEF IInv, TypeOK, ReplaceReadOld
    <3>3. rows' = rows /\ clashed' = clashed /\ pc'["miner"] = pc["miner"] /\ job'["miner"] = job["miner"]
      BY DEF IInv, TypeOK, ReplaceReadOld
    <3> QED
      BY <3>1, <3>2, <3>3 DEF IInv, Sound, ReadyToWrite, ParentThere
  <2> QED
    BY <2>1, <2>2 DEF Sound
<1> QED
  BY <1>1, <1>2, <1>3, <1>4 DEF IInv

\* The DELETE takes the last block, unless it clashes: the rest is still a chain, and the
\* coinbase of the block that is gone is the one the next statement deletes.
LEMMA ReplaceDeleteStep == ASSUME IInv, ReplaceDelete PROVE IInv'
<1> DEFINE block == job["io"].block
           seen == job["io"].seen
<1>1. /\ rows' = rows \ getBlockByHeight(rows, seen) /\ rows' \subseteq rows
      /\ pc["io"] = "delete"
      /\ pc' = [pc EXCEPT !["io"] = "forget"] /\ job' = job
      /\ clashed' = (clashed \/ Clash) /\ parted' \subseteq parted
      /\ UNCHANGED <<rewards, target, mining, mined, crashes>>
  BY DEF IInv, TypeOK, ReplaceDelete
<1>2. block \in mined /\ block \in Block /\ seen = block.height /\ block.height > 0
  BY <1>1 DEF IInv, TypeOK, Jobs, IoJob, Stored, WellMined
<1>3. TypeOK'
  <2>1. clashed' \in BOOLEAN
    BY <1>1 DEF IInv, TypeOK
  <2> QED
    BY <1>1, <2>1 DEF IInv, TypeOK, Point
<1>4. Stored'
  <2>1. IsFiniteSet(rows')
    BY <1>1, FS_Subset DEF IInv, Stored, TableOK
  <2>2. Genesis \in rows'
    BY <1>1, <1>2 DEF IInv, Stored, TableOK, getBlockByHeight, Genesis
  <2> QED
    BY <1>1, <2>1, <2>2 DEF IInv, Stored, WellMined, TableOK
<1>5. Jobs'
  BY <1>1 DEF IInv, TypeOK, Jobs, Points, IoPoint, MinerPoint, IoJob, MinerJob, AboveSeen
<1>6. Sound'
  <2>1. LastBlockThere'
    BY <1>1 DEF IInv, TypeOK, LastBlockThere
  <2>2. ASSUME ~clashed'
        PROVE  /\ ~clashed /\ pc["miner"] \notin {"insert", "coinbase"}
               /\ \A row \in rows : row.height \in Nat /\ row.height <= seen
               /\ \A row \in rows' : row \in rows /\ row.height < seen
    <3>1. ~clashed /\ ~Clash
      BY <1>1, <2>2
    <3>2. seen = getLatestHeight(rows) /\ pc["miner"] \notin {"insert", "coinbase"}
      BY <3>1 DEF Clash
    <3>3. \A row \in rows : row.height \in Nat /\ row.height <= seen
      BY <3>2, TopRow DEF IInv, TypeOK, Stored, Block
    <3>4. \A row \in rows' : row \in rows /\ row.height # seen
      BY <1>1 DEF getBlockByHeight
    <3>5. seen \in Nat
      BY <1>2 DEF Block
    <3> QED
      BY <3>1, <3>2, <3>3, <3>4, <3>5
  <2>3. \A row \in rows : row.height # seen => row \in rows'
    BY <1>1 DEF getBlockByHeight
  <2>4. ReadyToWrite'
    <3> SUFFICES ASSUME ~clashed' PROVE ParentThere("io")' /\ pc'["miner"] \notin {"insert", "coinbase"}
      BY <1>1 DEF IInv, TypeOK, ReadyToWrite
    <3>1. PICK prev \in rows : IsParent(prev, block)
      BY <1>1, <2>2 DEF IInv, Sound, ReadyToWrite, ParentThere
    <3>2. prev.height # seen
      BY <1>2, <3>1 DEF IsParent, Block
    <3>3. prev \in rows'
      BY <2>3, <3>2
    <3> QED
      BY <1>1, <2>2, <3>1, <3>3 DEF IInv, TypeOK, ParentThere
  <2>5. ChainLinked'
    <3> SUFFICES ASSUME ~clashed' PROVE Linked(rows')
      BY DEF ChainLinked
    <3>1. Linked(rows)
      BY <2>2 DEF IInv, Sound, ChainLinked
    <3>2. \E row \in rows' : row.height = 0
      BY <1>4 DEF Stored, TableOK, Genesis
    <3>3. \A r, s \in rows' : r.height = s.height => r = s
      BY <2>2, <3>1 DEF Linked
    <3>4. ASSUME NEW row \in rows', row.height > 0
          PROVE  \E prev \in rows' : prev.height = row.height - 1 /\ prev.hash = row.prevHash
      <4>1. PICK prev \in rows : prev.height = row.height - 1 /\ prev.hash = row.prevHash
        BY <2>2, <3>1, <3>4 DEF Linked
      <4>2. row.height \in Nat /\ row.height < seen /\ seen \in Nat
        BY <1>2, <2>2 DEF Block
      <4>3. prev.height # seen
        BY <4>1, <4>2
      <4> QED
        BY <2>3, <4>1, <4>3
    <3> QED
      BY <3>2, <3>3, <3>4 DEF Linked
  <2> QED
    BY <2>1, <2>4, <2>5 DEF Sound
<1> QED
  BY <1>3, <1>4, <1>5, <1>6 DEF IInv

LEMMA ReplaceInsertStep == ASSUME IInv, ReplaceInsert PROVE IInv'
<1> DEFINE block == job["io"].block
<1>1. /\ pc["io"] = "reinsert"
      /\ UNCHANGED <<rewards, target, mining, mined, clashed, crashes>>
      /\ parted' \subseteq parted \cup Parting("io")
      /\ \/ Insertable(rows, block) /\ rows' = rows \cup {block} /\ pc' = [pc EXCEPT !["io"] = "join"] /\ job' = job
         \/ rows' = rows /\ pc' = [pc EXCEPT !["io"] = "idle"] /\ job' = [job EXCEPT !["io"] = NoJob]
  BY DEF IInv, TypeOK, ReplaceInsert
<1>2. block \in mined \ {Genesis} /\ block \in Block
  BY <1>1 DEF IInv, TypeOK, Jobs, IoJob
<1>3. TypeOK'
  <2>1. Parting("io") \subseteq Part
    BY <1>2 DEF Parting, Part, Block
  <2> QED
    BY <1>1, <1>2, <2>1 DEF IInv, TypeOK, Point, Job, NoJob
<1>4. Stored'
  <2>1. IsFiniteSet(rows \cup {block})
    BY FS_AddElement DEF IInv, Stored, TableOK
  <2> QED
    BY <1>1, <1>2, <2>1 DEF IInv, Stored, WellMined, TableOK
<1>5. Jobs'
  BY <1>1, <1>2 DEF IInv, TypeOK, Jobs, Points, IoPoint, MinerPoint, IoJob, MinerJob, AboveSeen
<1>6. Sound'
  <2>1. LastBlockThere' /\ ReadyToWrite'
    BY <1>1 DEF IInv, TypeOK, Sound, LastBlockThere, ReadyToWrite, ParentThere
  <2>2. ASSUME ~clashed, Insertable(rows, block) PROVE Linked(rows \cup {block})
    <3>1. PICK prev \in rows : IsParent(prev, block)
      BY <1>1, <2>2 DEF IInv, Sound, ReadyToWrite, ParentThere
    <3>2. Linked(rows)
      BY <2>2 DEF IInv, Sound, ChainLinked
    <3> HIDE DEF block
    <3> QED
      BY <2>2, <3>1, <3>2 DEF Linked, Insertable, IsParent
  <2>3. ChainLinked'
    BY <1>1, <2>2 DEF IInv, Sound, ChainLinked
  <2> QED
    BY <2>1, <2>3 DEF Sound
<1> QED
  BY <1>3, <1>4, <1>5, <1>6 DEF IInv

\* The block of the mining thread rests on the row it has read, or on none.
LEMMA ReadTipStep == ASSUME IInv, ReadTip PROVE IInv'
<1>0. PICK prev \in rows \cup {[height |-> -1, hash |-> NoHash]} :
        /\ pc' = [pc EXCEPT !["miner"] = "nonce"]
        /\ job' = [job EXCEPT !["miner"].block =
                     [height |-> prev.height + 1, hash |-> NoHash, prevHash |-> prev.hash, minedBy |-> Self]]
  BY DEF ReadTip, getBlockByHeight
<1> DEFINE block == [height |-> prev.height + 1, hash |-> NoHash, prevHash |-> prev.hash, minedBy |-> Self]
<1>1. UNCHANGED <<rows, rewards, target, mining, mined, clashed, parted, crashes>> /\ pc["miner"] = "tip"
  BY DEF ReadTip
<1>2. block \in Draft /\ block.minedBy = Self /\ (block.height = 0 \/ \E parent \in mined : IsParent(parent, block))
  <2>1. CASE prev \in rows
    <3>1. prev \in mined /\ prev.height \in Nat /\ prev.hash \in Hash
      BY <2>1 DEF IInv, TypeOK, Stored, TableOK, Block
    <3> QED
      BY <3>1 DEF Draft, IsParent
  <2>2. CASE prev = [height |-> -1, hash |-> NoHash]
    <3>1. prev.height + 1 = 0 /\ prev.hash = NoHash
      BY <2>2
    <3> QED
      BY <3>1 DEF Draft
  <2> QED
    BY <1>0, <2>1, <2>2
<1>3. job'["io"] = job["io"] /\ job'["miner"].block = block /\ pc'["io"] = pc["io"] /\ pc'["miner"] = "nonce"
  BY <1>0 DEF IInv, TypeOK, Job
<1>4. TypeOK'
  <2>1. [job["miner"] EXCEPT !.block = block] \in Job
    <3> HIDE DEF block
    <3> QED
      BY <1>2 DEF IInv, TypeOK, Job
  <2>2. job' = [job EXCEPT !["miner"] = [job["miner"] EXCEPT !.block = block]]
    BY <1>0 DEF IInv, TypeOK
  <2> HIDE DEF block
  <2> QED
    BY <1>0, <1>1, <2>1, <2>2 DEF IInv, TypeOK, Point
<1> HIDE DEF block
<1>5. Stored'
  BY <1>1 DEF IInv, Stored, WellMined, TableOK
<1>6. Jobs'
  BY <1>1, <1>2, <1>3 DEF IInv, Jobs, Points, MinerPoint, IoJob, MinerJob, AboveSeen
<1>7. Sound'
  BY <1>1, <1>3 DEF IInv, Sound, LastBlockThere, ReadyToWrite, ParentThere, ChainLinked
<1> QED
  BY <1>4, <1>5, <1>6, <1>7 DEF IInv

\* A nonce gives the block a hash of its own.
LEMMA NonceStep == ASSUME IInv, Nonce PROVE IInv'
<1>0. PICK hash \in Fresh :
        /\ pc' = [pc EXCEPT !["miner"] = "height"]
        /\ job' = [job EXCEPT !["miner"] = [job["miner"] EXCEPT !.block.hash = hash]]
  BY DEF Nonce
<1> DEFINE old == job["miner"].block
           block == [old EXCEPT !.hash = hash]
<1>1. UNCHANGED <<rows, rewards, target, mining, mined, clashed, parted, crashes>> /\ pc["miner"] = "nonce"
  BY DEF Nonce
<1>2. old \in Draft /\ (old.height = 0 \/ \E parent \in mined : IsParent(parent, old))
  BY <1>1 DEF IInv, Jobs, MinerJob
<1>3. hash \in Hash /\ \A b \in mined : b.hash # hash
  BY DEF Fresh
<1>4. /\ block \in Block /\ block.hash = hash /\ block.minedBy = Self
      /\ block.height = old.height /\ block.prevHash = old.prevHash
  BY <1>2, <1>3 DEF Draft, Block
<1>5. block.height = 0 \/ \E parent \in mined : IsParent(parent, block)
  BY <1>2, <1>4 DEF IsParent
<1>6. /\ [job["miner"] EXCEPT !.block.hash = hash] \in Job
      /\ [job["miner"] EXCEPT !.block.hash = hash].block = block
  <2>1. [job["miner"] EXCEPT !.block.hash = hash] = [job["miner"] EXCEPT !.block = block]
    BY DEF IInv, TypeOK, Job
  <2> HIDE DEF block
  <2> QED
    BY <1>4, <2>1 DEF IInv, TypeOK, Job
<1>7. job'["io"] = job["io"] /\ job'["miner"].block = block /\ pc'["io"] = pc["io"] /\ pc'["miner"] = "height"
  BY <1>0, <1>6 DEF IInv, TypeOK
<1> HIDE DEF block
<1>8. TypeOK'
  BY <1>0, <1>1, <1>6 DEF IInv, TypeOK, Point
<1>9. Stored'
  BY <1>1 DEF IInv, Stored, WellMined, TableOK
<1>10. Jobs'
  BY <1>1, <1>3, <1>4, <1>5, <1>7 DEF IInv, Jobs, Points, MinerPoint, IoJob, MinerJob, AboveSeen
<1>11. Sound'
  BY <1>1, <1>7 DEF IInv, Sound, LastBlockThere, ReadyToWrite, ParentThere, ChainLinked
<1> QED
  BY <1>8, <1>9, <1>10, <1>11 DEF IInv

LEMMA CrashStep == ASSUME IInv, Crash PROVE IInv'
<1>1. TypeOK'
  <2>1. NoJob \in Job /\ crashes' \in 0..MaxCrashes
    BY NameAssumption DEF IInv, TypeOK, NoJob, Job, Crash
  <2>2. {mining', clashed'} \subseteq BOOLEAN
    BY DEF IInv, TypeOK, Crash
  <2>3. parted' \in SUBSET Part
    <3>1. pc["io"] = "forget" => job["io"].seen \in Nat
      BY DEF IInv, TypeOK, Job
    <3>2. pc["miner"] = "coinbase" => job["miner"].block.height \in Nat
      BY DEF IInv, Jobs, MinerJob, Block
    <3> QED
      BY <3>1, <3>2 DEF IInv, TypeOK, Part, Crash
  <2> QED
    BY <2>1, <2>2, <2>3 DEF IInv, TypeOK, Point, Crash
<1>2. Stored'
  BY DEF IInv, Stored, WellMined, TableOK, Crash
<1>3. Jobs'
  BY DEF IInv, Jobs, Points, IoPoint, MinerPoint, IoJob, MinerJob, AboveSeen, Crash
<1>4. Sound'
  BY DEF IInv, Sound, LastBlockThere, ReadyToWrite, ChainLinked, Crash
<1> QED
  BY <1>1, <1>2, <1>3, <1>4 DEF IInv

LEMMA ReadLastStep == ASSUME IInv, ReadLast PROVE IInv'
<1>1. TypeOK'
  BY DEF IInv, TypeOK, Point, Job, NoJob, ReadLast
<1>2. Stored'
  BY DEF IInv, Stored, WellMined, TableOK, ReadLast
<1>3. Jobs'
  BY DEF IInv, TypeOK, Job, NoJob, Jobs, Points, IoPoint, MinerPoint, IoJob, MinerJob, AboveSeen, ReadLast
<1>4. Sound'
  BY DEF IInv, TypeOK, Job, NoJob, Sound, LastBlockThere, ReadyToWrite, ParentThere, ChainLinked, ReadLast
<1> QED
  BY <1>1, <1>2, <1>3, <1>4 DEF IInv

LEMMA ReplaceReadHeightStep == ASSUME IInv, ReplaceReadHeight PROVE IInv'
<1>0. getLatestHeight(rows) \in Nat
  BY TopRow DEF IInv, Stored
<1>1. TypeOK'
  BY <1>0 DEF IInv, TypeOK, Point, Job, NoJob, ReplaceReadHeight
<1>2. Stored'
  BY DEF IInv, Stored, WellMined, TableOK, ReplaceReadHeight
<1>3. Jobs'
  BY <1>0 DEF IInv, TypeOK, Job, NoJob, Jobs, Points, IoPoint, MinerPoint, IoJob, MinerJob, AboveSeen, ReplaceReadHeight
<1>4. Sound'
  BY <1>0 DEF IInv, TypeOK, Job, NoJob, Sound, LastBlockThere, ReadyToWrite, ParentThere, ChainLinked, ReplaceReadHeight
<1> QED
  BY <1>1, <1>2, <1>3, <1>4 DEF IInv

LEMMA ReplaceForgetStep == ASSUME IInv, ReplaceForget PROVE IInv'
<1>1. TypeOK'
  BY DEF IInv, TypeOK, Point, Job, NoJob, ReplaceForget
<1>2. Stored'
  BY DEF IInv, Stored, WellMined, TableOK, ReplaceForget
<1>3. Jobs'
  BY DEF IInv, TypeOK, Job, NoJob, Jobs, Points, IoPoint, MinerPoint, IoJob, MinerJob, AboveSeen, ReplaceForget
<1>4. Sound'
  BY DEF IInv, TypeOK, Job, NoJob, Sound, LastBlockThere, ReadyToWrite, ParentThere, ChainLinked, ReplaceForget
<1> QED
  BY <1>1, <1>2, <1>3, <1>4 DEF IInv

LEMMA StopMinerStep == ASSUME IInv, StopMiner PROVE IInv'
<1>1. TypeOK'
  BY DEF IInv, TypeOK, Point, Job, NoJob, StopMiner
<1>2. Stored'
  BY DEF IInv, Stored, WellMined, TableOK, StopMiner
<1>3. Jobs'
  BY DEF IInv, TypeOK, Job, NoJob, Jobs, Points, IoPoint, MinerPoint, IoJob, MinerJob, AboveSeen, StopMiner
<1>4. Sound'
  BY DEF IInv, TypeOK, Job, NoJob, Sound, LastBlockThere, ReadyToWrite, ParentThere, ChainLinked, StopMiner
<1> QED
  BY <1>1, <1>2, <1>3, <1>4 DEF IInv

LEMMA JoinStep == ASSUME IInv, Join PROVE IInv'
<1>1. TypeOK'
  BY DEF IInv, TypeOK, Point, Job, NoJob, Join
<1>2. Stored'
  BY DEF IInv, Stored, WellMined, TableOK, Join
<1>3. Jobs'
  BY DEF IInv, TypeOK, Job, NoJob, Jobs, Points, IoPoint, MinerPoint, IoJob, MinerJob, AboveSeen, Join
<1>4. Sound'
  BY DEF IInv, TypeOK, Job, NoJob, Sound, LastBlockThere, ReadyToWrite, ParentThere, ChainLinked, Join
<1> QED
  BY <1>1, <1>2, <1>3, <1>4 DEF IInv

LEMMA RoundStep == ASSUME IInv, Round PROVE IInv'
<1>0. getLatestHeight(rows) \in Nat
  BY TopRow DEF IInv, Stored
<1>1. TypeOK'
  BY <1>0 DEF IInv, TypeOK, Point, Job, NoJob, Round
<1>2. Stored'
  BY DEF IInv, Stored, WellMined, TableOK, Round
<1>3. Jobs'
  BY <1>0 DEF IInv, TypeOK, Job, NoJob, Jobs, Points, IoPoint, MinerPoint, IoJob, MinerJob, AboveSeen, Round
<1>4. Sound'
  BY <1>0 DEF IInv, TypeOK, Job, NoJob, Sound, LastBlockThere, ReadyToWrite, ParentThere, ChainLinked, Round
<1> QED
  BY <1>1, <1>2, <1>3, <1>4 DEF IInv

LEMMA ReadLatestStep == ASSUME IInv, ReadLatest PROVE IInv'
<1>0. getLatestHeight(rows) \in Nat
  BY TopRow DEF IInv, Stored
<1>1. TypeOK'
  BY <1>0 DEF IInv, TypeOK, Point, Job, NoJob, ReadLatest
<1>2. Stored'
  BY DEF IInv, Stored, WellMined, TableOK, ReadLatest
<1>3. Jobs'
  BY <1>0 DEF IInv, TypeOK, Job, NoJob, Jobs, Points, IoPoint, MinerPoint, IoJob, MinerJob, AboveSeen, ReadLatest
<1>4. Sound'
  BY <1>0 DEF IInv, TypeOK, Job, NoJob, Sound, LastBlockThere, ReadyToWrite, ParentThere, ChainLinked, ReadLatest
<1> QED
  BY <1>1, <1>2, <1>3, <1>4 DEF IInv

LEMMA GiveUpStep == ASSUME IInv, GiveUp PROVE IInv'
<1>1. TypeOK'
  BY DEF IInv, TypeOK, Point, Job, NoJob, GiveUp
<1>2. Stored'
  BY DEF IInv, Stored, WellMined, TableOK, GiveUp
<1>3. Jobs'
  BY DEF IInv, TypeOK, Job, NoJob, Jobs, Points, IoPoint, MinerPoint, IoJob, MinerJob, AboveSeen, GiveUp
<1>4. Sound'
  BY DEF IInv, TypeOK, Job, NoJob, Sound, LastBlockThere, ReadyToWrite, ParentThere, ChainLinked, GiveUp
<1> QED
  BY <1>1, <1>2, <1>3, <1>4 DEF IInv

LEMMA LeaveLoopStep == ASSUME IInv, LeaveLoop PROVE IInv'
<1>1. TypeOK'
  BY DEF IInv, TypeOK, Point, Job, NoJob, LeaveLoop
<1>2. Stored'
  BY DEF IInv, Stored, WellMined, TableOK, LeaveLoop
<1>3. Jobs'
  BY DEF IInv, TypeOK, Job, NoJob, Jobs, Points, IoPoint, MinerPoint, IoJob, MinerJob, AboveSeen, LeaveLoop
<1>4. Sound'
  BY DEF IInv, TypeOK, Job, NoJob, Sound, LastBlockThere, ReadyToWrite, ParentThere, ChainLinked, LeaveLoop
<1> QED
  BY <1>1, <1>2, <1>3, <1>4 DEF IInv

LEMMA NextIInv == IInv /\ [Next]_vars => IInv'
<1> SUFFICES ASSUME IInv, [Next]_vars PROVE IInv'
  OBVIOUS
<1>1. ASSUME NEW t \in Thread, AddBlock(t) PROVE IInv'
  BY <1>1, AddReadHeightStep, AddReadParentStep, AddInsertStep DEF AddBlock
<1>2. CASE IoStep
  BY <1>1, <1>2, ReadLastStep, ReplaceReadHeightStep, ReplaceReadOldStep, ReplaceDeleteStep, ReplaceForgetStep,
     ReplaceInsertStep, StopMinerStep, JoinStep DEF IoStep
<1>3. CASE MinerStep
  BY <1>1, <1>3, RoundStep, ReadLatestStep, ReadTipStep, NonceStep, GiveUpStep, AddCoinbaseStep, LeaveLoopStep
     DEF MinerStep
<1>4. CASE Receive \/ Crash
  BY <1>4, ReceiveStep, CrashStep
<1>5. CASE UNCHANGED vars
  BY <1>5 DEF vars, IInv, TypeOK, Stored, WellMined, TableOK, Jobs, Points, IoJob, MinerJob, AboveSeen,
              Sound, LastBlockThere, ReadyToWrite, ParentThere, ChainLinked
<1> QED
  BY <1>2, <1>3, <1>4, <1>5 DEF Next

-----------------------------------------------------------------------------
(* Blocks and coinbases. *)

\* Most statements touch neither table: what was excepted is excepted still.
LEMMA AccountsKept ==
  ASSUME Accounts, rows' = rows, rewards' = rewards, parted' = parted, clashed' = clashed,
         pc'["io"] = "forget" => pc["io"] = "forget",
         pc["io"] = "forget" => pc'["io"] = "forget" /\ job'["io"] = job["io"],
         pc["miner"] = "coinbase" => pc'["miner"] = "coinbase" /\ job'["miner"] = job["miner"]
  PROVE  Accounts'
BY DEF Accounts, PaidForOwnBlocks, OwnBlocksPaid, Emptied, PartedAt

LEMMA AddInsertAccounts ==
  ASSUME IInv, Accounts, NEW t \in Thread, AddInsert(t)
  PROVE  Accounts'
<1> DEFINE block == job[t].block
<1>0. pc[t] = "insert" /\ (t = "io" \/ t = "miner")
  BY DEF AddInsert
<1>1. CASE Insertable(rows, block)
  <2>1. /\ rows' = rows \cup {block} /\ parted' = parted \cup Parting(t)
        /\ pc' = [pc EXCEPT ![t] = IF t = "miner" THEN "coinbase" ELSE job[t].then]
        /\ job' = job /\ rewards' = rewards /\ clashed' = clashed
    BY <1>1 DEF IInv, TypeOK, AddInsert
  <2>2. parted \subseteq parted'
    BY <2>1
  <2>3. PaidForOwnBlocks'
    <3> SUFFICES ASSUME ~clashed', NEW h \in rewards'
                 PROVE  \/ \E row \in rows' : row.height = h /\ row.minedBy = Self
                        \/ pc'["io"] = "forget" /\ job'["io"].seen = h
                        \/ PartedAt(h, {"crash"})'
      BY DEF PaidForOwnBlocks
    <3>1. CASE \E row \in rows : row.height = h /\ row.minedBy = Self
      BY <2>1, <3>1
    <3>2. CASE pc["io"] = "forget" /\ job["io"].seen = h
      BY <1>0, <2>1, <3>2 DEF IInv, TypeOK
    <3>3. CASE PartedAt(h, {"crash"})
      BY <2>2, <3>3 DEF PartedAt
    <3> QED
      BY <2>1, <3>1, <3>2, <3>3 DEF Accounts, PaidForOwnBlocks
  <2>4. OwnBlocksPaid'
    <3> SUFFICES ASSUME NEW row \in rows', row.minedBy = Self
                 PROVE  \/ row.height \in rewards'
                        \/ pc'["miner"] = "coinbase" /\ job'["miner"].block = row
                        \/ PartedAt(row.height, {"crash", "between", "return"})'
      BY DEF OwnBlocksPaid
    <3>1. CASE row \in rows
      <4>1. pc["miner"] = "coinbase" => pc'["miner"] = "coinbase" /\ job' = job
        BY <1>0, <2>1 DEF IInv, TypeOK
      <4> QED
        BY <2>1, <2>2, <3>1, <4>1 DEF Accounts, OwnBlocksPaid, PartedAt
    <3>2. CASE row = block /\ t = "miner"
      BY <2>1, <3>2 DEF IInv, TypeOK
    <3>3. CASE row = block /\ t = "io"
      <4>1. [height |-> block.height, by |-> "return"] \in parted'
        BY <2>1, <3>3 DEF Parting
      <4> QED
        BY <3>3, <4>1 DEF PartedAt
    <3> QED
      BY <1>0, <2>1, <3>1, <3>2, <3>3
  <2>5. Emptied'
    <3> SUFFICES ASSUME pc'["io"] = "forget", NEW row \in rows', row.height = job'["io"].seen
                 PROVE  PartedAt(row.height, {"between"})'
      BY DEF Emptied
    <3>1. t = "miner" /\ pc["io"] = "forget"
      BY <1>0, <2>1 DEF IInv, TypeOK, Job
    <3>2. CASE row \in rows
      BY <2>1, <2>2, <3>1, <3>2 DEF Accounts, Emptied, PartedAt
    <3>3. CASE row = block
      <4>1. [height |-> block.height, by |-> "between"] \in parted'
        BY <2>1, <3>1, <3>3 DEF Parting
      <4> QED
        BY <3>3, <4>1 DEF PartedAt
    <3> QED
      BY <2>1, <3>2, <3>3
  <2> QED
    BY <2>3, <2>4, <2>5 DEF Accounts
<1>2. CASE ~Insertable(rows, block)
  BY <1>0, <1>2, AccountsKept DEF IInv, TypeOK, AddInsert
<1> QED
  BY <1>1, <1>2

\* The coinbase is that of the block the thread has just stored.
LEMMA AddCoinbaseAccounts == ASSUME IInv, Accounts, AddCoinbase("miner") PROVE Accounts'
<1> DEFINE block == job["miner"].block
<1>1. /\ rewards' = rewards \cup {block.height}
      /\ pc'["io"] = pc["io"] /\ job'["io"] = job["io"]
      /\ UNCHANGED <<rows, clashed, parted>>
  BY DEF IInv, TypeOK, AddCoinbase
<1>2. block.minedBy = Self /\ (~clashed => block \in rows)
  BY DEF IInv, Jobs, MinerJob, Sound, ReadyToWrite, AddCoinbase
<1>3. PaidForOwnBlocks'
  BY <1>1, <1>2 DEF Accounts, PaidForOwnBlocks, PartedAt
<1>4. OwnBlocksPaid'
  BY <1>1 DEF Accounts, OwnBlocksPaid, PartedAt
<1>5. Emptied'
  BY <1>1 DEF Accounts, Emptied, PartedAt
<1> QED
  BY <1>3, <1>4, <1>5 DEF Accounts

\* The first DELETE leaves no row of its height, and the coinbase there to the second.
LEMMA ReplaceDeleteAccounts == ASSUME IInv, Accounts, ReplaceDelete PROVE Accounts'
<1> DEFINE seen == job["io"].seen
<1>1. /\ \A row : row \in rows' <=> row \in rows /\ row.height # seen
      /\ parted' = {part \in parted : part.height = seen => part.by = "crash"}
      /\ pc["io"] = "delete" /\ pc'["io"] = "forget" /\ job' = job
      /\ pc'["miner"] = pc["miner"] /\ rewards' = rewards
      /\ clashed' \in BOOLEAN /\ (clashed => clashed')
  BY DEF IInv, TypeOK, ReplaceDelete, getBlockByHeight
<1>2. \A h, ways : h # seen /\ PartedAt(h, ways) => PartedAt(h, ways)'
  BY <1>1 DEF PartedAt
<1>3. \A h : PartedAt(h, {"crash"}) => PartedAt(h, {"crash"})'
  BY <1>1 DEF PartedAt
<1>4. PaidForOwnBlocks'
  BY <1>1, <1>3 DEF Accounts, PaidForOwnBlocks
<1>5. OwnBlocksPaid'
  BY <1>1, <1>2 DEF Accounts, OwnBlocksPaid
<1>6. Emptied'
  BY <1>1 DEF Emptied
<1> QED
  BY <1>4, <1>5, <1>6 DEF Accounts

\* The second one takes the coinbase of the block that is gone, or that of a block
\* which the mining thread has stored there since.
LEMMA ReplaceForgetAccounts == ASSUME IInv, Accounts, ReplaceForget PROVE Accounts'
<1> DEFINE seen == job["io"].seen
<1>1. /\ rewards' = rewards \ {seen} /\ rows' = rows /\ clashed' = clashed
      /\ parted' = {part \in parted : part.height = seen => part.by = "between"}
      /\ pc["io"] = "forget" /\ pc'["io"] = "reinsert"
      /\ pc'["miner"] = pc["miner"] /\ job' = job
  BY DEF IInv, TypeOK, ReplaceForget
<1>2. \A h, ways : h # seen /\ PartedAt(h, ways) => PartedAt(h, ways)'
  BY <1>1 DEF PartedAt
<1>3. \A h : PartedAt(h, {"between"}) => PartedAt(h, {"crash", "between", "return"})'
  BY <1>1 DEF PartedAt
<1>4. PaidForOwnBlocks'
  BY <1>1, <1>2 DEF Accounts, PaidForOwnBlocks
<1>5. OwnBlocksPaid'
  <2> SUFFICES ASSUME NEW row \in rows, row.minedBy = Self
               PROVE  \/ row.height \in rewards'
                      \/ pc'["miner"] = "coinbase" /\ job'["miner"].block = row
                      \/ PartedAt(row.height, {"crash", "between", "return"})'
    BY <1>1 DEF OwnBlocksPaid
  <2>1. CASE row.height = seen
    BY <1>1, <1>3, <2>1 DEF Accounts, Emptied
  <2>2. CASE row.height # seen
    BY <1>1, <1>2, <2>2 DEF Accounts, OwnBlocksPaid
  <2> QED
    BY <2>1, <2>2
<1>6. Emptied'
  BY <1>1 DEF Emptied
<1> QED
  BY <1>4, <1>5, <1>6 DEF Accounts

LEMMA ReplaceInsertAccounts == ASSUME IInv, Accounts, ReplaceInsert PROVE Accounts'
<1> DEFINE block == job["io"].block
<1>1. CASE Insertable(rows, block)
  <2>1. /\ rows' = rows \cup {block} /\ parted' = parted \cup Parting("io")
        /\ pc["io"] = "reinsert" /\ pc'["io"] = "join" /\ pc'["miner"] = pc["miner"]
        /\ job' = job /\ rewards' = rewards /\ clashed' = clashed
    BY <1>1 DEF IInv, TypeOK, ReplaceInsert
  <2>2. \A h, ways : PartedAt(h, ways) => PartedAt(h, ways)'
    BY <2>1 DEF PartedAt
  <2>3. ASSUME block.minedBy = Self, NEW h, h = block.height
        PROVE  PartedAt(h, {"crash", "between", "return"})'
    <3>1. [height |-> block.height, by |-> "return"] \in parted'
      BY <2>1, <2>3 DEF Parting
    <3> QED
      BY <2>3, <3>1 DEF PartedAt
  <2>4. PaidForOwnBlocks'
    BY <2>1, <2>2 DEF Accounts, PaidForOwnBlocks
  <2>5. OwnBlocksPaid'
    <3> SUFFICES ASSUME NEW row \in rows', row.minedBy = Self
                 PROVE  \/ row.height \in rewards'
                        \/ pc'["miner"] = "coinbase" /\ job'["miner"].block = row
                        \/ PartedAt(row.height, {"crash", "between", "return"})'
      BY DEF OwnBlocksPaid
    <3>1. CASE row \in rows
      BY <2>1, <2>2, <3>1 DEF Accounts, OwnBlocksPaid
    <3>2. CASE row = block
      BY <2>3, <3>2
    <3> QED
      BY <2>1, <3>1, <3>2
  <2>6. Emptied'
    BY <2>1 DEF Emptied
  <2> QED
    BY <2>4, <2>5, <2>6 DEF Accounts
<1>2. CASE ~Insertable(rows, block)
  BY <1>2, AccountsKept DEF IInv, TypeOK, ReplaceInsert
<1> QED
  BY <1>1, <1>2

\* What a crash cuts short is noted.
LEMMA CrashAccounts == ASSUME IInv, Accounts, Crash PROVE Accounts'
<1>1. /\ UNCHANGED <<rows, rewards, clashed>> /\ parted \subseteq parted'
      /\ pc["io"] = "forget" => [height |-> job["io"].seen, by |-> "crash"] \in parted'
      /\ pc["miner"] = "coinbase" => [height |-> job["miner"].block.height, by |-> "crash"] \in parted'
      /\ pc'["io"] = "idle"
  BY DEF Crash
<1>2. \A h, ways : PartedAt(h, ways) => PartedAt(h, ways)'
  BY <1>1 DEF PartedAt
<1>3. \A h : pc["io"] = "forget" /\ job["io"].seen = h => PartedAt(h, {"crash"})'
  BY <1>1 DEF PartedAt
<1>4. \A h : pc["miner"] = "coinbase" /\ job["miner"].block.height = h
        => PartedAt(h, {"crash", "between", "return"})'
  BY <1>1 DEF PartedAt
<1>5. PaidForOwnBlocks'
  BY <1>1, <1>2, <1>3 DEF Accounts, PaidForOwnBlocks
<1>6. OwnBlocksPaid'
  BY <1>1, <1>2, <1>4 DEF Accounts, OwnBlocksPaid
<1>7. Emptied'
  BY <1>1 DEF Emptied
<1> QED
  BY <1>5, <1>6, <1>7 DEF Accounts

LEMMA NextAccounts == IInv /\ Accounts /\ [Next]_vars => Accounts'
<1> SUFFICES ASSUME IInv, Accounts, [Next]_vars PROVE Accounts'
  OBVIOUS
<1>1. ASSUME NEW t \in Thread, AddReadHeight(t) \/ AddReadParent(t) PROVE Accounts'
  BY <1>1, AccountsKept DEF IInv, TypeOK, AddReadHeight, AddReadParent
<1>2. ASSUME NEW t \in Thread, AddBlock(t) PROVE Accounts'
  BY <1>1, <1>2, AddInsertAccounts DEF AddBlock
<1>3. CASE Receive
  BY <1>3, AccountsKept DEF IInv, TypeOK, Receive
<1>4. CASE ReadLast \/ ReplaceReadHeight \/ ReplaceReadOld
  BY <1>4, AccountsKept DEF IInv, TypeOK, ReadLast, ReplaceReadHeight, ReplaceReadOld
<1>5. CASE StopMiner \/ Join
  BY <1>5, AccountsKept DEF IInv, TypeOK, StopMiner, Join
<1>6. CASE IoStep
  BY <1>2, <1>4, <1>5, <1>6, ReplaceDeleteAccounts, ReplaceForgetAccounts, ReplaceInsertAccounts DEF IoStep
<1>7. CASE Round \/ ReadLatest \/ ReadTip
  BY <1>7, AccountsKept DEF IInv, TypeOK, Round, ReadLatest, ReadTip
<1>8. CASE Nonce \/ GiveUp \/ LeaveLoop
  BY <1>8, AccountsKept DEF IInv, TypeOK, Nonce, GiveUp, LeaveLoop
<1>9. CASE MinerStep
  BY <1>2, <1>7, <1>8, <1>9, AddCoinbaseAccounts DEF MinerStep
<1>10. CASE UNCHANGED vars
  BY <1>10, AccountsKept DEF vars
<1> QED
  BY <1>3, <1>6, <1>9, <1>10, CrashAccounts DEF Next

LEMMA Invariance == Spec => [](IInv /\ Accounts)
<1>1. GenesisMiner # Self
  <2> SUFFICES ASSUME GenesisMiner = Self PROVE FALSE
    OBVIOUS
  <2>1. {GenesisMiner, Self, Others} = {Self} \cup {Others}
    OBVIOUS
  <2>2. IsFiniteSet({Self}) /\ Cardinality({Self}) = 1
    BY FS_Singleton
  <2>3. Cardinality({Self} \cup {Others}) \in {1, 2}
    BY <2>2, FS_AddElement
  <2> QED
    BY <2>1, <2>3, NameAssumption
<1>2. Init => Accounts
  BY <1>1 DEF Init, Accounts, PaidForOwnBlocks, OwnBlocksPaid, Emptied, Genesis
<1> QED
  BY <1>2, InitIInv, NextIInv, NextAccounts, PTL DEF Spec

-----------------------------------------------------------------------------
(* Theorems. *)

\* The table, the coinbase rows and what the threads hold of them keep their types.
THEOREM TypeCorrect == Spec => []TypeOK
<1>1. IInv => TypeOK
  BY DEF IInv
<1> QED
  BY <1>1, Invariance, PTL

\* However the statements of the two threads interleave, and wherever the process ends,
\* the table is one unbroken chain, unless a replaceLastBlock has clashed: the UNIQUE
\* columns make up for addBlock's missing transaction.
THEOREM ChainStaysLinked == Spec => []ChainLinked
<1>1. IInv => ChainLinked
  BY DEF IInv, Sound
<1> QED
  BY <1>1, Invariance, PTL

\* No coinbase without its block: unless a replaceLastBlock has clashed, every coinbase
\* row is that of a block of this node in the table, but for the moment between the two
\* DELETEs of replaceLastBlock and for the heights where the process has ended there.
THEOREM OnlyOwnBlocksPaid == Spec => []PaidForOwnBlocks
<1>1. Accounts => PaidForOwnBlocks
  BY DEF Accounts
<1> QED
  BY <1>1, Invariance, PTL

\* No block without its coinbase, clash or not: a block of this node in the table has its
\* coinbase row, but for the four cases the property names.
THEOREM OwnBlocksArePaid == Spec => []OwnBlocksPaid
<1>1. Accounts => OwnBlocksPaid
  BY DEF Accounts
<1> QED
  BY <1>1, Invariance, PTL

\* NEW_BLOCK's use of last_block is safe: the row of the height that was read is there,
\* clash or not, because only the io thread deletes rows.
THEOREM LastBlockIsThere == Spec => []LastBlockThere
<1>1. IInv => LastBlockThere
  BY DEF IInv, Sound
<1> QED
  BY <1>1, Invariance, PTL
=============================================================================
