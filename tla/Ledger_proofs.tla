---------------------------- MODULE Ledger_proofs ----------------------------
(***************************************************************************)
(* Proofs about Ledger, for any transactions, addresses, funds and limits. *)
(* The inductive invariant says that every transaction the node still has  *)
(* to do with has its row, and that this row is pending.  So the INSERTs   *)
(* of a mined block add nothing (SameRows), and the block that             *)
(* replaceLastBlock deletes gives no transaction back (NoneReturned):      *)
(* that is what run returned shows on an instance.  It also says that the  *)
(* entries of the index are at most PoolLimit, in one order (Limited): so  *)
(* addTransaction never cuts off more than one, the last.                  *)
(***************************************************************************)
EXTENDS Ledger, FiniteSetTheorems, WellFoundedInduction, TLAPS

HasRow(tx) == \E row \in rows : row.tx = tx

RowsStayPending == \A row \in rows : row.height = -1

Booked ==
  /\ \A tx \in mempool : HasRow(tx)
  /\ candidate # None => \A tx \in candidate.txs : HasRow(tx)

Finite == IsFiniteSet(index) /\ (candidate # None => IsFiniteSet(candidate.txs))

Below == \A row \in included : row.height <= height

Ordered(S) == \A e, f \in S : e = f \/ Before(e, f) \/ Before(f, e)

Limited == Ordered(index) /\ Cardinality(index) <= PoolLimit

IInv == TypeOK /\ Finite /\ Limited /\ RowsStayPending /\ Booked /\ Below /\ IndexedFunded

-----------------------------------------------------------------------------
(* The loops over sets of transactions. *)

\* replaceLastBlock hands transactions to addTransaction, addBlock writes their rows.
Returned(base, now, paid, T) == FoldSet(LAMBDA tx, s : AddTransaction(s, tx, now, paid), base, T)
WithRows(table, h, T) == FoldSet(LAMBDA tx, t : InsertRow(t, tx, h), table, T)

\* A loop over nothing.
LEMMA NoneReturned ==
  ASSUME NEW base, NEW now, NEW paid
  PROVE  Returned(base, now, paid, {}) = base
<1> DEFINE G(f) == [s \in SUBSET {} |->
                      IF s = {} THEN base
                      ELSE LET x == CHOOSE x \in s : TRUE IN AddTransaction(f[s \ {x}], x, now, paid)]
           g == CHOOSE f : f = G(f)
<1>1. \E f : f = G(f)
  <2> DEFINE f == [s \in SUBSET {} |-> base]
  <2>1. f = G(f)
    OBVIOUS
  <2> QED
    BY <2>1
<1>2. g = G(g)
  BY <1>1
<1>3. g[{}] = base
  BY <1>2
<1>4. Returned(base, now, paid, {}) = g[{}]
  BY DEF Returned, FoldSet, MapThenFoldSet
<1> QED
  BY <1>3, <1>4

\* INSERTs of transactions that have their rows.
LEMMA SameRows ==
  ASSUME NEW table, NEW T, IsFiniteSet(T), \A tx \in T : \E row \in table : row.tx = tx, NEW h
  PROVE  WithRows(table, h, T) = table
<1> DEFINE G(f) == [s \in SUBSET T |->
                      IF s = {} THEN table
                      ELSE LET x == CHOOSE x \in s : TRUE IN InsertRow(f[s \ {x}], x, h)]
           g == CHOOSE f : f = G(f)
<1>0. \A tx \in T : InsertRow(table, tx, h) = table
  BY DEF InsertRow
<1>1. \E f : f = G(f)
  <2> DEFINE f == [s \in SUBSET T |-> table]
  <2>1. ASSUME NEW s \in SUBSET T, s # {}
        PROVE  LET x == CHOOSE x \in s : TRUE IN InsertRow(f[s \ {x}], x, h) = table
    <3>1. (CHOOSE x \in s : TRUE) \in T
      BY <2>1
    <3> QED
      BY <1>0, <3>1
  <2>2. f = G(f)
    BY <2>1
  <2> QED
    BY <2>2
<1>2. g = G(g)
  BY <1>1
<1> HIDE DEF g
<1>3. ASSUME NEW s \in SUBSET T
      PROVE  s = {} => g[s] = table
  BY <1>2
<1>4. ASSUME NEW s \in SUBSET T, s # {}
      PROVE  \E x \in s : g[s] = InsertRow(g[s \ {x}], x, h)
  <2> DEFINE x == CHOOSE x \in s : TRUE
  <2>1. x \in s
    BY <1>4
  <2>2. g[s] = InsertRow(g[s \ {x}], x, h)
    BY <1>2, <1>4
  <2> QED
    BY <2>1, <2>2
<1>5. g[T] = table
  <2> DEFINE Changed == {s \in FiniteSubsetsOf(T) : g[s] # table}
  <2> SUFFICES ASSUME Changed # {} PROVE FALSE
    <3>1. T \in FiniteSubsetsOf(T)
      BY DEF FiniteSubsetsOf
    <3> QED
      BY <3>1
  <2>1. PICK s \in Changed : \A r \in Changed : <<r, s>> \notin StrictSubsetOrdering(T)
    <3>1. Changed \subseteq FiniteSubsetsOf(T)
      OBVIOUS
    <3> HIDE DEF Changed
    <3> QED
      BY <3>1, WFMin, FS_StrictSubsetOrderingWellFounded
  <2>2. s \subseteq T /\ IsFiniteSet(s) /\ g[s] # table
    BY DEF FiniteSubsetsOf
  <2>3. s # {}
    BY <1>3, <2>2
  <2>4. PICK x \in s : g[s] = InsertRow(g[s \ {x}], x, h)
    BY <1>4, <2>2, <2>3
  <2>5. s \ {x} \subseteq T /\ IsFiniteSet(s \ {x})
    BY <2>2, FS_Subset
  <2>6. <<s \ {x}, s>> \in StrictSubsetOrdering(T)
    BY <2>2, <2>5 DEF StrictSubsetOrdering
  <2>7. g[s \ {x}] = table
    BY <2>1, <2>5, <2>6 DEF FiniteSubsetsOf
  <2> QED
    BY <1>0, <2>2, <2>4, <2>7
<1>6. WithRows(table, h, T) = g[T]
  BY DEF WithRows, FoldSet, MapThenFoldSet, g
<1> QED
  BY <1>5, <1>6

-----------------------------------------------------------------------------
(* What addTransaction and cleanMempool do. *)

\* Of finitely many things in a strict order, one has none before it.
LEMMA Minimal ==
  ASSUME NEW S, IsFiniteSet(S), S # {}, NEW R,
         \A x \in S : <<x, x>> \notin R,
         \A x, y, z \in S : <<x, y>> \in R /\ <<y, z>> \in R => <<x, z>> \in R
  PROVE  \E x \in S : \A y \in S : <<y, x>> \notin R
<1> DEFINE HasFirst(T) == \E x \in T : \A y \in T : <<y, x>> \notin R
           Bad == {T \in FiniteSubsetsOf(S) : T # {} /\ ~HasFirst(T)}
<1> SUFFICES ASSUME Bad # {} PROVE FALSE
  <2>1. S \in FiniteSubsetsOf(S)
    BY DEF FiniteSubsetsOf
  <2> QED
    BY <2>1
<1>1. PICK T \in Bad : \A U \in Bad : <<U, T>> \notin StrictSubsetOrdering(S)
  <2>1. Bad \subseteq FiniteSubsetsOf(S)
    OBVIOUS
  <2> HIDE DEF Bad
  <2> QED
    BY <2>1, WFMin, FS_StrictSubsetOrderingWellFounded
<1>2. T \subseteq S /\ IsFiniteSet(T) /\ T # {} /\ ~HasFirst(T)
  BY DEF FiniteSubsetsOf
<1>3. PICK x \in T : TRUE
  BY <1>2
<1>4. IsFiniteSet(T \ {x}) /\ T \ {x} \subseteq S
  BY <1>2, FS_Subset
<1>5. <<T \ {x}, T>> \in StrictSubsetOrdering(S)
  BY <1>2, <1>3, <1>4 DEF StrictSubsetOrdering
<1>6. T \ {x} = {} \/ HasFirst(T \ {x})
  BY <1>1, <1>4, <1>5 DEF FiniteSubsetsOf
<1>7. CASE T \ {x} = {}
  <2>1. \A y \in T : <<y, x>> \notin R
    BY <1>2, <1>3, <1>7
  <2> QED
    BY <1>2, <1>3, <2>1
<1>8. CASE HasFirst(T \ {x})
  <2>1. PICK z \in T \ {x} : \A y \in T \ {x} : <<y, z>> \notin R
    BY <1>8
  <2>2. CASE <<x, z>> \notin R
    BY <1>2, <2>1, <2>2
  <2>3. CASE <<x, z>> \in R
    <3>1. ASSUME NEW y \in T PROVE <<y, x>> \notin R
      BY <1>2, <1>3, <2>1, <2>3
    <3> QED
      BY <1>2, <1>3, <3>1
  <2> QED
    BY <2>2, <2>3
<1> QED
  BY <1>6, <1>7, <1>8

LEMMA BeforeIsOrder ==
  /\ \A e \in Entry : ~Before(e, e)
  /\ \A e, f, g \in Entry : Before(e, f) /\ Before(f, g) => Before(e, g)
BY AmountAssumption DEF Before, Entry

\* Of finitely many entries, one has none before it, and one has none after it.
LEMMA Ends ==
  ASSUME NEW S \in SUBSET Entry, IsFiniteSet(S), S # {}
  PROVE  /\ \E e \in S : \A f \in S : ~Before(f, e)
         /\ \E e \in S : \A f \in S : ~Before(e, f)
<1> DEFINE Order == {p \in S \X S : Before(p[1], p[2])}
           Reverse == {p \in S \X S : Before(p[2], p[1])}
<1>1. \A e, f \in S : (<<e, f>> \in Order <=> Before(e, f)) /\ (<<f, e>> \in Reverse <=> Before(e, f))
  OBVIOUS
<1> HIDE DEF Order, Reverse
<1>2. \E e \in S : \A f \in S : <<f, e>> \notin Order
  <2>1. \A e \in S : <<e, e>> \notin Order
    BY <1>1, BeforeIsOrder
  <2>2. \A e, f, g \in S : <<e, f>> \in Order /\ <<f, g>> \in Order => <<e, g>> \in Order
    BY <1>1, BeforeIsOrder
  <2> QED
    BY <2>1, <2>2, Minimal
<1>3. \E e \in S : \A f \in S : <<f, e>> \notin Reverse
  <2>1. \A e \in S : <<e, e>> \notin Reverse
    BY <1>1, BeforeIsOrder
  <2>2. \A e, f, g \in S : <<e, f>> \in Reverse /\ <<f, g>> \in Reverse => <<e, g>> \in Reverse
    BY <1>1, BeforeIsOrder
  <2> QED
    BY <2>1, <2>2, Minimal
<1> QED
  BY <1>1, <1>2, <1>3

\* Of an index one above its limit, Lowest is one entry, the last.
LEMMA LowestIsLast ==
  ASSUME NEW S \in SUBSET Entry, IsFiniteSet(S), Ordered(S), Cardinality(S) = PoolLimit + 1
  PROVE  \E e \in S : /\ Lowest(S, Cardinality(S) - PoolLimit) = {e}
                      /\ \A f \in S \ {e} : Before(f, e)
                      /\ Cardinality(S \ {e}) = PoolLimit
<1>0. PoolLimit \in Nat
  BY AmountAssumption
<1>1. S # {}
  BY <1>0, FS_EmptySet
<1>2. PICK e \in S : \A f \in S : ~Before(e, f)
  BY <1>1, Ends
<1>3. \A f \in S \ {e} : Before(f, e)
  BY <1>2 DEF Ordered
<1>4. Cardinality(S) - PoolLimit = 1
  BY <1>0
<1>5. ASSUME NEW f \in S PROVE Cardinality({g \in S : Before(f, g)}) < 1 <=> f = e
  <2> DEFINE Later == {g \in S : Before(f, g)}
  <2>1. IsFiniteSet(Later)
    BY FS_Subset
  <2>2. Later = {} <=> f = e
    BY <1>2, <1>3
  <2> HIDE DEF Later
  <2>3. Cardinality(Later) \in Nat /\ (Cardinality(Later) = 0 <=> Later = {})
    BY <2>1, FS_CardinalityType, FS_EmptySet
  <2>4. Cardinality(Later) < 1 <=> Later = {}
    BY <2>3
  <2> QED
    BY <2>2, <2>4 DEF Later
<1>6. Lowest(S, 1) = {e}
  BY <1>2, <1>5 DEF Lowest
<1>7. Cardinality(S \ {e}) = PoolLimit
  BY <1>0, <1>2, FS_RemoveElement
<1> QED
  BY <1>2, <1>3, <1>4, <1>6, <1>7

LEMMA LowestIsNone ==
  ASSUME NEW S, IsFiniteSet(S), NEW k \in Int, k <= 0
  PROVE  Lowest(S, k) = {}
<1>1. ASSUME NEW f \in S PROVE Cardinality({g \in S : Before(f, g)}) \in Nat
  <2>1. IsFiniteSet({g \in S : Before(f, g)})
    BY FS_Subset
  <2> QED
    BY <2>1, FS_CardinalityType
<1> QED
  BY <1>1 DEF Lowest

\* An entry comes in, and only what comes last in an index that is full goes.
LEMMA Added ==
  ASSUME IInv, NEW tx \in Tx, NEW now \in 0..MaxTime, Funded(tx, rewards),
         Become(AddTransaction(Pool(mempool, index, rows), tx, now, rewards)),
         NEW entries, entries = index \cup {NewEntry(tx, now)}
  PROVE  /\ entries \subseteq Entry /\ NewEntry(tx, now).tx_hash = tx
         /\ index' \subseteq entries /\ mempool' \subseteq mempool \cup {tx}
         /\ rows' = InsertRow(rows, tx, -1)
         /\ Ordered(index') /\ Cardinality(index') <= PoolLimit
         /\ \A t \in mempool \ mempool' :
              /\ Cardinality(entries) > PoolLimit
              /\ \E e \in entries \ index' : e.tx_hash = t /\ \A f \in index' : Before(f, e)
<1> DEFINE e == NewEntry(tx, now)
           grown == InsertEntry(index, e)
           evicted == Lowest(grown, Cardinality(grown) - PoolLimit)
<1>1. e \in Entry /\ e.tx_hash = tx
  BY TransactionAssumption DEF Entry, NewEntry
<1>2. /\ mempool' = (mempool \cup {tx}) \ {f.tx_hash : f \in evicted}
      /\ index' = grown \ evicted
      /\ rows' = InsertRow(rows, tx, -1)
  BY DEF Become, AddTransaction, Pool
<1>3. index \subseteq Entry /\ Ordered(index) /\ IsFiniteSet(index)
      /\ PoolLimit \in Nat /\ Cardinality(index) \in Nat /\ Cardinality(index) <= PoolLimit
  BY AmountAssumption, FS_CardinalityType DEF IInv, TypeOK, Finite, Limited
<1>4. \/ grown = index
      \/ grown = entries /\ e \notin index /\ \A f \in index : Before(e, f) \/ Before(f, e)
  <2>1. \A f \in Entry : ~Before(f, f)
    BY BeforeIsOrder
  <2> QED
    BY <1>1, <1>3, <2>1 DEF InsertEntry
<1> HIDE DEF e
<1>5. entries = index \cup {e} /\ entries \subseteq Entry
  BY <1>1, <1>3 DEF e
<1>6. CASE grown = index
  <2>1. evicted = {}
    BY <1>3, <1>6, LowestIsNone
  <2> HIDE DEF grown, evicted
  <2> QED
    BY <1>1, <1>2, <1>3, <1>5, <1>6, <2>1 DEF e
<1>7. CASE grown = entries /\ e \notin index /\ \A f \in index : Before(e, f) \/ Before(f, e)
  <2>1. IsFiniteSet(entries) /\ Cardinality(entries) = Cardinality(index) + 1
    BY <1>3, <1>5, <1>7, FS_AddElement
  <2>2. Ordered(entries)
    BY <1>3, <1>5, <1>7 DEF Ordered
  <2> HIDE DEF grown
  <2>3. CASE Cardinality(index) < PoolLimit
    <3>1. evicted = {}
      BY <1>3, <1>7, <2>1, <2>3, LowestIsNone
    <3> HIDE DEF evicted
    <3> QED
      BY <1>1, <1>2, <1>3, <1>5, <1>7, <2>1, <2>2, <2>3, <3>1 DEF e
  <2>4. CASE Cardinality(index) = PoolLimit
    <3>1. Cardinality(entries) = PoolLimit + 1
      BY <2>1, <2>4
    <3>2. PICK last \in entries : /\ evicted = {last}
                                  /\ \A f \in entries \ {last} : Before(f, last)
                                  /\ Cardinality(entries \ {last}) = PoolLimit
      BY <1>5, <1>7, <2>1, <2>2, <3>1, LowestIsLast
    <3> HIDE DEF evicted
    <3>3. index' = entries \ {last} /\ mempool' = (mempool \cup {tx}) \ {last.tx_hash}
      BY <1>2, <1>7, <3>2
    <3>4. Ordered(index') /\ Cardinality(index') <= PoolLimit
      <4>1. Ordered(entries \ {last})
        BY <2>2 DEF Ordered
      <4>2. Ordered(index')
        BY Zenon, <3>3, <4>1
      <4>3. Cardinality(entries \ {last}) <= PoolLimit
        BY <1>3, <3>2
      <4>4. Cardinality(index') <= PoolLimit
        BY Zenon, <3>3, <4>3
      <4> QED
        BY <4>2, <4>4
    <3>5. Cardinality(entries) > PoolLimit
      BY <1>3, <3>1
    <3>6. last \in entries \ index' /\ \A f \in index' : Before(f, last)
      BY <3>2, <3>3
    <3>7. \A t \in mempool \ mempool' : last.tx_hash = t
      BY <3>3
    <3> QED
      BY <1>1, <1>2, <1>5, <3>3, <3>4, <3>5, <3>6, <3>7 DEF e
  <2> QED
    BY <1>3, <2>3, <2>4
<1> QED
  BY <1>4, <1>6, <1>7

\* Whatever is left is paid for.
LEMMA Cleaned ==
  ASSUME NEW s, NEW paid, NEW pool, NEW entries, NEW table,
         s = Pool(pool, entries, table), Become(CleanMempool(s, paid))
  PROVE  /\ index' \subseteq entries /\ mempool' \subseteq pool /\ rows' = table
         /\ \A e \in index' : e.tx_hash \in mempool' => Funded(e.tx_hash, paid)
         /\ \A tx \in pool \ mempool' : ~Funded(tx, paid)
BY DEF Become, CleanMempool, Pool

\* replaceLastBlock finds no transaction at the height of the last block.
LEMMA ReplacementCleans ==
  ASSUME IInv, ForeignReplacement
  PROVE  Become(CleanMempool(Pool(mempool, index, rows), rewards'))
<1> DEFINE old == {row \in rows : row.height = height}
           returned == Returned(Pool(mempool, index, rows \ old), clock, rewards', {row.tx : row \in old})
<1>1. Become(CleanMempool(returned, rewards'))
  BY Zenon DEF ForeignReplacement, Returned
<1>2. old = {}
  <2>1. height \in Nat
    BY DEF IInv, TypeOK
  <2> QED
    BY <2>1 DEF IInv, RowsStayPending
<1>3. {row.tx : row \in old} = {} /\ rows \ old = rows
  BY <1>2
<1>4. returned = Pool(mempool, index, rows)
  BY <1>3, NoneReturned
<1> HIDE DEF returned
<1> QED
  BY <1>1, <1>4

LEMMA ReplacementRest ==
  ASSUME ForeignReplacement
  PROVE  /\ foreign < MaxForeign /\ foreign' = foreign + 1
         /\ rewards' = rewards \ {height}
         /\ included' = {row \in included : row.height # height}
         /\ candidate' = None
         /\ UNCHANGED <<height, clock, lastRound, restarts>>
BY Zenon DEF ForeignReplacement

\* addBlock of an own block writes the coinbase row and no other.
LEMMA MiningCleans ==
  ASSUME IInv, FinishMining
  PROVE  Become(CleanMempool(Pool(mempool \ candidate.txs, index, rows), rewards'))
<1> DEFINE table == WithRows(rows, candidate.height, candidate.txs)
<1>1. Become(CleanMempool(Pool(mempool \ candidate.txs, index, table), rewards'))
  BY Zenon DEF FinishMining, WithRows
<1>2. IsFiniteSet(candidate.txs) /\ \A tx \in candidate.txs : \E row \in rows : row.tx = tx
  BY DEF IInv, Finite, Booked, HasRow, FinishMining
<1>3. table = rows
  BY <1>2, SameRows
<1> HIDE DEF table
<1> QED
  BY <1>1, <1>3

\* createBlock chooses something when there is something to choose.
LEMMA SelectedSome ==
  ASSUME IInv, NEW e \in index, e.tx_hash \in mempool
  PROVE  Selected # {}
<1> DEFINE usable == {f \in index : f.tx_hash \in mempool /\ Funded(f.tx_hash, rewards)}
<1>1. usable \in SUBSET Entry /\ IsFiniteSet(usable)
  BY FS_Subset DEF IInv, TypeOK, Finite
<1>2. e \in usable
  BY DEF IInv, IndexedFunded
<1>3. PICK first \in usable : \A f \in usable : ~Before(f, first)
  <2> HIDE DEF usable
  <2> QED
    BY <1>1, <1>2, Ends
<1>4. {f \in usable : Before(f, first)} = {}
  BY <1>3
<1>5. Cardinality({f \in usable : Before(f, first)}) < BlockLimit
  BY <1>4, FS_EmptySet, AmountAssumption
<1> QED
  BY <1>3, <1>5 DEF Selected

-----------------------------------------------------------------------------
(* Steps. *)

LEMMA InitIInv == Init => IInv
<1> SUFFICES ASSUME Init PROVE IInv
  OBVIOUS
<1>1. TypeOK
  BY AmountAssumption DEF Init, TypeOK
<1>2. Finite
  BY FS_EmptySet DEF Init, Finite
<1>3. RowsStayPending /\ Booked /\ Below /\ IndexedFunded
  BY DEF Init, RowsStayPending, Booked, Below, IndexedFunded
<1>4. Limited
  BY FS_EmptySet, AmountAssumption DEF Init, Limited, Ordered
<1> QED
  BY <1>1, <1>2, <1>3, <1>4 DEF IInv

LEMMA SubmitStep == ASSUME IInv, NEW tx \in Tx, Submit(tx) PROVE IInv'
<1>1. PICK now \in {clock, clock + 1} \cap 0..MaxTime :
        /\ Become(AddTransaction(Pool(mempool, index, rows), tx, now, rewards))
        /\ clock' = now
  BY DEF Submit
<1> DEFINE e == NewEntry(tx, now)
<1>2. /\ e \in Entry /\ e.tx_hash = tx
      /\ index' \subseteq index \cup {e} /\ mempool' \subseteq mempool \cup {tx}
      /\ rows' = InsertRow(rows, tx, -1)
      /\ Limited'
  <2>1. now \in 0..MaxTime /\ Funded(tx, rewards)
    BY <1>1 DEF Submit
  <2>2. /\ e \in Entry /\ e.tx_hash = tx
        /\ index' \subseteq index \cup {e} /\ mempool' \subseteq mempool \cup {tx}
        /\ rows' = InsertRow(rows, tx, -1)
        /\ Ordered(index') /\ Cardinality(index') <= PoolLimit
    <3>1. index \cup {e} = index \cup {NewEntry(tx, now)}
      OBVIOUS
    <3> HIDE DEF e
    <3>2. \A entries : entries = index \cup {NewEntry(tx, now)} =>
            /\ entries \subseteq Entry /\ NewEntry(tx, now).tx_hash = tx
            /\ index' \subseteq entries /\ mempool' \subseteq mempool \cup {tx}
            /\ rows' = InsertRow(rows, tx, -1)
            /\ Ordered(index') /\ Cardinality(index') <= PoolLimit
      BY Zenon, <1>1, <2>1, Added
    <3> QED
      BY <3>1, <3>2 DEF e
  <2>3. Ordered(index)'
    BY <2>2 DEF Ordered, Before
  <2> QED
    BY <2>2, <2>3 DEF Limited
<1> HIDE DEF e
<1>3. UNCHANGED <<height, rewards, candidate, included, lastRound, foreign, restarts>> /\ Funded(tx, rewards)
  BY DEF Submit
<1>4. rows \subseteq rows' /\ rows' \subseteq rows \cup {[tx |-> tx, height |-> -1]} /\ \E row \in rows' : row.tx = tx
  <2>1. CASE \E row \in rows : row.tx = tx
    BY <1>2, <2>1 DEF InsertRow
  <2>2. CASE ~\E row \in rows : row.tx = tx
    <3>1. rows' = rows \cup {[tx |-> tx, height |-> -1]}
      BY <1>2, <2>2 DEF InsertRow
    <3>2. \E row \in rows' : row.tx = tx
      <4> DEFINE new == [tx |-> tx, height |-> -1]
      <4>1. new \in rows' /\ new.tx = tx
        BY <3>1
      <4> HIDE DEF new
      <4> QED
        BY <4>1
    <3> QED
      BY <3>1, <3>2
  <2> QED
    BY <2>1, <2>2
<1>5. TypeOK'
  <2>1. [tx |-> tx, height |-> -1] \in Row
    BY DEF Row
  <2> QED
    BY <1>1, <1>2, <1>3, <1>4, <2>1 DEF IInv, TypeOK
<1>6. Finite'
  <2>1. IsFiniteSet(index \cup {e})
    BY FS_AddElement DEF IInv, Finite
  <2>2. IsFiniteSet(index')
    BY <1>2, <2>1, FS_Subset
  <2> QED
    BY <1>3, <2>2 DEF IInv, Finite
<1>7. RowsStayPending'
  BY <1>4 DEF IInv, RowsStayPending
<1>8. Booked'
  BY <1>2, <1>3, <1>4 DEF IInv, Booked, HasRow
<1>9. Below' /\ IndexedFunded'
  <2>1. \A a, paid : Funded(a, paid)' = Funded(a, paid')
    BY DEF Funded, Balance
  <2> QED
    BY <1>2, <1>3 DEF IInv, Below, IndexedFunded
<1> QED
  BY <1>2, <1>5, <1>6, <1>7, <1>8, <1>9 DEF IInv

\* An index that loses entries stays within its limit.
LEMMA FewerLimited ==
  ASSUME IInv, index' \subseteq index
  PROVE  Limited'
<1>1. IsFiniteSet(index) /\ Cardinality(index) <= PoolLimit /\ PoolLimit \in Nat /\ Ordered(index)
  BY AmountAssumption DEF IInv, Finite, Limited
<1>2. Cardinality(index') <= Cardinality(index)
  BY <1>1, FS_Subset
<1>3. Cardinality(index) \in Nat /\ Cardinality(index') \in Nat
  BY <1>1, FS_CardinalityType, FS_Subset
<1>4. Cardinality(index') <= PoolLimit
  BY <1>1, <1>2, <1>3
<1>5. Ordered(index)'
  BY <1>1 DEF Ordered, Before
<1> QED
  BY <1>4, <1>5 DEF Limited

\* The steps that clean the mempool at their end.
LEMMA CleanStep ==
  ASSUME IInv, NEW pool \in SUBSET mempool,
         Become(CleanMempool(Pool(pool, index, rows), rewards')),
         height' \in Nat, rewards' \in SUBSET (1..height'), foreign' \in 0..MaxForeign,
         candidate' \in {candidate, None}, included' \in SUBSET Row, Below',
         UNCHANGED <<clock, lastRound, restarts>>
  PROVE  IInv'
<1>1. /\ index' \subseteq index /\ mempool' \subseteq mempool /\ rows' = rows
      /\ \A e \in index' : e.tx_hash \in mempool' => Funded(e.tx_hash, rewards')
  BY Cleaned
<1>2. TypeOK'
  BY <1>1 DEF IInv, TypeOK
<1>3. Finite'
  BY <1>1, FS_Subset DEF IInv, Finite
<1>4. RowsStayPending' /\ Booked' /\ IndexedFunded'
  BY <1>1 DEF IInv, RowsStayPending, Booked, HasRow, IndexedFunded
<1>5. Limited'
  BY <1>1, FewerLimited
<1> QED
  BY <1>2, <1>3, <1>4, <1>5 DEF IInv

LEMMA CreateBlockStep == ASSUME IInv, CreateBlock PROVE IInv'
<1>1. /\ candidate' = [height |-> height + 1, txs |-> {e.tx_hash : e \in Selected}]
      /\ \/ mempool' = {} /\ index' = {}
         \/ mempool' = mempool /\ index' = index
      /\ lastRound' = clock
      /\ UNCHANGED <<height, rewards, rows, included, clock, foreign, restarts>>
  BY DEF CreateBlock
<1>2. Selected \subseteq index /\ \A e \in Selected : e.tx_hash \in mempool
  BY DEF Selected
<1>3. TypeOK'
  <2>1. {e.tx_hash : e \in Selected} \in SUBSET Tx /\ height + 1 \in Nat
    BY <1>2 DEF IInv, TypeOK, Entry
  <2> QED
    BY <1>1, <2>1 DEF IInv, TypeOK, Candidate
<1>4. Finite'
  <2>1. IsFiniteSet(Selected)
    BY <1>2, FS_Subset DEF IInv, Finite
  <2>2. IsFiniteSet({e.tx_hash : e \in Selected})
    <3> DEFINE f == [e \in Selected |-> e.tx_hash]
    <3>1. f \in Surjection(Selected, {e.tx_hash : e \in Selected})
      BY DEF Surjection
    <3> QED
      BY <2>1, <3>1, FS_Surjection
  <2> QED
    BY <1>1, <2>2, FS_EmptySet DEF IInv, Finite
<1>5. Booked'
  BY <1>1, <1>2 DEF IInv, Booked, HasRow
<1>6. RowsStayPending' /\ Below' /\ IndexedFunded'
  BY <1>1 DEF IInv, RowsStayPending, Below, IndexedFunded
<1>7. Limited'
  BY <1>1, FewerLimited
<1> QED
  BY <1>3, <1>4, <1>5, <1>6, <1>7 DEF IInv

LEMMA FinishMiningStep == ASSUME IInv, FinishMining PROVE IInv'
<1>1. /\ Become(CleanMempool(Pool(mempool \ candidate.txs, index, rows), rewards'))
      /\ candidate \in Candidate
      /\ height' = height + 1 /\ height \in Nat /\ candidate.height = height + 1
      /\ rewards' = rewards \cup {height + 1}
      /\ included' = included \cup [tx : candidate.txs, height : {height + 1}]
      /\ candidate' = None /\ UNCHANGED <<clock, lastRound, foreign, restarts>>
  BY MiningCleans DEF IInv, TypeOK, FinishMining
<1>2. rewards' \in SUBSET (1..height')
  BY <1>1 DEF IInv, TypeOK
<1>3. included' \in SUBSET Row
  BY <1>1 DEF IInv, TypeOK, Row, Candidate
<1>4. Below'
  <2>1. ASSUME NEW row \in included' PROVE row.height <= height'
    <3>1. CASE row \in included
      <4>1. row.height \in Int /\ row.height <= height
        BY <3>1 DEF IInv, TypeOK, Row, Below
      <4> QED
        BY <1>1, <4>1
    <3>2. CASE row \in [tx : candidate.txs, height : {height + 1}]
      BY <1>1, <3>2
    <3> QED
      BY <1>1, <3>1, <3>2
  <2> QED
    BY <2>1 DEF Below
<1>5. foreign' \in 0..MaxForeign /\ height' \in Nat
  BY <1>1 DEF IInv, TypeOK
<1>6. mempool \ candidate.txs \in SUBSET mempool
  OBVIOUS
<1> QED
  BY <1>1, <1>2, <1>3, <1>4, <1>5, <1>6, CleanStep

LEMMA ForeignStep == ASSUME IInv, Clean \/ ForeignBlock \/ ForeignReplacement PROVE IInv'
<1>1. /\ Become(CleanMempool(Pool(mempool, index, rows), rewards'))
      /\ rewards' \subseteq rewards /\ included' \subseteq included
      /\ height' \in {height, height + 1} /\ height \in Nat
      /\ foreign' \in 0..MaxForeign
      /\ candidate' \in {candidate, None} /\ UNCHANGED <<clock, lastRound, restarts>>
  <2>1. CASE Clean
    BY <2>1 DEF Clean, IInv, TypeOK
  <2>2. CASE ForeignBlock
    BY <2>2, AmountAssumption DEF ForeignBlock, IInv, TypeOK
  <2>3. CASE ForeignReplacement
    BY <2>3, ReplacementCleans, ReplacementRest, AmountAssumption DEF IInv, TypeOK
  <2> QED
    BY <2>1, <2>2, <2>3
<1>2. rewards' \in SUBSET (1..height') /\ height' \in Nat
  BY <1>1 DEF IInv, TypeOK
<1>3. included' \in SUBSET Row
  BY <1>1 DEF IInv, TypeOK
<1>4. Below'
  BY <1>1 DEF IInv, TypeOK, Row, Below
<1>5. mempool \in SUBSET mempool
  OBVIOUS
<1> QED
  BY <1>1, <1>2, <1>3, <1>4, <1>5, CleanStep

LEMMA OtherStep == ASSUME IInv, Tick \/ StopMining \/ Restart \/ UNCHANGED vars PROVE IInv'
<1>1. CASE Tick \/ UNCHANGED vars
  <2>1. TypeOK'
    <3>1. CASE Tick
      <4>1. clock + 1 \in 0..MaxTime
        BY <3>1, AmountAssumption DEF Tick, IInv, TypeOK
      <4> QED
        BY <3>1, <4>1 DEF Tick, IInv, TypeOK
    <3>2. CASE UNCHANGED vars
      BY <3>2 DEF vars, IInv, TypeOK
    <3> QED
      BY <1>1, <3>1, <3>2
  <2>2. UNCHANGED <<height, rewards, rows, mempool, index, candidate, included>>
    BY <1>1 DEF Tick, vars
  <2>3. Limited'
    BY <2>2, FewerLimited
  <2> QED
    BY <2>1, <2>2, <2>3 DEF IInv, Finite, RowsStayPending, Booked, HasRow, Below, IndexedFunded
<1>2. CASE StopMining
  <2>1. Limited'
    BY <1>2, FewerLimited DEF StopMining
  <2> QED
    BY <1>2, <2>1 DEF StopMining, IInv, TypeOK, Finite, RowsStayPending, Booked, HasRow, Below, IndexedFunded
<1>3. CASE Restart
  <2>1. TypeOK'
    BY <1>3, AmountAssumption DEF Restart, IInv, TypeOK
  <2>2. Limited'
    BY <1>3, FewerLimited DEF Restart
  <2> QED
    BY <1>3, <2>1, <2>2, FS_EmptySet
    DEF Restart, IInv, Finite, RowsStayPending, Booked, HasRow, Below, IndexedFunded
<1> QED
  BY <1>1, <1>2, <1>3

LEMMA NextIInv == IInv /\ [Next]_vars => IInv'
BY SubmitStep, CreateBlockStep, FinishMiningStep, ForeignStep, OtherStep DEF Next

LEMMA Invariance == Spec => []IInv
BY InitIInv, NextIInv, PTL DEF Spec

-----------------------------------------------------------------------------
(* Theorems. *)

\* The books keep their types; above all, rewards are for heights of the chain.
THEOREM TypeCorrect == Spec => []TypeOK
<1>1. IInv => TypeOK
  BY DEF IInv
<1> QED
  BY <1>1, Invariance, PTL

\* Balances never count a transaction between wallets: its row is pending for ever, the
\* INSERT with the block's height (addBlock) being refused for its tx_hash.
THEOREM NothingIsConfirmed == Spec => []RowsStayPending
<1>1. IInv => RowsStayPending
  BY DEF IInv
<1> QED
  BY <1>1, Invariance, PTL

\* All that createBlock can choose from is paid for, whatever the rewards a replacement
\* takes away.
THEOREM MempoolIsFunded == Spec => []IndexedFunded
<1>1. IInv => IndexedFunded
  BY DEF IInv
<1> QED
  BY <1>1, Invariance, PTL

\* Nothing leaves the mempool without a reason: addTransaction evicts the last of a full
\* index and nothing else, and createBlock throws the mempool away only when no
\* transaction of it is indexed.
THEOREM NoneIsDropped == Spec => NothingDropped
<1> DEFINE Kept == \A tx \in mempool \ mempool' :
                     \/ [tx |-> tx, height |-> height'] \in included' \ included
                     \/ ~Funded(tx, rewards')
                     \/ Evicted(tx)
                     \/ restarts' # restarts
                     \/ ThrownAway(tx)
<1>1. IInv /\ [Next]_vars => Kept
  <2> SUFFICES ASSUME IInv, [Next]_vars, NEW tx \in mempool \ mempool'
               PROVE  \/ [tx |-> tx, height |-> height'] \in included' \ included
                      \/ ~Funded(tx, rewards')
                      \/ Evicted(tx)
                      \/ restarts' # restarts
                      \/ ThrownAway(tx)
    OBVIOUS
  <2>1. CASE \E new \in Tx : Submit(new)
    <3>1. PICK new \in Tx : Submit(new)
      BY <2>1
    <3>2. /\ clock' \in 0..MaxTime /\ Funded(new, rewards)
          /\ Become(AddTransaction(Pool(mempool, index, rows), new, clock', rewards))
      BY <3>1 DEF Submit
    <3> DEFINE entries == index \cup {NewEntry(new, clock')}
    <3>3. /\ Cardinality(entries) > PoolLimit
          /\ \E e \in entries \ index' : e.tx_hash = tx /\ \A f \in index' : Before(f, e)
      BY <3>2, Added
    <3> QED
      BY <3>1, <3>3 DEF Evicted
  <2>2. CASE Clean \/ ForeignBlock \/ ForeignReplacement
    <3>1. Become(CleanMempool(Pool(mempool, index, rows), rewards'))
      BY <2>2, ReplacementCleans DEF Clean, ForeignBlock
    <3> QED
      BY <3>1, Cleaned
  <2>3. CASE CreateBlock
    BY <2>3, SelectedSome DEF CreateBlock, ThrownAway
  <2>4. CASE FinishMining
    <3>1. Become(CleanMempool(Pool(mempool \ candidate.txs, index, rows), rewards'))
      BY <2>4, MiningCleans
    <3>2. \A t \in (mempool \ candidate.txs) \ mempool' : ~Funded(t, rewards')
      BY <3>1, Cleaned
    <3>3. CASE tx \in candidate.txs
      <4>1. [tx |-> tx, height |-> height'] \in included'
        BY <2>4, <3>3 DEF FinishMining
      <4>2. height' = height + 1 /\ height \in Nat
        BY <2>4 DEF FinishMining, IInv, TypeOK
      <4>3. [tx |-> tx, height |-> height'] \notin included
        BY <4>2 DEF IInv, Below
      <4> QED
        BY <4>1, <4>3
    <3> QED
      BY <3>2, <3>3
  <2>5. CASE Tick \/ StopMining \/ UNCHANGED vars
    BY <2>5 DEF Tick, StopMining, vars
  <2>6. CASE Restart
    BY <2>6 DEF Restart, IInv, TypeOK
  <2> QED
    BY <2>1, <2>2, <2>3, <2>4, <2>5, <2>6 DEF Next
<1> QED
  BY <1>1, Invariance, PTL DEF Spec, NothingDropped
=============================================================================
