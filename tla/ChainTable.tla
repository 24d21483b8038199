----------------------------- MODULE ChainTable -----------------------------
(***************************************************************************)
(* The `blocks' table of a node's SQLite database (storage/schema.sql) and *)
(* the operations Blockchain and LedgerDB run on it.  A table is a set of  *)
(* rows [height, hash, prevHash, minedBy]; the columns nothing in the      *)
(* synchronisation code decides on (merkle root, time stamp, nonce,        *)
(* difficulty, sizes) are left out.                                        *)
(*                                                                         *)
(* No operator here is recursive, so the modules that use this one can be  *)
(* proved about.                                                           *)
(***************************************************************************)
EXTENDS Integers, FiniteSets, FiniteSetsExt

Heights(rows) == {row.height : row \in rows}

\* Mutant of getLatestHeight: SELECT COUNT(*) - 1, right for a chain without gaps.
CountedHeight(rows) == Cardinality(rows) - 1

\* SELECT MAX(height): a NULL, the answer on an empty table, reads as 0.
getLatestHeight(rows) == IF rows = {} THEN 0 ELSE Max(Heights(rows))

\* The rows of one height: none or one, because height is a UNIQUE column.
getBlockByHeight(rows, h) == {row \in rows : row.height = h}

\* Mutant of Insertable: a table in which height is not UNIQUE.
InsertableByHash(rows, block) == \A row \in rows : row.hash # block.hash

\* What INSERT INTO blocks accepts: the UNIQUE columns height and hash.
Insertable(rows, block) ==
  \A row \in rows : row.height # block.height /\ row.hash # block.hash

\* Mutant of CanAdd: the hash of the last block is not compared.
CanAddOnAny(rows, block) ==
  block.height > getLatestHeight(rows) /\ Insertable(rows, block)

\* Blockchain::addBlock takes the block: it is above the chain, it names the
\* hash of the last block, and the INSERT goes through.
CanAdd(rows, block) ==
  LET currentHeight == getLatestHeight(rows) IN
  /\ block.height > currentHeight
  /\ \E prev \in getBlockByHeight(rows, currentHeight) : prev.hash = block.prevHash
  /\ Insertable(rows, block)

\* Mutant of WithoutLast: DELETE ... WHERE height >= height - 1.
WithoutLastTwo(rows) == {row \in rows : row.height < getLatestHeight(rows) - 1}

\* The table without the rows at the top: DELETE FROM blocks WHERE height = ...
WithoutLast(rows) == rows \ getBlockByHeight(rows, getLatestHeight(rows))

\* Blockchain::replaceLastBlock gets past its checks of the height and of the
\* common parent, and the INSERT that follows the DELETE goes through.  (When it
\* does not, the DELETE stands: module ChainRace has that case.  With one call
\* at a time it cannot happen, because a hash names one block.)
CanReplace(rows, block) ==
  /\ block.height = getLatestHeight(rows)
  /\ \E old \in getBlockByHeight(rows, block.height) : old.prevHash = block.prevHash
  /\ Insertable(WithoutLast(rows), block)

Replaced(rows, block) == WithoutLast(rows) \cup {block}

(***************************************************************************)
(* Every block but the one of height 0 rests on a stored block one below   *)
(* it, no height is held twice, and height 0 is there: the table is one    *)
(* chain without gaps.                                                     *)
(***************************************************************************)
Linked(rows) ==
  /\ \E row \in rows : row.height = 0
  /\ \A r, s \in rows : r.height = s.height => r = s
  /\ \A row \in rows : row.height > 0 =>
       \E prev \in rows : prev.height = row.height - 1 /\ prev.hash = row.prevHash
=============================================================================
