------------------------------ MODULE DbIndex ------------------------------
(***************************************************************************)
(* WITE/dbIndex.hpp, a binary tree of rows by value in a dbFile, and how   *)
(* WITE/database.hpp keeps it: create, write and destroy change the table  *)
(* and the index in separate steps, a crash may fall between them, and the *)
(* next start rebuilds an index whose count is not the table's.            *)
(*                                                                         *)
(* A node is a record that holds its children in place of their numbers;   *)
(* of the file only the number of allocated nodes is kept (size).          *)
(***************************************************************************)
EXTENDS Integers, FiniteSets, SequencesExt

CONSTANTS Rows,       \* row numbers of the table
          Values,     \* values a row is indexed by
          Batch,      \* rows between two rebalances of a rebuild, 128 in the code
          Callers,    \* bound: rows with a call under way
          MaxCrashes, \* bound
          MaxNodes,   \* bound: nodes in the file
          FirstIndex, \* whether this is the first index of its table
          None

DbIndexAssumption ==
  /\ Values \subseteq Int /\ Batch \in Nat \ {0} /\ {Callers, MaxCrashes, MaxNodes} \subseteq Nat
  /\ FirstIndex \in BOOLEAN /\ None \notin Rows

VARIABLES root, \* the tree: what the pseudo node has as high
          size, \* nodes allocated in the file, without the pseudo node
          row,  \* table row -> how far the call about it is, its value, the value it gets
          open, \* the program runs
          torn, \* rows that a crash has left wrong in the index and the start has not put right
          left, \* how many nodes clear has unlinked and not freed
          crashes

index == <<root, size, left>>
vars == <<root, size, row, open, torn, left, crashes>>
-----------------------------------------------------------------------------
(* The tree *)
Leaf(target, value) == [value |-> value, target |-> target, high |-> None, low |-> None]

\* node::insert
RECURSIVE insert(_, _, _)
insert(t, target, value) ==
  IF t = None THEN Leaf(target, value)
  ELSE IF t.value < value THEN [t EXCEPT !.high = insert(t.high, target, value)]
  ELSE [t EXCEPT !.low = insert(t.low, target, value)]

\* node::remove: low replaces the node (the counts that should decide are never
\* counted up) and high goes to the end of low's high edge.
RECURSIVE AtHighEnd(_, _)
AtHighEnd(t, other) == IF t.high = None THEN [t EXCEPT !.high = other] ELSE [t EXCEPT !.high = AtHighEnd(t.high, other)]
Replacement_LosesHigh(t) == IF t.low = None THEN t.high ELSE t.low
Replacement(t) ==
  IF t.low = None THEN t.high
  ELSE IF t.high = None THEN t.low
  ELSE AtHighEnd(t.low, t.high)
RECURSIVE remove(_, _, _)
remove(t, value, target) ==
  IF t = None THEN None
  ELSE IF t.value = value /\ t.target = target THEN Replacement(t)
  ELSE [t EXCEPT !.high = IF t.value <= value THEN remove(t.high, value, target) ELSE t.high,
                 !.low = IF t.value >= value THEN remove(t.low, value, target) ELSE t.low]
\* How many nodes it frees.
RECURSIVE Freed(_, _, _)
Freed(t, value, target) ==
  IF t = None THEN 0
  ELSE IF t.value = value /\ t.target = target THEN 1
  ELSE (IF t.value <= value THEN Freed(t.high, value, target) ELSE 0)
         + (IF t.value >= value THEN Freed(t.low, value, target) ELSE 0)

RECURSIVE findAny(_, _)
findAny(t, v) ==
  IF t = None THEN None
  ELSE IF t.value = v THEN t.target
  ELSE findAny(IF t.value < v THEN t.high ELSE t.low, v)

\* forEach over [l, h]: the targets in the order the callback meets them
RECURSIVE forEach(_, _, _)
forEach(t, l, h) ==
  IF t = None THEN << >>
  ELSE (IF t.value < l THEN << >> ELSE forEach(t.low, l, h))
         \o (IF t.value < l \/ h < t.value THEN << >> ELSE <<t.target>>)
         \o (IF h < t.value THEN << >> ELSE forEach(t.high, l, h))

RECURSIVE count(_)
count(t) == IF t = None THEN 0 ELSE count(t.low) + count(t.high) + 1

\* node::rebalance; lowDeepCnt and highDeepCnt
highDeepCnt(t) == IF t.high = None THEN 0 ELSE 1 + count(t.high.high)
lowDeepCnt(t) == IF t.low = None THEN 0 ELSE 1 + count(t.low.low)
RECURSIVE rebalance(_)
rebalance(t) ==
  IF t = None THEN None
  ELSE IF count(t.low) + 2 < highDeepCnt(t)
  THEN rebalance([t.high EXCEPT !.low = [t EXCEPT !.high = t.high.low]])
  ELSE IF count(t.high) + 2 < lowDeepCnt(t)
  THEN rebalance([t.low EXCEPT !.high = [t EXCEPT !.low = t.low.high]])
  ELSE [t EXCEPT !.low = rebalance(t.low), !.high = rebalance(t.high)]
-----------------------------------------------------------------------------
Init ==
  /\ root = None /\ size = 0 /\ left = 0
  /\ row = [r \in Rows |-> [at |-> "free", value |-> None, next |-> None]]
  /\ open = TRUE /\ torn = {} /\ crashes = 0

CallerFree == Cardinality({r \in Rows : row[r].at \notin {"free", "listed"}}) < Callers
Goes(r, from, to) == open /\ row[r].at = from /\ row' = [row EXCEPT ![r].at = to]
Inserts(r, v) == size < MaxNodes /\ root' = insert(root, r, v) /\ size' = size + 1
Removes_FreesNothing(r, v) == root' = remove(root, v, r) /\ size' = size
Removes(r, v) == root' = remove(root, v, r) /\ size' = size - Freed(root, v, r)

\* What the database does with all the indices of a table, of which this is one.
insertToAllIndices(r, v) == Inserts(r, v)
removeFromAllIndices(r, v) == Removes(r, v)
findByIdx(v) == findAny(root, v)
foreachByIdx(l, h) == forEach(root, l, h)

\* create: the table first, then the index
Create(r, v) ==
  /\ open /\ row[r].at = "free" /\ CallerFree
  /\ row' = [row EXCEPT ![r] = [at |-> "created", value |-> v, next |-> None]]
  /\ UNCHANGED <<index, open, torn, crashes>>
CreateIndexes(r) ==
  /\ Goes(r, "created", "listed")
  /\ insertToAllIndices(r, row[r].value)
  /\ UNCHANGED <<open, torn, left, crashes>>

\* destroy: the index first, then the table
Destroy(r) ==
  /\ CallerFree /\ Goes(r, "listed", "destroyed")
  /\ removeFromAllIndices(r, row[r].value)
  /\ UNCHANGED <<open, torn, left, crashes>>
DestroyFrees(r) ==
  /\ open /\ row[r].at = "destroyed"
  /\ row' = [row EXCEPT ![r] = [at |-> "free", value |-> None, next |-> None]]
  /\ UNCHANGED <<index, open, torn, crashes>>

\* write of another value: out of the index, back in, then the table
WriteUnindexes(r, v) ==
  /\ open /\ CallerFree /\ row[r].at = "listed" /\ row[r].value # v
  /\ row' = [row EXCEPT ![r].at = "unindexed", ![r].next = v]
  /\ removeFromAllIndices(r, row[r].value)
  /\ UNCHANGED <<open, torn, left, crashes>>
WriteIndexes(r) ==
  /\ Goes(r, "unindexed", "moved")
  /\ insertToAllIndices(r, row[r].next)
  /\ UNCHANGED <<open, torn, left, crashes>>
WriteStores(r) ==
  /\ open /\ row[r].at = "moved"
  /\ row' = [row EXCEPT ![r] = [at |-> "listed", value |-> row[r].next, next |-> None]]
  /\ UNCHANGED <<index, open, torn, crashes>>

Rebalance ==
  /\ open /\ rebalance(root) # root
  /\ root' = rebalance(root)
  /\ UNCHANGED <<size, row, open, torn, left, crashes>>

\* The program dies; both files are mapped and keep what has been written.
Crash ==
  /\ open /\ open' = FALSE
  /\ crashes < MaxCrashes /\ crashes' = crashes + 1
  /\ row' = [r \in Rows |-> IF row[r].at = "free" THEN row[r] ELSE [at |-> "listed", value |-> row[r].value, next |-> None]]
  /\ UNCHANGED <<index, torn>>

\* clear frees the node its iterator stands on, and a freed node has no next.
Cleared(n) == IF n = 0 THEN 0 ELSE n - 1
clearAllIndices(n) == <<None, Cleared(n)>>
\* It rebalances the first index and goes on with clearAllIndices for the others.
rebalanceAllIndices(t, n) == IF FirstIndex THEN <<rebalance(t), n>> ELSE clearAllIndices(n)
\* "check by count only"
checkAllIndices_L2(expectedSize) == size = expectedSize

\* checkAllIndices: the rows are inserted in the order of the table, and every
\* Batch of them the indices are rebalanced.
InTable == {r \in Rows : row[r].at # "free"}
RECURSIVE Rebuilt(_, _, _)
Rebuilt(tree, rows, i) ==
  IF i > Len(rows) THEN tree
  ELSE LET t == insert(tree[1], rows[i], row[rows[i]].value)  n == tree[2] + 1
       IN Rebuilt(IF i % Batch = 0 THEN rebalanceAllIndices(t, n) ELSE <<t, n>>, rows, i + 1)

\* Everything the index holds, as rows with their values.
RECURSIVE Entries(_)
Entries(t) == IF t = None THEN << >> ELSE Entries(t.low) \o <<<<t.target, t.value>>>> \o Entries(t.high)
Held(r) == SelectSeq(Entries(root), LAMBDA e : e[1] = r)
Open ==
  /\ ~open /\ open' = TRUE
  /\ IF checkAllIndices_L2(Cardinality(InTable))
     THEN /\ torn' = {r \in Rows : Held(r) # IF r \in InTable THEN <<<<r, row[r].value>>>> ELSE << >>}
          /\ UNCHANGED index
     ELSE /\ size + Cardinality(InTable) <= MaxNodes
          /\ \E rows \in SetToSeqs(InTable) :
               LET all == Rebuilt(clearAllIndices(size), rows, 1) IN root' = all[1] /\ size' = all[2]
          /\ left' = clearAllIndices(size)[2]
          /\ torn' = {}
  /\ UNCHANGED <<row, crashes>>

Next ==
  \/ \E r \in Rows :
       \/ \E v \in Values : Create(r, v) \/ WriteUnindexes(r, v)
       \/ CreateIndexes(r) \/ Destroy(r) \/ DestroyFrees(r) \/ WriteIndexes(r) \/ WriteStores(r)
  \/ Rebalance \/ Crash \/ Open

Spec == Init /\ [][Next]_vars
-----------------------------------------------------------------------------
\* What the index should say a row's value is; rows in the middle of a call may
\* be out of it.
Indexed == {r \in Rows : row[r].at \in {"listed", "moved"}}
ValueOf(r) == IF row[r].at = "moved" THEN row[r].next ELSE row[r].value

\* Every range query meets exactly the rows whose value is in the range, once
\* each, and findAny finds one if there is one, whatever was removed, moved or
\* rotated before, and after a rebuild that follows a crash; only rows that a
\* crash left wrong without the count showing it are left out.
LookupsExact ==
  open => \A l, h \in Values : l <= h =>
    LET met == SelectSeq(foreachByIdx(l, h), LAMBDA r : r \notin torn)
    IN /\ IsInjective(met)
       /\ ToSet(met) = {r \in Indexed \ torn : l <= ValueOf(r) /\ ValueOf(r) <= h}
       /\ l = h /\ torn = {} => (findByIdx(l) = None <=> met = << >>)

\* Every allocated node is in the tree, but for those that clear has left
\* behind: insert, remove and rebalance lose none and link none that is freed.
NodesAccounted == size = count(root) + left

\* The start checks "by count only" (database.hpp:123); "if one is broken, all
\* might be, so rebuild them all" (database.hpp:167): after it each row is in
\* the index with its value.
StartRepairs == torn = {}
=============================================================================
