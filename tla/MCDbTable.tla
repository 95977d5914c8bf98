----------------------------- MODULE MCDbTable ----------------------------
(***************************************************************************)
(* DbTable for TLC: threads, rows and values are interchangeable.          *)
(***************************************************************************)
EXTENDS DbTable, TLC

Symmetry == Permutations(Threads) \union Permutations(RowIds) \union Permutations(Values)

===========================================================================
