----------------------------- MODULE RowFile ------------------------------
(***************************************************************************)
(* What WITE/dbFile promises: a set of numbered rows that remembers the    *)
(* order in which they were allocated.  Which free number allocate returns *)
(* is left open.                                                           *)
(***************************************************************************)
EXTENDS Naturals, SequencesExt

VARIABLE rows  \* the allocated row numbers, oldest allocation first

Init == rows = <<>>

Allocate(id) ==
  /\ id \in Nat
  /\ id \notin ToSet(rows)
  /\ rows' = Append(rows, id)

Free(k) == rows' = RemoveAt(rows, k)

(* The file is created anew: the constructor with clobber.                 *)
Clobber == rows' = <<>>

Next ==
  \/ Len(rows') > Len(rows) /\ Allocate(Last(rows'))
  \/ \E k \in DOMAIN rows : Free(k)
  \/ Clobber

Spec == Init /\ [][Next]_rows

===========================================================================
