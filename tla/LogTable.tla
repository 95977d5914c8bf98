----------------------------- MODULE LogTable -----------------------------
(***************************************************************************)
(* A table as WITE/dbTable means it: every row has the state last folded   *)
(* into it and, on top, the sequence of the logs written since, oldest     *)
(* first.  A log is a complete copy of the row with the frame that wrote   *)
(* it, or the mark that the row was deleted.                               *)
(***************************************************************************)
EXTENDS Naturals, FiniteSets, SequencesExt

CONSTANTS
  RowIds, Values,
  History, \* how many frames back a read is answered from the logs
  Deleted  \* the data of a delete log

VARIABLES
  now,     \* the frame being played
  rows,    \* the rows that are allocated
  chain,   \* the logs of each row: a sequence of [frame, data]
  stored   \* the state folded into each row

vars == <<now, rows, chain, stored>>

(* What a read of frame f finds: the last log written up to that frame, or *)
(* the oldest log there is, or what is stored when there is none.          *)
AsOf(logs, base, f) ==
  IF logs = <<>> THEN base
  ELSE LET upto == {k \in DOMAIN logs : \A j \in 2 .. k : logs[j].frame <= f}
       IN logs[CHOOSE k \in upto : \A j \in upto : j <= k].data

Init ==
  /\ now = 1
  /\ rows = {}
  /\ chain = [r \in RowIds |-> <<>>]
  /\ stored \in [RowIds -> Values]

List(r) ==
  /\ r \in RowIds \ rows
  /\ rows' = rows \union {r}
  /\ UNCHANGED <<now, chain, stored>>

(* A row taken into use forgets the logs of its previous holder.           *)
Forget(r) ==
  /\ UNCHANGED <<now, rows>>
  /\ r \in rows
  /\ chain' = [chain EXCEPT ![r] = <<>>]
  /\ UNCHANGED stored

Write(r) ==
  /\ UNCHANGED <<now, rows>>
  /\ r \in rows
  /\ chain[r] = <<>> \/ Last(chain[r]).data # Deleted
  /\ Len(chain'[r]) > Len(chain[r])
  /\ \E d \in Values \union {Deleted} :
       chain' = [chain EXCEPT ![r] = Append(@, [frame |-> now, data |-> d])]
  /\ UNCHANGED stored

Unlist(r) ==
  /\ r \in rows
  /\ rows' = rows \ {r}
  /\ chain[r] # <<>> /\ Last(chain[r]).data = Deleted
  /\ UNCHANGED <<now, chain, stored>>

(* The next frame: what was logged History frames ago or before is folded  *)
(* into what is stored.                                                    *)
NextFrame ==
  LET Old(r)  == {k \in DOMAIN chain[r] : chain[r][k].frame + History <= now}
      Done(r) == IF r \in rows THEN Cardinality(Old(r)) ELSE 0
  IN /\ now' = now + 1
     /\ chain' = [r \in RowIds |-> SubSeq(chain[r], Done(r) + 1, Len(chain[r]))]
     /\ stored' = [r \in RowIds |-> IF Done(r) = 0 THEN stored[r] ELSE chain[r][Done(r)].data]
     /\ UNCHANGED rows

Next ==
  \/ \E r \in RowIds : List(r) \/ Forget(r) \/ Write(r) \/ Unlist(r)
  \/ NextFrame

Spec == Init /\ [][Next]_vars

===========================================================================
