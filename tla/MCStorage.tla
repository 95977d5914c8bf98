----------------------------- MODULE MCStorage -----------------------------
(***************************************************************************)
(* The two structures that the database keeps in mapped files: the file of *)
(* rows, and the tree of an index, whose nodes are such rows.  Each        *)
(* behaviour exercises one of them.                                        *)
(***************************************************************************)
EXTENDS DbFile, TLC

CONSTANTS TableRows, Values, Batch, Callers, MaxCrashes, MaxNodes, FirstIndex

VARIABLES part, root, nodes, row, open, torn, left, crashes

Index == INSTANCE DbIndex WITH Rows <- TableRows, None <- NONE, size <- nodes

ASSUME IndexAssumption == Index!DbIndexAssumption

index == <<root, nodes, row, open, torn, left, crashes>>

StorageInit == part \in {"file", "index"} /\ Init /\ Index!Init

StorageNext ==
  \/ part = "file" /\ Next /\ UNCHANGED <<part, index>>
  \/ part = "index" /\ Index!Next /\ UNCHANGED <<part, vars>>

StorageSpec == StorageInit /\ [][StorageNext]_<<part, vars, index>>

Symmetry == Permutations(TableRows)

(* The properties of DbIndex: look-ups meet exactly the rows in the range, *)
(* ...                                                                     *)
LookupsExact == part = "index" => Index!LookupsExact

(* ... and no node of the file is lost but those that clear leaves behind. *)
NodesAccounted == part = "index" => Index!NodesAccounted

(* What database.hpp:167 says of the check at the start. *)
StartRepairs == Index!StartRepairs
=============================================================================
