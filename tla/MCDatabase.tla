---------------------------- MODULE MCDatabase ----------------------------
(***************************************************************************)
(* Database for TLC: the workers and the rows are interchangeable.  Once a *)
(* backup is asked for it is in progress for good; a behaviour in which a  *)
(* create has been overtaken is followed up to there, which keeps the run  *)
(* short.                                                                  *)
(***************************************************************************)
EXTENDS Database, TLC

Symmetry == Permutations(Workers) \union Permutations(Rows)

BackupOrOvertaken == overtaken = {} \/ ~backupInProgress

===========================================================================
