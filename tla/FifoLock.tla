----------------------------- MODULE FifoLock -----------------------------
(***************************************************************************)
(* What WITE/syncLock promises its callers: at most one thread owns the    *)
(* lock, and threads get it in the order in which they asked for it.       *)
(*                                                                         *)
(* A thread may be queued and own the lock at the same time: that is the   *)
(* first half of a yield, which joins the back of the queue before it      *)
(* gives the lock up.                                                      *)
(***************************************************************************)

CONSTANT Threads

VARIABLES
  owner,   \* the set of threads that own the lock
  queued,  \* the set of threads that asked for it and are waiting
  before   \* <<t, u>> is in before when queued t asked earlier than queued u

vars == <<owner, queued, before>>

Init ==
  /\ owner = {}
  /\ queued = {}
  /\ before = {}

Join(t) ==
  /\ t \notin queued
  /\ queued' = queued \union {t}
  /\ before' = before \union (queued \X {t})

Ask(t) ==
  /\ t \notin owner
  /\ Join(t)
  /\ UNCHANGED owner

AskAgain(t) ==
  /\ t \in owner
  /\ Join(t)
  /\ UNCHANGED owner

Grant(t) ==
  /\ owner = {}
  /\ t \in queued
  /\ \A u \in queued : <<u, t>> \notin before
  /\ owner' = {t}
  /\ queued' = queued \ {t}
  /\ before' = {p \in before : p[1] # t /\ p[2] # t}

Release(t) ==
  /\ t \in owner
  /\ owner' = owner \ {t}
  /\ UNCHANGED <<queued, before>>

Next == \E t \in Threads : Ask(t) \/ AskAgain(t) \/ Grant(t) \/ Release(t)

Safety == Init /\ [][Next]_vars

===========================================================================
