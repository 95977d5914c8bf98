----------------------------- MODULE SyncLock -----------------------------
(***************************************************************************)
(* The ticket lock of WITE/syncLock.{hpp,cpp} and the scopeLock guard that *)
(* every other part of WITE takes it through.                              *)
(*                                                                         *)
(* Each atomic operation of the code (fetch_add, load) is a step, so a     *)
(* thread may be stopped between taking its number and reading the number  *)
(* being served, and between the two fetch_adds of yield().                *)
(***************************************************************************)
EXTENDS Naturals, FiniteSets

CONSTANTS
  Threads,     \* the threads that share one lock
  MaxTickets   \* bound: how many numbers may be taken (2^64 in the code)

ASSUME MaxTicketsAssumption == MaxTickets \in Nat

VARIABLES
  queueSeed,     \* the next number to hand out
  queueCurrent,  \* the number being served
  seed,          \* the local variable seed (newSeed in yield) of each thread
  held,          \* the flag held of the thread's scopeLock
  pc             \* where each thread is in the code

vars == <<queueSeed, queueCurrent, seed, held, pc>>

(***************************************************************************)
(* "outside"   no scopeLock is in scope                                    *)
(* "waiting"   has a number, is in the loop that reads queueCurrent        *)
(* "inside"    WaitForLock or yield returned, release() not called yet     *)
(* "yielding"  between the two fetch_adds of yield()                       *)
(* "released"  release() was called, the scopeLock is still in scope       *)
(***************************************************************************)
Places == {"outside", "waiting", "inside", "yielding", "released"}

Owns(t) == pc[t] \in {"inside", "yielding"}

Queued(t) == pc[t] \in {"waiting", "yielding"}

Owners == {t \in Threads : Owns(t)}

QueuedThreads == {t \in Threads : Queued(t)}

Init ==
  /\ queueSeed = 0
  /\ queueCurrent = 0
  /\ seed = [t \in Threads |-> 0]
  /\ held = [t \in Threads |-> FALSE]
  /\ pc = [t \in Threads |-> "outside"]

TakeNumber(t) ==
  /\ queueSeed < MaxTickets
  /\ seed' = [seed EXCEPT ![t] = queueSeed]
  /\ queueSeed' = queueSeed + 1

ServeNext == queueCurrent' = queueCurrent + 1

(* scopeLock(sl): WaitForLock takes a number ...                           *)
Enqueue(t) ==
  /\ pc[t] = "outside"
  /\ TakeNumber(t)
  /\ pc' = [pc EXCEPT ![t] = "waiting"]
  /\ UNCHANGED <<queueCurrent, held>>

Enter_AnyWhenFree(t) ==
  /\ pc[t] = "waiting"
  /\ Owners = {}
  /\ held' = [held EXCEPT ![t] = TRUE]
  /\ pc' = [pc EXCEPT ![t] = "inside"]
  /\ UNCHANGED <<queueSeed, queueCurrent, seed>>

(* ... and returns once that number is served.                             *)
Enter(t) ==
  /\ pc[t] = "waiting"
  /\ seed[t] <= queueCurrent
  /\ held' = [held EXCEPT ![t] = TRUE]
  /\ pc' = [pc EXCEPT ![t] = "inside"]
  /\ UNCHANGED <<queueSeed, queueCurrent, seed>>

Release_KeepsHeld(t) ==
  /\ pc[t] \in {"inside", "released"}
  /\ IF held[t] THEN ServeNext ELSE UNCHANGED queueCurrent
  /\ pc' = [pc EXCEPT ![t] = "released"]
  /\ UNCHANGED <<queueSeed, seed, held>>

(* scopeLock::release() before the end of the scope.                       *)
Release(t) ==
  /\ pc[t] \in {"inside", "released"}
  /\ IF held[t] THEN ServeNext ELSE UNCHANGED queueCurrent
  /\ held' = [held EXCEPT ![t] = FALSE]
  /\ pc' = [pc EXCEPT ![t] = "released"]
  /\ UNCHANGED <<queueSeed, seed>>

(* ~scopeLock().                                                           *)
EndScope(t) ==
  /\ pc[t] \in {"inside", "released"}
  /\ IF held[t] THEN ServeNext ELSE UNCHANGED queueCurrent
  /\ held' = [held EXCEPT ![t] = FALSE]
  /\ pc' = [pc EXCEPT ![t] = "outside"]
  /\ UNCHANGED <<queueSeed, seed>>

YieldTake_OldNumber(t) ==
  /\ pc[t] = "inside"
  /\ pc' = [pc EXCEPT ![t] = "yielding"]
  /\ UNCHANGED <<queueSeed, queueCurrent, seed, held>>

YieldGive_NotServed(t) ==
  /\ pc[t] = "yielding"
  /\ pc' = [pc EXCEPT ![t] = "waiting"]
  /\ UNCHANGED <<queueSeed, queueCurrent, seed, held>>

(* yield(): a new number first, then the lock passes to the next in line.  *)
YieldTake(t) ==
  /\ pc[t] = "inside"
  /\ TakeNumber(t)
  /\ pc' = [pc EXCEPT ![t] = "yielding"]
  /\ UNCHANGED <<queueCurrent, held>>

YieldGive(t) ==
  /\ pc[t] = "yielding"
  /\ ServeNext
  /\ pc' = [pc EXCEPT ![t] = "waiting"]
  /\ UNCHANGED <<queueSeed, seed, held>>

Next ==
  \E t \in Threads :
    \/ Enqueue(t)
    \/ Enter(t)
    \/ Release(t)
    \/ EndScope(t)
    \/ YieldTake(t)
    \/ YieldGive(t)

(***************************************************************************)
(* A thread that is scheduled re-reads queueCurrent, and a scope ends: no  *)
(* user of the lock blocks forever while it is inside.  Nobody is obliged  *)
(* to ask for the lock or to yield it.                                     *)
(***************************************************************************)
Fairness ==
  \A t \in Threads :
    /\ WF_vars(Enter(t))
    /\ WF_vars(EndScope(t))
    /\ WF_vars(YieldGive(t))

Spec == Init /\ [][Next]_vars

FairSpec == Spec /\ Fairness

---------------------------------------------------------------------------

(* The counters never pass the last number handed out.                     *)
TypeOK ==
  /\ queueSeed \in 0 .. MaxTickets
  /\ queueCurrent \in 0 .. MaxTickets
  /\ seed \in [Threads -> 0 .. MaxTickets]
  /\ held \in [Threads -> BOOLEAN]
  /\ pc \in [Threads -> Places]

(* Two threads are never between WaitForLock and ReleaseLock together, not *)
(* even while one of them is half way through a yield.                     *)
MutualExclusion ==
  \A t, u \in Threads : Owns(t) /\ Owns(u) => t = u

(* The order of the numbers decides everything: those waited for are       *)
(* distinct, none is below the one served, and while somebody is inside    *)
(* all of them are above it.                                               *)
TicketOrder ==
  /\ \A t \in Threads : pc[t] = "released" => ~held[t]
  /\ queueCurrent <= queueSeed
  /\ \A t \in Threads : Queued(t) => queueCurrent <= seed[t] /\ seed[t] < queueSeed
  /\ \A t, u \in Threads : Queued(t) /\ Queued(u) /\ seed[t] = seed[u] => t = u
  /\ \A t \in Threads : Owns(t) =>
        /\ held[t]
        /\ queueCurrent < queueSeed
        /\ \A u \in Threads : Queued(u) => queueCurrent < seed[u]
        /\ \A u \in Threads : Owns(u) => u = t

GetsInBefore(t, u) ==
  /\ pc[t] = "waiting" /\ pc[u] = "waiting" /\ seed[u] < seed[t]
  /\ pc'[t] = "inside"

NobodyOvertaken == \A t, u \in Threads : ~GetsInBefore(t, u)

(* A thread never gets in while one that took its number earlier waits.    *)
NoOvertaking == [][NobodyOvertaken]_vars

(* Whoever takes a number gets the lock.                                   *)
NoStarvation == \A t \in Threads : pc[t] = "waiting" ~> pc[t] = "inside"

(* The lock as its callers see it: who owns it, who waits, in what order.  *)
Lock == INSTANCE FifoLock WITH
  owner  <- Owners,
  queued <- QueuedThreads,
  before <- {p \in QueuedThreads \X QueuedThreads : seed[p[1]] < seed[p[2]]}

(* Every step of the ticket lock is a step of the first-come-first-served  *)
(* lock, or changes nothing a caller can see.                              *)
ImplementsFifoLock == Lock!Safety

===========================================================================
