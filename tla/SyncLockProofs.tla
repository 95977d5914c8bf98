-------------------------- MODULE SyncLockProofs --------------------------
(***************************************************************************)
(* Safety of the ticket lock for every set of threads and every number of  *)
(* acquisitions.  TicketOrder, with TypeOK, is inductive; mutual exclusion *)
(* and the absence of overtaking follow from it.                           *)
(***************************************************************************)
EXTENDS SyncLock, TLAPS

(* The constructor: no number taken, none waited for.                      *)
LEMMA InitTyped == Init => TypeOK /\ TicketOrder
  BY MaxTicketsAssumption
  DEF Init, TypeOK, TicketOrder, Places, Owns, Queued

(* Numbers stay within those handed out.                                   *)
LEMMA TypeOKStep ==
  ASSUME TypeOK, TicketOrder, [Next]_vars
  PROVE  TypeOK'
<1> USE MaxTicketsAssumption
<1>1. ASSUME NEW t \in Threads, Enqueue(t)
      PROVE  TypeOK'
  BY <1>1 DEF TypeOK, TicketOrder, Enqueue, TakeNumber, Places
<1>2. ASSUME NEW t \in Threads, Enter(t)
      PROVE  TypeOK'
  BY <1>2 DEF TypeOK, TicketOrder, Enter, Places
<1>3. ASSUME NEW t \in Threads, Release(t)
      PROVE  TypeOK'
  BY <1>3 DEF TypeOK, TicketOrder, Release, ServeNext, Places, Owns
<1>4. ASSUME NEW t \in Threads, EndScope(t)
      PROVE  TypeOK'
  BY <1>4 DEF TypeOK, TicketOrder, EndScope, ServeNext, Places, Owns
<1>5. ASSUME NEW t \in Threads, YieldTake(t)
      PROVE  TypeOK'
  BY <1>5 DEF TypeOK, TicketOrder, YieldTake, TakeNumber, Places
<1>6. ASSUME NEW t \in Threads, YieldGive(t)
      PROVE  TypeOK'
  BY <1>6 DEF TypeOK, TicketOrder, YieldGive, ServeNext, Places, Owns
<1>7. CASE UNCHANGED vars
  BY <1>7 DEF TypeOK, vars
<1>8. QED
  BY <1>1, <1>2, <1>3, <1>4, <1>5, <1>6, <1>7 DEF Next

(* Taking and serving numbers keeps their order.                           *)
LEMMA TicketOrderStep ==
  ASSUME TypeOK, TicketOrder, [Next]_vars
  PROVE  TicketOrder'
<1> USE MaxTicketsAssumption DEF Owns, Queued
<1>1. ASSUME NEW t \in Threads, Enqueue(t)
      PROVE  TicketOrder'
  BY <1>1 DEF TypeOK, TicketOrder, Enqueue, TakeNumber, Places
<1>2. ASSUME NEW t \in Threads, Enter(t)
      PROVE  TicketOrder'
  BY <1>2 DEF TypeOK, TicketOrder, Enter, Places
<1>3. ASSUME NEW t \in Threads, Release(t)
      PROVE  TicketOrder'
  BY <1>3 DEF TypeOK, TicketOrder, Release, ServeNext, Places
<1>4. ASSUME NEW t \in Threads, EndScope(t)
      PROVE  TicketOrder'
  BY <1>4 DEF TypeOK, TicketOrder, EndScope, ServeNext, Places
<1>5. ASSUME NEW t \in Threads, YieldTake(t)
      PROVE  TicketOrder'
  BY <1>5 DEF TypeOK, TicketOrder, YieldTake, TakeNumber, Places
<1>6. ASSUME NEW t \in Threads, YieldGive(t)
      PROVE  TicketOrder'
  BY <1>6 DEF TypeOK, TicketOrder, YieldGive, ServeNext, Places
<1>7. CASE UNCHANGED vars
  BY <1>7 DEF TicketOrder, vars
<1>8. QED
  BY <1>1, <1>2, <1>3, <1>4, <1>5, <1>6, <1>7 DEF Next

(* The inductive invariant: every reachable state is well typed and has    *)
(* its numbers in order.                                                   *)
THEOREM Inductive == Spec => [](TypeOK /\ TicketOrder)
<1>1. TypeOK /\ TicketOrder /\ [Next]_vars => (TypeOK /\ TicketOrder)'
  BY TypeOKStep, TicketOrderStep
<1>2. QED
  BY InitTyped, <1>1, PTL DEF Spec

(* WaitForLock / ReleaseLock: one thread at a time, whatever the threads.  *)
THEOREM OneOwner == Spec => []MutualExclusion
<1>1. TicketOrder => MutualExclusion
  BY DEF TicketOrder, MutualExclusion
<1>2. QED
  BY <1>1, Inductive, PTL

(* WaitForLock serves threads in the order of their numbers.               *)
THEOREM ServedInOrder == Spec => NoOvertaking
<1>1. ASSUME TypeOK, TicketOrder, [Next]_vars,
             NEW t \in Threads, NEW u \in Threads, GetsInBefore(t, u)
      PROVE  FALSE
  <2>1. ~(seed[t] <= queueCurrent)
    BY <1>1, MaxTicketsAssumption DEF TypeOK, TicketOrder, Queued, GetsInBefore
  <2>2. QED
    BY <1>1, <2>1 DEF TypeOK, Next, vars, Enqueue, Enter, Release, EndScope,
                      YieldTake, YieldGive, GetsInBefore
<1>2. TypeOK /\ TicketOrder /\ [Next]_vars => [NobodyOvertaken]_vars
  BY <1>1 DEF NobodyOvertaken
<1>3. QED
  BY <1>2, Inductive, PTL DEF Spec, NoOvertaking

---------------------------------------------------------------------------
(* The refinement, one action at a time.                                   *)

(* The new lock is free and nobody waits for it.                           *)
LEMMA InitRefines == Init => Lock!Init
  BY DEF Init, Lock!Init, Owners, QueuedThreads, Owns, Queued

Before == {p \in QueuedThreads \X QueuedThreads : seed[p[1]] < seed[p[2]]}

(* A fresh number is above all the numbers waited for.                     *)
LEMMA NumberTaken ==
  ASSUME TypeOK, TicketOrder, NEW t \in Threads, t \notin QueuedThreads,
         TakeNumber(t), QueuedThreads' = QueuedThreads \union {t}
  PROVE  Before' = Before \union (QueuedThreads \X {t})
BY MaxTicketsAssumption
DEF TypeOK, TicketOrder, TakeNumber, Before, QueuedThreads, Queued

(* WaitForLock's first operation asks for the lock.                        *)
LEMMA EnqueueRefines ==
  ASSUME TypeOK, TicketOrder, NEW t \in Threads, Enqueue(t)
  PROVE  Lock!Ask(t)
<1>1. t \notin Owners /\ t \notin QueuedThreads
  BY DEF Enqueue, Owners, QueuedThreads, Owns, Queued
<1>2. Owners' = Owners /\ QueuedThreads' = QueuedThreads \union {t}
  BY DEF TypeOK, Enqueue, Owners, QueuedThreads, Owns, Queued
<1>3. Before' = Before \union (QueuedThreads \X {t})
  BY <1>1, <1>2, NumberTaken DEF Enqueue
<1>4. QED
  BY <1>1, <1>2, <1>3 DEF Lock!Ask, Lock!Join, Before

(* The first half of yield: the owner joins the back of the queue.         *)
LEMMA YieldTakeRefines ==
  ASSUME TypeOK, TicketOrder, NEW t \in Threads, YieldTake(t)
  PROVE  Lock!AskAgain(t)
<1>1. t \in Owners /\ t \notin QueuedThreads
  BY DEF YieldTake, Owners, QueuedThreads, Owns, Queued
<1>2. Owners' = Owners /\ QueuedThreads' = QueuedThreads \union {t}
  BY DEF TypeOK, YieldTake, Owners, QueuedThreads, Owns, Queued
<1>3. Before' = Before \union (QueuedThreads \X {t})
  BY <1>1, <1>2, NumberTaken DEF YieldTake
<1>4. QED
  BY <1>1, <1>2, <1>3 DEF Lock!AskAgain, Lock!Join, Before

(* The number served is the lowest one waited for.                         *)
LEMMA EnterRefines ==
  ASSUME TypeOK, TicketOrder, NEW t \in Threads, Enter(t)
  PROVE  Lock!Grant(t)
<1>1. Owners = {}
  BY MaxTicketsAssumption DEF TypeOK, TicketOrder, Enter, Owners, Owns, Queued
<1>2. t \in QueuedThreads /\ Owners' = {t}
  BY <1>1 DEF TypeOK, Enter, Owners, QueuedThreads, Owns, Queued
<1>3. QueuedThreads' = QueuedThreads \ {t}
  BY DEF TypeOK, Enter, QueuedThreads, Queued
<1>4. \A u \in QueuedThreads : <<u, t>> \notin Before
  BY MaxTicketsAssumption
  DEF TypeOK, TicketOrder, Enter, QueuedThreads, Queued, Before
<1>5. Before' = {p \in Before : p[1] # t /\ p[2] # t}
  BY <1>3 DEF Enter, Before
<1>6. QED
  BY <1>1, <1>2, <1>3, <1>4, <1>5 DEF Lock!Grant, Before

(* Release and the end of a scope give the lock up.                        *)
LEMMA LeaveRefines ==
  ASSUME TypeOK, TicketOrder, NEW t \in Threads, Release(t) \/ EndScope(t)
  PROVE  Lock!Release(t) \/ UNCHANGED Lock!vars
<1>1. QueuedThreads' = QueuedThreads /\ Before' = Before
  <2>1. QueuedThreads' = QueuedThreads
    BY DEF TypeOK, Release, EndScope, QueuedThreads, Queued
  <2>2. QED
    BY <2>1 DEF Release, EndScope, Before
<1>2. Owners' = Owners \ {t}
  BY DEF TypeOK, Release, EndScope, Owners, Owns
<1>3. QED
  BY <1>1, <1>2 DEF Lock!Release, Lock!vars, Before

(* The second half of yield gives it up and waits with the number taken.   *)
LEMMA YieldGiveRefines ==
  ASSUME TypeOK, TicketOrder, NEW t \in Threads, YieldGive(t)
  PROVE  Lock!Release(t)
<1>1. QueuedThreads' = QueuedThreads
  BY DEF TypeOK, YieldGive, QueuedThreads, Queued
<1>2. Before' = Before
  BY <1>1 DEF YieldGive, Before
<1>3. t \in Owners /\ Owners' = Owners \ {t}
  BY DEF TypeOK, YieldGive, Owners, Owns
<1>4. QED
  BY <1>1, <1>2, <1>3 DEF Lock!Release, Before

(* The ticket lock implements the first-come-first-served lock.            *)
THEOREM Refinement == Spec => ImplementsFifoLock
<1>1. ASSUME TypeOK, TicketOrder, [Next]_vars
      PROVE  [Lock!Next]_Lock!vars
  <2>1. CASE UNCHANGED vars
    <3>1. QueuedThreads' = QueuedThreads /\ Owners' = Owners
      BY <2>1 DEF vars, QueuedThreads, Owners, Queued, Owns
    <3>2. Before' = Before
      BY <2>1, <3>1 DEF vars, Before
    <3>3. QED
      BY <3>1, <3>2 DEF Lock!vars, Before
  <2>2. CASE Next
    BY <1>1, <2>2, EnqueueRefines, YieldTakeRefines, EnterRefines,
       LeaveRefines, YieldGiveRefines DEF Next, Lock!Next
  <2>3. QED
    BY <1>1, <2>1, <2>2
<1>2. TypeOK /\ TicketOrder /\ [Next]_vars => [Lock!Next]_Lock!vars
  BY <1>1
<1>3. QED
  BY InitRefines, <1>2, Inductive, PTL DEF Spec, ImplementsFifoLock, Lock!Safety

===========================================================================
