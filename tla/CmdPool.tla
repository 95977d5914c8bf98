------------------------------ MODULE CmdPool ------------------------------
(***************************************************************************)
(* WITE/cmdPool: one-off commands.  Every thread has a pool of its own and *)
(* submits to the low priority queue under lowPrioQueueMutex.  The         *)
(* renderer submits to the other queue under queueMutex, and presents on   *)
(* it under no mutex.                                                      *)
(*                                                                         *)
(* A command is known by its number: a command buffer and its fence.       *)
(***************************************************************************)
EXTENDS Naturals, SequencesExt

CONSTANTS
  Threads, Renderer,
  QueueCount,          \* queues the device was created with: 1 or 2
  CommandCount         \* bound: commands of a pool

Nobody == "nobody"

CmdPoolAssumption ==
  /\ Renderer \notin Threads /\ Nobody \notin Threads \union {Renderer}
  /\ QueueCount \in {1, 2} /\ CommandCount \in Nat

Callers == Threads \union {Renderer}
Commands == 1 .. CommandCount

(* gpu::gpu: the first queue has low priority, the last one is the main.   *)
lowPrioQueue == 0
queue == QueueCount - 1

VARIABLES
  at,                  \* where each thread is
  cmd,                 \* per thread: the command it records or has submitted last, 0 if none
  made,                \* per thread: commands its pool has created
  submitted,           \* per thread: cmdPool::submitted
  signalled,           \* per thread: its commands whose fence is signalled
  executing,           \* per thread: its commands that the device has yet to execute
  lowPrioQueueMutex, queueMutex,
  inside               \* the queue each thread is calling a function of

vars == <<at, cmd, made, submitted, signalled, executing, lowPrioQueueMutex, queueMutex, inside>>
pools == <<cmd, made, submitted, signalled, executing>>

NoQueue == 2

Init ==
  /\ at = [c \in Callers |-> "idle"]
  /\ cmd = [w \in Threads |-> 0] /\ made = [w \in Threads |-> 0]
  /\ submitted = [w \in Threads |-> <<>>]
  /\ signalled = [w \in Threads |-> {}] /\ executing = [w \in Threads |-> <<>>]
  /\ lowPrioQueueMutex = Nobody /\ queueMutex = Nobody
  /\ inside = [c \in Callers |-> NoQueue]

Goto(c, place) == at' = [at EXCEPT ![c] = place]
Enter(c, q) == inside' = [inside EXCEPT ![c] = q]

isPending(w, n) == n \notin signalled[w]

Oldest(w) == IF submitted[w] = <<>> THEN {} ELSE {Head(submitted[w])}

Reusable_Any(w) == Oldest(w)
Reusable(w) == {n \in Oldest(w) : ~isPending(w, n)}

(* The command that was submitted first is used again unless it is still   *)
(* pending.                                                                *)
allocate(w) ==
  /\ at[w] = "idle"
  /\ \/ /\ Reusable(w) = {} /\ made[w] < CommandCount
        /\ made' = [made EXCEPT ![w] = @ + 1]
        /\ cmd' = [cmd EXCEPT ![w] = made[w] + 1]
        /\ signalled' = [signalled EXCEPT ![w] = @ \union {made[w] + 1}]
        /\ submitted' = submitted
     \/ /\ \E n \in Reusable(w) : cmd' = [cmd EXCEPT ![w] = n]
        /\ submitted' = [submitted EXCEPT ![w] = Tail(@)]
        /\ made' = made /\ signalled' = signalled
  /\ Goto(w, "recording")
  /\ UNCHANGED <<executing, lowPrioQueueMutex, queueMutex, inside>>

Reset(fences, n) == fences \ {n}

(* submit: the end of the recording and the fence, ...                     *)
ResetFence(w) ==
  /\ at[w] = "recording"
  /\ signalled' = [signalled EXCEPT ![w] = Reset(@, cmd[w])]
  /\ Goto(w, "lock")
  /\ UNCHANGED <<cmd, made, submitted, executing, lowPrioQueueMutex, queueMutex, inside>>

(* ... the call on the queue under its mutex, ...                          *)
Lock(w) ==
  /\ at[w] = "lock"
  /\ lowPrioQueueMutex = Nobody
  /\ lowPrioQueueMutex' = w
  /\ Enter(w, lowPrioQueue) /\ Goto(w, "submit")
  /\ UNCHANGED <<pools, queueMutex>>

Submitted(w) ==
  /\ at[w] = "submit"
  /\ executing' = [executing EXCEPT ![w] = Append(@, cmd[w])]
  /\ lowPrioQueueMutex' = Nobody
  /\ Enter(w, NoQueue) /\ Goto(w, "push")
  /\ UNCHANGED <<cmd, made, submitted, signalled, queueMutex>>

(* ... and the command joins the queue of its pool.                        *)
PushSubmitted(w) ==
  /\ at[w] = "push"
  /\ submitted' = [submitted EXCEPT ![w] = Append(@, cmd[w])]
  /\ Goto(w, "pushed")
  /\ UNCHANGED <<cmd, made, signalled, executing, lowPrioQueueMutex, queueMutex, inside>>

(* The thread lets the command run; waitFor only delays it here until the  *)
(* command is pending no longer.                                           *)
WaitFor(w) ==
  /\ at[w] = "pushed"
  /\ Goto(w, "idle")
  /\ cmd' = [cmd EXCEPT ![w] = 0]
  /\ UNCHANGED <<made, submitted, signalled, executing, lowPrioQueueMutex, queueMutex, inside>>

(* The device executes the commands of a pool in the order of submission.  *)
Execute(w) ==
  /\ executing[w] # <<>>
  /\ executing' = [executing EXCEPT ![w] = Tail(@)]
  /\ signalled' = [signalled EXCEPT ![w] = @ \union {Head(executing[w])}]
  /\ UNCHANGED <<at, cmd, made, submitted, lowPrioQueueMutex, queueMutex, inside>>

(* onion::render submits a frame, window::present a blit, ...              *)
Render ==
  /\ at[Renderer] = "idle" /\ queueMutex = Nobody
  /\ queueMutex' = Renderer
  /\ Enter(Renderer, queue) /\ Goto(Renderer, "submit")
  /\ UNCHANGED <<pools, lowPrioQueueMutex>>

Rendered ==
  /\ at[Renderer] = "submit"
  /\ queueMutex' = Nobody
  /\ Enter(Renderer, NoQueue) /\ Goto(Renderer, "present")
  /\ UNCHANGED <<pools, lowPrioQueueMutex>>

(* ... and presentKHR is called on the same queue.                         *)
Present ==
  /\ at[Renderer] = "present"
  /\ Enter(Renderer, queue) /\ Goto(Renderer, "presenting")
  /\ UNCHANGED <<pools, lowPrioQueueMutex, queueMutex>>

Presented ==
  /\ at[Renderer] = "presenting"
  /\ Enter(Renderer, NoQueue) /\ Goto(Renderer, "idle")
  /\ UNCHANGED <<pools, lowPrioQueueMutex, queueMutex>>

Next ==
  \/ \E w \in Threads :
       allocate(w) \/ ResetFence(w) \/ Lock(w) \/ Submitted(w) \/ PushSubmitted(w) \/ WaitFor(w) \/ Execute(w)
  \/ Render \/ Rendered \/ Present \/ Presented

Spec == Init /\ [][Next]_vars

(***************************************************************************)
(* Properties                                                              *)
(***************************************************************************)
(* Places, commands, fences, mutexes and queues have the values that the   *)
(* pools, the device and the two submitters give them.                     *)
TypeOK ==
  /\ at \in [Callers -> {"idle", "recording", "lock", "submit", "push", "pushed", "present", "presenting"}]
  /\ cmd \in [Threads -> Nat] /\ made \in [Threads -> Nat]
  /\ submitted \in [Threads -> Seq(Nat)] /\ executing \in [Threads -> Seq(Nat)]
  /\ signalled \in [Threads -> SUBSET Nat]
  /\ lowPrioQueueMutex \in Threads \union {Nobody} /\ queueMutex \in {Renderer, Nobody}
  /\ inside \in [Callers -> {lowPrioQueue, queue, NoQueue}]

(* A thread records only a command that the device does not execute any    *)
(* more and that is in its pool no longer, and the fence of a submitted    *)
(* command tells whether it is still executed: allocate looks at the       *)
(* oldest one alone.  No two threads are in a call on the same queue, as   *)
(* Vulkan asks of both submissions and presentations; with a single queue  *)
(* they could be, for the two mutexes are different ones.                  *)
CommandsGuarded ==
  /\ \A w \in Threads :
       /\ at[w] = "recording" => cmd[w] \notin ToSet(executing[w]) \union ToSet(submitted[w])
       /\ \A n \in ToSet(submitted[w]) : isPending(w, n) <=> n \in ToSet(executing[w])
       /\ IsInjective(submitted[w])
  /\ \A c, d \in Callers : c # d /\ inside[c] # NoQueue => inside[c] # inside[d]
=============================================================================
