----------------------------- MODULE Swapchain -----------------------------
(***************************************************************************)
(* WITE/window: present acquires an image of the swapchain, blits a        *)
(* rendered frame to it and hands it to the screen.  Each call uses the    *)
(* next of a ring of sets: a semaphore that the acquisition signals, a     *)
(* command buffer with its fence, a semaphore that the blit signals.       *)
(*                                                                         *)
(* Images, semaphores and the queue belong to Vulkan.  The steps of the    *)
(* GPU and of the screen are actions of their own; the queue is served in  *)
(* order, and the semaphore of the rendered frame is always signalled.     *)
(***************************************************************************)
EXTENDS Naturals, FiniteSets, Sequences

CONSTANTS
  Images,            \* of the swapchain
  Answers            \* what acquire and present may answer besides success and a timeout

SwapchainAssumption ==
  /\ IsFiniteSet(Images) /\ Images # {}
  /\ Answers \subseteq {"acquire out of date", "acquire suboptimal", "present out of date"}

NoImage == "no image"

VARIABLES
  owner,             \* who has each image: "swapchain", "program", "queue", "screen"
  acquisitionSem,    \* of each set: "idle", "awaiting" its signal, "signalled"
  blitSem,
  cmd,               \* "idle" or "pending"; the fence is signalled when idle
  gpuQueue,          \* blits and presents that were submitted
  activeSwapSem,
  presenting         \* where present is, and the image it acquired

vars == <<owner, acquisitionSem, blitSem, cmd, gpuQueue, activeSwapSem, presenting>>

swapSemCount_PerImage == Cardinality(Images)

swapSemCount == Cardinality(Images) + 2

Sets == 0 .. swapSemCount - 1

Absent == [pc |-> "idle", image |-> NoImage]

Init ==
  /\ owner = [i \in Images |-> "swapchain"]
  /\ acquisitionSem = [s \in Sets |-> "idle"] /\ blitSem = [s \in Sets |-> "idle"]
  /\ cmd = [s \in Sets |-> "idle"]
  /\ gpuQueue = <<>>
  /\ activeSwapSem = 0
  /\ presenting = Absent

Goto(place, image) == presenting' = [pc |-> place, image |-> image]

Present ==
  /\ presenting.pc = "idle"
  /\ Goto("acquire", NoImage)
  /\ UNCHANGED <<owner, acquisitionSem, blitSem, cmd, gpuQueue, activeSwapSem>>

(* No image is ready, or the swapchain is out of date: present gives up.   *)
NotReady ==
  /\ presenting.pc = "acquire"
  /\ "swapchain" \notin {owner[i] : i \in Images} \/ "acquire out of date" \in Answers
  /\ presenting' = Absent
  /\ UNCHANGED <<owner, acquisitionSem, blitSem, cmd, gpuQueue, activeSwapSem>>

(* An image, and a signal to come.  If the swapchain is suboptimal present *)
(* gives up all the same.                                                  *)
Acquire(i) ==
  /\ presenting.pc = "acquire" /\ owner[i] = "swapchain"
  /\ owner' = [owner EXCEPT ![i] = "program"]
  /\ acquisitionSem' = [acquisitionSem EXCEPT ![activeSwapSem] = "awaiting"]
  /\ \/ Goto("blit", i)
     \/ "acquire suboptimal" \in Answers /\ presenting' = Absent
  /\ UNCHANGED <<blitSem, cmd, gpuQueue, activeSwapSem>>

(* The wait for the fence, the recording and the submission.               *)
Blit ==
  /\ presenting.pc = "blit"
  /\ cmd[activeSwapSem] = "idle"
  /\ cmd' = [cmd EXCEPT ![activeSwapSem] = "pending"]
  /\ gpuQueue' = Append(gpuQueue, [op |-> "blit", set |-> activeSwapSem])
  /\ Goto("show", presenting.image)
  /\ UNCHANGED <<owner, acquisitionSem, blitSem, activeSwapSem>>

NextSet == IF activeSwapSem + 1 >= swapSemCount THEN 0 ELSE activeSwapSem + 1

(* presentKHR; after an error the same set is used again.                  *)
Show ==
  /\ presenting.pc = "show"
  /\ gpuQueue' = Append(gpuQueue, [op |-> "present", set |-> activeSwapSem, image |-> presenting.image])
  /\ owner' = [owner EXCEPT ![presenting.image] = "queue"]
  /\ \/ activeSwapSem' = NextSet
     \/ "present out of date" \in Answers /\ activeSwapSem' = activeSwapSem
  /\ presenting' = Absent
  /\ UNCHANGED <<acquisitionSem, blitSem, cmd>>

(* The presentation engine is done with an image that was acquired.        *)
Signal(s) ==
  /\ acquisitionSem[s] = "awaiting"
  /\ acquisitionSem' = [acquisitionSem EXCEPT ![s] = "signalled"]
  /\ UNCHANGED <<owner, blitSem, cmd, gpuQueue, activeSwapSem, presenting>>

(* The GPU executes a blit.                                                *)
Blitted ==
  /\ gpuQueue # <<>> /\ Head(gpuQueue).op = "blit"
  /\ LET s == Head(gpuQueue).set IN
       /\ acquisitionSem[s] = "signalled"
       /\ acquisitionSem' = [acquisitionSem EXCEPT ![s] = "idle"]
       /\ blitSem' = [blitSem EXCEPT ![s] = "signalled"]
       /\ cmd' = [cmd EXCEPT ![s] = "idle"]
  /\ gpuQueue' = Tail(gpuQueue)
  /\ UNCHANGED <<owner, activeSwapSem, presenting>>

(* An image reaches the screen; the one shown before goes back.            *)
Shown ==
  /\ gpuQueue # <<>> /\ Head(gpuQueue).op = "present"
  /\ LET s == Head(gpuQueue).set IN
       /\ blitSem[s] = "signalled"
       /\ blitSem' = [blitSem EXCEPT ![s] = "idle"]
  /\ owner' = [i \in Images |-> IF i = Head(gpuQueue).image THEN "screen"
                                ELSE IF owner[i] = "screen" THEN "swapchain" ELSE owner[i]]
  /\ gpuQueue' = Tail(gpuQueue)
  /\ UNCHANGED <<acquisitionSem, cmd, activeSwapSem, presenting>>

Next ==
  \/ Present \/ NotReady \/ (\E i \in Images : Acquire(i)) \/ Blit \/ Show
  \/ (\E s \in Sets : Signal(s)) \/ Blitted \/ Shown

Spec == Init /\ [][Next]_vars

(***************************************************************************)
(* Properties                                                              *)
(***************************************************************************)
(* present acquires with a semaphore that nothing signals or awaits any    *)
(* more, though it has not waited for the fence of the set yet, and        *)
(* submits a blit whose semaphore the screen has consumed, which no fence  *)
(* tells: more sets than there are images see to both.                     *)
SemaphoresIdle ==
  /\ presenting.pc = "acquire" => acquisitionSem[activeSwapSem] = "idle"
  /\ presenting.pc = "blit" /\ cmd[activeSwapSem] = "idle" => blitSem[activeSwapSem] = "idle"
=============================================================================
