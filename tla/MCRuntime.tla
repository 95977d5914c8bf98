----------------------------- MODULE MCRuntime -----------------------------
(***************************************************************************)
(* The engine's services, which share nothing but the machine: each        *)
(* behaviour exercises one of them, and the others rest in their initial   *)
(* state.                                                                  *)
(***************************************************************************)
EXTENDS Integers, CmdPool, TLC

CONSTANTS
  Images, Answers, Readers, Tids,
  RingFrames, maxContinuousSounds, DeviceFrames, MaxLength, MaxPushed, MaxAdds, EarlyDevice,
  Keys, Buttons, Wheels, Hats, Asked, maxFrameKeyboardBuffer, MaxEvents, MaxArrivals,
  typeCount, heapIndex, flags, Flags, scoreByFlag, Budget, Sizes, Requests, ObjectCount, Word,
  MaxSpawns

VARIABLES
  part,
  framesPlayed, combinedSounds, device, continuousSoundCount, continuousSounds, caller,
  pushed, played, added, clears,
  sdlQueue, arrived, event, allInputData, keyboard, holder, reader, shutdown, before, handled,
  freeMemoryByHeap, asking, vrams, live, misfreed,
  owner, acquisitionSem, blitSem, blitCmd, gpuQueue, activeSwapSem, presenting,
  spawning, sem, baby, child, threads, spawns, misused

Sounds == INSTANCE Sound
Inputs == INSTANCE Input
Memory == INSTANCE Vram WITH faults <- misfreed
Screen == INSTANCE Swapchain WITH cmd <- blitCmd
Spawning == INSTANCE Thread WITH at <- spawning, faults <- misused, Parents <- Threads

ASSUME RuntimeAssumption ==
  Sounds!SoundAssumption /\ Inputs!InputAssumption /\ Memory!VramAssumption
    /\ Screen!SwapchainAssumption /\ CmdPoolAssumption /\ Spawning!ThreadAssumption

Parts == {"sound", "input", "memory", "commands", "threads", "screen"}

sound == <<framesPlayed, combinedSounds, device, continuousSoundCount, continuousSounds, caller,
           pushed, played, added, clears>>
input == <<sdlQueue, arrived, event, allInputData, keyboard, holder, reader, shutdown, before, handled>>
memory == <<freeMemoryByHeap, asking, vrams, live, misfreed>>
screen == <<owner, acquisitionSem, blitSem, blitCmd, gpuQueue, activeSwapSem, presenting>>
spawned == <<spawning, sem, baby, child, threads, spawns, misused>>

RuntimeInit ==
  /\ part \in Parts
  /\ Init /\ Screen!Init /\ Sounds!Init /\ Inputs!Init /\ Memory!Init /\ Spawning!Init

RuntimeNext ==
  \/ part = "commands" /\ Next /\ UNCHANGED <<part, screen, sound, input, memory, spawned>>
  \/ part = "screen" /\ Screen!Next /\ UNCHANGED <<part, vars, sound, input, memory, spawned>>
  \/ part = "sound" /\ Sounds!Next /\ UNCHANGED <<part, vars, screen, input, memory, spawned>>
  \/ part = "input" /\ Inputs!Next /\ UNCHANGED <<part, vars, screen, sound, memory, spawned>>
  \/ part = "memory" /\ Memory!Next /\ UNCHANGED <<part, vars, screen, sound, input, spawned>>
  \/ part = "threads" /\ Spawning!Next /\ UNCHANGED <<part, vars, screen, sound, input, memory>>

RuntimeSpec ==
  RuntimeInit /\ [][RuntimeNext]_<<part, vars, screen, sound, input, memory, spawned>>

(* The memory types of the instance: one of the device, one of the host.   *)
HeapOf == 0 :> 1 @@ 1 :> 2
FlagsOf == 0 :> {"device"} @@ 1 :> {"host"}
Scores == "device" :> 256 @@ "host" :> -64
Budgets == 1 :> 2 @@ 2 :> 2
Requirements ==
  [requiredFlags : {{}, {"host"}}, memoryTypeBits : {{0, 1}}] \union [requiredFlags : {{}}, memoryTypeBits : {{1}}]

Symmetry == Permutations(Threads) \union Permutations(Tids) \union Permutations(Images)

(* Each service's property, stated in its own module as that of cmdPool    *)
(* is: wsound plays every frame once, ...                                  *)
FramesPlayOnce == part = "sound" => Sounds!FramesPlayOnce

(* ... its list of continuous sounds settles and is called where it is     *)
(* filled, ...                                                             *)
SoundsListed == part = "sound" => Sounds!SoundsListed

(* ... winput sums up exactly the events of a frame, ...                   *)
FrameSummed == part = "input" => Inputs!FrameSummed

(* ... gpu accounts for the memory of the device, ...                      *)
MemoryAccounted == part = "memory" => Memory!MemoryAccounted

(* ... window uses semaphores that are idle, ...                           *)
SemaphoresIdle == part = "screen" => Screen!SemaphoresIdle

(* ... and spawnThread's handshake holds.                                  *)
HandshakeHolds == part = "threads" => Spawning!HandshakeHolds
=============================================================================
