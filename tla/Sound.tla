------------------------------- MODULE Sound -------------------------------
(***************************************************************************)
(* WITE/wsound: a ring of samples that the audio device empties from a     *)
(* thread of its own while the program adds sounds to it, one sample at a  *)
(* time, and a list of continuous sounds that the device calls.            *)
(*                                                                         *)
(* A cell of the ring is one frame: its left and its right sample, which   *)
(* the code always handles one after the other.  A cell counts the sounds  *)
(* added to it and not played.  framesPlayed is kept modulo the ring,      *)
(* which is all the code uses of it.                                       *)
(***************************************************************************)
EXTENDS Naturals, FiniteSets

CONSTANTS
  Threads,               \* the program's threads
  RingFrames,            \* combinedSoundsSamples / 2
  maxContinuousSounds,
  DeviceFrames,          \* frames the device asks for at a time
  MaxLength,             \* bound: frames of a pushed sound
  MaxPushed,             \* bound: frames pushed
  MaxAdds,               \* bound: continuous sounds added
  EarlyDevice            \* the device may call before initSound has its ring

SoundAssumption ==
  /\ {RingFrames, DeviceFrames, MaxLength} \subseteq Nat \ {0}
  /\ RingFrames % 2 = 0
  /\ {maxContinuousSounds, MaxPushed, MaxAdds} \subseteq Nat
  /\ EarlyDevice \in BOOLEAN /\ IsFiniteSet(Threads)

Frames == 0 .. RingFrames - 1
Places == 0 .. maxContinuousSounds - 1

VARIABLES
  framesPlayed,
  combinedSounds,        \* empty until initSound allocates it, then a function on Frames
  device,                \* the callback: where it is, its cursor, the frames left, its index i
  continuousSoundCount,
  continuousSounds,      \* the places that hold a sound
  caller,                \* per thread: the call it is in, its cursor or index, the frames left
  pushed, played,        \* history: frames added to the ring and taken from it
  added, clears          \* history: continuous sounds the program wanted, lists cleared

vars == <<framesPlayed, combinedSounds, device, continuousSoundCount, continuousSounds, caller,
          pushed, played, added, clears>>

Resting == [pc |-> "idle", at |-> 0, left |-> 0]
Silent == [pc |-> "idle", c |-> 0, left |-> 0, i |-> 0]

(* initSound up to the point where it starts the device. *)
Init ==
  /\ framesPlayed = 0 /\ combinedSounds = <<>>
  /\ device = Silent
  /\ continuousSoundCount = 0 /\ continuousSounds = {}
  /\ caller = [t \in Threads |-> Resting]
  /\ pushed = 0 /\ played = 0 /\ added = 0 /\ clears = 0

Allocated == combinedSounds # <<>>

(* The end of initSound, after which the program may use the rest. *)
Allocate ==
  /\ ~Allocated
  /\ combinedSounds' = [f \in Frames |-> 0]
  /\ UNCHANGED <<framesPlayed, device, continuousSoundCount, continuousSounds, caller, pushed, played, added, clears>>

(***************************************************************************)
(* sdlCallback                                                             *)
(***************************************************************************)
Callback ==
  /\ device.pc = "idle" /\ (Allocated \/ EarlyDevice)
  /\ device' = [pc |-> "mix", c |-> framesPlayed, left |-> DeviceFrames, i |-> 0]
  /\ framesPlayed' = (framesPlayed + DeviceFrames) % RingFrames
  /\ UNCHANGED <<combinedSounds, continuousSoundCount, continuousSounds, caller, pushed, played, added, clears>>

After(c) == IF c + 1 >= RingFrames THEN c + 1 - RingFrames ELSE c + 1

(* What exchange leaves in the cell. *)
Exchanged_Load(v) == v
Exchanged(v) == 0

MixFrame ==
  /\ device.pc = "mix" /\ device.left > 0 /\ Allocated
  /\ played' = played + combinedSounds[device.c]
  /\ combinedSounds' = [combinedSounds EXCEPT ![device.c] = Exchanged(@)]
  /\ device' = [device EXCEPT !.c = After(@), !.left = @ - 1]
  /\ UNCHANGED <<framesPlayed, continuousSoundCount, continuousSounds, caller, pushed, added, clears>>

(* The loop over the continuous sounds reads the count again for each. *)
CheckSound ==
  /\ device.pc = "mix" /\ device.left = 0
  /\ device' = IF device.i >= continuousSoundCount THEN Silent
               ELSE IF device.i \in continuousSounds THEN [device EXCEPT !.pc = "call"]
               ELSE [device EXCEPT !.i = @ + 1]
  /\ UNCHANGED <<framesPlayed, combinedSounds, continuousSoundCount, continuousSounds, caller, pushed, played, added, clears>>

CallSound ==
  /\ device.pc = "call"
  /\ device' = [device EXCEPT !.pc = "mix", !.i = @ + 1]
  /\ UNCHANGED <<framesPlayed, combinedSounds, continuousSoundCount, continuousSounds, caller, pushed, played, added, clears>>

(***************************************************************************)
(* pushSound                                                               *)
(***************************************************************************)
Push(t, length) ==
  /\ caller[t].pc = "idle" /\ Allocated
  /\ pushed + length <= MaxPushed
  /\ caller' = [caller EXCEPT ![t] = [pc |-> "push", at |-> framesPlayed, left |-> length]]
  /\ UNCHANGED <<framesPlayed, combinedSounds, device, continuousSoundCount, continuousSounds, pushed, played, added, clears>>

(* The cursor goes round at half of the ring: o counts the samples of one  *)
(* channel against combinedSoundsSamples / 2, but it steps over both.      *)
Onward(o) == IF o + 1 >= RingFrames \div 2 THEN o + 1 - RingFrames \div 2 ELSE o + 1

Added(v) == v + 1

PushFrame(t) ==
  /\ caller[t].pc = "push"
  /\ combinedSounds' = [combinedSounds EXCEPT ![caller[t].at] = Added(@)]
  /\ caller' = [caller EXCEPT ![t] = IF @.left = 1 THEN Resting
                                     ELSE [pc |-> "push", at |-> Onward(@.at), left |-> @.left - 1]]
  /\ pushed' = pushed + 1
  /\ UNCHANGED <<framesPlayed, device, continuousSoundCount, continuousSounds, played, added, clears>>

(***************************************************************************)
(* addContinuousSound and clearContinuousSounds                            *)
(***************************************************************************)
Add(t) ==
  /\ caller[t].pc = "idle" /\ Allocated /\ added < MaxAdds
  /\ \A s \in Threads : caller[s].pc # "clear"
  /\ caller' = [caller EXCEPT ![t] = [pc |-> "add", at |-> continuousSoundCount, left |-> 0]]
  /\ continuousSoundCount' = continuousSoundCount + 1
  /\ added' = added + 1
  /\ UNCHANGED <<framesPlayed, combinedSounds, device, continuousSounds, pushed, played, clears>>

Placed_KeepsCount(t) ==
  /\ continuousSounds' = continuousSounds \union ({caller[t].at} \intersect Places)
  /\ continuousSoundCount' = continuousSoundCount

(* Past the limit the count is taken back, otherwise the sound is stored. *)
Placed(t) ==
  \/ /\ caller[t].at >= maxContinuousSounds
     /\ continuousSoundCount' = continuousSoundCount - 1
     /\ continuousSounds' = continuousSounds
  \/ /\ caller[t].at < maxContinuousSounds
     /\ continuousSounds' = continuousSounds \union {caller[t].at}
     /\ continuousSoundCount' = continuousSoundCount

Place(t) ==
  /\ caller[t].pc = "add"
  /\ Placed(t)
  /\ caller' = [caller EXCEPT ![t] = Resting]
  /\ UNCHANGED <<framesPlayed, combinedSounds, device, pushed, played, added, clears>>

(* "we don't expect to be calling this and add at the same time, ever": no *)
(* add is under way, and none starts before the list is empty.             *)
Clear(t) ==
  /\ caller[t].pc = "idle" /\ continuousSoundCount > 0
  /\ \A s \in Threads : caller[s].pc \notin {"add", "clear"}
  /\ caller' = [caller EXCEPT ![t] = [pc |-> "clear", at |-> 0, left |-> continuousSoundCount]]
  /\ continuousSoundCount' = 0
  /\ clears' = 1 /\ added' = 0
  /\ UNCHANGED <<framesPlayed, combinedSounds, device, continuousSounds, pushed, played>>

Forget(t) ==
  /\ caller[t].pc = "clear"
  /\ continuousSounds' = continuousSounds \ {caller[t].at}
  /\ caller' = [caller EXCEPT ![t] = IF @.at + 1 = @.left THEN Resting
                                     ELSE [pc |-> "clear", at |-> @.at + 1, left |-> @.left]]
  /\ UNCHANGED <<framesPlayed, combinedSounds, device, continuousSoundCount, pushed, played, added, clears>>

Next ==
  \/ Allocate \/ Callback \/ MixFrame \/ CheckSound \/ CallSound
  \/ \E t \in Threads :
       \/ \E length \in 1 .. MaxLength : Push(t, length)
       \/ PushFrame(t) \/ Add(t) \/ Place(t) \/ Clear(t) \/ Forget(t)

Spec == Init /\ [][Next]_vars

(***************************************************************************)
(* Properties                                                              *)
(***************************************************************************)
(* The frames that wait in the ring, counted off cell by cell.             *)
Waiting == UNION {{f} \X (1 .. combinedSounds[f]) : f \in Frames}

(* However the device and the pushing threads interleave, every frame that *)
(* was pushed is played once or still waits in the ring: pushSound adds to *)
(* cells that the callback empties with exchange at the same time.         *)
FramesPlayOnce == Allocated => pushed = played + Cardinality(Waiting)

(* When no thread is adding or clearing, the list holds as many sounds as  *)
(* were added, up to its limit, in its first places; and the callback only *)
(* calls a place that holds a sound, unless the list was cleared since it  *)
(* looked ("solved by null check therein").                                *)
SoundsListed ==
  /\ (\A t \in Threads : caller[t].pc \notin {"add", "clear"}) =>
       /\ continuousSoundCount = IF added < maxContinuousSounds THEN added ELSE maxContinuousSounds
       /\ continuousSounds = 0 .. continuousSoundCount - 1
  /\ device.pc = "call" /\ clears = 0 => device.i \in continuousSounds

(* The callback reads places of the list that exist, and a ring that has   *)
(* been allocated.  No run checks it: an add beyond the limit lets the     *)
(* callback read one place more, and an early device finds no ring.        *)
CallbackInBounds ==
  device.pc = "mix" =>
    /\ device.left > 0 => Allocated
    /\ device.left = 0 /\ device.i < continuousSoundCount => device.i \in Places

(* The frames of a sound go to consecutive cells of the ring.  No run      *)
(* checks it: Onward breaks it.                                            *)
SoundsInPlace ==
  [][\A t \in Threads : caller[t].pc = "push" /\ caller'[t].pc = "push" =>
       caller'[t].at = After(caller[t].at)]_vars
=============================================================================
