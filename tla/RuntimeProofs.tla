---------------------------- MODULE RuntimeProofs ----------------------------
(***************************************************************************)
(* The engine's services for all values of the constants: the property of  *)
(* each is an invariant of MCRuntime's specification.  Every part has an   *)
(* inductive invariant of its own, which says nothing of the others' state *)
(* and therefore survives their steps (...Rests).                          *)
(***************************************************************************)
EXTENDS MCRuntime, FiniteSetTheorems, SequenceTheorems, NaturalsInduction, WellFoundedInduction, TLAPS

-----------------------------------------------------------------------------
(***************************************************************************)
(* cmdPool. The commands of a pool are kept apart by who has them          *)
(* (CommandsApart) and their fences follow the device (FencesTell); who    *)
(* is in a call on the low priority queue has its mutex (QueuesHeld).      *)
(***************************************************************************)
(* The thread has a command that is not in the queue of its pool.          *)
Having(w) == at[w] \in {"recording", "lock", "submit", "push"}

(* A command is in its pool once at most, not while the thread has it, and *)
(* the device executes, once, what is in the pool or about to be.          *)
CommandsApart ==
  \A w \in Threads :
    /\ IsInjective(submitted[w]) /\ IsInjective(executing[w])
    /\ ToSet(submitted[w]) \subseteq 1 .. made[w]
    /\ Having(w) => cmd[w] \in 1 .. made[w] /\ cmd[w] \notin ToSet(submitted[w])
    /\ \A n \in ToSet(executing[w]) : n \in ToSet(submitted[w]) \/ (at[w] = "push" /\ n = cmd[w])

(* From its reset to its execution a command's fence is not signalled.     *)
FencesTell ==
  \A w \in Threads :
    /\ \A n \in ToSet(submitted[w]) : isPending(w, n) <=> n \in ToSet(executing[w])
    /\ at[w] \in {"lock", "submit"} => isPending(w, cmd[w])
    /\ at[w] = "push" => (isPending(w, cmd[w]) <=> cmd[w] \in ToSet(executing[w]))

(* A thread is in a call on the low priority queue only, under its mutex.  *)
QueuesHeld ==
  /\ \A w \in Threads :
       /\ at[w] = "submit" <=> lowPrioQueueMutex = w
       /\ at[w] = "submit" <=> inside[w] # NoQueue
       /\ inside[w] \in {lowPrioQueue, NoQueue}
  /\ inside[Renderer] \in {queue, NoQueue}

CommandsInv == TypeOK /\ CommandsApart /\ FencesTell /\ QueuesHeld

(* What Append and Tail do to the elements of a sequence without repeats.  *)
LEMMA AppendNew ==
  ASSUME NEW S, NEW s \in Seq(S), NEW x \in S, IsInjective(s), x \notin ToSet(s)
  PROVE  /\ Append(s, x) \in Seq(S)
         /\ ToSet(Append(s, x)) = ToSet(s) \union {x}
         /\ IsInjective(Append(s, x))
<1>1. /\ Append(s, x) \in Seq(S)
      /\ DOMAIN Append(s, x) = 1 .. Len(s) + 1
      /\ \A i \in 1 .. Len(s) : Append(s, x)[i] = s[i]
      /\ Append(s, x)[Len(s) + 1] = x
  OBVIOUS
<1>2. DOMAIN s = 1 .. Len(s) /\ Len(s) \in Nat
  OBVIOUS
<1>3. ToSet(Append(s, x)) = ToSet(s) \union {x}
  <2>1. ASSUME NEW y \in ToSet(Append(s, x))
        PROVE  y \in ToSet(s) \union {x}
    <3>1. PICK i \in 1 .. Len(s) + 1 : y = Append(s, x)[i]
      BY <1>1, <2>1 DEF ToSet
    <3>2. CASE i \in 1 .. Len(s)
      BY <1>1, <1>2, <3>1, <3>2 DEF ToSet
    <3>3. CASE i = Len(s) + 1
      BY <1>1, <3>1, <3>3
    <3>4. QED
      BY <1>2, <3>2, <3>3
  <2>2. ASSUME NEW y \in ToSet(s)
        PROVE  y \in ToSet(Append(s, x))
    BY <1>1, <1>2, <2>2 DEF ToSet
  <2>3. x \in ToSet(Append(s, x))
    BY <1>1, <1>2 DEF ToSet
  <2>4. QED
    BY <2>1, <2>2, <2>3
<1>4. IsInjective(Append(s, x))
  BY <1>1, <1>2 DEF IsInjective, ToSet
<1>5. QED
  BY <1>1, <1>3, <1>4

(* What the rest of a sequence without repetitions holds.                  *)
LEMMA TailRest ==
  ASSUME NEW S, NEW s \in Seq(S), s # <<>>, IsInjective(s)
  PROVE  /\ Head(s) \in S /\ Head(s) \in ToSet(s)
         /\ Tail(s) \in Seq(S)
         /\ ToSet(Tail(s)) = ToSet(s) \ {Head(s)}
         /\ IsInjective(Tail(s))
<1>1. /\ Len(s) \in Nat /\ Len(s) > 0 /\ DOMAIN s = 1 .. Len(s)
      /\ Head(s) = s[1] /\ Head(s) \in S
  OBVIOUS
<1>2. /\ Tail(s) \in Seq(S) /\ DOMAIN Tail(s) = 1 .. Len(s) - 1
      /\ \A i \in 1 .. Len(s) - 1 : Tail(s)[i] = s[i + 1]
  OBVIOUS
<1>3. ASSUME NEW y \in ToSet(Tail(s))
      PROVE  y \in ToSet(s) \ {Head(s)}
  <2>1. PICK i \in 1 .. Len(s) - 1 : y = s[i + 1]
    BY <1>2, <1>3 DEF ToSet
  <2>2. QED
    BY <1>1, <2>1 DEF ToSet, IsInjective
<1>4. ASSUME NEW y \in ToSet(s), y # Head(s)
      PROVE  y \in ToSet(Tail(s))
  <2>1. PICK i \in 1 .. Len(s) : y = s[i]
    BY <1>1, <1>4 DEF ToSet
  <2>2. i - 1 \in 1 .. Len(s) - 1 /\ Tail(s)[i - 1] = s[i]
    BY <1>1, <1>2, <1>4, <2>1
  <2>3. QED
    BY <1>2, <2>1, <2>2 DEF ToSet
<1>5. IsInjective(Tail(s))
  BY <1>1, <1>2 DEF IsInjective
<1>6. QED
  BY <1>1, <1>2, <1>3, <1>4, <1>5 DEF ToSet

(* Empty pools, nobody in a call.                                          *)
LEMMA CommandsInitHolds ==
  ASSUME CmdPoolAssumption, Init
  PROVE  CommandsInv
  BY DEF CmdPoolAssumption, Init, CommandsInv, TypeOK, CommandsApart, FencesTell, QueuesHeld, Having,
         Callers, IsInjective, ToSet, isPending, NoQueue

(* allocate gives the thread a command that is in no queue any more: a new *)
(* one, or the oldest of its pool whose fence is signalled.                *)
LEMMA CommandAllocateStep ==
  ASSUME CmdPoolAssumption, CommandsInv, NEW w \in Threads, allocate(w)
  PROVE  CommandsInv'
<1> USE DEF CmdPoolAssumption, CommandsInv, Goto
<1>1. CASE made' = [made EXCEPT ![w] = @ + 1]
           /\ cmd' = [cmd EXCEPT ![w] = made[w] + 1]
           /\ signalled' = [signalled EXCEPT ![w] = @ \union {made[w] + 1}]
           /\ submitted' = submitted
  <2>1. TypeOK'
    BY <1>1 DEF TypeOK, allocate, Callers
  <2>2. CommandsApart'
    BY <1>1 DEF TypeOK, CommandsApart, Having, allocate, Callers
  <2>3. FencesTell'
    BY <1>1 DEF TypeOK, CommandsApart, Having, FencesTell, isPending, allocate, Callers
  <2>4. QueuesHeld'
    BY <1>1 DEF TypeOK, QueuesHeld, allocate, Callers
  <2>5. QED
    BY <2>1, <2>2, <2>3, <2>4
<1>2. ASSUME NEW n \in Reusable(w), cmd' = [cmd EXCEPT ![w] = n],
             submitted' = [submitted EXCEPT ![w] = Tail(@)], made' = made, signalled' = signalled
      PROVE  CommandsInv'
  <2>0. /\ submitted[w] # <<>> /\ n = Head(submitted[w]) /\ ~isPending(w, n)
        /\ n \in Nat /\ n \in ToSet(submitted[w]) /\ n \notin ToSet(executing[w])
        /\ Tail(submitted[w]) \in Seq(Nat)
        /\ ToSet(Tail(submitted[w])) = ToSet(submitted[w]) \ {n}
        /\ IsInjective(Tail(submitted[w]))
    <3>1. submitted[w] # <<>> /\ n = Head(submitted[w]) /\ ~isPending(w, n)
      BY <1>2 DEF Reusable, Oldest
    <3>2. submitted[w] \in Seq(Nat) /\ IsInjective(submitted[w])
      BY DEF TypeOK, CommandsApart
    <3>3. QED
      BY <3>1, <3>2, TailRest DEF FencesTell
  <2>1. TypeOK'
    BY <1>2, <2>0 DEF TypeOK, allocate, Callers
  <2>2. CommandsApart'
    BY <1>2, <2>0 DEF TypeOK, CommandsApart, Having, allocate, Callers
  <2>3. FencesTell'
    BY <1>2, <2>0 DEF TypeOK, CommandsApart, Having, FencesTell, isPending, allocate, Callers
  <2>4. QueuesHeld'
    BY <1>2 DEF TypeOK, QueuesHeld, allocate, Callers
  <2>5. QED
    BY <2>1, <2>2, <2>3, <2>4
<1>3. QED
  BY <1>1, <1>2 DEF allocate

(* submit, one step after the other.                                       *)
LEMMA CommandSubmitStep ==
  ASSUME CmdPoolAssumption, CommandsInv, NEW w \in Threads,
         ResetFence(w) \/ Lock(w) \/ Submitted(w) \/ PushSubmitted(w) \/ WaitFor(w)
  PROVE  CommandsInv'
<1> USE DEF CmdPoolAssumption, CommandsInv, Goto, Enter, lowPrioQueue, NoQueue, pools
<1>1. CASE ResetFence(w)
  <2>1. TypeOK'
    BY <1>1 DEF TypeOK, ResetFence, Callers, Reset
  <2>2. CommandsApart'
    BY <1>1 DEF TypeOK, CommandsApart, Having, ResetFence, Callers, Reset
  <2>3. FencesTell'
    BY <1>1 DEF TypeOK, CommandsApart, Having, FencesTell, isPending, ResetFence, Callers, Reset
  <2>4. QueuesHeld'
    BY <1>1 DEF TypeOK, QueuesHeld, ResetFence, Callers, Reset
  <2>5. QED
    BY <2>1, <2>2, <2>3, <2>4
<1>2. CASE Lock(w)
  <2>1. TypeOK'
    BY <1>2 DEF TypeOK, Lock, Callers
  <2>2. CommandsApart'
    BY <1>2 DEF TypeOK, CommandsApart, Having, Lock, Callers
  <2>3. FencesTell'
    BY <1>2 DEF TypeOK, CommandsApart, Having, FencesTell, isPending, Lock, Callers
  <2>4. QueuesHeld'
    BY <1>2 DEF TypeOK, QueuesHeld, Lock, Callers
  <2>5. QED
    BY <2>1, <2>2, <2>3, <2>4
<1>3. CASE Submitted(w)
  <2>0. /\ Append(executing[w], cmd[w]) \in Seq(Nat)
        /\ ToSet(Append(executing[w], cmd[w])) = ToSet(executing[w]) \union {cmd[w]}
        /\ IsInjective(Append(executing[w], cmd[w]))
    <3>1. executing[w] \in Seq(Nat) /\ IsInjective(executing[w]) /\ cmd[w] \in Nat
      BY DEF TypeOK, CommandsApart
    <3>2. cmd[w] \notin ToSet(executing[w])
      BY <1>3 DEF CommandsApart, Having, Submitted
    <3>3. QED
      BY <3>1, <3>2, AppendNew
  <2>1. TypeOK'
    BY <1>3, <2>0 DEF TypeOK, Submitted, Callers
  <2>2. CommandsApart'
    BY <1>3, <2>0 DEF TypeOK, CommandsApart, Having, Submitted, Callers
  <2>3. FencesTell'
    BY <1>3, <2>0 DEF TypeOK, CommandsApart, Having, FencesTell, isPending, Submitted, Callers
  <2>4. QueuesHeld'
    BY <1>3 DEF TypeOK, QueuesHeld, Submitted, Callers
  <2>5. QED
    BY <2>1, <2>2, <2>3, <2>4
<1>4. CASE PushSubmitted(w)
  <2>0. /\ Append(submitted[w], cmd[w]) \in Seq(Nat)
        /\ ToSet(Append(submitted[w], cmd[w])) = ToSet(submitted[w]) \union {cmd[w]}
        /\ IsInjective(Append(submitted[w], cmd[w]))
    <3>1. submitted[w] \in Seq(Nat) /\ IsInjective(submitted[w]) /\ cmd[w] \in Nat
      BY DEF TypeOK, CommandsApart
    <3>2. cmd[w] \notin ToSet(submitted[w])
      BY <1>4 DEF CommandsApart, Having, PushSubmitted
    <3>3. QED
      BY <3>1, <3>2, AppendNew
  <2>1. TypeOK'
    BY <1>4, <2>0 DEF TypeOK, PushSubmitted, Callers
  <2>2. CommandsApart'
    BY <1>4, <2>0 DEF TypeOK, CommandsApart, Having, PushSubmitted, Callers
  <2>3. FencesTell'
    BY <1>4, <2>0 DEF TypeOK, CommandsApart, Having, FencesTell, isPending, PushSubmitted, Callers
  <2>4. QueuesHeld'
    BY <1>4 DEF TypeOK, QueuesHeld, PushSubmitted, Callers
  <2>5. QED
    BY <2>1, <2>2, <2>3, <2>4
<1>5. CASE WaitFor(w)
  <2>1. TypeOK'
    BY <1>5 DEF TypeOK, WaitFor, Callers
  <2>2. CommandsApart'
    BY <1>5 DEF TypeOK, CommandsApart, Having, WaitFor, Callers
  <2>3. FencesTell'
    BY <1>5 DEF TypeOK, CommandsApart, Having, FencesTell, isPending, WaitFor, Callers
  <2>4. QueuesHeld'
    BY <1>5 DEF TypeOK, QueuesHeld, WaitFor, Callers
  <2>5. QED
    BY <2>1, <2>2, <2>3, <2>4
<1>6. QED
  BY <1>1, <1>2, <1>3, <1>4, <1>5

(* The device is done with the first command it has of a pool.             *)
LEMMA CommandExecuteStep ==
  ASSUME CmdPoolAssumption, CommandsInv, NEW w \in Threads, Execute(w)
  PROVE  CommandsInv'
<1> USE DEF CmdPoolAssumption, CommandsInv
<1>1. /\ Head(executing[w]) \in Nat /\ Head(executing[w]) \in ToSet(executing[w])
      /\ Tail(executing[w]) \in Seq(Nat)
      /\ ToSet(Tail(executing[w])) = ToSet(executing[w]) \ {Head(executing[w])}
      /\ IsInjective(Tail(executing[w]))
  BY TailRest DEF TypeOK, CommandsApart, Execute
<1>2. TypeOK'
  BY <1>1 DEF TypeOK, Execute
<1>3. CommandsApart'
  BY <1>1 DEF TypeOK, CommandsApart, Having, Execute
<1>4. FencesTell'
  BY <1>1 DEF TypeOK, CommandsApart, Having, FencesTell, isPending, Execute
<1>5. QueuesHeld'
  BY DEF QueuesHeld, Execute
<1>6. QED
  BY <1>2, <1>3, <1>4, <1>5

(* The renderer submits and presents on the other queue.                   *)
LEMMA RendererStep ==
  ASSUME CmdPoolAssumption, CommandsInv, Render \/ Rendered \/ Present \/ Presented
  PROVE  CommandsInv'
<1> USE DEF CmdPoolAssumption, CommandsInv, Goto, Enter, pools, NoQueue, lowPrioQueue, queue
<1>1. TypeOK'
  BY DEF TypeOK, Callers, Render, Rendered, Present, Presented
<1>2. \A w \in Threads : at'[w] = at[w] /\ inside'[w] = inside[w]
  BY DEF TypeOK, Callers, Render, Rendered, Present, Presented
<1>3. UNCHANGED <<pools, lowPrioQueueMutex>>
  BY DEF Render, Rendered, Present, Presented
<1>4. CommandsApart'
  BY <1>2, <1>3 DEF CommandsApart, Having
<1>5. FencesTell'
  BY <1>2, <1>3 DEF FencesTell, isPending
<1>6. QueuesHeld'
  BY <1>2, <1>3 DEF TypeOK, Callers, QueuesHeld, Render, Rendered, Present, Presented
<1>7. QED
  BY <1>1, <1>4, <1>5, <1>6

(* The other parts of the machine leave the pools alone.                   *)
LEMMA CommandsSteps ==
  ASSUME CommandsInv, [RuntimeNext]_<<part, vars, screen, sound, input, memory, spawned>>
  PROVE  CommandsInv'
<1>1. CmdPoolAssumption
  BY RuntimeAssumption
<1>2. CASE Next
  BY <1>1, <1>2, CommandAllocateStep, CommandSubmitStep, CommandExecuteStep, RendererStep DEF Next
<1>3. CASE UNCHANGED vars
  BY <1>3 DEF vars, CommandsInv, TypeOK, CommandsApart, Having, FencesTell, isPending, QueuesHeld
<1>4. QED
  BY <1>2, <1>3 DEF RuntimeNext

(* Commands, fences and queues keep this order in every behaviour.         *)
LEMMA CommandsInvariant == RuntimeSpec => []CommandsInv
<1>1. RuntimeInit => CommandsInv
  BY RuntimeAssumption, CommandsInitHolds DEF RuntimeInit
<1>2. QED
  BY <1>1, CommandsSteps, PTL DEF RuntimeSpec

(* Places, commands, fences and mutexes of cmdPool are what the code can   *)
(* make of them.                                                           *)
THEOREM CommandsTyped == RuntimeSpec => []TypeOK
<1>1. CommandsInv => TypeOK
  BY DEF CommandsInv
<1>2. QED
  BY CommandsInvariant, <1>1, PTL

(* With a queue for each of the two mutexes, no two threads call Vulkan on *)
(* one queue at once; and a thread records no command that is still in its *)
(* pool or executed: for every number of threads and of commands.          *)
THEOREM CommandsAreGuarded == QueueCount = 2 => (RuntimeSpec => []CommandsGuarded)
<1> SUFFICES ASSUME QueueCount = 2
             PROVE  RuntimeSpec => []CommandsGuarded
  OBVIOUS
<1>1. CommandsInv => CommandsGuarded
  <2> SUFFICES ASSUME CommandsInv
               PROVE  CommandsGuarded
    OBVIOUS
  <2>1. ASSUME NEW w \in Threads
        PROVE  /\ at[w] = "recording" => cmd[w] \notin ToSet(executing[w]) \union ToSet(submitted[w])
               /\ \A n \in ToSet(submitted[w]) : isPending(w, n) <=> n \in ToSet(executing[w])
               /\ IsInjective(submitted[w])
    BY DEF CommandsInv, CommandsApart, FencesTell, Having
  <2>2. ASSUME NEW c \in Callers, NEW d \in Callers, c # d, inside[c] # NoQueue
        PROVE  inside[c] # inside[d]
    BY <2>2 DEF CommandsInv, QueuesHeld, Callers, lowPrioQueue, queue, NoQueue
  <2>3. QED
    BY <2>1, <2>2 DEF CommandsGuarded
<1>2. QED
  BY <1>1, CommandsInvariant, PTL

-----------------------------------------------------------------------------
(***************************************************************************)
(* spawnThread. A parent and the thread it waits for are paired, walk      *)
(* through the handshake in step, and the map knows the thread by both     *)
(* names before its entry runs.                                            *)
(***************************************************************************)
(* A parent in spawnThread or before its join has a thread, and a thread   *)
(* in use has such a parent: baby and parent are inverse to each other.    *)
Paired ==
  /\ \A p \in Threads : spawning[p] # "idle" =>
       baby[p] \in Tids /\ child[baby[p]].pc # "unused" /\ child[baby[p]].parent = p
  /\ \A t \in Tids : child[t].pc # "unused" =>
       child[t].parent \in Threads /\ spawning[child[t].parent] # "idle" /\ baby[child[t].parent] = t

(* How far the parent of a thread is tells what sem is, and with it how    *)
(* far the thread may be.                                                  *)
InStep ==
  \A t \in Tids : child[t].pc # "unused" =>
    LET p == child[t].parent IN
      \/ spawning[p] \in {"register", "allow"} /\ sem[p] = 0 /\ child[t].pc = "spin"
      \/ spawning[p] = "await" /\ sem[p] = 1 /\ child[t].pc \in {"spin", "answer"}
      \/ spawning[p] = "await" /\ sem[p] = 2 /\ child[t].pc \in {"init", "entry", "done"}
      \/ spawning[p] = "spawned" /\ child[t].pc \in {"init", "entry", "done"}

(* The parent makes it joinable before it lets the thread go on, the thread*)
(* sets tid before its entry; nobody takes either away before the join.    *)
Registered ==
  \A t \in Tids : child[t].pc # "unused" =>
    /\ spawning[child[t].parent] # "register" => "joinable" \in Spawning!Entry(t)
    /\ child[t].pc \in {"entry", "done"} => "tid" \in Spawning!Entry(t)

SpawnInv == Spawning!TypeOK /\ Paired /\ InStep /\ Registered /\ misused = 0

(* Setting a field of an entry makes the entry when there is none, keeps   *)
(* its other field and the entries of other threads.                       *)
LEMMA SetField ==
  ASSUME Spawning!TypeOK, NEW u \in Tids, NEW f \in {"joinable", "tid"}, threads' = Spawning!Set(u, f)
  PROVE  /\ DOMAIN threads' \subseteq Tids
         /\ threads' \in [DOMAIN threads' -> SUBSET {"joinable", "tid"}]
         /\ Spawning!Entry(u)' = Spawning!Entry(u) \union {f}
         /\ \A t \in Tids \ {u} : Spawning!Entry(t)' = Spawning!Entry(t)
  BY DEF Spawning!TypeOK, Spawning!Set, Spawning!Entry

(* Nobody has spawned anything yet.                                        *)
LEMMA SpawnInitHolds == RuntimeInit => SpawnInv
  BY DEF RuntimeInit, Spawning!Init, SpawnInv, Spawning!TypeOK, Paired, InStep, Registered, Spawning!Unused, Spawning!Gone

(* The parent's half of the handshake.                                     *)
LEMMA ParentStep ==
  ASSUME SpawnInv, NEW p \in Threads,
         \/ \E t \in Tids : Spawning!Spawn(p, t)
         \/ Spawning!Register(p) \/ Spawning!Allow(p) \/ Spawning!Return(p) \/ Spawning!Join(p)
  PROVE  SpawnInv'
<1> USE DEF SpawnInv, Spawning!Goto, Spawning!Gone
<1>1. ASSUME NEW t \in Tids, Spawning!Spawn(p, t)
      PROVE  SpawnInv'
  <2>1. Spawning!TypeOK' /\ misused' = 0
    BY <1>1 DEF Spawning!TypeOK, Spawning!Spawn
  <2>2. Paired'
    BY <1>1 DEF Spawning!TypeOK, Paired, Spawning!Spawn
  <2>3. InStep'
    BY <1>1 DEF Spawning!TypeOK, Paired, InStep, Spawning!Spawn
  <2>4. Registered'
    BY <1>1 DEF Spawning!TypeOK, Paired, Registered, Spawning!Spawn, Spawning!Entry
  <2>5. QED
    BY <2>1, <2>2, <2>3, <2>4
<1>2. CASE Spawning!Register(p)
  <2>0. baby[p] \in Tids
    BY <1>2 DEF Paired, Spawning!Register
  <2>1. Spawning!TypeOK' /\ misused' = 0
    BY <1>2, <2>0, SetField DEF Spawning!TypeOK, Spawning!Register
  <2>2. Paired'
    BY <1>2 DEF Spawning!TypeOK, Paired, Spawning!Register
  <2>3. InStep'
    BY <1>2 DEF Spawning!TypeOK, Paired, InStep, Spawning!Register
  <2>4. Registered'
    BY <1>2, <2>0, SetField DEF Spawning!TypeOK, Paired, Registered, Spawning!Register
  <2>5. QED
    BY <2>1, <2>2, <2>3, <2>4
<1>3. CASE Spawning!Allow(p)
  <2>1. Spawning!TypeOK' /\ misused' = 0
    BY <1>3 DEF Spawning!TypeOK, Spawning!Allow
  <2>2. Paired'
    BY <1>3 DEF Spawning!TypeOK, Paired, Spawning!Allow
  <2>3. InStep'
    BY <1>3 DEF Spawning!TypeOK, Paired, InStep, Spawning!Allow
  <2>4. Registered'
    BY <1>3 DEF Spawning!TypeOK, Paired, Registered, Spawning!Allow, Spawning!Entry
  <2>5. QED
    BY <2>1, <2>2, <2>3, <2>4
<1>4. CASE Spawning!Return(p)
  <2>1. Spawning!TypeOK' /\ misused' = 0
    BY <1>4 DEF Spawning!TypeOK, Spawning!Return
  <2>2. Paired'
    BY <1>4 DEF Spawning!TypeOK, Paired, Spawning!Return
  <2>3. InStep'
    BY <1>4 DEF Spawning!TypeOK, Paired, InStep, Spawning!Return, Spawning!Answered
  <2>4. Registered'
    BY <1>4 DEF Spawning!TypeOK, Paired, Registered, Spawning!Return, Spawning!Entry
  <2>5. QED
    BY <2>1, <2>2, <2>3, <2>4
<1>5. CASE Spawning!Join(p)
  <2>0. baby[p] \in Tids
    BY <1>5 DEF Paired, Spawning!Join
  <2>1. DOMAIN threads' = DOMAIN threads
    BY <1>5 DEF Spawning!Join
  <2>2. Spawning!TypeOK' /\ misused' = 0
    BY <1>5, <2>0, <2>1 DEF Spawning!TypeOK, Spawning!Join, Spawning!Unused
  <2>3. Paired'
    BY <1>5, <2>0 DEF Spawning!TypeOK, Paired, Spawning!Join, Spawning!Unused
  <2>4. InStep'
    BY <1>5, <2>0 DEF Spawning!TypeOK, Paired, InStep, Spawning!Join, Spawning!Unused
  <2>5. \A t \in Tids \ {baby[p]} : Spawning!Entry(t)' = Spawning!Entry(t)
    BY <1>5, <2>0, <2>1 DEF Spawning!TypeOK, Spawning!Join, Spawning!Entry
  <2>6. Registered'
    BY <1>5, <2>0, <2>5 DEF Spawning!TypeOK, Paired, Registered, Spawning!Join, Spawning!Unused
  <2>7. QED
    BY <2>2, <2>3, <2>4, <2>6
<1>6. QED
  BY <1>1, <1>2, <1>3, <1>4, <1>5

(* The new thread's half.  It touches sem while its parent still waits.    *)
LEMMA ChildStep ==
  ASSUME SpawnInv, NEW t \in Tids,
         Spawning!Awake(t) \/ Spawning!Answer(t) \/ Spawning!initThisThread(t) \/ Spawning!Finish(t)
  PROVE  SpawnInv'
<1> USE DEF SpawnInv, Spawning!Step, Spawning!Gone
<1>1. CASE Spawning!Awake(t)
  <2>1. Spawning!TypeOK' /\ misused' = 0
    BY <1>1 DEF Spawning!TypeOK, Paired, InStep, Spawning!Awake, Spawning!Touch
  <2>2. Paired'
    BY <1>1 DEF Spawning!TypeOK, Paired, Spawning!Awake
  <2>3. InStep'
    BY <1>1 DEF Spawning!TypeOK, Paired, InStep, Spawning!Awake, Spawning!Spin
  <2>4. Registered'
    BY <1>1 DEF Spawning!TypeOK, Registered, Spawning!Awake, Spawning!Entry
  <2>5. QED
    BY <2>1, <2>2, <2>3, <2>4
<1>2. CASE Spawning!Answer(t)
  <2>1. Spawning!TypeOK' /\ misused' = 0
    BY <1>2 DEF Spawning!TypeOK, Paired, InStep, Spawning!Answer, Spawning!Touch
  <2>2. Paired'
    BY <1>2 DEF Spawning!TypeOK, Paired, Spawning!Answer
  <2>3. InStep'
    BY <1>2 DEF Spawning!TypeOK, Paired, InStep, Spawning!Answer
  <2>4. Registered'
    BY <1>2 DEF Spawning!TypeOK, Registered, Spawning!Answer, Spawning!Entry
  <2>5. QED
    BY <2>1, <2>2, <2>3, <2>4
<1>3. CASE Spawning!initThisThread(t)
  <2>1. Spawning!TypeOK' /\ misused' = 0
    BY <1>3, SetField DEF Spawning!TypeOK, Spawning!initThisThread
  <2>2. Paired'
    BY <1>3 DEF Spawning!TypeOK, Paired, Spawning!initThisThread
  <2>3. InStep'
    BY <1>3 DEF Spawning!TypeOK, InStep, Spawning!initThisThread
  <2>4. Registered'
    BY <1>3, SetField DEF Spawning!TypeOK, Registered, Spawning!initThisThread
  <2>5. QED
    BY <2>1, <2>2, <2>3, <2>4
<1>4. CASE Spawning!Finish(t)
  <2>1. Spawning!TypeOK' /\ misused' = 0
    BY <1>4 DEF Spawning!TypeOK, Spawning!Finish
  <2>2. Paired'
    BY <1>4 DEF Spawning!TypeOK, Paired, Spawning!Finish
  <2>3. InStep'
    BY <1>4 DEF Spawning!TypeOK, InStep, Spawning!Finish
  <2>4. Registered'
    BY <1>4 DEF Spawning!TypeOK, Registered, Spawning!Finish, Spawning!Entry
  <2>5. QED
    BY <2>1, <2>2, <2>3, <2>4
<1>5. QED
  BY <1>1, <1>2, <1>3, <1>4

(* The invariant reads nothing of the other services.                      *)
LEMMA SpawnRests ==
  ASSUME SpawnInv, UNCHANGED spawned
  PROVE  SpawnInv'
<1>1. /\ spawning' = spawning /\ sem' = sem /\ baby' = baby /\ child' = child /\ threads' = threads
      /\ spawns' = spawns /\ misused' = misused
  BY DEF spawned
<1>2. QED
  BY <1>1 DEF SpawnInv, Spawning!TypeOK, Paired, InStep, Registered, Spawning!Entry

(* A step of spawnThread, or of another part, keeps it.                     *)
LEMMA SpawnSteps ==
  ASSUME SpawnInv, [RuntimeNext]_<<part, vars, screen, sound, input, memory, spawned>>
  PROVE  SpawnInv'
<1>1. CASE UNCHANGED spawned
  BY <1>1, SpawnRests
<1>2. CASE Spawning!Next
  BY <1>2, ParentStep, ChildStep DEF Spawning!Next
<1>3. QED
  BY <1>1, <1>2 DEF RuntimeNext

(* Parents, spawned threads, sem and the map of threads stay well-formed.  *)
THEOREM SpawnTyped == RuntimeSpec => []Spawning!TypeOK
<1>1. SpawnInv => Spawning!TypeOK
  BY DEF SpawnInv
<1>2. QED
  BY <1>1, SpawnInitHolds, SpawnSteps, PTL DEF RuntimeSpec

(* A thread runs its entry only when the map knows it by both names, and   *)
(* sem is used only while spawnThread has not returned: for any number of  *)
(* parents, thread ids and spawns.                                         *)
THEOREM Handshake == RuntimeSpec => []HandshakeHolds
<1>1. SpawnInv => HandshakeHolds
  <2> SUFFICES ASSUME SpawnInv
               PROVE  Spawning!HandshakeHolds
    BY DEF HandshakeHolds
  <2>1. ASSUME NEW t \in Tids, child[t].pc \in {"entry", "done"}
        PROVE  Spawning!Entry(t) = {"joinable", "tid"}
    <3>1. {"joinable", "tid"} \subseteq Spawning!Entry(t)
      BY <2>1 DEF SpawnInv, InStep, Registered
    <3>2. Spawning!Entry(t) \subseteq {"joinable", "tid"}
      BY DEF SpawnInv, Spawning!TypeOK, Spawning!Entry
    <3>3. QED
      BY <3>1, <3>2
  <2>2. ASSUME NEW p \in Threads, spawning[p] = "spawned"
        PROVE  "joinable" \in Spawning!Entry(baby[p])
    BY <2>2 DEF SpawnInv, Paired, Registered
  <2>3. QED
    BY <2>1, <2>2 DEF Spawning!HandshakeHolds, SpawnInv
<1>2. QED
  BY <1>1, SpawnInitHolds, SpawnSteps, PTL DEF RuntimeSpec

-----------------------------------------------------------------------------
(***************************************************************************)
(* window. The presents in the queue use the semaphore sets one after the  *)
(* other, and there are fewer of them than sets.                           *)
(***************************************************************************)
(* The sets of semaphores, and the images.                                 *)
K == Screen!swapSemCount
ImageCount == Cardinality(Images)

(* The images that wait in the queue to be shown.                          *)
InQueue == {i \in Images : owner[i] = "queue"}
Waits == Cardinality(InQueue)

Following(s) == IF s + 1 >= K THEN 0 ELSE s + 1
Back(k) == IF activeSwapSem >= k THEN activeSwapSem - k ELSE activeSwapSem + K - k

(* The sets that the presents in the queue use.                            *)
Recent == {Back(k) : k \in 1 .. Waits}

Jobs == [op : {"blit"}, set : Screen!Sets] \union [op : {"present"}, set : Screen!Sets, image : Images]

ScreenTyped ==
  /\ owner \in [Images -> {"swapchain", "program", "queue", "screen"}]
  /\ acquisitionSem \in [Screen!Sets -> {"idle", "awaiting", "signalled"}]
  /\ blitSem \in [Screen!Sets -> {"idle", "signalled"}]
  /\ gpuQueue \in Seq(Jobs)
  /\ activeSwapSem \in Screen!Sets
  /\ presenting.pc \in {"idle", "acquire", "blit", "show"}
  /\ presenting.pc \in {"blit", "show"} => presenting.image \in Images /\ owner[presenting.image] = "program"

(* The queue has a blit and a present of one set after the other, up to    *)
(* the set before the active one, and starts as many sets back as there    *)
(* are images in it.                                                       *)
Chained ==
  \A p \in 1 .. Len(gpuQueue) - 1 :
    IF gpuQueue[p].op = "blit"
    THEN gpuQueue[p + 1].op = "present" /\ gpuQueue[p + 1].set = gpuQueue[p].set
    ELSE gpuQueue[p + 1].op = "blit" /\ gpuQueue[p + 1].set = Following(gpuQueue[p].set)

Ended ==
  IF gpuQueue = <<>> THEN Waits = 0
  ELSE /\ gpuQueue[1].set = Back(Waits)
       /\ IF gpuQueue[Len(gpuQueue)].op = "blit"
          THEN presenting.pc = "show" /\ gpuQueue[Len(gpuQueue)].set = activeSwapSem
          ELSE presenting.pc # "show" /\ Following(gpuQueue[Len(gpuQueue)].set) = activeSwapSem

PresentsQueued ==
  \A p \in 1 .. Len(gpuQueue) : gpuQueue[p].op = "present" =>
    /\ owner[gpuQueue[p].image] = "queue"
    /\ \A r \in 1 .. Len(gpuQueue) :
         gpuQueue[r].op = "present" /\ gpuQueue[r].image = gpuQueue[p].image => r = p

(* A semaphore is in use from its acquisition, or its blit, until the      *)
(* present of its set is through.                                          *)
InUse ==
  /\ \A s \in Screen!Sets :
       /\ acquisitionSem[s] # "idle" => s \in Recent \/ (s = activeSwapSem /\ presenting.pc \in {"blit", "show"})
       /\ blitSem[s] # "idle" => s \in Recent \/ (s = activeSwapSem /\ presenting.pc = "show")
  /\ gpuQueue # <<>> /\ gpuQueue[1].op = "present" => acquisitionSem[gpuQueue[1].set] = "idle"
  /\ gpuQueue = <<>> /\ presenting.pc = "show" => acquisitionSem[activeSwapSem] = "idle"

ScreenInv == ScreenTyped /\ Chained /\ Ended /\ PresentsQueued /\ InUse

(* The program goes on only after a good acquisition and a good present.   *)
ScreenAnswers == Answers \subseteq {"acquire out of date"}

(* Finite sets are the same in the instance.                               *)
LEMMA ScreenSets == \A S : (Screen!IsFiniteSet(S) <=> IsFiniteSet(S)) /\ Screen!Cardinality(S) = Cardinality(S)
  BY DEF Screen!IsFiniteSet, IsFiniteSet, Screen!Cardinality, Cardinality

(* There are two sets more than images.                                    *)
LEMMA SetCount ==
  /\ ImageCount \in Nat \ {0} /\ K = ImageCount + 2 /\ K \in Nat
  /\ Screen!Sets = 0 .. K - 1
<1>1. IsFiniteSet(Images) /\ Images # {}
  BY RuntimeAssumption, ScreenSets DEF Screen!SwapchainAssumption
<1>2. ImageCount \in Nat /\ ImageCount # 0
  BY <1>1, FS_CardinalityType, FS_EmptySet DEF ImageCount
<1>3. QED
  BY <1>2, ScreenSets DEF ImageCount, K, Screen!swapSemCount, Screen!Sets

(* No more images wait than there are, and one less when one does not.     *)
LEMMA WaitCount ==
  /\ Waits \in 0 .. ImageCount /\ IsFiniteSet(InQueue)
  /\ \A i \in Images : owner[i] # "queue" => Waits < ImageCount
<1>1. IsFiniteSet(Images) /\ InQueue \in SUBSET Images
  BY RuntimeAssumption, ScreenSets DEF Screen!SwapchainAssumption, InQueue
<1>2. IsFiniteSet(InQueue) /\ Waits <= ImageCount /\ (Waits = ImageCount => InQueue = Images)
  BY <1>1, FS_Subset DEF Waits, ImageCount
<1>3. Waits \in Nat
  BY <1>2, FS_CardinalityType DEF Waits
<1>4. QED
  BY <1>2, <1>3, SetCount DEF InQueue

(* The ring of sets, seen from the active one.                             *)
LEMMA BackRing ==
  ASSUME activeSwapSem \in Screen!Sets, NEW k \in 0 .. ImageCount
  PROVE  /\ Back(k) \in Screen!Sets
         /\ k # 0 => Back(k) # activeSwapSem /\ Following(Back(k)) = Back(k - 1)
         /\ k = 0 => Back(k) = activeSwapSem
         /\ \A j \in 0 .. ImageCount : Back(j) = Back(k) => j = k
         /\ \A s \in Screen!Sets : Following(s) = activeSwapSem => s = Back(1)
         /\ Following(activeSwapSem) \in Screen!Sets
  BY SetCount DEF Back, Following

(* Nothing has been presented and nothing is queued at first.              *)
LEMMA ScreenInitHolds == RuntimeInit => ScreenInv
<1> SUFFICES ASSUME Screen!Init
             PROVE  ScreenInv
  BY DEF RuntimeInit
<1>1. InQueue = {} /\ Waits = 0
  BY FS_EmptySet DEF Screen!Init, InQueue, Waits
<1>2. ScreenTyped
  BY SetCount DEF Screen!Init, ScreenTyped, Screen!Absent
<1>3. Len(gpuQueue) = 0
  BY DEF Screen!Init
<1>4. QED
  BY <1>1, <1>2, <1>3 DEF ScreenInv, Chained, Ended, PresentsQueued, InUse, Screen!Init, Screen!Absent

(* Steps that leave the queue, its images and the ring alone.              *)
LEMMA ScreenQuiet ==
  ASSUME ScreenInv, UNCHANGED <<gpuQueue, activeSwapSem>>, InQueue' = InQueue,
         presenting.pc # "show", presenting'.pc # "show",
         \A i \in InQueue : owner'[i] = owner[i]
  PROVE  /\ Chained' /\ Ended' /\ PresentsQueued' /\ Recent' = Recent
<1> USE DEF ScreenInv
<1>1. Waits' = Waits /\ \A k : Back(k)' = Back(k)
  BY DEF Waits, Back
<1>2. Chained' /\ Ended'
  BY <1>1 DEF Chained, Ended, Following
<1>3. PresentsQueued'
  <2> SUFFICES ASSUME NEW p \in 1 .. Len(gpuQueue), gpuQueue[p].op = "present"
               PROVE  /\ owner'[gpuQueue[p].image] = "queue"
                      /\ \A r \in 1 .. Len(gpuQueue) :
                           gpuQueue[r].op = "present" /\ gpuQueue[r].image = gpuQueue[p].image => r = p
    BY DEF PresentsQueued
  <2>1. gpuQueue[p] \in Jobs
    BY DEF ScreenTyped
  <2>2. gpuQueue[p].image \in Images
    BY <2>1 DEF Jobs
  <2>3. QED
    BY <2>2 DEF PresentsQueued, InQueue
<1>4. QED
  BY <1>1, <1>2, <1>3 DEF Recent

(* Present begins, or gives up before it has an image.                     *)
LEMMA PresentStep ==
  ASSUME ScreenInv, Screen!Present \/ Screen!NotReady
  PROVE  ScreenInv'
<1>1. /\ owner' = owner /\ acquisitionSem' = acquisitionSem /\ blitSem' = blitSem
      /\ gpuQueue' = gpuQueue /\ activeSwapSem' = activeSwapSem
  BY DEF Screen!Present, Screen!NotReady
<1>2. presenting.pc \in {"idle", "acquire"} /\ presenting'.pc \in {"idle", "acquire"}
  <2>1. CASE Screen!Present
    BY <2>1 DEF Screen!Present, Screen!Goto
  <2>2. CASE Screen!NotReady
    <3>1. presenting.pc = "acquire" /\ presenting' = Screen!Absent
      BY <2>2 DEF Screen!NotReady
    <3>2. QED
      BY <3>1 DEF Screen!Absent
  <2>3. QED
    BY <2>1, <2>2
<1>3. InQueue' = InQueue
  BY <1>1 DEF InQueue
<1>4. Chained' /\ Ended' /\ PresentsQueued' /\ Recent' = Recent
  BY <1>1, <1>2, <1>3, ScreenQuiet
<1>5. ScreenTyped'
  BY <1>1, <1>2 DEF ScreenTyped, ScreenInv
<1>6. InUse'
  BY <1>1, <1>2, <1>4 DEF InUse, ScreenInv
<1>7. QED
  BY <1>4, <1>5, <1>6 DEF ScreenInv

(* It acquires an image.                                                   *)
LEMMA AcquireStep ==
  ASSUME ScreenAnswers, ScreenInv, NEW i \in Images, Screen!Acquire(i)
  PROVE  ScreenInv'
<1> USE DEF ScreenInv
<1>0. /\ owner' = [owner EXCEPT ![i] = "program"]
      /\ acquisitionSem' = [acquisitionSem EXCEPT ![activeSwapSem] = "awaiting"]
      /\ blitSem' = blitSem /\ gpuQueue' = gpuQueue /\ activeSwapSem' = activeSwapSem
      /\ presenting.pc = "acquire" /\ owner[i] = "swapchain"
  BY DEF Screen!Acquire
<1>1. presenting' = [pc |-> "blit", image |-> i]
  BY DEF ScreenAnswers, Screen!Acquire, Screen!Goto
<1>2. InQueue' = InQueue
  BY <1>0 DEF InQueue, ScreenTyped
<1>3. Chained' /\ Ended' /\ PresentsQueued' /\ Recent' = Recent
  BY <1>0, <1>1, <1>2, ScreenQuiet DEF ScreenTyped, InQueue
<1>4. ScreenTyped'
  BY <1>0, <1>1 DEF ScreenTyped
<1>5. gpuQueue # <<>> /\ gpuQueue[1].op = "present" => gpuQueue[1].set # activeSwapSem
  <2> SUFFICES ASSUME gpuQueue # <<>>, gpuQueue[1].op = "present"
               PROVE  gpuQueue[1].set # activeSwapSem
    OBVIOUS
  <2>0. gpuQueue \in Seq(Jobs)
    BY DEF ScreenTyped
  <2>1. gpuQueue[1] \in Jobs /\ 1 \in 1 .. Len(gpuQueue)
    BY <2>0
  <2>2. gpuQueue[1].image \in InQueue
    BY <2>1 DEF PresentsQueued, InQueue, Jobs
  <2>3. Waits # 0
    BY <2>2, WaitCount, FS_EmptySet DEF Waits
  <2>4. QED
    BY <2>3, WaitCount, BackRing DEF Ended, ScreenTyped
<1>6. InUse'
  BY <1>0, <1>1, <1>3, <1>5 DEF InUse, ScreenTyped
<1>7. QED
  BY <1>3, <1>4, <1>6

(* A sequence with one more element at its end, and without its first.     *)
LEMMA Appended ==
  ASSUME NEW S, NEW q \in Seq(S), NEW x \in S
  PROVE  /\ Append(q, x) \in Seq(S) /\ Append(q, x) # <<>> /\ Len(Append(q, x)) = Len(q) + 1
         /\ Append(q, x)[Len(q) + 1] = x
         /\ \A p \in 1 .. Len(q) : Append(q, x)[p] = q[p]
  OBVIOUS

(* The rest of a queue, place by place.                                    *)
LEMMA WithoutHead ==
  ASSUME NEW S, NEW q \in Seq(S), q # <<>>
  PROVE  /\ Tail(q) \in Seq(S) /\ Len(Tail(q)) = Len(q) - 1 /\ Len(q) \in Nat \ {0}
         /\ Head(q) = q[1] /\ q[1] \in S
         /\ \A p \in 1 .. Len(q) - 1 : Tail(q)[p] = q[p + 1]
         /\ Tail(q) = <<>> <=> Len(q) = 1
<1>1. Len(q) \in Nat \ {0} /\ \A p \in 1 .. Len(q) : q[p] \in S
  BY EmptySeq
<1>2. Tail(q) \in Seq(S) /\ Len(Tail(q)) = Len(q) - 1 /\ \A p \in 1 .. Len(q) - 1 : Tail(q)[p] = q[p + 1]
  BY <1>1, HeadTailProperties
<1>3. Tail(q) = <<>> <=> Len(Tail(q)) = 0
  BY <1>2, EmptySeq
<1>4. QED
  BY <1>1, <1>2, <1>3

(* It submits the blit to the image.                                       *)
LEMMA BlitStep ==
  ASSUME ScreenInv, Screen!Blit
  PROVE  ScreenInv'
<1> USE DEF ScreenInv
<1> DEFINE job == [op |-> "blit", set |-> activeSwapSem]
<1>1. /\ owner' = owner /\ acquisitionSem' = acquisitionSem /\ blitSem' = blitSem
      /\ activeSwapSem' = activeSwapSem /\ gpuQueue' = Append(gpuQueue, job)
      /\ presenting.pc = "blit" /\ presenting' = [pc |-> "show", image |-> presenting.image]
  BY DEF Screen!Blit, Screen!Goto
<1>2. job \in Jobs /\ gpuQueue \in Seq(Jobs)
  BY DEF ScreenTyped, Jobs
<1>3. /\ gpuQueue' \in Seq(Jobs) /\ gpuQueue' # <<>> /\ Len(gpuQueue') = Len(gpuQueue) + 1
      /\ gpuQueue'[Len(gpuQueue) + 1] = job /\ Len(gpuQueue) \in Nat
      /\ \A p \in 1 .. Len(gpuQueue) : gpuQueue'[p] = gpuQueue[p]
      /\ gpuQueue = <<>> <=> Len(gpuQueue) = 0
  BY <1>1, <1>2, Appended
<1>4. Waits' = Waits /\ Recent' = Recent /\ Back(Waits)' = Back(Waits)
  BY <1>1 DEF Waits, InQueue, Recent, Back
<1>5. job.op = "blit" /\ job.set = activeSwapSem
  OBVIOUS
<1> HIDE DEF job
<1>6. ScreenTyped'
  BY <1>1, <1>3 DEF ScreenTyped
<1>7. Chained'
  BY <1>1, <1>3, <1>5 DEF Chained, Ended, Following
<1>8. Ended'
  <2>1. gpuQueue = <<>> => Back(Waits) = activeSwapSem
    BY WaitCount, BackRing, SetCount DEF Ended, ScreenTyped
  <2>2. gpuQueue'[1].set = Back(Waits)
    BY <2>1, <1>3, <1>5 DEF Ended
  <2>3. QED
    BY <2>2, <1>1, <1>3, <1>4, <1>5 DEF Ended
<1>9. PresentsQueued'
  BY <1>1, <1>3, <1>5 DEF PresentsQueued
<1>10. InUse'
  BY <1>1, <1>3, <1>4, <1>5 DEF InUse
<1>11. QED
  BY <1>6, <1>7, <1>8, <1>9, <1>10

(* It hands the image to the screen, and goes on to the next set.          *)
LEMMA ShowStep ==
  ASSUME ScreenAnswers, ScreenInv, Screen!Show
  PROVE  ScreenInv'
<1> USE DEF ScreenInv
<1> DEFINE shown == presenting.image
           job == [op |-> "present", set |-> activeSwapSem, image |-> shown]
<1>1. /\ owner' = [owner EXCEPT ![shown] = "queue"] /\ acquisitionSem' = acquisitionSem /\ blitSem' = blitSem
      /\ activeSwapSem' = Following(activeSwapSem) /\ gpuQueue' = Append(gpuQueue, job)
      /\ presenting.pc = "show" /\ presenting'.pc = "idle"
  BY DEF Screen!Show, ScreenAnswers, Screen!NextSet, Following, K, Screen!Absent
<1>2. job \in Jobs /\ gpuQueue \in Seq(Jobs) /\ shown \in Images /\ owner[shown] = "program"
  BY <1>1 DEF ScreenTyped, Jobs
<1>3. /\ gpuQueue' \in Seq(Jobs) /\ gpuQueue' # <<>> /\ Len(gpuQueue') = Len(gpuQueue) + 1
      /\ gpuQueue'[Len(gpuQueue) + 1] = job /\ Len(gpuQueue) \in Nat
      /\ \A p \in 1 .. Len(gpuQueue) : gpuQueue'[p] = gpuQueue[p]
      /\ gpuQueue = <<>> <=> Len(gpuQueue) = 0
  BY <1>1, <1>2, Appended
<1>4. job.op = "present" /\ job.set = activeSwapSem /\ job.image = shown
  OBVIOUS
<1>5. Waits \in 0 .. ImageCount - 1 /\ Waits' = Waits + 1
  <2>1. InQueue' = InQueue \union {shown} /\ shown \notin InQueue
    BY <1>1, <1>2 DEF InQueue, ScreenTyped
  <2>2. Waits' = Waits + 1
    BY <2>1, WaitCount, FS_AddElement DEF Waits
  <2>3. QED
    BY <2>2, <1>2, WaitCount, SetCount
<1> HIDE DEF job, shown
<1>6. activeSwapSem \in Screen!Sets /\ activeSwapSem' \in Screen!Sets
  BY <1>1, BackRing, SetCount DEF ScreenTyped
<1>7. \A k \in 0 .. ImageCount - 1 : Back(k + 1)' = Back(k)
  BY <1>1, <1>6, SetCount DEF Back, Following
<1>8. Recent' = Recent \union {activeSwapSem}
  <2>1. Back(1)' = activeSwapSem
    BY <1>7, <1>6, BackRing, SetCount
  <2>2. \A k \in 1 .. Waits' : k = 1 \/ (k - 1 \in 1 .. Waits /\ Back(k)' = Back(k - 1))
    BY <1>5, <1>7, SetCount
  <2>3. \A k \in 1 .. Waits : k + 1 \in 1 .. Waits' /\ Back(k + 1)' = Back(k)
    BY <1>5, <1>7, SetCount
  <2>4. 1 \in 1 .. Waits'
    BY <1>5
  <2>5. Recent' = {Back(k)' : k \in 1 .. Waits'}
    BY DEF Recent
  <2>6. QED
    BY <2>1, <2>2, <2>3, <2>4, <2>5 DEF Recent
<1>9. ScreenTyped'
  BY <1>1, <1>2, <1>3, <1>6 DEF ScreenTyped
<1>10. Chained'
  BY <1>1, <1>3, <1>4 DEF Chained, Ended
<1>11. Ended'
  <2>1. gpuQueue'[1].set = Back(Waits)
    <3>1. gpuQueue = <<>> => Back(Waits) = activeSwapSem
      BY <1>6, WaitCount, BackRing, SetCount DEF Ended
    <3>2. QED
      BY <3>1, <1>3, <1>4 DEF Ended
  <2>2. Back(Waits)' = Back(Waits)
    BY <1>1, <1>5, <1>6, SetCount DEF Back, Following
  <2>4. QED
    BY <2>1, <2>2, <1>1, <1>3, <1>4 DEF Ended, Following
<1>12. PresentsQueued'
  <2>1. \A p \in 1 .. Len(gpuQueue) : gpuQueue[p].op = "present" =>
          gpuQueue[p].image # shown /\ owner'[gpuQueue[p].image] = "queue"
    BY <1>1, <1>2 DEF PresentsQueued, ScreenTyped
  <2>2. owner'[shown] = "queue"
    BY <1>1, <1>2 DEF ScreenTyped
  <2>3. QED
    BY <2>1, <2>2, <1>3, <1>4 DEF PresentsQueued
<1>13. InUse'
  BY <1>1, <1>3, <1>4, <1>8 DEF InUse
<1>14. QED
  BY <1>9, <1>10, <1>11, <1>12, <1>13

(* The presentation engine signals.                                        *)
LEMMA SignalStep ==
  ASSUME ScreenInv, NEW s \in Screen!Sets, Screen!Signal(s)
  PROVE  ScreenInv'
<1> USE DEF ScreenInv
<1>1. /\ owner' = owner /\ blitSem' = blitSem /\ gpuQueue' = gpuQueue /\ activeSwapSem' = activeSwapSem
      /\ presenting' = presenting /\ acquisitionSem[s] = "awaiting"
      /\ acquisitionSem' = [acquisitionSem EXCEPT ![s] = "signalled"]
  BY DEF Screen!Signal
<1>2. Waits' = Waits /\ Recent' = Recent /\ Back(Waits)' = Back(Waits)
  BY <1>1 DEF Waits, InQueue, Recent, Back
<1>3. ScreenTyped'
  BY <1>1 DEF ScreenTyped
<1>4. Chained' /\ Ended' /\ PresentsQueued'
  BY <1>1, <1>2 DEF Chained, Ended, PresentsQueued, Following
<1>5. InUse'
  BY <1>1, <1>2 DEF InUse, ScreenTyped
<1>6. QED
  BY <1>3, <1>4, <1>5

(* The GPU executes a blit.                                                *)
LEMMA BlittedStep ==
  ASSUME ScreenInv, Screen!Blitted
  PROVE  ScreenInv'
<1> USE DEF ScreenInv
<1> DEFINE s == gpuQueue[1].set
<1>1. /\ gpuQueue # <<>> /\ gpuQueue' = Tail(gpuQueue) /\ gpuQueue \in Seq(Jobs)
      /\ owner' = owner /\ activeSwapSem' = activeSwapSem /\ presenting' = presenting
  BY DEF Screen!Blitted, ScreenTyped
<1>2. /\ Tail(gpuQueue) \in Seq(Jobs) /\ Len(gpuQueue') = Len(gpuQueue) - 1 /\ Len(gpuQueue) \in Nat \ {0}
      /\ Head(gpuQueue) = gpuQueue[1] /\ gpuQueue[1] \in Jobs
      /\ \A p \in 1 .. Len(gpuQueue) - 1 : gpuQueue'[p] = gpuQueue[p + 1]
      /\ gpuQueue' = <<>> <=> Len(gpuQueue) = 1
  BY <1>1, WithoutHead
<1>3. /\ gpuQueue[1].op = "blit"
      /\ acquisitionSem' = [acquisitionSem EXCEPT ![s] = "idle"]
      /\ blitSem' = [blitSem EXCEPT ![s] = "signalled"]
  BY <1>2 DEF Screen!Blitted
<1>4. s \in Screen!Sets
  BY <1>2 DEF Jobs
<1> HIDE DEF s
<1>5. Waits' = Waits /\ Recent' = Recent /\ Back(Waits)' = Back(Waits)
  BY <1>1 DEF Waits, InQueue, Recent, Back
<1>6. s = Back(Waits)
  BY <1>1 DEF s, Ended
<1>7. Waits = 0 => s = activeSwapSem
  BY <1>6, BackRing, SetCount DEF ScreenTyped
<1>8. (s = activeSwapSem => Waits = 0) /\ (Waits # 0 => s \in Recent)
  BY <1>6, WaitCount, BackRing DEF ScreenTyped, Recent
<1>9. Waits = 0 => presenting.pc = "show"
  <2> SUFFICES ASSUME Waits = 0, presenting.pc # "show"
               PROVE  FALSE
    OBVIOUS
  <2>1. gpuQueue[Len(gpuQueue)] \in Jobs /\ gpuQueue[Len(gpuQueue)].op # "blit"
    BY <1>1, <1>2 DEF Ended
  <2>2. gpuQueue[Len(gpuQueue)].image \in InQueue
    BY <2>1, <1>2 DEF PresentsQueued, InQueue, Jobs
  <2>3. QED
    BY <2>2, WaitCount, FS_EmptySet DEF Waits
<1>10. ScreenTyped'
  BY <1>1, <1>2, <1>3, <1>4 DEF ScreenTyped
<1>11. Chained'
  BY <1>1, <1>2 DEF Chained, Following
<1>12. gpuQueue' # <<>> => gpuQueue'[1].op = "present" /\ gpuQueue'[1].set = s
  BY <1>1, <1>2, <1>3 DEF Chained, s
<1>13. Ended'
  <2>1. gpuQueue' = <<>> => Waits = 0
    BY <1>1, <1>2, <1>3, <1>8 DEF Ended, s
  <2>2. gpuQueue' # <<>> => gpuQueue'[Len(gpuQueue')] = gpuQueue[Len(gpuQueue)]
    BY <1>1, <1>2
  <2>3. QED
    BY <2>1, <2>2, <1>1, <1>5, <1>6, <1>12 DEF Ended, Following
<1>14. PresentsQueued'
  BY <1>1, <1>2 DEF PresentsQueued
<1>15. InUse'
  <2>1. gpuQueue' = <<>> => s = activeSwapSem
    BY <1>13, <1>5, <1>7 DEF Ended
  <2>2. QED
    BY <2>1, <1>1, <1>3, <1>4, <1>5, <1>7, <1>8, <1>9, <1>12 DEF InUse, ScreenTyped
<1>16. QED
  BY <1>10, <1>11, <1>13, <1>14, <1>15

(* An image reaches the screen.                                            *)
LEMMA ShownStep ==
  ASSUME ScreenInv, Screen!Shown
  PROVE  ScreenInv'
<1> USE DEF ScreenInv
<1> DEFINE s == gpuQueue[1].set
           shown == gpuQueue[1].image
<1>1. /\ gpuQueue # <<>> /\ gpuQueue' = Tail(gpuQueue) /\ gpuQueue \in Seq(Jobs)
      /\ acquisitionSem' = acquisitionSem /\ activeSwapSem' = activeSwapSem /\ presenting' = presenting
  BY DEF Screen!Shown, ScreenTyped
<1>2. /\ Tail(gpuQueue) \in Seq(Jobs) /\ Len(gpuQueue') = Len(gpuQueue) - 1 /\ Len(gpuQueue) \in Nat \ {0}
      /\ Head(gpuQueue) = gpuQueue[1] /\ gpuQueue[1] \in Jobs
      /\ \A p \in 1 .. Len(gpuQueue) - 1 : gpuQueue'[p] = gpuQueue[p + 1]
      /\ gpuQueue' = <<>> <=> Len(gpuQueue) = 1
  BY <1>1, WithoutHead
<1>3. /\ gpuQueue[1].op = "present"
      /\ blitSem' = [blitSem EXCEPT ![s] = "idle"]
      /\ owner' = [i \in Images |-> IF i = shown THEN "screen"
                                    ELSE IF owner[i] = "screen" THEN "swapchain" ELSE owner[i]]
  BY <1>2 DEF Screen!Shown
<1>4. s \in Screen!Sets /\ shown \in Images /\ owner[shown] = "queue"
  BY <1>2, <1>3 DEF Jobs, PresentsQueued
<1>5. s = Back(Waits) /\ acquisitionSem[s] = "idle"
  BY <1>1, <1>3 DEF Ended, InUse
<1> HIDE DEF s, shown
<1>6. Waits' = Waits - 1 /\ Waits \in 1 .. ImageCount
  <2>1. InQueue' = InQueue \ {shown} /\ shown \in InQueue
    BY <1>3, <1>4 DEF InQueue, ScreenTyped
  <2>2. Waits' = Waits - 1 /\ Waits # 0
    BY <2>1, WaitCount, FS_RemoveElement, FS_EmptySet DEF Waits
  <2>3. QED
    BY <2>2, WaitCount, SetCount
<1>7. activeSwapSem \in Screen!Sets /\ ImageCount \in Nat
  BY SetCount DEF ScreenTyped
<1>8. Recent' = Recent \ {s}
  <2>1. Recent' = {Back(k) : k \in 1 .. Waits - 1}
    BY <1>1, <1>6 DEF Recent, Back
  <2>2. \A k \in 1 .. Waits - 1 : Back(k) # s
    BY <1>5, <1>6, <1>7, BackRing
  <2>3. \A k \in 1 .. Waits : k = Waits \/ k \in 1 .. Waits - 1
    BY <1>6, <1>7
  <2>4. \A k \in 1 .. Waits - 1 : k \in 1 .. Waits
    BY <1>6, <1>7
  <2>5. QED
    BY <2>1, <2>2, <2>3, <2>4, <1>5 DEF Recent
<1>9. ScreenTyped'
  BY <1>1, <1>2, <1>3, <1>4 DEF ScreenTyped
<1>10. Chained'
  BY <1>1, <1>2 DEF Chained, Following
<1>11. gpuQueue' # <<>> => gpuQueue'[1].op = "blit" /\ gpuQueue'[1].set = Following(s)
  BY <1>1, <1>2, <1>3 DEF Chained, s
<1>12. Ended'
  <2>1. gpuQueue' = <<>> => Waits = 1
    <3> SUFFICES ASSUME gpuQueue' = <<>>
                 PROVE  Waits = 1
      OBVIOUS
    <3>1. Following(s) = activeSwapSem
      BY <1>1, <1>2, <1>3 DEF Ended, s
    <3>2. s = Back(1)
      BY <3>1, <1>4, <1>7, BackRing, SetCount
    <3>3. QED
      BY <3>2, <1>5, <1>6, <1>7, BackRing
  <2>2. gpuQueue' # <<>> => gpuQueue'[Len(gpuQueue')] = gpuQueue[Len(gpuQueue)]
    BY <1>1, <1>2
  <2>3. Following(s) = Back(Waits - 1)
    BY <1>5, <1>6, <1>7, BackRing
  <2>4. Back(Waits)' = Back(Waits - 1)
    BY <1>1, <1>6 DEF Back
  <2>5. QED
    BY <2>1, <2>2, <2>3, <2>4, <1>1, <1>6, <1>11 DEF Ended, Following
<1>13. PresentsQueued'
  <2> SUFFICES ASSUME NEW p \in 1 .. Len(gpuQueue) - 1, gpuQueue[p + 1].op = "present"
               PROVE  /\ owner'[gpuQueue[p + 1].image] = "queue"
                      /\ \A r \in 1 .. Len(gpuQueue) - 1 :
                           gpuQueue[r + 1].op = "present" /\ gpuQueue[r + 1].image = gpuQueue[p + 1].image => r = p
    BY <1>1, <1>2 DEF PresentsQueued
  <2>1. gpuQueue[p + 1] \in Jobs /\ p + 1 \in 1 .. Len(gpuQueue)
    BY <1>1, <1>2
  <2>2. gpuQueue[p + 1].image \in Images
    BY <2>1 DEF Jobs
  <2>3. gpuQueue[p + 1].image # shown
    <3>1. 1 \in 1 .. Len(gpuQueue) /\ 1 # p + 1
      BY <1>2
    <3>2. gpuQueue[1].image = gpuQueue[p + 1].image => 1 = p + 1
      BY <3>1, <2>1, <1>3 DEF PresentsQueued
    <3>3. QED
      BY <3>1, <3>2 DEF shown
  <2>4. owner[gpuQueue[p + 1].image] = "queue"
    BY <2>1 DEF PresentsQueued
  <2>5. owner'[gpuQueue[p + 1].image] = "queue"
    BY <2>2, <2>3, <2>4, <1>3
  <2>6. \A r \in 1 .. Len(gpuQueue) - 1 : r + 1 \in 1 .. Len(gpuQueue) /\ (r + 1 = p + 1 => r = p)
    BY <1>2
  <2>7. QED
    BY <2>1, <2>5, <2>6 DEF PresentsQueued
<1>14. InUse'
  <2>1. gpuQueue' = <<>> => presenting.pc # "show"
    BY <1>1, <1>2, <1>3 DEF Ended
  <2>2. QED
    BY <2>1, <1>1, <1>3, <1>4, <1>5, <1>8, <1>11 DEF InUse, ScreenTyped
<1>15. QED
  BY <1>9, <1>10, <1>12, <1>13, <1>14

(* The invariant reads nothing of the other services.                      *)
LEMMA ScreenRests ==
  ASSUME ScreenInv, UNCHANGED screen
  PROVE  ScreenInv'
<1>1. /\ owner' = owner /\ acquisitionSem' = acquisitionSem /\ blitSem' = blitSem
      /\ gpuQueue' = gpuQueue /\ activeSwapSem' = activeSwapSem /\ presenting' = presenting
  BY DEF screen
<1>2. Waits' = Waits /\ Recent' = Recent /\ Back(Waits)' = Back(Waits)
  BY <1>1 DEF Waits, InQueue, Recent, Back
<1>3. QED
  BY <1>1, <1>2 DEF ScreenInv, ScreenTyped, Chained, Ended, PresentsQueued, InUse, Following

(* A step of the window, or of another part, keeps it.                      *)
LEMMA ScreenSteps ==
  ASSUME ScreenAnswers, ScreenInv, [RuntimeNext]_<<part, vars, screen, sound, input, memory, spawned>>
  PROVE  ScreenInv'
<1>1. CASE UNCHANGED screen
  BY <1>1, ScreenRests
<1>2. CASE Screen!Next
  BY <1>2, PresentStep, AcquireStep, BlitStep, ShowStep, SignalStep, BlittedStep, ShownStep DEF Screen!Next
<1>3. QED
  BY <1>1, <1>2 DEF RuntimeNext

(* While no answer makes present give up after it has acquired, or use a   *)
(* set again, the semaphores that it takes are idle: in every state of the *)
(* service, for every number of images.                                    *)
THEOREM PresentTakesIdleSemaphores == ScreenAnswers => (RuntimeSpec => []SemaphoresIdle)
<1> SUFFICES ASSUME ScreenAnswers
             PROVE  RuntimeSpec => []SemaphoresIdle
  OBVIOUS
<1>1. ScreenInv => SemaphoresIdle
  <2> SUFFICES ASSUME ScreenInv
               PROVE  Screen!SemaphoresIdle
    BY DEF SemaphoresIdle
  <2>1. activeSwapSem \in Screen!Sets /\ activeSwapSem \notin Recent
    BY WaitCount, SetCount, BackRing DEF ScreenInv, ScreenTyped, Recent
  <2>2. QED
    BY <2>1 DEF ScreenInv, InUse, Screen!SemaphoresIdle
<1>2. QED
  BY <1>1, ScreenInitHolds, ScreenSteps, PTL DEF RuntimeSpec

-----------------------------------------------------------------------------
(***************************************************************************)
(* wsound. The ring between the device's cursor and the pushing threads'   *)
(* holds what was pushed and is not played yet; the list of continuous     *)
(* sounds is being filled or being cleared.                                *)
(***************************************************************************)
Cells == Sounds!Frames

(* The ring is there before anything is added to it, and the cursors of    *)
(* the device and of the pushing threads are places of it.                 *)
SoundTyped ==
  /\ framesPlayed \in Cells
  /\ combinedSounds = <<>> \/ combinedSounds \in [Cells -> Nat]
  /\ device \in [pc : {"idle", "mix", "call"}, c : Cells, left : Nat, i : Nat]
  /\ caller \in [Threads -> [pc : {"idle", "push", "add", "clear"}, at : Nat, left : Nat]]
  /\ pushed \in Nat /\ played \in Nat /\ added \in Nat /\ clears \in Nat
  /\ \A t \in Threads : caller[t].pc = "push" =>
       caller[t].at \in Cells /\ caller[t].left > 0 /\ combinedSounds # <<>>

RingInv ==
  IF combinedSounds = <<>> THEN pushed = 0 /\ played = 0
  ELSE pushed = played + Cardinality(Sounds!Waiting)

(* The threads that add a sound: those whose place is in the list, those   *)
(* that are past its limit and have yet to take the count back, and the    *)
(* sounds that the list is going to hold.                                  *)
Low == {t \in Threads : caller[t].pc = "add" /\ caller[t].at < maxContinuousSounds}
High == {t \in Threads : caller[t].pc = "add" /\ caller[t].at >= maxContinuousSounds}
Listed == IF added < maxContinuousSounds THEN added ELSE maxContinuousSounds
Clearing == {t \in Threads : caller[t].pc = "clear"}

Filling ==
  /\ continuousSoundCount = Listed + Cardinality(High)
  /\ High # {} => added >= maxContinuousSounds
  /\ \A p \in Nat : p < Listed <=> (p \in continuousSounds \/ \E t \in Low : caller[t].at = p)
  /\ \A p \in continuousSounds : p \in Nat /\ \A t \in Low : caller[t].at # p
  /\ \A t, s \in Low : caller[t].at = caller[s].at => t = s

Emptying(t) ==
  /\ \A s \in Threads : caller[s].pc = "add" => FALSE
  /\ Clearing = {t}
  /\ continuousSoundCount = 0 /\ added = 0 /\ clears = 1
  /\ caller[t].at < caller[t].left
  /\ continuousSounds = caller[t].at .. caller[t].left - 1

ListInv ==
  /\ IF Clearing = {} THEN Filling ELSE \E t \in Threads : Emptying(t)
  /\ device.pc = "call" /\ clears = 0 => device.i \in continuousSounds

SoundInv == SoundTyped /\ RingInv /\ ListInv

(* Finite sets are the same in the instance.                               *)
LEMMA SoundSets == \A S : (Sounds!IsFiniteSet(S) <=> IsFiniteSet(S)) /\ Sounds!Cardinality(S) = Cardinality(S)
  BY DEF Sounds!IsFiniteSet, IsFiniteSet, Sounds!Cardinality, Cardinality

(* Two fields of a record change.                                          *)
LEMMA DeviceMoved ==
  ASSUME NEW P, NEW C, NEW r \in [pc : P, c : C, left : Nat, i : Nat], NEW p \in P, NEW n \in Nat
  PROVE  LET m == [r EXCEPT !.pc = p, !.i = n]
         IN  m \in [pc : P, c : C, left : Nat, i : Nat] /\ m.pc = p
  OBVIOUS

(* The constants.                                                          *)
LEMMA SoundConstants ==
  /\ RingFrames \in Nat \ {0} /\ DeviceFrames \in Nat \ {0} /\ MaxLength \in Nat \ {0}
  /\ maxContinuousSounds \in Nat /\ IsFiniteSet(Threads)
  /\ Cells = 0 .. RingFrames - 1
  BY RuntimeAssumption, SoundSets DEF Sounds!SoundAssumption, Cells, Sounds!Frames

(* The cursors stay in the ring.                                           *)
LEMMA CursorsInRing ==
  /\ \A c \in Cells : Sounds!After(c) \in Cells /\ Sounds!Onward(c) \in Cells
  /\ \A c \in Cells : (c + DeviceFrames) % RingFrames \in Cells
<1> USE SoundConstants DEF Cells, Sounds!Frames
<1>1. \A c \in Cells : Sounds!After(c) \in Cells
  BY DEF Sounds!After
<1>2. RingFrames \div 2 \in Nat \ {0} /\ RingFrames \div 2 <= RingFrames
  BY RuntimeAssumption DEF Sounds!SoundAssumption
<1>3. \A c \in Cells : Sounds!Onward(c) \in Cells
  BY <1>2 DEF Sounds!Onward
<1>4. \A n \in Nat : n % RingFrames \in 0 .. RingFrames - 1
  OBVIOUS
<1>5. QED
  BY <1>1, <1>3, <1>4

(* A ring that has been allocated is not the empty one.                    *)
LEMMA RingThere == \A f \in [Cells -> Nat] : f # <<>>
<1> SUFFICES ASSUME NEW f \in [Cells -> Nat], f = <<>>
             PROVE  FALSE
  OBVIOUS
<1>1. DOMAIN f = {}
  BY DEF Cells
<1>2. 0 \in DOMAIN f
  BY SoundConstants
<1>3. QED
  BY <1>1, <1>2

(* The frames that wait in a ring of finite cells are finitely many.       *)
LEMMA WaitingFinite ==
  ASSUME combinedSounds \in [Cells -> Nat]
  PROVE  IsFiniteSet(Sounds!Waiting) /\ Cardinality(Sounds!Waiting) \in Nat
<1>1. IsFiniteSet(Cells)
  BY SoundConstants, FS_Interval
<1> DEFINE cell(f) == {f} \X (1 .. combinedSounds[f])
<1>2. \A f \in Cells : IsFiniteSet(cell(f))
  <2> TAKE f \in Cells
  <2>1. IsFiniteSet({f}) /\ IsFiniteSet(1 .. combinedSounds[f])
    <3>1. 1 \in Int /\ combinedSounds[f] \in Int
      OBVIOUS
    <3>2. QED
      BY <3>1, FS_Singleton, FS_Interval
  <2>2. QED
    BY <2>1, FS_Product
<1>3. IsFiniteSet({cell(f) : f \in Cells})
  <2> DEFINE image == {cell(f) : f \in Cells}
             m == [f \in Cells |-> cell(f)]
  <2>1. m \in Surjection(Cells, image)
    BY DEF Surjection
  <2> HIDE DEF m, image
  <2>2. IsFiniteSet(image)
    BY <1>1, <2>1, FS_Surjection
  <2>3. QED
    BY <2>2 DEF image
<1>4. IsFiniteSet(UNION {cell(f) : f \in Cells})
  <2> HIDE DEF cell
  <2>1. QED
    BY <1>2, <1>3, FS_UNION
<1>5. QED
  BY <1>4, FS_CardinalityType DEF Sounds!Waiting, Cells

(* The frames of one cell.                                                 *)
LEMMA CellFrames ==
  ASSUME combinedSounds \in [Cells -> Nat], NEW c \in Cells
  PROVE  Cardinality({c} \X (1 .. combinedSounds[c])) = combinedSounds[c]
<1>1. IsFiniteSet({c}) /\ Cardinality({c}) = 1
  BY FS_Singleton
<1>2. IsFiniteSet(1 .. combinedSounds[c]) /\ Cardinality(1 .. combinedSounds[c]) = combinedSounds[c]
  <2>1. 1 \in Int /\ combinedSounds[c] \in Nat /\ combinedSounds[c] \in Int
    OBVIOUS
  <2>2. QED
    BY <2>1, FS_Interval
<1>3. combinedSounds[c] \in Nat
  OBVIOUS
<1>4. Cardinality({c} \X (1 .. combinedSounds[c])) = Cardinality({c}) * Cardinality(1 .. combinedSounds[c])
  BY <1>1, <1>2, FS_Product
<1>5. QED
  BY <1>1, <1>2, <1>3, <1>4

(* No ring, no sounds, nobody in a call.                                   *)
LEMMA SoundInitHolds == RuntimeInit => SoundInv
<1> SUFFICES ASSUME Sounds!Init
             PROVE  SoundInv
  BY DEF RuntimeInit
<1> USE DEF Sounds!Init, Sounds!Silent, Sounds!Resting
<1>1. SoundTyped /\ RingInv
  BY SoundConstants DEF SoundTyped, RingInv
<1>2. Low = {} /\ High = {} /\ Clearing = {} /\ Listed = 0
  BY SoundConstants DEF Low, High, Clearing, Listed
<1>3. QED
  BY <1>1, <1>2, FS_EmptySet DEF SoundInv, ListInv, Filling

(* A step that touches neither the list nor the threads that change it.    *)
LEMMA ListRests ==
  ASSUME SoundInv, UNCHANGED <<continuousSoundCount, continuousSounds, added, clears>>,
         \A t \in Threads : caller[t].pc \in {"add", "clear"} \/ caller'[t].pc \in {"add", "clear"}
                              => caller'[t] = caller[t],
         device'.pc = "call" => device'.i \in continuousSounds \/ clears # 0
  PROVE  ListInv'
<1>1. Low' = Low /\ High' = High /\ Clearing' = Clearing /\ Listed' = Listed
  BY DEF Low, High, Clearing, Listed
<1>2. \A t \in Low : caller'[t] = caller[t]
  BY DEF Low
<1>3. Filling => Filling'
  BY <1>1, <1>2 DEF Filling
<1>4. \A t \in Threads : Emptying(t) => Emptying(t)'
  BY <1>1 DEF Emptying, Clearing
<1>5. QED
  BY <1>1, <1>3, <1>4 DEF SoundInv, ListInv

(* initSound allocates the ring.                                           *)
LEMMA RingAllocateStep ==
  ASSUME SoundInv, Sounds!Allocate
  PROVE  SoundInv'
<1>1. /\ combinedSounds = <<>> /\ combinedSounds' = [f \in Cells |-> 0]
      /\ framesPlayed' = framesPlayed /\ device' = device /\ continuousSoundCount' = continuousSoundCount
      /\ continuousSounds' = continuousSounds /\ caller' = caller
      /\ pushed' = pushed /\ played' = played /\ added' = added /\ clears' = clears
  BY DEF Sounds!Allocate, Sounds!Allocated, Cells
<1>2. ListInv'
  BY <1>1, ListRests DEF SoundInv, ListInv
<1>3. combinedSounds' \in [Cells -> Nat] /\ combinedSounds' # <<>>
  BY <1>1, RingThere
<1>4. SoundTyped'
  BY <1>1, <1>3 DEF SoundInv, SoundTyped
<1>5. Sounds!Waiting' = {}
  <2>1. \A f \in Cells : 1 .. combinedSounds'[f] = {}
    BY <1>1
  <2>2. QED
    BY <2>1 DEF Sounds!Waiting, Cells
<1>6. RingInv'
  BY <1>1, <1>3, <1>5, FS_EmptySet DEF SoundInv, RingInv
<1>7. QED
  BY <1>2, <1>4, <1>6 DEF SoundInv

(* The device calls, goes through the list and calls a sound of it.        *)
LEMMA DeviceStep ==
  ASSUME SoundInv, Sounds!Callback \/ Sounds!CheckSound \/ Sounds!CallSound
  PROVE  SoundInv'
<1> USE DEF SoundInv
<1>1. /\ combinedSounds' = combinedSounds /\ continuousSoundCount' = continuousSoundCount
      /\ continuousSounds' = continuousSounds /\ caller' = caller
      /\ pushed' = pushed /\ played' = played /\ added' = added /\ clears' = clears
  BY DEF Sounds!Callback, Sounds!CheckSound, Sounds!CallSound
<1>2. /\ framesPlayed' \in Cells /\ device' \in [pc : {"idle", "mix", "call"}, c : Cells, left : Nat, i : Nat]
      /\ device'.pc = "call" => device'.i \in continuousSounds
  <2>1. CASE Sounds!Callback
    <3>1. /\ framesPlayed' = (framesPlayed + DeviceFrames) % RingFrames
          /\ device' = [pc |-> "mix", c |-> framesPlayed, left |-> DeviceFrames, i |-> 0]
      BY <2>1 DEF Sounds!Callback
    <3>2. framesPlayed \in Cells
      BY DEF SoundTyped
    <3>3. framesPlayed' \in Cells
      BY <3>1, <3>2, CursorsInRing
    <3>4. QED
      BY <3>1, <3>2, <3>3, SoundConstants
  <2>2. CASE Sounds!CheckSound
    <3>1. device.pc = "mix" /\ framesPlayed' = framesPlayed
      BY <2>2 DEF Sounds!CheckSound
    <3>2. \/ device' = Sounds!Silent
          \/ device' = [device EXCEPT !.pc = "call"] /\ device.i \in continuousSounds
          \/ device' = [device EXCEPT !.i = @ + 1]
      BY <2>2 DEF Sounds!CheckSound
    <3>3. framesPlayed \in Cells /\ device \in [pc : {"idle", "mix", "call"}, c : Cells, left : Nat, i : Nat]
      BY DEF SoundTyped
    <3>4. CASE device' = Sounds!Silent
      BY <3>1, <3>3, <3>4, SoundConstants DEF Sounds!Silent
    <3>5. CASE device' = [device EXCEPT !.pc = "call"] /\ device.i \in continuousSounds
      BY <3>1, <3>3, <3>5
    <3>6. CASE device' = [device EXCEPT !.i = @ + 1]
      BY <3>1, <3>3, <3>6
    <3>7. QED
      BY <3>2, <3>4, <3>5, <3>6
  <2>3. CASE Sounds!CallSound
    <3>1. device' = [device EXCEPT !.pc = "mix", !.i = @ + 1] /\ framesPlayed' = framesPlayed
      BY <2>3 DEF Sounds!CallSound
    <3>2. framesPlayed \in Cells /\ device \in [pc : {"idle", "mix", "call"}, c : Cells, left : Nat, i : Nat]
      BY DEF SoundTyped
    <3>3. device.i + 1 \in Nat
      BY <3>2
    <3>4. device' \in [pc : {"idle", "mix", "call"}, c : Cells, left : Nat, i : Nat] /\ device'.pc = "mix"
      BY <3>1, <3>2, <3>3, DeviceMoved
    <3>5. QED
      BY <3>1, <3>2, <3>4
  <2>4. QED
    BY <2>1, <2>2, <2>3
<1>3. SoundTyped'
  BY <1>1, <1>2 DEF SoundTyped
<1>4. RingInv'
  BY <1>1 DEF RingInv, Sounds!Waiting
<1>5. ListInv'
  BY <1>1, <1>2, ListRests
<1>6. QED
  BY <1>3, <1>4, <1>5

(* The device takes the sounds of a cell, all of them and once.            *)
LEMMA MixFrameStep ==
  ASSUME SoundInv, Sounds!MixFrame
  PROVE  SoundInv'
<1> USE DEF SoundInv
<1> DEFINE c == device.c
           taken == {c} \X (1 .. combinedSounds[c])
<1>1. /\ device.pc = "mix" /\ device.left > 0 /\ combinedSounds # <<>>
      /\ played' = played + combinedSounds[c]
      /\ combinedSounds' = [combinedSounds EXCEPT ![c] = 0]
      /\ device' = [device EXCEPT !.c = Sounds!After(c), !.left = @ - 1]
      /\ framesPlayed' = framesPlayed /\ continuousSoundCount' = continuousSoundCount
      /\ continuousSounds' = continuousSounds /\ caller' = caller
      /\ pushed' = pushed /\ added' = added /\ clears' = clears
  BY DEF Sounds!MixFrame, Sounds!Allocated, Sounds!Exchanged
<1>2. /\ combinedSounds \in [Cells -> Nat] /\ c \in Cells /\ combinedSounds[c] \in Nat
      /\ combinedSounds' \in [Cells -> Nat] /\ combinedSounds' # <<>>
  BY <1>1, RingThere DEF SoundTyped
<1>3. SoundTyped'
  <2>1. /\ device \in [pc : {"idle", "mix", "call"}, c : Cells, left : Nat, i : Nat]
        /\ Sounds!After(c) \in Cells /\ device.left - 1 \in Nat
    BY <1>1, <1>2, CursorsInRing DEF SoundTyped
  <2> HIDE DEF c
  <2>2. device' \in [pc : {"idle", "mix", "call"}, c : Cells, left : Nat, i : Nat]
    BY <1>1, <2>1
  <2>3. played' \in Nat
    BY <1>1, <1>2 DEF SoundTyped
  <2>4. QED
    BY <1>1, <1>2, <2>2, <2>3 DEF SoundTyped
<1>4. ListInv'
  BY <1>1, ListRests
<1>5. Cardinality(taken) = combinedSounds[c]
  BY <1>2, CellFrames
<1>6. taken \subseteq Sounds!Waiting
  BY <1>2 DEF Sounds!Waiting, Cells
<1>7. Sounds!Waiting' = Sounds!Waiting \ taken
  <2>1. Sounds!Waiting' = UNION {{f} \X (1 .. combinedSounds'[f]) : f \in Cells}
    BY DEF Sounds!Waiting, Cells
  <2>2. Sounds!Waiting = UNION {{f} \X (1 .. combinedSounds[f]) : f \in Cells}
    BY DEF Sounds!Waiting, Cells
  <2>3. \A f \in Cells \ {c} : combinedSounds'[f] = combinedSounds[f]
    BY <1>1, <1>2
  <2>4. 1 .. combinedSounds'[c] = {}
    BY <1>1, <1>2
  <2> HIDE DEF c
  <2>5. QED
    BY <2>1, <2>2, <2>3, <2>4
<1>8. /\ Cardinality(Sounds!Waiting \ taken) = Cardinality(Sounds!Waiting) - Cardinality(Sounds!Waiting \intersect taken)
      /\ IsFiniteSet(Sounds!Waiting) /\ Cardinality(Sounds!Waiting) \in Nat
  BY <1>2, WaitingFinite, FS_Difference
<1>9. Sounds!Waiting \intersect taken = taken
  BY <1>6
<1>10. Cardinality(Sounds!Waiting') = Cardinality(Sounds!Waiting) - combinedSounds[c]
  BY <1>5, <1>7, <1>8, <1>9
<1>11. pushed = played + Cardinality(Sounds!Waiting) /\ played \in Nat
  BY <1>1 DEF RingInv, SoundTyped
<1>12. pushed' = played' + Cardinality(Sounds!Waiting')
  BY <1>1, <1>2, <1>8, <1>10, <1>11
<1>13. RingInv'
  BY <1>2, <1>12 DEF RingInv
<1>14. QED
  BY <1>3, <1>4, <1>13

(* A thread starts to push a sound where the device is.                    *)
LEMMA PushStep ==
  ASSUME SoundInv, NEW t \in Threads, NEW length \in 1 .. MaxLength, Sounds!Push(t, length)
  PROVE  SoundInv'
<1> USE DEF SoundInv
<1>1. /\ caller[t].pc = "idle" /\ combinedSounds # <<>>
      /\ caller' = [caller EXCEPT ![t] = [pc |-> "push", at |-> framesPlayed, left |-> length]]
      /\ framesPlayed' = framesPlayed /\ combinedSounds' = combinedSounds /\ device' = device
      /\ continuousSoundCount' = continuousSoundCount /\ continuousSounds' = continuousSounds
      /\ pushed' = pushed /\ played' = played /\ added' = added /\ clears' = clears
  BY DEF Sounds!Push, Sounds!Allocated
<1>2. SoundTyped'
  BY <1>1, SoundConstants DEF SoundTyped
<1>3. RingInv'
  BY <1>1 DEF RingInv, Sounds!Waiting
<1>4. ListInv'
  BY <1>1, ListRests DEF ListInv, SoundTyped
<1>5. QED
  BY <1>2, <1>3, <1>4

(* It adds one frame to a cell.                                            *)
LEMMA PushFrameStep ==
  ASSUME SoundInv, NEW t \in Threads, Sounds!PushFrame(t)
  PROVE  SoundInv'
<1> USE DEF SoundInv
<1> DEFINE c == caller[t].at
           next == <<c, combinedSounds[c] + 1>>
           moved == [pc |-> "push", at |-> Sounds!Onward(c), left |-> caller[t].left - 1]
           new == IF caller[t].left = 1 THEN Sounds!Resting ELSE moved
<1>1. /\ caller[t].pc = "push"
      /\ combinedSounds' = [combinedSounds EXCEPT ![c] = @ + 1]
      /\ caller' = [caller EXCEPT ![t] = new]
      /\ pushed' = pushed + 1
      /\ framesPlayed' = framesPlayed /\ device' = device
      /\ continuousSoundCount' = continuousSoundCount /\ continuousSounds' = continuousSounds
      /\ played' = played /\ added' = added /\ clears' = clears
  BY DEF Sounds!PushFrame, Sounds!Added
<1>2. /\ combinedSounds \in [Cells -> Nat] /\ c \in Cells /\ combinedSounds[c] \in Nat /\ combinedSounds # <<>>
      /\ combinedSounds' \in [Cells -> Nat] /\ combinedSounds' # <<>>
  BY <1>1, RingThere DEF SoundTyped
<1>3. SoundTyped'
  <2>1. caller[t] \in [pc : {"idle", "push", "add", "clear"}, at : Nat, left : Nat] /\ caller[t].left > 0
    BY <1>1 DEF SoundTyped
  <2>2. Sounds!Onward(c) \in Cells /\ Sounds!Onward(c) \in Nat /\ caller[t].left - 1 \in Nat
    <3>1. Sounds!Onward(c) \in Cells
      BY <1>2, CursorsInRing
    <3>2. \A f \in Cells : f \in Nat
      BY SoundConstants
    <3>3. QED
      BY <2>1, <3>1, <3>2
  <2>3. /\ new \in [pc : {"idle", "push", "add", "clear"}, at : Nat, left : Nat]
        /\ new.pc = "push" => new.at \in Cells /\ new.left > 0
    <3>1. /\ moved \in [pc : {"idle", "push", "add", "clear"}, at : Nat, left : Nat]
          /\ moved.at = Sounds!Onward(c) /\ moved.left = caller[t].left - 1
      BY <2>1, <2>2
    <3> HIDE DEF moved
    <3>2. QED
      BY <3>1, <2>1, <2>2 DEF Sounds!Resting
  <2>4. caller' = [caller EXCEPT ![t] = new]
    BY <1>1
  <2> HIDE DEF new
  <2>5. caller' \in [Threads -> [pc : {"idle", "push", "add", "clear"}, at : Nat, left : Nat]]
    BY <2>3, <2>4 DEF SoundTyped
  <2>6. ASSUME NEW s \in Threads, caller'[s].pc = "push"
        PROVE  caller'[s].at \in Cells /\ caller'[s].left > 0
    <3>1. caller \in [Threads -> [pc : {"idle", "push", "add", "clear"}, at : Nat, left : Nat]]
      BY DEF SoundTyped
    <3>2. CASE s = t
      BY <2>3, <2>4, <2>6, <3>1, <3>2
    <3>3. CASE s # t
      <4>1. caller'[s] = caller[s]
        BY <2>4, <3>1, <3>3
      <4>2. QED
        BY <4>1, <2>6 DEF SoundTyped
    <3>4. QED
      BY <3>2, <3>3
  <2>7. pushed' \in Nat
    BY <1>1 DEF SoundTyped
  <2>8. QED
    BY <1>1, <1>2, <2>5, <2>6, <2>7 DEF SoundTyped
<1>4. ListInv'
  BY <1>1, ListRests DEF ListInv, SoundTyped, Sounds!Resting
<1>5. Sounds!Waiting' = Sounds!Waiting \union {next} /\ next \notin Sounds!Waiting
  <2>1. Sounds!Waiting' = UNION {{f} \X (1 .. combinedSounds'[f]) : f \in Cells}
    BY DEF Sounds!Waiting, Cells
  <2>2. Sounds!Waiting = UNION {{f} \X (1 .. combinedSounds[f]) : f \in Cells}
    BY DEF Sounds!Waiting, Cells
  <2>3. \A f \in Cells \ {c} : combinedSounds'[f] = combinedSounds[f]
    BY <1>1, <1>2
  <2>4. /\ 1 .. combinedSounds'[c] = (1 .. combinedSounds[c]) \union {combinedSounds[c] + 1}
        /\ combinedSounds[c] + 1 \notin 1 .. combinedSounds[c]
    BY <1>1, <1>2
  <2> HIDE DEF c
  <2>5. QED
    BY <2>1, <2>2, <2>3, <2>4, <1>2
<1>6. Cardinality(Sounds!Waiting') = Cardinality(Sounds!Waiting) + 1 /\ Cardinality(Sounds!Waiting) \in Nat
  BY <1>2, <1>5, WaitingFinite, FS_AddElement
<1>7. RingInv'
  BY <1>1, <1>2, <1>6 DEF RingInv, SoundTyped
<1>8. QED
  BY <1>3, <1>4, <1>7

(* The list and the threads that change it are counted.                    *)
LEMMA ListCounted ==
  ASSUME SoundTyped
  PROVE  IsFiniteSet(High) /\ Cardinality(High) \in Nat /\ Listed \in Nat /\ Listed <= maxContinuousSounds
<1>1. IsFiniteSet(High)
  BY SoundConstants, FS_Subset DEF High
<1>2. QED
  BY <1>1, FS_CardinalityType, SoundConstants DEF SoundTyped, Listed

(* A thread takes the next place of the list.                              *)
LEMMA AddStep ==
  ASSUME SoundInv, NEW t \in Threads, Sounds!Add(t)
  PROVE  SoundInv'
<1> USE DEF SoundInv
<1> DEFINE new == [pc |-> "add", at |-> continuousSoundCount, left |-> 0]
<1>1. /\ caller[t].pc = "idle" /\ combinedSounds # <<>>
      /\ caller' = [caller EXCEPT ![t] = new]
      /\ continuousSoundCount' = continuousSoundCount + 1
      /\ added' = added + 1
      /\ framesPlayed' = framesPlayed /\ combinedSounds' = combinedSounds /\ device' = device
      /\ continuousSounds' = continuousSounds /\ pushed' = pushed /\ played' = played /\ clears' = clears
  BY DEF Sounds!Add, Sounds!Allocated
<1>2. Clearing = {} /\ Filling
  BY DEF Sounds!Add, Clearing, ListInv, Emptying
<1>3. /\ continuousSoundCount = Listed + Cardinality(High) /\ Listed \in Nat /\ Cardinality(High) \in Nat
      /\ added \in Nat /\ maxContinuousSounds \in Nat /\ continuousSoundCount \in Nat
  BY <1>2, ListCounted, SoundConstants DEF Filling, SoundTyped
<1>4. /\ caller \in [Threads -> [pc : {"idle", "push", "add", "clear"}, at : Nat, left : Nat]]
      /\ new \in [pc : {"idle", "push", "add", "clear"}, at : Nat, left : Nat]
      /\ new.pc = "add" /\ new.at = continuousSoundCount
  BY <1>3 DEF SoundTyped
<1> HIDE DEF new
<1>5. caller'[t] = new /\ \A s \in Threads \ {t} : caller'[s] = caller[s]
  BY <1>1, <1>4
<1>6. SoundTyped'
  <2>1. caller' \in [Threads -> [pc : {"idle", "push", "add", "clear"}, at : Nat, left : Nat]]
    BY <1>1, <1>4
  <2>2. \A s \in Threads : caller'[s].pc = "push" => s # t /\ caller'[s] = caller[s]
    BY <1>4, <1>5
  <2>3. QED
    BY <2>1, <2>2, <1>1, <1>3 DEF SoundTyped
<1>7. RingInv'
  BY <1>1 DEF RingInv, Sounds!Waiting
<1>8. Clearing' = {}
  BY <1>2, <1>4, <1>5 DEF Clearing
<1>9. Filling'
  <2>1. CASE added < maxContinuousSounds
    <3>1. Listed = added /\ Listed' = added + 1
      BY <1>1, <1>3, <2>1 DEF Listed
    <3>2. High = {}
      BY <1>2, <1>3, <2>1 DEF Filling
    <3>3. continuousSoundCount = added
      BY <1>3, <3>1, <3>2, FS_EmptySet
    <3>4. High' = {}
      BY <1>4, <1>5, <3>2, <3>3, <2>1, <1>3 DEF High
    <3>5. Low' = Low \union {t} /\ t \notin Low
      BY <1>1, <1>4, <1>5, <3>3, <2>1 DEF Low
    <3>6. caller'[t].at = added /\ \A s \in Low : caller'[s].at = caller[s].at /\ caller[s].at \in Nat
      BY <1>4, <1>5, <3>3, <3>5 DEF Low
    <3>7. \A p \in Nat : p < added + 1 <=> p < added \/ p = added
      BY <1>3
    <3>8. added \notin continuousSounds /\ \A s \in Low : caller[s].at # added
      BY <1>2, <1>3, <3>1 DEF Filling
    <3>9. continuousSoundCount' = Listed' + Cardinality(High')
      BY <1>1, <1>3, <3>1, <3>3, <3>4, FS_EmptySet
    <3>10. \A p \in Nat : p < Listed' <=> (p \in continuousSounds \/ \E s \in Low' : caller'[s].at = p)
      BY <1>2, <3>1, <3>5, <3>6, <3>7 DEF Filling
    <3>11. \A p \in continuousSounds : p \in Nat /\ \A s \in Low' : caller'[s].at # p
      BY <1>2, <3>5, <3>6, <3>8 DEF Filling
    <3>12. \A r, s \in Low' : caller'[r].at = caller'[s].at => r = s
      BY <1>2, <3>5, <3>6, <3>8 DEF Filling
    <3>13. QED
      BY <1>1, <3>4, <3>9, <3>10, <3>11, <3>12 DEF Filling
  <2>2. CASE added >= maxContinuousSounds
    <3>1. Listed = maxContinuousSounds /\ Listed' = maxContinuousSounds
      BY <1>1, <1>3, <2>2 DEF Listed
    <3>2. continuousSoundCount >= maxContinuousSounds
      BY <1>3, <3>1
    <3>3. High' = High \union {t} /\ t \notin High
      BY <1>1, <1>4, <1>5, <3>2 DEF High
    <3>4. Low' = Low /\ \A s \in Low : caller'[s].at = caller[s].at
      BY <1>1, <1>3, <1>4, <1>5, <3>2 DEF Low
    <3>5. Cardinality(High') = Cardinality(High) + 1
      BY <3>3, ListCounted, FS_AddElement
    <3>6. continuousSoundCount' = Listed' + Cardinality(High')
      BY <1>1, <1>3, <3>1, <3>5
    <3>7. added' >= maxContinuousSounds
      BY <1>1, <1>3, <2>2
    <3>8. QED
      BY <1>1, <1>2, <3>1, <3>4, <3>6, <3>7 DEF Filling
  <2>3. QED
    BY <1>3, <2>1, <2>2
<1>10. ListInv'
  BY <1>1, <1>8, <1>9 DEF ListInv
<1>11. QED
  BY <1>6, <1>7, <1>10

(* A thread rests after a call on the list.                                *)
LEMMA ListRested ==
  ASSUME SoundTyped, NEW t \in Threads, caller' = [caller EXCEPT ![t] = Sounds!Resting],
         framesPlayed' = framesPlayed, combinedSounds' = combinedSounds, device' = device,
         pushed' = pushed, played' = played, added' = added, clears' = clears
  PROVE  SoundTyped' /\ caller'[t].pc = "idle" /\ \A s \in Threads \ {t} : caller'[s] = caller[s]
<1>1. /\ caller \in [Threads -> [pc : {"idle", "push", "add", "clear"}, at : Nat, left : Nat]]
      /\ Sounds!Resting \in [pc : {"idle", "push", "add", "clear"}, at : Nat, left : Nat]
      /\ Sounds!Resting.pc = "idle"
  BY DEF SoundTyped, Sounds!Resting
<1>2. caller' \in [Threads -> [pc : {"idle", "push", "add", "clear"}, at : Nat, left : Nat]]
  BY <1>1
<1>3. caller'[t].pc = "idle" /\ \A s \in Threads \ {t} : caller'[s] = caller[s]
  BY <1>1
<1>4. QED
  BY <1>2, <1>3 DEF SoundTyped

(* It fills its place, or takes the count back.                            *)
LEMMA PlaceStep ==
  ASSUME SoundInv, NEW t \in Threads, Sounds!Place(t)
  PROVE  SoundInv'
<1> USE DEF SoundInv
<1>1. /\ caller[t].pc = "add"
      /\ caller' = [caller EXCEPT ![t] = Sounds!Resting]
      /\ framesPlayed' = framesPlayed /\ combinedSounds' = combinedSounds /\ device' = device
      /\ pushed' = pushed /\ played' = played /\ added' = added /\ clears' = clears
  BY DEF Sounds!Place
<1>2. SoundTyped' /\ caller'[t].pc = "idle" /\ \A s \in Threads \ {t} : caller'[s] = caller[s]
  BY <1>1, ListRested
<1>3. RingInv'
  BY <1>1 DEF RingInv, Sounds!Waiting
<1>4. Clearing = {} /\ Filling
  BY <1>1 DEF ListInv, Emptying
<1>5. Clearing' = {}
  BY <1>2, <1>4 DEF Clearing
<1>6. Listed' = Listed /\ Listed \in Nat /\ caller[t].at \in Nat /\ maxContinuousSounds \in Nat
  BY <1>1, ListCounted, SoundConstants DEF Listed, SoundTyped
<1>7. Filling' /\ continuousSounds \subseteq continuousSounds'
  <2>1. CASE caller[t].at >= maxContinuousSounds
    <3>1. continuousSoundCount' = continuousSoundCount - 1 /\ continuousSounds' = continuousSounds
      BY <2>1, <1>6 DEF Sounds!Place, Sounds!Placed
    <3>2. High' = High \ {t} /\ t \in High
      BY <1>1, <1>2, <2>1 DEF High
    <3>3. Low' = Low /\ \A s \in Low : caller'[s] = caller[s]
      BY <1>1, <1>2, <1>6, <2>1 DEF Low
    <3>4. Cardinality(High') = Cardinality(High) - 1
      BY <3>2, ListCounted, FS_RemoveElement
    <3>5. continuousSoundCount = Listed + Cardinality(High) /\ Cardinality(High) \in Nat
      BY <1>4, ListCounted DEF Filling
    <3>6. continuousSoundCount' = Listed' + Cardinality(High')
      BY <1>6, <3>1, <3>4, <3>5
    <3>7. QED
      BY <1>1, <1>4, <1>6, <3>1, <3>2, <3>3, <3>6 DEF Filling
  <2>2. CASE caller[t].at < maxContinuousSounds
    <3>1. continuousSoundCount' = continuousSoundCount /\ continuousSounds' = continuousSounds \union {caller[t].at}
      BY <2>2, <1>6 DEF Sounds!Place, Sounds!Placed
    <3>2. High' = High
      BY <1>1, <1>2, <1>6, <2>2 DEF High
    <3>3. Low' = Low \ {t} /\ t \in Low /\ \A s \in Low \ {t} : caller'[s] = caller[s]
      BY <1>1, <1>2, <2>2 DEF Low
    <3>4. \A s \in Low \ {t} : caller[s].at # caller[t].at
      BY <1>4, <3>3 DEF Filling
    <3>5. continuousSoundCount' = Listed' + Cardinality(High')
      BY <1>4, <1>6, <3>1, <3>2 DEF Filling
    <3>6. \A p \in Nat : p < Listed' <=> (p \in continuousSounds' \/ \E s \in Low' : caller'[s].at = p)
      BY <1>4, <1>6, <3>1, <3>3 DEF Filling
    <3>7. \A p \in continuousSounds' : p \in Nat /\ \A s \in Low' : caller'[s].at # p
      BY <1>4, <1>6, <3>1, <3>3, <3>4 DEF Filling
    <3>8. \A r, s \in Low' : caller'[r].at = caller'[s].at => r = s
      BY <1>4, <3>3 DEF Filling
    <3>9. QED
      BY <1>1, <1>4, <3>1, <3>2, <3>5, <3>6, <3>7, <3>8 DEF Filling
  <2>3. QED
    BY <1>6, <2>1, <2>2
<1>8. ListInv'
  BY <1>1, <1>5, <1>7 DEF ListInv
<1>9. QED
  BY <1>2, <1>3, <1>8

(* When nothing is being added the list is what was asked for.             *)
LEMMA ListSettled ==
  ASSUME SoundTyped, Filling, \A t \in Threads : caller[t].pc # "add"
  PROVE  continuousSoundCount = Listed /\ continuousSounds = 0 .. Listed - 1 /\ Listed \in Nat
<1>1. Low = {} /\ High = {}
  BY DEF Low, High
<1>2. continuousSoundCount = Listed /\ Listed \in Nat
  BY <1>1, ListCounted, FS_EmptySet DEF Filling
<1>3. \A p \in Nat : p < Listed <=> p \in continuousSounds
  BY <1>1 DEF Filling
<1>4. \A p : p \in continuousSounds => p \in Nat
  BY DEF Filling
<1>5. \A p : p \in 0 .. Listed - 1 <=> p \in Nat /\ p < Listed
  BY <1>2
<1>6. QED
  BY <1>2, <1>3, <1>4, <1>5

(* A thread starts to empty the list.                                      *)
LEMMA ClearStep ==
  ASSUME SoundInv, NEW t \in Threads, Sounds!Clear(t)
  PROVE  SoundInv'
<1> USE DEF SoundInv
<1> DEFINE new == [pc |-> "clear", at |-> 0, left |-> continuousSoundCount]
<1>1. /\ continuousSoundCount > 0
      /\ \A s \in Threads : caller[s].pc \notin {"add", "clear"}
      /\ caller' = [caller EXCEPT ![t] = new]
      /\ continuousSoundCount' = 0 /\ clears' = 1 /\ added' = 0
      /\ framesPlayed' = framesPlayed /\ combinedSounds' = combinedSounds /\ device' = device
      /\ continuousSounds' = continuousSounds /\ pushed' = pushed /\ played' = played
  BY DEF Sounds!Clear
<1>2. Filling
  BY <1>1 DEF ListInv, Clearing
<1>3. continuousSoundCount \in Nat /\ continuousSounds = 0 .. continuousSoundCount - 1
  BY <1>1, <1>2, ListSettled
<1>4. /\ caller \in [Threads -> [pc : {"idle", "push", "add", "clear"}, at : Nat, left : Nat]]
      /\ new \in [pc : {"idle", "push", "add", "clear"}, at : Nat, left : Nat]
      /\ new.pc = "clear" /\ new.at = 0 /\ new.left = continuousSoundCount
  BY <1>3 DEF SoundTyped
<1> HIDE DEF new
<1>5. caller'[t] = new /\ \A s \in Threads \ {t} : caller'[s] = caller[s]
  BY <1>1, <1>4
<1>6. SoundTyped'
  <2>1. caller' \in [Threads -> [pc : {"idle", "push", "add", "clear"}, at : Nat, left : Nat]]
    BY <1>1, <1>4
  <2>2. \A s \in Threads : caller'[s].pc = "push" => s # t /\ caller'[s] = caller[s]
    BY <1>4, <1>5
  <2>3. QED
    BY <2>1, <2>2, <1>1 DEF SoundTyped
<1>7. RingInv'
  BY <1>1 DEF RingInv, Sounds!Waiting
<1>8. Clearing' = {t} /\ \A s \in Threads : caller'[s].pc # "add"
  BY <1>1, <1>4, <1>5 DEF Clearing
<1>9. Emptying(t)'
  BY <1>1, <1>3, <1>4, <1>5, <1>8 DEF Emptying
<1>10. QED
  BY <1>1, <1>6, <1>7, <1>8, <1>9 DEF ListInv

(* It takes a sound out, and rests after the last one.                     *)
LEMMA ForgetStep ==
  ASSUME SoundInv, NEW t \in Threads, Sounds!Forget(t)
  PROVE  SoundInv'
<1> USE DEF SoundInv
<1> DEFINE new == [pc |-> "clear", at |-> caller[t].at + 1, left |-> caller[t].left]
<1>1. /\ caller[t].pc = "clear"
      /\ continuousSounds' = continuousSounds \ {caller[t].at}
      /\ caller' = [caller EXCEPT ![t] = IF caller[t].at + 1 = caller[t].left THEN Sounds!Resting ELSE new]
      /\ framesPlayed' = framesPlayed /\ combinedSounds' = combinedSounds /\ device' = device
      /\ continuousSoundCount' = continuousSoundCount
      /\ pushed' = pushed /\ played' = played /\ added' = added /\ clears' = clears
  BY DEF Sounds!Forget
<1>2. t \in Clearing
  BY <1>1 DEF Clearing
<1>3. Emptying(t)
  BY <1>2 DEF ListInv, Emptying
<1>4. /\ caller \in [Threads -> [pc : {"idle", "push", "add", "clear"}, at : Nat, left : Nat]]
      /\ caller[t].at \in Nat /\ caller[t].left \in Nat
      /\ new \in [pc : {"idle", "push", "add", "clear"}, at : Nat, left : Nat]
      /\ new.pc = "clear" /\ new.at = caller[t].at + 1 /\ new.left = caller[t].left
  BY DEF SoundTyped
<1>5. RingInv'
  BY <1>1 DEF RingInv, Sounds!Waiting
<1>6. CASE caller[t].at + 1 = caller[t].left
  <2>1. caller' = [caller EXCEPT ![t] = Sounds!Resting]
    BY <1>1, <1>6
  <2>2. SoundTyped' /\ caller'[t].pc = "idle" /\ \A s \in Threads \ {t} : caller'[s] = caller[s]
    BY <1>1, <2>1, ListRested
  <2>3. Clearing' = {} /\ Low' = {} /\ High' = {}
    BY <1>3, <2>2 DEF Clearing, Emptying, Low, High
  <2>4. continuousSounds' = {}
    BY <1>1, <1>3, <1>4, <1>6 DEF Emptying
  <2>5. Listed' = 0 /\ continuousSoundCount' = 0 /\ clears' = 1
    BY <1>1, <1>3, SoundConstants DEF Listed, Emptying
  <2>6. Filling'
    BY <2>3, <2>4, <2>5, FS_EmptySet DEF Filling
  <2>7. QED
    BY <1>5, <2>2, <2>3, <2>5, <2>6 DEF ListInv
<1>7. CASE caller[t].at + 1 # caller[t].left
  <2> HIDE DEF new
  <2>1. caller' = [caller EXCEPT ![t] = new]
    BY <1>1, <1>7
  <2>2. caller'[t] = new /\ \A s \in Threads \ {t} : caller'[s] = caller[s]
    BY <1>4, <2>1
  <2>3. SoundTyped'
    <3>1. caller' \in [Threads -> [pc : {"idle", "push", "add", "clear"}, at : Nat, left : Nat]]
      BY <2>1, <1>4
    <3>2. \A s \in Threads : caller'[s].pc = "push" => s # t /\ caller'[s] = caller[s]
      BY <1>4, <2>2
    <3>3. QED
      BY <3>1, <3>2, <1>1 DEF SoundTyped
  <2>4. Clearing' = {t} /\ \A s \in Threads : caller'[s].pc # "add"
    BY <1>3, <1>4, <2>2 DEF Clearing, Emptying
  <2>5. /\ caller'[t].at < caller'[t].left
        /\ continuousSounds' = caller'[t].at .. caller'[t].left - 1
    BY <1>1, <1>3, <1>4, <1>7, <2>2 DEF Emptying
  <2>6. Emptying(t)'
    BY <1>1, <1>3, <2>4, <2>5 DEF Emptying
  <2>7. clears' = 1
    BY <1>1, <1>3 DEF Emptying
  <2>8. QED
    BY <1>5, <2>3, <2>4, <2>6, <2>7 DEF ListInv
<1>8. QED
  BY <1>6, <1>7

(* The invariant reads nothing of the other services.                      *)
LEMMA SoundRests ==
  ASSUME SoundInv, UNCHANGED sound
  PROVE  SoundInv'
<1>1. /\ framesPlayed' = framesPlayed /\ combinedSounds' = combinedSounds /\ device' = device
      /\ continuousSoundCount' = continuousSoundCount /\ continuousSounds' = continuousSounds
      /\ caller' = caller /\ pushed' = pushed /\ played' = played /\ added' = added /\ clears' = clears
  BY DEF sound
<1>2. ListInv'
  BY <1>1, ListRests DEF SoundInv, ListInv
<1>3. QED
  BY <1>1, <1>2 DEF SoundInv, SoundTyped, RingInv, Sounds!Waiting

(* A step of wsound, or of another part, keeps it.                          *)
LEMMA SoundSteps ==
  ASSUME SoundInv, [RuntimeNext]_<<part, vars, screen, sound, input, memory, spawned>>
  PROVE  SoundInv'
<1>1. CASE UNCHANGED sound
  BY <1>1, SoundRests
<1>2. CASE Sounds!Next
  BY <1>2, RingAllocateStep, DeviceStep, MixFrameStep, PushStep, PushFrameStep, AddStep, PlaceStep, ClearStep,
     ForgetStep DEF Sounds!Next
<1>3. QED
  BY <1>1, <1>2 DEF RuntimeNext

(* It holds in every behaviour.                                            *)
LEMMA SoundInvariant == RuntimeSpec => []SoundInv
  BY SoundInitHolds, SoundSteps, PTL DEF RuntimeSpec

(* However the device and the threads interleave, every frame that was     *)
(* pushed has been played or waits in the ring: for every number of        *)
(* threads, every ring and every length of sound.                          *)
THEOREM EveryFrameOnce == RuntimeSpec => []FramesPlayOnce
<1>1. SoundInv => FramesPlayOnce
  BY SoundSets DEF SoundInv, RingInv, FramesPlayOnce, Sounds!FramesPlayOnce, Sounds!Allocated
<1>2. QED
  BY <1>1, SoundInvariant, PTL

(* The list of continuous sounds settles to what was asked of it, up to    *)
(* its limit, and the device calls only places that are filled.            *)
THEOREM ListSettles == RuntimeSpec => []SoundsListed
<1>1. SoundInv => SoundsListed
  <2> SUFFICES ASSUME SoundInv
               PROVE  Sounds!SoundsListed
    BY DEF SoundsListed
  <2>1. ASSUME \A t \in Threads : caller[t].pc \notin {"add", "clear"}
        PROVE  /\ continuousSoundCount = Listed
               /\ continuousSounds = 0 .. continuousSoundCount - 1
    <3>1. Filling
      BY <2>1 DEF SoundInv, ListInv, Clearing
    <3>2. QED
      BY <2>1, <3>1, ListSettled DEF SoundInv
  <2>2. QED
    BY <2>1 DEF SoundInv, ListInv, Sounds!SoundsListed, Listed
<1>2. QED
  BY <1>1, SoundInvariant, PTL

-----------------------------------------------------------------------------
(***************************************************************************)
(* winput. The axis of a control is the sum of what the frame has said of  *)
(* it so far, and the keyboard buffer is one key ahead of it at most.      *)
(***************************************************************************)
Told == [of : Inputs!Controls, x : Int]
Axis == [numNegative : Nat, numPositive : Nat, numZero : Nat, min : Int, max : Int, current : Int, delta : Int]

(* What is said of a control, and where a key is pressed.                  *)
Where(h, c) == {i \in 1 .. Len(h) : h[i].of = c}
Counted(h, c) ==
  [positive |-> {i \in Where(h, c) : h[i].x > 0}, negative |-> {i \in Where(h, c) : h[i].x < 0},
   zero |-> {i \in Where(h, c) : h[i].x = 0}]
Heard(h, c) == {h[i].x : i \in Where(h, c)}
Pressed(h) == {i \in 1 .. Len(h) : h[i].of \in Keys /\ h[i].x = 1}
UpTo(h, i) == {j \in Pressed(h) : j <= i}

(* The axis of a control is the sum of what was said of it.                *)
Sums(h, c, a, old) ==
  /\ a.numPositive = Cardinality(Counted(h, c).positive)
  /\ a.numNegative = Cardinality(Counted(h, c).negative)
  /\ a.numZero = Cardinality(Counted(h, c).zero)
  /\ IF Where(h, c) = {} THEN a.current = old
     ELSE Inputs!Max(Where(h, c)) \in Where(h, c) /\ a.current = h[Inputs!Max(Where(h, c))].x
  /\ {a.min, a.max} \subseteq Heard(h, c) \union {old}
  /\ \A x \in Heard(h, c) \union {old} : a.min <= x /\ x <= a.max

(* The buffer has the keys in the order in which they were pressed.        *)
InOrder(h, b) == \A i \in Pressed(h) : b[Cardinality(UpTo(h, i))] = h[i].of

(* Finite sets are the same in the instance.                               *)
LEMMA InputSets == \A S : (Inputs!IsFiniteSet(S) <=> IsFiniteSet(S)) /\ Inputs!Cardinality(S) = Cardinality(S)
  BY DEF Inputs!IsFiniteSet, IsFiniteSet, Inputs!Cardinality, Cardinality

(* One value more.                                                         *)
LEMMA Heeded ==
  ASSUME NEW a \in Axis, NEW x \in Int
  PROVE  LET b == Inputs!handleAxis(a, x)
         IN  /\ b \in Axis
             /\ b.numNegative = a.numNegative + (IF x < 0 THEN 1 ELSE 0)
             /\ b.numPositive = a.numPositive + (IF x > 0 THEN 1 ELSE 0)
             /\ b.numZero = a.numZero + (IF x = 0 THEN 1 ELSE 0)
             /\ b.min = (IF x < a.min THEN x ELSE a.min) /\ b.max = (IF x > a.max THEN x ELSE a.max)
             /\ b.current = x
  BY DEF Axis, Inputs!handleAxis

(* A new frame.                                                            *)
LEMMA ResetFields ==
  ASSUME NEW a \in Axis
  PROVE  LET b == Inputs!ResetAxis(a)
         IN  /\ b \in Axis /\ b.numNegative = 0 /\ b.numPositive = 0 /\ b.numZero = 0
             /\ b.min = a.current /\ b.max = a.current /\ b.current = a.current
  BY DEF Axis, Inputs!ResetAxis

(* Nothing has been said.                                                  *)
LEMMA SumsOfNothing ==
  ASSUME NEW c, NEW a \in Axis, a.numNegative = 0, a.numPositive = 0, a.numZero = 0,
         a.min = a.current, a.max = a.current
  PROVE  Sums(<<>>, c, a, a.current)
<1>1. Where(<<>>, c) = {}
  BY DEF Where
<1>2. Counted(<<>>, c).positive = {} /\ Counted(<<>>, c).negative = {} /\ Counted(<<>>, c).zero = {}
  BY <1>1 DEF Counted
<1>3. Heard(<<>>, c) = {}
  BY <1>1 DEF Heard
<1>4. a.min \in {a.current} /\ a.max \in {a.current} /\ a.current \in Int /\ {a.min, a.max} \subseteq {a.current}
  BY DEF Axis
<1>5. \A x \in {a.current} : a.min <= x /\ x <= a.max
  BY <1>4
<1>6. Cardinality({}) = 0
  BY FS_EmptySet
<1>7. QED
  BY <1>1, <1>2, <1>3, <1>4, <1>5, <1>6 DEF Sums

(* Places of a sequence and of the sequence with one more element.         *)
LEMMA MoreSaid ==
  ASSUME NEW h \in Seq(Told), NEW v \in Told, NEW c
  PROVE  /\ Append(h, v) \in Seq(Told) /\ Len(Append(h, v)) = Len(h) + 1 /\ Len(h) \in Nat
         /\ \A i \in 1 .. Len(h) : Append(h, v)[i] = h[i] /\ h[i] \in Told
         /\ Append(h, v)[Len(h) + 1] = v
         /\ Where(Append(h, v), c) = Where(h, c) \union (IF v.of = c THEN {Len(h) + 1} ELSE {})
         /\ Where(h, c) \subseteq 1 .. Len(h) /\ Len(h) + 1 \notin Where(h, c)
         /\ IsFiniteSet(Where(h, c))
<1>1. /\ Append(h, v) \in Seq(Told) /\ Len(Append(h, v)) = Len(h) + 1 /\ Len(h) \in Nat
      /\ \A i \in 1 .. Len(h) : Append(h, v)[i] = h[i] /\ h[i] \in Told
      /\ Append(h, v)[Len(h) + 1] = v
  OBVIOUS
<1>2. Where(h, c) \subseteq 1 .. Len(h) /\ Len(h) + 1 \notin Where(h, c)
  BY <1>1 DEF Where
<1>3. IsFiniteSet(Where(h, c))
  <2>1. 1 \in Int /\ Len(h) \in Int
    BY <1>1
  <2>2. IsFiniteSet(1 .. Len(h))
    BY <2>1, FS_Interval
  <2>3. QED
    BY <1>2, <2>2, FS_Subset
<1>4. Where(Append(h, v), c) = Where(h, c) \union (IF v.of = c THEN {Len(h) + 1} ELSE {})
  BY <1>1 DEF Where
<1>5. QED
  BY <1>1, <1>2, <1>3, <1>4

(* A value is added to its control ...                                     *)
LEMMA SumsMore ==
  ASSUME NEW h \in Seq(Told), NEW v \in Told, NEW a \in Axis, NEW old \in Int, Sums(h, v.of, a, old)
  PROVE  Sums(Append(h, v), v.of, Inputs!handleAxis(a, v.x), old)
<1> DEFINE c == v.of
           x == v.x
           n == Len(h) + 1
           g == Append(h, v)
           b == Inputs!handleAxis(a, x)
<1>1. /\ g \in Seq(Told) /\ Len(h) \in Nat /\ Where(g, c) = Where(h, c) \union {n}
      /\ \A i \in 1 .. Len(h) : g[i] = h[i] /\ h[i] \in Told
      /\ g[n] = v /\ n \notin Where(h, c) /\ Where(h, c) \subseteq 1 .. Len(h) /\ IsFiniteSet(Where(h, c))
      /\ x \in Int /\ n \in Nat
  <2>1. v.of = c /\ x \in Int
    BY DEF Told
  <2> HIDE DEF c
  <2>2. /\ g \in Seq(Told) /\ Len(h) \in Nat /\ Where(g, c) = Where(h, c) \union {n}
        /\ \A i \in 1 .. Len(h) : g[i] = h[i] /\ h[i] \in Told
        /\ g[n] = v /\ n \notin Where(h, c) /\ Where(h, c) \subseteq 1 .. Len(h) /\ IsFiniteSet(Where(h, c))
    BY <2>1, MoreSaid
  <2>3. QED
    BY <2>1, <2>2
<1>2. /\ b \in Axis
      /\ b.numNegative = a.numNegative + (IF x < 0 THEN 1 ELSE 0)
      /\ b.numPositive = a.numPositive + (IF x > 0 THEN 1 ELSE 0)
      /\ b.numZero = a.numZero + (IF x = 0 THEN 1 ELSE 0)
      /\ b.min = (IF x < a.min THEN x ELSE a.min) /\ b.max = (IF x > a.max THEN x ELSE a.max)
      /\ b.current = x
  BY <1>1, Heeded
<1> HIDE DEF b, g
<1>3. \A i \in Where(h, c) : g[i] = h[i] /\ h[i].x \in Int
  BY <1>1 DEF Told
<1>4. /\ Counted(g, c).positive = Counted(h, c).positive \union (IF x > 0 THEN {n} ELSE {})
      /\ Counted(g, c).negative = Counted(h, c).negative \union (IF x < 0 THEN {n} ELSE {})
      /\ Counted(g, c).zero = Counted(h, c).zero \union (IF x = 0 THEN {n} ELSE {})
  BY <1>1, <1>3 DEF Counted
<1>5. \A S : S \subseteq Where(h, c) => Cardinality(S \union {n}) = Cardinality(S) + 1
  <2> TAKE S
  <2>1. S \subseteq Where(h, c) => IsFiniteSet(S) /\ n \notin S
    BY <1>1, FS_Subset
  <2>2. QED
    BY <2>1, FS_AddElement
<1>6. /\ Counted(h, c).positive \subseteq Where(h, c) /\ Counted(h, c).negative \subseteq Where(h, c)
      /\ Counted(h, c).zero \subseteq Where(h, c)
  BY DEF Counted
<1>7. /\ b.numPositive = Cardinality(Counted(g, c).positive)
      /\ b.numNegative = Cardinality(Counted(g, c).negative)
      /\ b.numZero = Cardinality(Counted(g, c).zero)
  <2>1. /\ a.numPositive = Cardinality(Counted(h, c).positive) /\ a.numPositive \in Nat
        /\ a.numNegative = Cardinality(Counted(h, c).negative) /\ a.numNegative \in Nat
        /\ a.numZero = Cardinality(Counted(h, c).zero) /\ a.numZero \in Nat
    BY DEF Sums, Axis
  <2>2. b.numPositive = Cardinality(Counted(g, c).positive)
    BY <1>2, <1>4, <1>5, <1>6, <2>1
  <2>3. b.numNegative = Cardinality(Counted(g, c).negative)
    BY <1>2, <1>4, <1>5, <1>6, <2>1
  <2>4. b.numZero = Cardinality(Counted(g, c).zero)
    BY <1>2, <1>4, <1>5, <1>6, <2>1
  <2>5. QED
    BY <2>2, <2>3, <2>4
<1>8. Inputs!Max(Where(g, c)) = n
  <2>1. n \in Where(g, c) /\ \A i \in Where(g, c) : n >= i
    BY <1>1
  <2>2. \A m \in Where(g, c) : (\A i \in Where(g, c) : m >= i) => m = n
    BY <1>1, <2>1
  <2>3. QED
    BY <2>1, <2>2 DEF Inputs!Max
<1>9. Heard(g, c) = Heard(h, c) \union {x} /\ Heard(h, c) \subseteq Int
  BY <1>1, <1>3 DEF Heard
<1>10. {b.min, b.max} \subseteq Heard(g, c) \union {old}
  BY <1>2, <1>9 DEF Sums
<1>11. \A y \in Heard(g, c) \union {old} : b.min <= y /\ y <= b.max
  <2>1. a.min \in Int /\ a.max \in Int /\ x \in Int
    BY <1>1 DEF Axis
  <2>2. \A y \in Heard(h, c) \union {old} : y \in Int /\ a.min <= y /\ y <= a.max
    BY <1>9 DEF Sums
  <2>3. b.min <= x /\ b.min <= a.min /\ x <= b.max /\ a.max <= b.max /\ b.min \in Int /\ b.max \in Int
    BY <1>2, <2>1
  <2> HIDE DEF x, c
  <2>4. QED
    BY <1>9, <2>1, <2>2, <2>3
<1>12. QED
  BY <1>1, <1>2, <1>7, <1>8, <1>10, <1>11 DEF Sums, g, b

(* ... and to no other.                                                    *)
LEMMA SumsOther ==
  ASSUME NEW h \in Seq(Told), NEW v \in Told, NEW c, v.of # c, NEW a, NEW old, Sums(h, c, a, old)
  PROVE  Sums(Append(h, v), c, a, old)
<1> DEFINE g == Append(h, v)
<1>1. Where(g, c) = Where(h, c) /\ \A i \in Where(h, c) : g[i] = h[i]
  <2>1. /\ \A i \in 1 .. Len(h) : g[i] = h[i]
        /\ Where(g, c) = Where(h, c) \union (IF v.of = c THEN {Len(h) + 1} ELSE {})
        /\ Where(h, c) \subseteq 1 .. Len(h)
    BY MoreSaid
  <2> HIDE DEF g
  <2>2. QED
    BY <2>1
<1> HIDE DEF g
<1>2. Counted(g, c) = Counted(h, c) /\ Heard(g, c) = Heard(h, c)
  BY <1>1 DEF Counted, Heard
<1>3. Sums(g, c, a, old)
  BY <1>1, <1>2 DEF Sums
<1>4. QED
  BY <1>3 DEF g

(* The keys that were pressed are finitely many.                           *)
LEMMA PressedFinite ==
  ASSUME NEW h \in Seq(Told)
  PROVE  /\ IsFiniteSet(Pressed(h)) /\ Cardinality(Pressed(h)) \in Nat
         /\ \A i \in Pressed(h) : Cardinality(UpTo(h, i)) \in 1 .. Cardinality(Pressed(h))
<1>1. IsFiniteSet(Pressed(h))
  <2>1. 1 \in Int /\ Len(h) \in Int
    OBVIOUS
  <2>2. IsFiniteSet(1 .. Len(h))
    BY <2>1, FS_Interval
  <2>3. QED
    BY <2>2, FS_Subset DEF Pressed
<1>2. ASSUME NEW i \in Pressed(h)
      PROVE  Cardinality(UpTo(h, i)) \in 1 .. Cardinality(Pressed(h))
  <2>1. UpTo(h, i) \in SUBSET Pressed(h) /\ i \in UpTo(h, i)
    BY DEF UpTo, Pressed
  <2>2. IsFiniteSet(UpTo(h, i)) /\ Cardinality(UpTo(h, i)) <= Cardinality(Pressed(h))
    BY <1>1, <2>1, FS_Subset
  <2>3. Cardinality(UpTo(h, i)) \in Nat /\ Cardinality(UpTo(h, i)) # 0
    BY <2>1, <2>2, FS_CardinalityType, FS_EmptySet
  <2>4. Cardinality(Pressed(h)) \in Nat
    BY <1>1, FS_CardinalityType
  <2>5. QED
    BY <2>2, <2>3, <2>4
<1>3. QED
  BY <1>1, <1>2, FS_CardinalityType

(* A value that is no key press leaves the order, a press comes last.      *)
LEMMA PressedMore ==
  ASSUME NEW h \in Seq(Told), NEW v \in Told, NEW b, InOrder(h, b)
  PROVE  IF v.of \in Keys /\ v.x = 1
         THEN /\ Cardinality(Pressed(Append(h, v))) = Cardinality(Pressed(h)) + 1
              /\ b[Cardinality(Pressed(h)) + 1] = v.of => InOrder(Append(h, v), b)
         ELSE Pressed(Append(h, v)) = Pressed(h) /\ InOrder(Append(h, v), b)
<1> DEFINE g == Append(h, v)
           n == Len(h) + 1
<1>1. /\ g \in Seq(Told) /\ Len(h) \in Nat /\ Len(g) = n
      /\ \A i \in 1 .. Len(h) : g[i] = h[i]
      /\ g[n] = v
  BY MoreSaid
<1> HIDE DEF g
<1>2. Pressed(g) = Pressed(h) \union (IF v.of \in Keys /\ v.x = 1 THEN {n} ELSE {})
  BY <1>1 DEF Pressed
<1>3. Pressed(h) \subseteq 1 .. Len(h) /\ n \notin Pressed(h)
  BY <1>1 DEF Pressed
<1>4. \A i \in Pressed(h) : UpTo(g, i) = UpTo(h, i) /\ g[i] = h[i]
  BY <1>1, <1>2, <1>3 DEF UpTo
<1>5. CASE v.of \in Keys /\ v.x = 1
  <2>1. Pressed(g) = Pressed(h) \union {n}
    BY <1>2, <1>5
  <2>2. Cardinality(Pressed(g)) = Cardinality(Pressed(h)) + 1
    BY <1>3, <2>1, PressedFinite, FS_AddElement
  <2>3. UpTo(g, n) = Pressed(g)
    BY <1>1, <1>3, <2>1 DEF UpTo
  <2>4. b[Cardinality(Pressed(h)) + 1] = v.of => InOrder(g, b)
    BY <1>1, <1>4, <2>1, <2>2, <2>3 DEF InOrder
  <2>5. QED
    BY <1>5, <2>2, <2>4 DEF g
<1>6. CASE ~(v.of \in Keys /\ v.x = 1)
  <2>1. Pressed(g) = Pressed(h)
    BY <1>2, <1>6
  <2>2. InOrder(g, b)
    BY <1>4, <2>1 DEF InOrder
  <2>3. QED
    BY <1>6, <2>1, <2>2 DEF g
<1>7. QED
  BY <1>5, <1>6

(* The buffer grows at its end.                                            *)
LEMMA BufferGrown ==
  ASSUME NEW h \in Seq(Told), NEW b \in Seq(Keys), NEW k \in Keys, Len(b) = Cardinality(Pressed(h)), InOrder(h, b)
  PROVE  InOrder(h, Append(b, k))
<1>1. \A i \in 1 .. Len(b) : Append(b, k)[i] = b[i]
  OBVIOUS
<1>2. QED
  BY <1>1, PressedFinite DEF InOrder

(***************************************************************************)
(* The invariant.                                                          *)
(***************************************************************************)
axes == [c \in Inputs!Controls |-> Inputs!At(allInputData, c)]
olds == [c \in Inputs!Controls |-> IF c \in DOMAIN before THEN before[c] ELSE 0]

InputTyped ==
  /\ sdlQueue \in Seq(Inputs!Events) /\ event \in Seq(Told) /\ handled \in Seq(Told) /\ keyboard \in Seq(Keys)
  /\ axes \in [Inputs!Controls -> Axis] /\ olds \in [Inputs!Controls -> Int]
  /\ DOMAIN reader = Readers

(* What has been handed over is summed up, the first key still to be       *)
(* handed over is in the buffer already ...                                *)
ControlsSummed == \A c \in Inputs!Controls : Sums(handled, c, axes[c], olds[c])

KeysBuffered ==
  /\ InOrder(handled, keyboard)
  /\ \A j \in 1 .. Len(event) : event[j].of \in Keys => Len(event) = 1
  /\ IF event # <<>> /\ Head(event).of \in Keys /\ Head(event).x = 1
     THEN /\ Len(keyboard) = Cardinality(Pressed(handled)) + 1
          /\ keyboard[Cardinality(Pressed(handled)) + 1] = Head(event).of
     ELSE Len(keyboard) = Cardinality(Pressed(handled))

(* ... only a poll hands over, no thread reads then, and what a reader is  *)
(* about to insert has no value yet.                                       *)
LockHeld ==
  /\ event # <<>> => holder = {"poll"}
  /\ \A r \in Readers : reader[r].pc # "idle" => r \in holder
  /\ \A r \in Readers : reader[r].pc = "insert" /\ reader[r].of \in DOMAIN allInputData
       => allInputData[reader[r].of] = Inputs!Blank

InputInv == InputTyped /\ ControlsSummed /\ KeysBuffered /\ LockHeld

(* The constants.                                                          *)
LEMMA InputConstants ==
  /\ "poll" \notin Readers /\ "quit" \notin Keys \union Buttons \union Wheels \union Hats
  /\ Keys \intersect (Buttons \union Wheels \union Hats \union (Hats \X Inputs!Directions)) = {}
  /\ Wheels \intersect Hats = {}
  BY RuntimeAssumption DEF Inputs!InputAssumption

(* The fields of an event.                                                 *)
LEMMA EventSaid ==
  ASSUME NEW e \in Inputs!Events
  PROVE  \/ e.on \in Keys \union Buttons /\ e.value \in {0, 1}
         \/ e.on \in Wheels /\ e.value \in {-1, 1}
         \/ e.on \in Hats
         \/ e.on = "quit"
  BY DEF Inputs!Events

(* An event says something of controls, and of a key only what it is of.   *)
LEMMA ValuesTold ==
  ASSUME NEW e \in Inputs!Events
  PROVE  /\ Inputs!Values(e) \in Seq(Told)
         /\ \A j \in 1 .. Len(Inputs!Values(e)) : Inputs!Values(e)[j].of \in Keys => Len(Inputs!Values(e)) = 1
         /\ e.on \in Keys => Inputs!Values(e) = <<[of |-> e.on, x |-> e.value]>>
         /\ e.on \notin Keys /\ Inputs!Values(e) # <<>> => Head(Inputs!Values(e)).of \notin Keys
<1>1. CASE e.on \in Wheels
  <2>1. e.value \in Int
    BY <1>1, EventSaid, InputConstants
  <2>2. [of |-> e.on, x |-> e.value] \in Told /\ [of |-> e.on, x |-> 0] \in Told
    BY <1>1, <2>1 DEF Told, Inputs!Controls
  <2>3. Inputs!Values(e) = <<[of |-> e.on, x |-> e.value], [of |-> e.on, x |-> 0]>>
    BY <1>1 DEF Inputs!Values
  <2>4. e.on \notin Keys
    BY <1>1, InputConstants
  <2>5. QED
    BY <2>2, <2>3, <2>4
<1>2. CASE e.on \notin Wheels /\ e.on \in Hats
  <2> DEFINE D == <<"up", "down", "left", "right">>
             V == [i \in 1 .. 4 |-> [of |-> <<e.on, D[i]>>, x |-> IF D[i] \in e.value THEN 1 ELSE 0]]
  <2>1. Inputs!Values(e) = V
    BY <1>2 DEF Inputs!Values
  <2>2. \A i \in 1 .. 4 : D[i] \in Inputs!Directions
    BY DEF Inputs!Directions
  <2> HIDE DEF D
  <2>3. \A i \in 1 .. 4 : <<e.on, D[i]>> \in Hats \X Inputs!Directions
    BY <1>2, <2>2
  <2>4. \A i \in 1 .. 4 : <<e.on, D[i]>> \in Inputs!Controls /\ <<e.on, D[i]>> \notin Keys
    BY <2>3, InputConstants DEF Inputs!Controls
  <2>5. \A i \in 1 .. 4 : V[i] \in Told /\ V[i].of \notin Keys
    BY <2>4 DEF Told
  <2>6. V \in [1 .. 4 -> Told]
    BY <2>5
  <2> HIDE DEF V
  <2>7. V \in Seq(Told) /\ Len(V) = 4
    <3>1. V \in Seq(Told)
      <4>1. 4 \in Nat /\ Seq(Told) = UNION {[1 .. n -> Told] : n \in Nat}
        BY SeqDef
      <4>2. [1 .. 4 -> Told] \in {[1 .. n -> Told] : n \in Nat}
        BY <4>1
      <4>3. QED
        BY <2>6, <4>1, <4>2
    <3>2. DOMAIN V = 1 .. 4
      BY <2>6
    <3>3. DOMAIN V = 1 .. Len(V) /\ Len(V) \in Nat
      BY <3>1, LenProperties
    <3>4. QED
      BY <3>1, <3>2, <3>3
  <2>8. e.on \notin Keys
    BY <1>2, InputConstants
  <2>9. QED
    BY <2>1, <2>5, <2>7, <2>8
<1>3. CASE e.on \notin Wheels /\ e.on \notin Hats /\ e.on = "quit"
  <2>1. Inputs!Values(e) = <<>> /\ e.on \notin Keys
    BY <1>3, InputConstants DEF Inputs!Values
  <2>2. QED
    BY <2>1
<1>4. CASE e.on \notin Wheels /\ e.on \notin Hats /\ e.on # "quit"
  <2>1. e.on \in Keys \union Buttons /\ e.value \in Int
    BY <1>4, EventSaid
  <2>2. [of |-> e.on, x |-> e.value] \in Told
    BY <2>1 DEF Told, Inputs!Controls
  <2>3. Inputs!Values(e) = <<[of |-> e.on, x |-> e.value]>>
    BY <1>4 DEF Inputs!Values
  <2>4. QED
    BY <2>2, <2>3
<1>5. QED
  BY <1>1, <1>2, <1>3, <1>4

(* It holds at first.                                                      *)
LEMMA InputInitHolds == Inputs!Init => InputInv
<1> SUFFICES ASSUME Inputs!Init
             PROVE  InputInv
  OBVIOUS
<1> USE DEF Inputs!Init
<1>1. axes = [c \in Inputs!Controls |-> Inputs!Blank] /\ olds = [c \in Inputs!Controls |-> 0]
  BY DEF axes, olds, Inputs!At
<1>2. Inputs!Blank \in Axis
  BY DEF Inputs!Blank, Axis
<1>3. InputTyped
  BY <1>1, <1>2 DEF InputTyped
<1>4. ControlsSummed
  <2>1. ASSUME NEW c \in Inputs!Controls
        PROVE  Sums(<<>>, c, Inputs!Blank, Inputs!Blank.current)
    BY <1>2, SumsOfNothing DEF Inputs!Blank
  <2>2. Inputs!Blank.current = 0
    BY DEF Inputs!Blank
  <2>3. QED
    BY <1>1, <2>1, <2>2 DEF ControlsSummed
<1>5. Pressed(<<>>) = {} /\ Cardinality({}) = 0
  BY FS_EmptySet DEF Pressed
<1>6. KeysBuffered
  <2>1. keyboard = <<>> /\ event = <<>> /\ Pressed(handled) = {} /\ Len(keyboard) = 0 /\ Len(event) = 0
    BY <1>5
  <2>2. InOrder(handled, keyboard)
    BY <2>1 DEF InOrder
  <2>3. \A j \in 1 .. Len(event) : event[j].of \in Keys => Len(event) = 1
    BY <2>1
  <2> HIDE DEF Inputs!Init
  <2>4. Len(keyboard) = Cardinality(Pressed(handled))
    BY <1>5, <2>1
  <2>5. QED
    BY <2>1, <2>2, <2>3, <2>4 DEF KeysBuffered
<1>7. LockHeld
  BY DEF LockHeld
<1>8. QED
  BY <1>3, <1>4, <1>6, <1>7 DEF InputInv

(* Nothing changes while another part runs.                                *)
LEMMA InputRests == InputInv /\ UNCHANGED input => InputInv'
<1> SUFFICES ASSUME InputInv, UNCHANGED input
             PROVE  InputInv'
  OBVIOUS
<1>1. /\ sdlQueue' = sdlQueue /\ event' = event /\ handled' = handled /\ keyboard' = keyboard
      /\ holder' = holder /\ reader' = reader /\ allInputData' = allInputData /\ before' = before
  BY DEF input
<1>2. axes' = axes /\ olds' = olds
  BY <1>1 DEF axes, olds
<1>3. QED
  BY <1>1, <1>2 DEF InputInv, InputTyped, ControlsSummed, KeysBuffered, LockHeld

(* A new frame begins: the sums are those of nothing.                      *)
LEMMA BeginPollStep == InputInv /\ Inputs!BeginPoll => InputInv'
<1> SUFFICES ASSUME InputInv, Inputs!BeginPoll
             PROVE  InputInv'
  OBVIOUS
<1> USE DEF Inputs!BeginPoll
<1>1. event = <<>> /\ event' = <<>> /\ handled' = <<>> /\ keyboard' = <<>> /\ reader' = reader /\ sdlQueue' = sdlQueue
  BY DEF InputInv, LockHeld
<1>2. DOMAIN allInputData' = DOMAIN allInputData /\ DOMAIN before' = DOMAIN allInputData
  OBVIOUS
<1>3. ASSUME NEW c \in Inputs!Controls
      PROVE  /\ axes'[c] \in Axis /\ olds'[c] \in Int
             /\ Sums(handled', c, axes'[c], olds'[c])
  <2>1. axes[c] \in Axis
    BY DEF InputInv, InputTyped
  <2>2. CASE c \in DOMAIN allInputData
    <3>1. axes[c] = allInputData[c]
      BY <2>2 DEF axes, Inputs!At
    <3>2. axes'[c] = Inputs!ResetAxis(axes[c]) /\ olds'[c] = axes[c].current
      BY <1>2, <2>2, <3>1 DEF axes, olds, Inputs!At
    <3>3. axes'[c] \in Axis /\ axes'[c].numNegative = 0 /\ axes'[c].numPositive = 0 /\ axes'[c].numZero = 0
          /\ axes'[c].min = axes'[c].current /\ axes'[c].max = axes'[c].current
          /\ axes'[c].current = olds'[c]
      BY <2>1, <3>2, ResetFields
    <3>4. axes[c].current \in Int
      BY <2>1 DEF Axis
    <3>5. QED
      BY <1>1, <3>2, <3>3, <3>4, SumsOfNothing
  <2>3. CASE c \notin DOMAIN allInputData
    <3>1. axes'[c] = Inputs!Blank /\ olds'[c] = 0
      BY <1>2, <2>3 DEF axes, olds, Inputs!At
    <3>2. Inputs!Blank \in Axis /\ Inputs!Blank.numNegative = 0 /\ Inputs!Blank.numPositive = 0
          /\ Inputs!Blank.numZero = 0 /\ Inputs!Blank.min = Inputs!Blank.current
          /\ Inputs!Blank.max = Inputs!Blank.current /\ Inputs!Blank.current = 0
      BY DEF Inputs!Blank, Axis
    <3>3. QED
      BY <1>1, <3>1, <3>2, SumsOfNothing
  <2>4. QED
    BY <2>2, <2>3
<1>4. InputTyped'
  <2>1. axes' = [c \in Inputs!Controls |-> axes'[c]] /\ olds' = [c \in Inputs!Controls |-> olds'[c]]
    BY DEF axes, olds
  <2>2. axes' \in [Inputs!Controls -> Axis] /\ olds' \in [Inputs!Controls -> Int]
    BY <1>3, <2>1
  <2>3. QED
    BY <1>1, <2>2 DEF InputInv, InputTyped
<1>5. ControlsSummed'
  BY <1>3 DEF ControlsSummed
<1>6. Pressed(<<>>) = {} /\ Cardinality({}) = 0
  BY FS_EmptySet DEF Pressed
<1>7. KeysBuffered'
  <2>1. Pressed(handled') = {} /\ Len(keyboard') = 0 /\ Len(event') = 0
    BY <1>1, <1>6
  <2>2. InOrder(handled', keyboard')
    BY <2>1 DEF InOrder
  <2>3. \A j \in 1 .. Len(event') : event'[j].of \in Keys => Len(event') = 1
    BY <2>1
  <2> HIDE DEF Inputs!BeginPoll
  <2>4. Len(keyboard') = Cardinality(Pressed(handled'))
    BY <1>6, <2>1
  <2>5. QED
    BY <1>1, <2>2, <2>3, <2>4 DEF KeysBuffered
<1>8. LockHeld'
  BY <1>1 DEF InputInv, LockHeld
<1>9. QED
  BY <1>4, <1>5, <1>7, <1>8 DEF InputInv

(* processEvent takes an event apart.                                      *)
LEMMA ProcessStep == InputInv /\ Inputs!processEvent => InputInv'
<1> SUFFICES ASSUME InputInv, Inputs!processEvent
             PROVE  InputInv'
  OBVIOUS
<1> DEFINE e == Head(sdlQueue)
<1>1. /\ event = <<>> /\ holder = {"poll"} /\ sdlQueue # <<>> /\ event' = Inputs!Values(e)
      /\ keyboard' = (IF e.on \in Keys /\ e.value = 1 THEN Append(keyboard, e.on) ELSE keyboard)
      /\ sdlQueue' = Tail(sdlQueue) /\ handled' = handled /\ holder' = holder /\ reader' = reader
      /\ allInputData' = allInputData /\ before' = before
  BY DEF Inputs!processEvent
<1>2. axes' = axes /\ olds' = olds
  BY <1>1 DEF axes, olds
<1>3. e \in Inputs!Events /\ sdlQueue' \in Seq(Inputs!Events)
  BY <1>1 DEF InputInv, InputTyped
<1> HIDE DEF e
<1>4. keyboard \in Seq(Keys) /\ keyboard' \in Seq(Keys) /\ handled \in Seq(Told)
  BY <1>1 DEF InputInv, InputTyped
<1>5. InputTyped'
  BY <1>1, <1>2, <1>3, <1>4, ValuesTold DEF InputInv, InputTyped
<1>6. ControlsSummed'
  BY <1>1, <1>2 DEF InputInv, ControlsSummed
<1>7. Len(keyboard) = Cardinality(Pressed(handled)) /\ InOrder(handled, keyboard)
  BY <1>1 DEF InputInv, KeysBuffered
<1>8. \A j \in 1 .. Len(event') : event'[j].of \in Keys => Len(event') = 1
  BY <1>1, <1>3, ValuesTold
<1>9. CASE e.on \in Keys /\ e.value = 1
  <2>1. InOrder(handled', keyboard')
    BY <1>1, <1>4, <1>7, <1>9, BufferGrown
  <2>2. Len(keyboard') = Cardinality(Pressed(handled)) + 1 /\ keyboard'[Cardinality(Pressed(handled)) + 1] = e.on
    BY <1>1, <1>4, <1>7, <1>9
  <2>3. event' = <<[of |-> e.on, x |-> e.value]>>
    BY <1>1, <1>3, <1>9, ValuesTold
  <2>4. event' # <<>> /\ Head(event').of = e.on /\ Head(event').x = 1
    BY <1>9, <2>3
  <2>5. KeysBuffered'
    BY <1>1, <1>8, <1>9, <2>1, <2>2, <2>4 DEF KeysBuffered
  <2>6. QED
    BY <1>1, <1>5, <1>6, <2>5 DEF InputInv, LockHeld
<1>10. CASE ~(e.on \in Keys /\ e.value = 1)
  <2>1. ~(event' # <<>> /\ Head(event').of \in Keys /\ Head(event').x = 1)
    <3>1. CASE e.on \in Keys
      <4>1. event' = <<[of |-> e.on, x |-> e.value]>>
        BY <1>1, <1>3, <3>1, ValuesTold
      <4>2. QED
        BY <1>10, <3>1, <4>1
    <3>2. CASE e.on \notin Keys
      BY <1>1, <1>3, <3>2, ValuesTold
    <3>3. QED
      BY <3>1, <3>2
  <2>2. keyboard' = keyboard
    BY <1>1, <1>10
  <2>3. KeysBuffered'
    BY <1>1, <1>7, <1>8, <2>1, <2>2 DEF KeysBuffered
  <2>4. QED
    BY <1>1, <1>5, <1>6, <2>3 DEF InputInv, LockHeld
<1>11. QED
  BY <1>9, <1>10

(* handleEvent adds a value to its control.                                *)
LEMMA HandleStep == InputInv /\ Inputs!handleEvent => InputInv'
<1> SUFFICES ASSUME InputInv, Inputs!handleEvent
             PROVE  InputInv'
  OBVIOUS
<1> DEFINE v == Head(event)
<1>1. /\ event # <<>> /\ holder = {"poll"} /\ event' = Tail(event) /\ handled' = Append(handled, v)
      /\ allInputData' = Inputs!Put(allInputData, v.of, Inputs!handleAxis(Inputs!At(allInputData, v.of), v.x))
      /\ keyboard' = keyboard /\ sdlQueue' = sdlQueue /\ holder' = holder /\ reader' = reader /\ before' = before
  BY DEF Inputs!handleEvent
<1>2. v \in Told /\ event' \in Seq(Told) /\ handled \in Seq(Told) /\ Len(event') = Len(event) - 1
      /\ Len(event) \in Nat \ {0} /\ v = event[1]
      /\ \A j \in 1 .. Len(event') : event'[j] = event[j + 1]
  BY <1>1 DEF InputInv, InputTyped
<1> HIDE DEF v
<1>3. v.of \in Inputs!Controls /\ v.x \in Int /\ handled' \in Seq(Told)
  BY <1>1, <1>2 DEF Told
<1>4. olds' = olds
  BY <1>1 DEF olds
<1>5. axes' = [axes EXCEPT ![v.of] = Inputs!handleAxis(axes[v.of], v.x)]
  <2>1. axes[v.of] = Inputs!At(allInputData, v.of)
    BY <1>3 DEF axes
  <2>2. \A c \in Inputs!Controls :
          Inputs!At(Inputs!Put(allInputData, v.of, Inputs!handleAxis(axes[v.of], v.x)), c)
            = IF c = v.of THEN Inputs!handleAxis(axes[v.of], v.x) ELSE Inputs!At(allInputData, c)
    BY DEF Inputs!At, Inputs!Put
  <2>3. QED
    BY <1>1, <2>1, <2>2 DEF axes
<1>6. axes[v.of] \in Axis /\ axes \in [Inputs!Controls -> Axis] /\ olds \in [Inputs!Controls -> Int]
  BY <1>3 DEF InputInv, InputTyped
<1>7. Inputs!handleAxis(axes[v.of], v.x) \in Axis
  BY <1>3, <1>6, Heeded
<1>8. InputTyped'
  BY <1>1, <1>2, <1>3, <1>4, <1>5, <1>6, <1>7 DEF InputInv, InputTyped
<1>9. ControlsSummed'
  <2>1. ASSUME NEW c \in Inputs!Controls
        PROVE  Sums(handled', c, axes'[c], olds'[c])
    <3>1. Sums(handled, c, axes[c], olds[c]) /\ olds[c] \in Int
      BY <1>6 DEF InputInv, ControlsSummed
    <3>2. CASE c = v.of
      <4>1. axes'[c] = Inputs!handleAxis(axes[c], v.x)
        BY <1>3, <1>5, <1>6, <3>2
      <4>2. QED
        BY <1>1, <1>2, <1>4, <1>6, <3>1, <3>2, <4>1, SumsMore
    <3>3. CASE c # v.of
      <4>1. axes'[c] = axes[c]
        BY <1>5, <1>6, <3>3
      <4>2. QED
        BY <1>1, <1>2, <1>4, <3>1, <3>3, <4>1, SumsOther
    <3>4. QED
      BY <3>2, <3>3
  <2>2. QED
    BY <2>1 DEF ControlsSummed
<1>10. KeysBuffered'
  <2>1. InOrder(handled, keyboard)
        /\ \A j \in 1 .. Len(event) : event[j].of \in Keys => Len(event) = 1
    BY DEF InputInv, KeysBuffered
  <2>2. \A j \in 1 .. Len(event') : event'[j].of \notin Keys
    BY <1>2, <2>1
  <2>3. \A j \in 1 .. Len(event') : event'[j].of \in Keys => Len(event') = 1
    BY <2>2
  <2>4. ~(event' # <<>> /\ Head(event').of \in Keys /\ Head(event').x = 1)
    BY <1>2, <2>2
  <2>5. CASE v.of \in Keys /\ v.x = 1
    <3>1. Len(keyboard) = Cardinality(Pressed(handled)) + 1 /\ keyboard[Cardinality(Pressed(handled)) + 1] = v.of
      BY <1>1, <2>5 DEF InputInv, KeysBuffered, v
    <3>2. Len(keyboard') = Cardinality(Pressed(handled')) /\ InOrder(handled', keyboard')
      BY <1>1, <1>2, <2>1, <2>5, <3>1, PressedMore
    <3>3. QED
      BY <2>3, <2>4, <3>2 DEF KeysBuffered
  <2>6. CASE ~(v.of \in Keys /\ v.x = 1)
    <3>1. Len(keyboard) = Cardinality(Pressed(handled))
      BY <1>1, <2>6 DEF InputInv, KeysBuffered, v
    <3>2. Len(keyboard') = Cardinality(Pressed(handled')) /\ InOrder(handled', keyboard')
      BY <1>1, <1>2, <2>1, <2>6, <3>1, PressedMore
    <3>3. QED
      BY <2>3, <2>4, <3>2 DEF KeysBuffered
  <2>7. QED
    BY <2>5, <2>6
<1>11. LockHeld'
  <2>1. \A r \in Readers : reader[r].pc = "idle"
    BY <1>1, InputConstants DEF InputInv, LockHeld
  <2>2. QED
    BY <1>1, <2>1 DEF LockHeld
<1>12. QED
  BY <1>8, <1>9, <1>10, <1>11 DEF InputInv

(* A reader takes the lock, reads or inserts, and releases it.             *)
LEMMA ReadStep ==
  InputInv /\ (\E r \in Readers : Inputs!BeginRead(r) \/ Inputs!GetInput(r) \/ Inputs!GetLatest(r)) => InputInv'
<1> SUFFICES ASSUME InputInv,
                    NEW r \in Readers, Inputs!BeginRead(r) \/ Inputs!GetInput(r) \/ Inputs!GetLatest(r)
             PROVE  InputInv'
  OBVIOUS
<1>1. /\ sdlQueue' = sdlQueue /\ event' = event /\ handled' = handled /\ keyboard' = keyboard /\ before' = before
      /\ DOMAIN reader' = Readers
  BY DEF Inputs!BeginRead, Inputs!GetInput, Inputs!GetLatest, Inputs!EndRead, InputInv, InputTyped
<1>2. olds' = olds
  BY <1>1 DEF olds
<1>3. event = <<>>
  BY InputConstants
  DEF Inputs!BeginRead, Inputs!GetInput, Inputs!GetLatest, InputInv, LockHeld
<1>4. axes' = axes
  <2>1. CASE allInputData' = allInputData
    BY <2>1 DEF axes
  <2>2. CASE reader[r].pc = "insert" /\ allInputData' = Inputs!Put(allInputData, reader[r].of, Inputs!Blank)
    <3>1. reader[r].of \in DOMAIN allInputData => allInputData[reader[r].of] = Inputs!Blank
      BY <2>2 DEF InputInv, LockHeld
    <3>2. \A c \in Inputs!Controls :
            Inputs!At(Inputs!Put(allInputData, reader[r].of, Inputs!Blank), c) = Inputs!At(allInputData, c)
      BY <3>1 DEF Inputs!At, Inputs!Put
    <3>3. QED
      BY <2>2, <3>2 DEF axes
  <2>3. QED
    BY <2>1, <2>2 DEF Inputs!BeginRead, Inputs!GetInput, Inputs!GetLatest
<1>5. LockHeld'
  <2>1. ASSUME Inputs!BeginRead(r)
        PROVE  LockHeld'
    <3>1. PICK c : reader' = [reader EXCEPT ![r] = IF c = "latest" THEN [pc |-> "latest"]
                                       ELSE IF c \in DOMAIN allInputData THEN [pc |-> "copy"]
                                       ELSE [pc |-> "insert", of |-> c]]
      BY <2>1 DEF Inputs!BeginRead
    <3>2. holder' = holder \union {r} /\ allInputData' = allInputData
      BY <2>1 DEF Inputs!BeginRead
    <3>3. ASSUME NEW q \in Readers
          PROVE  /\ reader'[q].pc # "idle" => q \in holder'
                 /\ reader'[q].pc = "insert" /\ reader'[q].of \in DOMAIN allInputData'
                      => allInputData'[reader'[q].of] = Inputs!Blank
      <4>1. CASE q = r
        <5>1. reader'[q] = IF c = "latest" THEN [pc |-> "latest"]
                           ELSE IF c \in DOMAIN allInputData THEN [pc |-> "copy"]
                           ELSE [pc |-> "insert", of |-> c]
          BY <3>1, <4>1 DEF InputInv, InputTyped
        <5>2. reader'[q].pc = "insert" => reader'[q].of \notin DOMAIN allInputData
          BY <5>1
        <5>3. QED
          BY <3>2, <4>1, <5>2
      <4>2. CASE q # r
        <5>1. reader'[q] = reader[q]
          BY <3>1, <4>2 DEF InputInv, InputTyped
        <5>2. QED
          BY <3>2, <5>1 DEF InputInv, LockHeld
      <4>3. QED
        BY <4>1, <4>2
    <3>4. QED
      BY <1>1, <1>3, <3>3 DEF LockHeld
  <2>2. ASSUME Inputs!GetInput(r) \/ Inputs!GetLatest(r)
        PROVE  LockHeld'
    <3>1. holder' = holder \ {r} /\ reader' = [reader EXCEPT ![r] = [pc |-> "idle"]]
      BY <2>2 DEF Inputs!GetInput, Inputs!GetLatest, Inputs!EndRead
    <3>2. \/ allInputData' = allInputData
          \/ allInputData' = Inputs!Put(allInputData, reader[r].of, Inputs!Blank)
      BY <2>2 DEF Inputs!GetInput, Inputs!GetLatest
    <3>3. ASSUME NEW q \in Readers
          PROVE  /\ reader'[q].pc # "idle" => q \in holder'
                 /\ reader'[q].pc = "insert" /\ reader'[q].of \in DOMAIN allInputData'
                      => allInputData'[reader'[q].of] = Inputs!Blank
      <4>1. CASE q = r
        <5>1. reader'[q] = [pc |-> "idle"]
          BY <3>1, <4>1 DEF InputInv, InputTyped
        <5>2. reader'[q].pc = "idle"
          BY <5>1
        <5>3. QED
          BY <5>2
      <4>2. CASE q # r
        <5>1. reader'[q] = reader[q]
          BY <3>1, <4>2 DEF InputInv, InputTyped
        <5>2. reader[q].pc # "idle" => q \in holder
          BY DEF InputInv, LockHeld
        <5>3. reader[q].pc = "insert" /\ reader[q].of \in DOMAIN allInputData
                => allInputData[reader[q].of] = Inputs!Blank
          BY DEF InputInv, LockHeld
        <5>4. reader[q].pc = "insert" /\ reader[q].of \in DOMAIN allInputData'
                => allInputData'[reader[q].of] = Inputs!Blank
          BY <3>2, <5>3 DEF Inputs!Put
        <5>5. QED
          BY <3>1, <4>2, <5>1, <5>2, <5>4
      <4>3. QED
        BY <4>1, <4>2
    <3>4. QED
      BY <1>1, <1>3, <3>3 DEF LockHeld
  <2>3. QED
    BY <2>1, <2>2
<1>6. InputTyped' /\ ControlsSummed' /\ KeysBuffered'
  BY <1>1, <1>2, <1>4 DEF InputInv, InputTyped, ControlsSummed, KeysBuffered
<1>7. QED
  BY <1>5, <1>6 DEF InputInv

(* A step of winput keeps it.                                              *)
LEMMA InputSteps == InputInv /\ Inputs!Next => InputInv'
<1> SUFFICES ASSUME InputInv, Inputs!Next
             PROVE  InputInv'
  OBVIOUS
<1>1. CASE Inputs!Arrive
  <2>1. PICK e \in Inputs!Events : sdlQueue' = Append(sdlQueue, e)
    BY <1>1 DEF Inputs!Arrive
  <2>2. /\ event' = event /\ handled' = handled /\ keyboard' = keyboard
        /\ holder' = holder /\ reader' = reader /\ allInputData' = allInputData /\ before' = before
    BY <1>1 DEF Inputs!Arrive
  <2>3. axes' = axes /\ olds' = olds /\ sdlQueue' \in Seq(Inputs!Events)
    BY <2>1, <2>2 DEF axes, olds, InputInv, InputTyped
  <2>4. QED
    BY <2>2, <2>3 DEF InputInv, InputTyped, ControlsSummed, KeysBuffered, LockHeld
<1>2. CASE Inputs!EndPoll
  <2>1. /\ event' = event /\ handled' = handled /\ keyboard' = keyboard /\ event = <<>> /\ holder = {"poll"}
        /\ sdlQueue' = sdlQueue /\ reader' = reader /\ allInputData' = allInputData /\ before' = before
    BY <1>2 DEF Inputs!EndPoll
  <2>2. axes' = axes /\ olds' = olds
    BY <2>1 DEF axes, olds
  <2>3. \A r \in Readers : reader[r].pc = "idle"
    BY <2>1, InputConstants DEF InputInv, LockHeld
  <2>4. LockHeld'
    BY <2>1, <2>3 DEF LockHeld
  <2>5. QED
    BY <2>1, <2>2, <2>4 DEF InputInv, InputTyped, ControlsSummed, KeysBuffered
<1>3. CASE Inputs!BeginPoll
  BY <1>3, BeginPollStep
<1>4. CASE Inputs!processEvent
  BY <1>4, ProcessStep
<1>5. CASE Inputs!handleEvent
  BY <1>5, HandleStep
<1>6. CASE \E r \in Readers : Inputs!BeginRead(r) \/ Inputs!GetInput(r) \/ Inputs!GetLatest(r)
  BY <1>6, ReadStep
<1>7. QED
  BY <1>1, <1>2, <1>3, <1>4, <1>5, <1>6 DEF Inputs!Next

(* What is counted is counted right.                                       *)
LEMMA CountsTell ==
  ASSUME NEW h \in Seq(Told), NEW c, NEW S, S \subseteq Where(h, c)
  PROVE  Cardinality(S) \in Nat /\ (Cardinality(S) = 0 <=> S = {})
<1>1. IsFiniteSet(Where(h, c))
  <2>1. 1 \in Int /\ Len(h) \in Int
    OBVIOUS
  <2>2. IsFiniteSet(1 .. Len(h)) /\ Where(h, c) \subseteq 1 .. Len(h)
    BY <2>1, FS_Interval DEF Where
  <2>3. QED
    BY <2>2, FS_Subset
<1>2. IsFiniteSet(S)
  BY <1>1, FS_Subset
<1>3. QED
  BY <1>2, FS_CardinalityType, FS_EmptySet

(* The invariant is what a reader relies on.                               *)
LEMMA InputTells == InputInv => Inputs!FrameSummed
<1> SUFFICES ASSUME InputInv, holder # {"poll"}
             PROVE  /\ \A c \in Inputs!Controls : Inputs!Summed(c)
                    /\ Len(keyboard) = Inputs!Cardinality(Inputs!Presses)
                    /\ \A i \in Inputs!Presses :
                         keyboard[Inputs!Cardinality({j \in Inputs!Presses : j <= i})] = handled[i].of
  BY DEF Inputs!FrameSummed
<1>1. event = <<>> /\ handled \in Seq(Told) /\ DOMAIN handled = 1 .. Len(handled)
  BY DEF InputInv, LockHeld, InputTyped
<1>2. Inputs!Presses = Pressed(handled)
  BY <1>1 DEF Inputs!Presses, Pressed
<1>3. Len(keyboard) = Inputs!Cardinality(Inputs!Presses)
  BY <1>1, <1>2, InputSets DEF InputInv, KeysBuffered
<1>4. ASSUME NEW i \in Inputs!Presses
      PROVE  keyboard[Inputs!Cardinality({j \in Inputs!Presses : j <= i})] = handled[i].of
  <2>1. {j \in Inputs!Presses : j <= i} = UpTo(handled, i)
    BY <1>2 DEF UpTo
  <2>2. QED
    BY <1>2, <2>1, InputSets DEF InputInv, KeysBuffered, InOrder
<1>5. ASSUME NEW c \in Inputs!Controls
      PROVE  Inputs!Summed(c)
  <2> DEFINE h == handled
             a == axes[c]
             old == olds[c]
             W == Where(h, c)
  <2>1. Inputs!At(allInputData, c) = a /\ (IF c \in DOMAIN before THEN before[c] ELSE 0) = old
    BY DEF axes, olds
  <2>2. Inputs!Said(c) = W
    BY <1>1 DEF Inputs!Said, Where
  <2>3. {h[i].x : i \in W} = Heard(h, c)
    BY DEF Heard
  <2>4. Sums(h, c, a, old) /\ a \in Axis
    BY DEF InputInv, ControlsSummed, InputTyped
  <2>5. \A i \in W : h[i].x \in Int
    <3>1. \A i \in W : i \in 1 .. Len(h)
      BY DEF Where
    <3>2. \A i \in 1 .. Len(h) : h[i] \in Told
      BY <1>1
    <3>3. \A v \in Told : v.x \in Int
      BY DEF Told
    <3> HIDE DEF W, h
    <3>4. QED
      BY <3>1, <3>2, <3>3
  <2>6. /\ Counted(h, c).positive = {i \in W : h[i].x > 0}
        /\ Counted(h, c).negative = {i \in W : h[i].x < 0}
        /\ Counted(h, c).zero = {i \in W : h[i].x = 0}
    BY DEF Counted
  <2>7. /\ a.numPositive = Cardinality({i \in W : h[i].x > 0})
        /\ a.numNegative = Cardinality({i \in W : h[i].x < 0})
        /\ a.numZero = Cardinality({i \in W : h[i].x = 0})
    BY <2>4, <2>6 DEF Sums
  <2>8. /\ a.numPositive \in Nat /\ (a.numPositive = 0 <=> {i \in W : h[i].x > 0} = {})
        /\ a.numNegative \in Nat /\ (a.numNegative = 0 <=> {i \in W : h[i].x < 0} = {})
        /\ a.numZero \in Nat /\ (a.numZero = 0 <=> {i \in W : h[i].x = 0} = {})
    BY <1>1, <2>7, CountsTell
  <2>9. Inputs!justChanged(a) = (W # {})
    <3>1. W # {} => {i \in W : h[i].x > 0} # {} \/ {i \in W : h[i].x < 0} # {} \/ {i \in W : h[i].x = 0} # {}
      BY <2>5
    <3>2. W = {} => {i \in W : h[i].x > 0} = {} /\ {i \in W : h[i].x < 0} = {} /\ {i \in W : h[i].x = 0} = {}
      OBVIOUS
    <3> HIDE DEF W, a
    <3>3. (a.numPositive + a.numNegative + a.numZero > 0) <=> W # {}
      BY <2>8, <3>1, <3>2
    <3>4. QED
      BY <3>3 DEF Inputs!justChanged
  <2>10. Inputs!justPressed(a) = (\E x \in Heard(h, c) : x > 0)
    <3>1. (\E x \in Heard(h, c) : x > 0) <=> {i \in W : h[i].x > 0} # {}
      BY DEF Heard
    <3> HIDE DEF W, a, h
    <3>2. (a.numPositive > 0) <=> {i \in W : h[i].x > 0} # {}
      BY <2>8
    <3>5. (a.numPositive > 0) <=> (\E x \in Heard(h, c) : x > 0)
      BY <3>1, <3>2
    <3> DEFINE heard == \E x \in Heard(h, c) : x > 0
    <3>6. heard \in BOOLEAN /\ ((a.numPositive > 0) <=> heard)
      BY <3>5
    <3> HIDE DEF heard
    <3>7. Inputs!justPressed(a) = heard
      BY <3>6 DEF Inputs!justPressed
    <3>3. QED
      BY <3>7 DEF heard
  <2>11. Inputs!justReleased(a) = (0 \in Heard(h, c))
    <3>1. (0 \in Heard(h, c)) <=> {i \in W : h[i].x = 0} # {}
      BY DEF Heard
    <3> HIDE DEF W, a
    <3>2. (a.numZero > 0) <=> (0 \in Heard(h, c))
      BY <2>8, <3>1
    <3>3. QED
      BY <3>2 DEF Inputs!justReleased
  <2>12. a.current = IF W = {} THEN old ELSE h[Inputs!Max(W)].x
    BY <2>4 DEF Sums
  <2>13. {a.min, a.max} \subseteq Heard(h, c) \union {old}
         /\ \A x \in Heard(h, c) \union {old} : a.min <= x /\ x <= a.max
    BY <2>4 DEF Sums
  <2> HIDE DEF a, old, W
  <2>14. QED
    BY <2>1, <2>2, <2>3, <2>7, <2>9, <2>10, <2>11, <2>12, <2>13, InputSets DEF Inputs!Summed, h
<1>6. QED
  BY <1>3, <1>4, <1>5

(* Between two polls a reader finds the summary of exactly the events of   *)
(* the frame (processEvent, handleAxis), and the keys in the order they    *)
(* were pressed: whatever arrives while pollInput drains SDL's queue, and  *)
(* however many readers insert controls nobody has heard of.               *)
THEOREM EventsAreSummed == RuntimeSpec => []FrameSummed
<1>1. RuntimeInit => InputInv
  BY InputInitHolds DEF RuntimeInit
<1>2. InputInv /\ [RuntimeNext]_<<part, vars, screen, sound, input, memory, spawned>> => InputInv'
  <2> SUFFICES ASSUME InputInv, [RuntimeNext]_<<part, vars, screen, sound, input, memory, spawned>>
               PROVE  InputInv'
    OBVIOUS
  <2>1. CASE part = "input" /\ Inputs!Next
    BY <2>1, InputSteps
  <2>2. CASE UNCHANGED input
    BY <2>2, InputRests
  <2>3. QED
    BY <2>1, <2>2 DEF RuntimeNext
<1>3. InputInv => FrameSummed
  BY InputTells DEF FrameSummed
<1>4. QED
  BY <1>1, <1>2, <1>3, PTL DEF RuntimeSpec

-----------------------------------------------------------------------------
(***************************************************************************)
(* gpu. A block of device memory belongs to one object, or to the one      *)
(* call that gives it back, and each heap's counter is what the booked     *)
(* blocks leave of its budget, modulo the word.                            *)
(***************************************************************************)
Places == Threads \X Memory!Objects
Types == Memory!Types
Heaps == Memory!Heaps

(* The vram objects, by thread and place; those that hold a block, and     *)
(* those among them whose block has been subtracted from its heap.         *)
objects == [x \in Places |-> vrams[x[1]][x[2]]]
Holding == {x \in Places : objects[x].handle # 0}
Booked == {x \in Holding : ~(asking[x[1]].pc = "subtract" /\ asking[x[1]].out = x[2])}
Freeing == {w \in Threads : asking[w].pc = "free"}

Slots == {Memory!NoBlock} \union [handle : {0} \union Memory!Handles, size : Sizes, type : Types]
Calls ==
  {Memory!Quiet} \union [pc : {"free"}, handle : Memory!Handles]
    \union [pc : {"choose", "subtract"}, out : Memory!Objects, size : Sizes, request : Requests,
            t : 0 .. typeCount, type : Types \union {typeCount}]

(* The bytes of a heap that the blocks of some objects have.               *)
Share(X, b, h) == UNION {{x} \X (1 .. b[x].size) : x \in {y \in X : heapIndex[b[y].type] = h}}

Sized(X, b) == \A x \in X : b[x].size \in Nat

MemoryTyped ==
  /\ DOMAIN freeMemoryByHeap = Heaps /\ \A h \in Heaps : freeMemoryByHeap[h] \in 0 .. Word - 1
  /\ vrams \in [Threads -> [Memory!Objects -> Slots]]
  /\ asking \in [Threads -> Calls]
  /\ \A w \in Threads :
       /\ asking[w].pc = "choose" => <<w, asking[w].out>> \notin Holding
       /\ asking[w].pc = "subtract" =>
            /\ <<w, asking[w].out>> \in Holding /\ asking[w].type \in Types
            /\ objects[<<w, asking[w].out>>].size = asking[w].size
            /\ objects[<<w, asking[w].out>>].type = asking[w].type

(* A handle belongs to one object or to one thread that gives it back, and *)
(* that thread has an object without a block.                              *)
Owners ==
  /\ \A x, y \in Holding : objects[x].handle = objects[y].handle => x = y
  /\ \A w \in Freeing :
       /\ \A x \in Holding : objects[x].handle # asking[w].handle
       /\ \A v \in Freeing : asking[v].handle = asking[w].handle => v = w
       /\ \E o \in Memory!Objects : <<w, o>> \notin Holding
  /\ \A n : n \in live <=> (\E x \in Holding : n = objects[x].handle) \/ (\E w \in Freeing : n = asking[w].handle)
  /\ misfreed = 0

Accounted == \A h \in Heaps : (freeMemoryByHeap[h] + Cardinality(Share(Booked, objects, h))) % Word = Budget[h]

MemoryInv == MemoryTyped /\ Owners /\ Accounted

(* Finite sets are the same in the instance.                               *)
LEMMA MemorySets == \A S : (Memory!IsFiniteSet(S) <=> IsFiniteSet(S)) /\ Memory!Cardinality(S) = Cardinality(S)
  BY DEF Memory!IsFiniteSet, IsFiniteSet, Memory!Cardinality, Cardinality

(* The constants.                                                          *)
LEMMA MemoryConstants ==
  /\ typeCount \in Nat \ {0} /\ heapIndex \in [Types -> Heaps] /\ IsFiniteSet(Threads) /\ ObjectCount \in Nat
  /\ Word \in Nat \ {0} /\ Sizes \subseteq 1 .. Word - 1
  /\ \A h \in Heaps : Budget[h] \in 0 .. Word - 1
  /\ Types = 0 .. typeCount - 1 /\ Heaps = DOMAIN Budget /\ Memory!Objects = 1 .. ObjectCount
<1>1. /\ typeCount \in Nat \ {0} /\ heapIndex \in [Types -> Heaps] /\ IsFiniteSet(Threads) /\ ObjectCount \in Nat
      /\ Word \in Nat /\ Sizes \subseteq 1 .. Word - 1
      /\ \A h \in Heaps : Budget[h] \in 0 .. Word - 1
  BY RuntimeAssumption, MemorySets DEF Memory!VramAssumption, Types, Heaps
<1>2. Types = 0 .. typeCount - 1 /\ Heaps = DOMAIN Budget /\ Memory!Objects = 1 .. ObjectCount
  BY DEF Types, Heaps, Memory!Types, Memory!Heaps, Memory!Objects
<1>3. heapIndex[0] \in Heaps
  BY <1>1, <1>2
<1>4. QED
  BY <1>1, <1>2, <1>3

(* Multiples of m are m apart.                                             *)
LEMMA LessThanOneWord ==
  ASSUME NEW p \in Int, NEW q \in Int, NEW m \in Nat \ {0}, p < q
  PROVE  m * p + m <= m * q
OBVIOUS

(* A remainder is known by its quotient.                                   *)
LEMMA Remainder ==
  ASSUME NEW a \in Int, NEW m \in Nat \ {0}, NEW q \in Int, NEW r \in 0 .. m - 1, a = m * q + r
  PROVE  a % m = r
<1>1. a \div m \in Int /\ a % m \in 0 .. m - 1 /\ a = m * (a \div m) + (a % m)
  OBVIOUS
<1>2. PICK p \in Int : a = m * p + (a % m)
  BY <1>1
<1>3. m * p \in Int /\ m * q \in Int
  OBVIOUS
<1>4. CASE p < q
  BY <1>1, <1>2, <1>3, <1>4, LessThanOneWord
<1>5. CASE q < p
  BY <1>1, <1>2, <1>3, <1>5, LessThanOneWord
<1>6. CASE q = p
  BY <1>1, <1>2, <1>3, <1>6
<1>7. QED
  BY <1>4, <1>5, <1>6

(* A whole divisor more.                                                   *)
LEMMA OneMore ==
  ASSUME NEW n \in Nat, NEW m \in Nat \ {0}
  PROVE  (n + m) % m = n % m
<1>1. n \div m \in Int /\ n % m \in 0 .. m - 1 /\ n = m * (n \div m) + (n % m)
  OBVIOUS
<1>2. PICK q \in Int, r \in 0 .. m - 1 : n = m * q + r /\ n % m = r
  BY <1>1
<1>3. m * (q + 1) = m * q + m /\ m * q \in Int /\ q + 1 \in Int
  OBVIOUS
<1>4. n + m = m * (q + 1) + r /\ n + m \in Int
  BY <1>2, <1>3
<1>5. (n + m) % m = r
  BY <1>3, <1>4, Remainder
<1>6. QED
  BY <1>2, <1>5

(* A remainder modulo the word.                                            *)
LEMMA WordRemainder ==
  /\ \A n \in Nat : (n + Word) % Word = n % Word
  /\ \A n \in 0 .. Word - 1 : n % Word = n
  /\ \A n \in Nat : n >= Word /\ n - Word < Word => n % Word = n - Word
<1>1. Word \in Nat \ {0}
  BY MemoryConstants
<1>2. \A n \in Nat : (n + Word) % Word = n % Word
  BY <1>1, OneMore
<1>3. \A n \in 0 .. Word - 1 : n % Word = n
  BY <1>1
<1>4. ASSUME NEW n \in Nat, n >= Word, n - Word < Word
      PROVE  n % Word = n - Word
  <2>1. n - Word \in 0 .. Word - 1 /\ n = (n - Word) + Word
    BY <1>1, <1>4
  <2>2. QED
    BY <2>1, <1>2, <1>3
<1>5. QED
  BY <1>2, <1>3, <1>4

(* What is subtracted from a counter and held, or added and given back.    *)
LEMMA WordMoved ==
  ASSUME NEW a \in 0 .. Word - 1, NEW s \in 1 .. Word - 1, NEW u \in Nat
  PROVE  /\ (a + Word - s) % Word \in 0 .. Word - 1 /\ (a + s) % Word \in 0 .. Word - 1
         /\ (((a + Word - s) % Word) + (u + s)) % Word = (a + u) % Word
         /\ s <= u => (((a + s) % Word) + (u - s)) % Word = (a + u) % Word
<1> USE MemoryConstants
<1>0. a \in Nat /\ s \in Nat /\ a < Word /\ s < Word /\ s > 0 /\ Word \in Nat
  OBVIOUS
<1>1. /\ a >= s => (a + Word - s) % Word = a - s
      /\ a < s => (a + Word - s) % Word = a + Word - s
  <2>1. ASSUME a >= s PROVE (a + Word - s) % Word = a - s
    <3> DEFINE n == a + Word - s
    <3>1. n \in Nat /\ n >= Word /\ n - Word < Word /\ n - Word = a - s
      BY <1>0, <2>1
    <3> HIDE DEF n
    <3>2. n % Word = n - Word
      BY <3>1, WordRemainder
    <3>3. QED
      BY <3>1, <3>2 DEF n
  <2>2. ASSUME a < s PROVE (a + Word - s) % Word = a + Word - s
    <3>1. a + Word - s \in 0 .. Word - 1
      BY <1>0, <2>2
    <3>2. QED
      BY <3>1, WordRemainder
  <2>3. QED
    BY <2>1, <2>2
<1>2. /\ a + s < Word => (a + s) % Word = a + s
      /\ a + s >= Word => (a + s) % Word = a + s - Word
  <2>1. ASSUME a + s < Word PROVE (a + s) % Word = a + s
    <3>1. a + s \in 0 .. Word - 1
      BY <1>0, <2>1
    <3>2. QED
      BY <3>1, WordRemainder
  <2>2. ASSUME a + s >= Word PROVE (a + s) % Word = a + s - Word
    <3> DEFINE n == a + s
    <3>1. n \in Nat /\ n >= Word /\ n - Word < Word
      BY <1>0, <2>2
    <3> HIDE DEF n
    <3>2. n % Word = n - Word
      BY <3>1, WordRemainder
    <3>3. QED
      BY <3>2 DEF n
  <2>3. QED
    BY <2>1, <2>2
<1>3. (((a + Word - s) % Word) + (u + s)) % Word = (a + u) % Word
  <2>1. CASE a >= s
    <3>1. ((a + Word - s) % Word) + (u + s) = a + u
      BY <1>1, <2>1
    <3>2. QED
      BY <3>1
  <2>2. CASE a < s
    <3>1. ((a + Word - s) % Word) + (u + s) = (a + u) + Word /\ a + u \in Nat
      BY <1>1, <2>2
    <3>2. QED
      BY <3>1, WordRemainder
  <2>3. QED
    BY <2>1, <2>2
<1>4. ASSUME s <= u
      PROVE  (((a + s) % Word) + (u - s)) % Word = (a + u) % Word
  <2>1. CASE a + s < Word
    <3>1. ((a + s) % Word) + (u - s) = a + u
      BY <1>2, <2>1
    <3>2. QED
      BY <3>1
  <2>2. CASE a + s >= Word
    <3>1. a + u = (((a + s) % Word) + (u - s)) + Word /\ ((a + s) % Word) + (u - s) \in Nat
      BY <1>2, <1>4, <2>2
    <3>2. QED
      BY <3>1, WordRemainder
  <2>3. QED
    BY <2>1, <2>2
<1>5. QED
  BY <1>1, <1>2, <1>3, <1>4

(* The objects are finitely many.                                          *)
LEMMA PlacesFinite == IsFiniteSet(Places) /\ Cardinality(Places) = Cardinality(Threads) * ObjectCount
<1>1. IsFiniteSet(Memory!Objects) /\ Cardinality(Memory!Objects) = ObjectCount
  BY MemoryConstants, FS_Interval
<1>2. QED
  BY <1>1, MemoryConstants, FS_Product DEF Places

(* The bytes of finitely many blocks are finitely many.                    *)
LEMMA ShareFinite ==
  ASSUME NEW X, IsFiniteSet(X), NEW b, Sized(X, b), NEW h
  PROVE  IsFiniteSet(Share(X, b, h)) /\ Cardinality(Share(X, b, h)) \in Nat
<1> USE DEF Sized
<1> DEFINE Y == {y \in X : heapIndex[b[y].type] = h}
           bytes(x) == {x} \X (1 .. b[x].size)
           all == {bytes(x) : x \in Y}
           m == [x \in Y |-> bytes(x)]
<1>1. IsFiniteSet(Y)
  BY FS_Subset
<1>2. \A x \in Y : IsFiniteSet(bytes(x))
  <2> TAKE x \in Y
  <2>1. 1 \in Int /\ b[x].size \in Int
    OBVIOUS
  <2>2. IsFiniteSet({x}) /\ IsFiniteSet(1 .. b[x].size)
    BY <2>1, FS_Singleton, FS_Interval
  <2>3. QED
    BY <2>2, FS_Product
<1>3. m \in Surjection(Y, all)
  BY DEF Surjection
<1> HIDE DEF m, Y
<1>4. IsFiniteSet(all)
  <2> HIDE DEF all
  <2>1. QED
    BY <1>1, <1>3, FS_Surjection
<1>5. IsFiniteSet(UNION all)
  <2>1. \A T \in all : IsFiniteSet(T)
    BY <1>2
  <2> HIDE DEF all
  <2>2. QED
    BY <1>4, <2>1, FS_UNION
<1>6. Share(X, b, h) = UNION all
  BY DEF Share, Y
<1>7. QED
  BY <1>5, <1>6, FS_CardinalityType

(* It is the blocks that count.                                            *)
LEMMA ShareSame ==
  ASSUME NEW X, NEW b, NEW d, \A x \in X : b[x] = d[x], NEW h
  PROVE  Share(X, b, h) = Share(X, d, h)
<1>1. {y \in X : heapIndex[b[y].type] = h} = {y \in X : heapIndex[d[y].type] = h}
  OBVIOUS
<1>2. QED
  BY <1>1 DEF Share

(* One block more.                                                         *)
LEMMA ShareGrown ==
  ASSUME NEW X, IsFiniteSet(X), NEW b, NEW x, x \notin X, NEW h, Sized(X \union {x}, b)
  PROVE  Cardinality(Share(X \union {x}, b, h)) =
           Cardinality(Share(X, b, h)) + (IF heapIndex[b[x].type] = h THEN b[x].size ELSE 0)
<1> DEFINE S == Share(X, b, h)
           T == {x} \X (1 .. b[x].size)
<1>1. IsFiniteSet(S) /\ Cardinality(S) \in Nat
  <2>1. Sized(X, b)
    BY DEF Sized
  <2>2. QED
    BY <2>1, ShareFinite
<1> USE DEF Sized
<1>2. CASE heapIndex[b[x].type] = h
  <2>1. Share(X \union {x}, b, h) = S \union T
    <3>1. {y \in X \union {x} : heapIndex[b[y].type] = h} = {y \in X : heapIndex[b[y].type] = h} \union {x}
      BY <1>2
    <3>2. QED
      BY <3>1 DEF Share
  <2>2. S \intersect T = {}
    BY DEF Share
  <2>3. IsFiniteSet(T) /\ Cardinality(T) = b[x].size
    <3>1. b[x].size \in Nat
      OBVIOUS
    <3>2. IsFiniteSet({x}) /\ Cardinality({x}) = 1
      BY FS_Singleton
    <3>3. IsFiniteSet(1 .. b[x].size) /\ Cardinality(1 .. b[x].size) = b[x].size
      <4>1. \A n \in Nat : IsFiniteSet(1 .. n) /\ Cardinality(1 .. n) = n
        <5> TAKE n \in Nat
        <5>1. 1 \in Int /\ n \in Int
          OBVIOUS
        <5>2. QED
          BY <5>1, FS_Interval
      <4>2. QED
        BY <3>1, <4>1
    <3>4. IsFiniteSet(T) /\ Cardinality(T) = Cardinality({x}) * Cardinality(1 .. b[x].size)
      BY <3>2, <3>3, FS_Product
    <3> HIDE DEF T
    <3>5. QED
      BY <3>1, <3>2, <3>3, <3>4
  <2> HIDE DEF S, T
  <2>4. Cardinality(S \union T) = Cardinality(S) + Cardinality(T) - Cardinality({})
    BY <1>1, <2>2, <2>3, FS_Union
  <2>5. Cardinality(S \union T) = Cardinality(S) + b[x].size
    <3>1. b[x].size \in Nat
      OBVIOUS
    <3>2. QED
      BY <1>1, <2>3, <2>4, <3>1, FS_EmptySet
  <2>6. QED
    BY <1>2, <2>1, <2>5 DEF S
<1>3. CASE heapIndex[b[x].type] # h
  <2>1. {y \in X \union {x} : heapIndex[b[y].type] = h} = {y \in X : heapIndex[b[y].type] = h}
    BY <1>3
  <2>2. Share(X \union {x}, b, h) = S
    BY <2>1 DEF Share
  <2>3. QED
    BY <1>1, <1>3, <2>2
<1>4. QED
  BY <1>2, <1>3

(* The objects, and what those that hold a block say of it.                *)
LEMMA ObjectsTyped ==
  ASSUME MemoryTyped
  PROVE  /\ objects \in [Places -> Slots]
         /\ \A x \in Holding : /\ x \in Places /\ objects[x].handle \in Memory!Handles /\ objects[x].handle # 0
                              /\ objects[x].size \in 1 .. Word - 1 /\ objects[x].size \in Sizes
                              /\ objects[x].type \in Types /\ heapIndex[objects[x].type] \in Heaps
                              /\ objects[x] \in [handle : {0} \union Memory!Handles, size : Sizes, type : Types]
         /\ \A w \in Threads, o \in Memory!Objects : objects[<<w, o>>] = vrams[w][o] /\ <<w, o>> \in Places
         /\ IsFiniteSet(Holding) /\ IsFiniteSet(Booked) /\ Booked \subseteq Holding /\ Holding \subseteq Places
<1>1. objects \in [Places -> Slots]
  BY DEF MemoryTyped, objects, Places
<1>2. ASSUME NEW x \in Holding
      PROVE  /\ x \in Places /\ objects[x].handle \in Memory!Handles /\ objects[x].handle # 0
             /\ objects[x].size \in 1 .. Word - 1 /\ objects[x].size \in Sizes
             /\ objects[x].type \in Types /\ heapIndex[objects[x].type] \in Heaps
             /\ objects[x] \in [handle : {0} \union Memory!Handles, size : Sizes, type : Types]
  <2>1. x \in Places /\ objects[x].handle # 0
    BY DEF Holding
  <2>2. objects[x] \in Slots /\ objects[x] # Memory!NoBlock
    BY <1>1, <2>1 DEF Memory!NoBlock, Memory!Null
  <2>3. objects[x] \in [handle : {0} \union Memory!Handles, size : Sizes, type : Types]
    BY <2>2 DEF Slots
  <2>4. QED
    BY <2>1, <2>3, MemoryConstants
<1>3. \A w \in Threads, o \in Memory!Objects : objects[<<w, o>>] = vrams[w][o] /\ <<w, o>> \in Places
  BY DEF objects, Places
<1>4. Booked \subseteq Holding /\ Holding \subseteq Places
  BY DEF Booked, Holding
<1>5. IsFiniteSet(Holding) /\ IsFiniteSet(Booked)
  BY <1>4, PlacesFinite, FS_Subset
<1>6. QED
  BY <1>1, <1>2, <1>3, <1>4, <1>5

(* A change of one object.                                                 *)
LEMMA ObjectSet ==
  ASSUME MemoryTyped, NEW w \in Threads, NEW o \in Memory!Objects, NEW v \in Slots,
         vrams' = [vrams EXCEPT ![w] = [vrams[w] EXCEPT ![o] = v]]
  PROVE  /\ vrams' \in [Threads -> [Memory!Objects -> Slots]]
         /\ objects' = [objects EXCEPT ![<<w, o>>] = v]
<1>1. vrams' \in [Threads -> [Memory!Objects -> Slots]]
  BY DEF MemoryTyped
<1>2. \A x \in Places : vrams'[x[1]][x[2]] = IF x = <<w, o>> THEN v ELSE vrams[x[1]][x[2]]
  BY DEF MemoryTyped, Places
<1>3. objects' = [x \in Places |-> vrams'[x[1]][x[2]]] /\ Places' = Places
  BY DEF objects, Places, Memory!Objects
<1>4. QED
  BY <1>1, <1>2, <1>3 DEF objects

(* The sets of objects depend on nothing else.                             *)
LEMMA SetsKept ==
  ASSUME vrams' = vrams
  PROVE  objects' = objects /\ Holding' = Holding
  BY DEF objects, Holding, Places, Memory!Objects

(* No object has a block, and the heaps have their whole budget.           *)
LEMMA MemoryInitHolds == RuntimeInit => MemoryInv
<1> SUFFICES ASSUME Memory!Init
             PROVE  MemoryInv
  BY DEF RuntimeInit
<1>1. /\ freeMemoryByHeap = Budget /\ live = {} /\ misfreed = 0
      /\ asking = [w \in Threads |-> Memory!Quiet]
      /\ vrams = [w \in Threads |-> [o \in Memory!Objects |-> Memory!NoBlock]]
  BY DEF Memory!Init
<1>2. \A x \in Places : objects[x] = Memory!NoBlock
  BY <1>1 DEF objects, Places
<1>3. Holding = {} /\ Booked = {} /\ Freeing = {}
  BY <1>1, <1>2 DEF Holding, Booked, Freeing, Memory!NoBlock, Memory!Null, Memory!Quiet
<1>4. MemoryTyped
  BY <1>1, MemoryConstants DEF MemoryTyped, Slots, Calls, Memory!Quiet
<1>5. Owners
  BY <1>1, <1>3 DEF Owners
<1>6. \A h \in Heaps : Cardinality(Share(Booked, objects, h)) = 0
  BY <1>3, FS_EmptySet DEF Share
<1>7. Accounted
  <2> SUFFICES ASSUME NEW h \in Heaps
               PROVE  (Budget[h] + Cardinality(Share(Booked, objects, h))) % Word = Budget[h]
    BY <1>1 DEF Accounted
  <2>1. Budget[h] \in 0 .. Word - 1 /\ Budget[h] + 0 = Budget[h]
    BY MemoryConstants
  <2>2. QED
    BY <1>6, <2>1, WordRemainder
<1>8. QED
  BY <1>4, <1>5, <1>7 DEF MemoryInv

(* A step of allocate that takes no memory.                                *)
LEMMA CallMoved ==
  ASSUME MemoryInv, NEW w \in Threads, NEW c \in Calls, asking' = [asking EXCEPT ![w] = c],
         freeMemoryByHeap' = freeMemoryByHeap, vrams' = vrams, live' = live, misfreed' = misfreed,
         asking[w].pc \notin {"free", "subtract"}, c.pc \notin {"free", "subtract"},
         c.pc = "choose" => <<w, c.out>> \notin Holding
  PROVE  MemoryInv'
<1> USE DEF MemoryInv
<1>1. asking \in [Threads -> Calls] /\ asking'[w] = c /\ \A v \in Threads \ {w} : asking'[v] = asking[v]
  BY DEF MemoryTyped
<1>2. objects' = objects /\ Holding' = Holding
  BY SetsKept
<1>3. Freeing' = Freeing /\ \A v \in Freeing : asking'[v] = asking[v]
  BY <1>1 DEF Freeing
<1>4. Booked' = Booked
  BY <1>1, <1>2 DEF Booked, Holding, Places
<1>5. MemoryTyped'
  BY <1>1, <1>2 DEF MemoryTyped
<1>6. Owners'
  BY <1>2, <1>3 DEF Owners
<1>7. Accounted'
  BY <1>2, <1>4 DEF Accounted
<1>8. QED
  BY <1>5, <1>6, <1>7

(* allocate is called for an object without a block: nothing is booked.    *)
LEMMA AskStep ==
  ASSUME MemoryInv, NEW w \in Threads, NEW o \in Memory!Objects, NEW size \in Sizes, NEW request \in Requests,
         Memory!Ask(w, o, size, request)
  PROVE  MemoryInv'
<1> DEFINE c == [pc |-> "choose", out |-> o, size |-> size, request |-> request, t |-> 0, type |-> typeCount]
<1>1. /\ asking[w].pc = "idle" /\ vrams[w][o].handle = 0 /\ asking' = [asking EXCEPT ![w] = c]
      /\ freeMemoryByHeap' = freeMemoryByHeap /\ vrams' = vrams /\ live' = live /\ misfreed' = misfreed
  BY DEF Memory!Ask, Memory!Null, Memory!NoType
<1>2. c \in Calls /\ c.pc = "choose" /\ c.out = o
  BY MemoryConstants DEF Calls
<1> HIDE DEF c
<1>3. <<w, o>> \notin Holding
  BY <1>1, ObjectsTyped DEF MemoryInv, Holding
<1>4. QED
  BY <1>1, <1>2, <1>3, CallMoved

(* It looks at one type after the other: nothing is booked yet.            *)
LEMMA ConsiderStep ==
  ASSUME MemoryInv, NEW w \in Threads, Memory!Consider(w)
  PROVE  MemoryInv'
<1> DEFINE c == [asking[w] EXCEPT !.type = IF Memory!Better(asking[w], asking[w].t) THEN asking[w].t ELSE asking[w].type,
                                  !.t = asking[w].t + 1]
<1>1. /\ asking[w].pc = "choose" /\ asking[w].t < typeCount /\ asking' = [asking EXCEPT ![w] = c]
      /\ freeMemoryByHeap' = freeMemoryByHeap /\ vrams' = vrams /\ live' = live /\ misfreed' = misfreed
  BY DEF Memory!Consider
<1>2. asking[w] \in [pc : {"choose", "subtract"}, out : Memory!Objects, size : Sizes, request : Requests,
                     t : 0 .. typeCount, type : Types \union {typeCount}]
  <2>1. asking[w] \in Calls
    BY DEF MemoryInv, MemoryTyped
  <2>2. QED
    BY <1>1, <2>1 DEF Calls, Memory!Quiet
<1>3. c \in Calls /\ c.pc = "choose" /\ c.out = asking[w].out
  <2> DEFINE n == IF Memory!Better(asking[w], asking[w].t) THEN asking[w].t ELSE asking[w].type
  <2>1. n \in Types \union {typeCount} /\ asking[w].t + 1 \in 0 .. typeCount
    BY <1>1, <1>2, MemoryConstants
  <2> HIDE DEF n
  <2>2. c = [asking[w] EXCEPT !.type = n, !.t = asking[w].t + 1]
    BY DEF n
  <2>3. c \in [pc : {"choose", "subtract"}, out : Memory!Objects, size : Sizes, request : Requests,
               t : 0 .. typeCount, type : Types \union {typeCount}]
        /\ c.pc = asking[w].pc /\ c.out = asking[w].out
    BY <1>2, <2>1, <2>2
  <2>4. QED
    BY <1>1, <2>3 DEF Calls
<1> HIDE DEF c
<1>4. <<w, asking[w].out>> \notin Holding
  BY <1>1 DEF MemoryInv, MemoryTyped
<1>5. QED
  BY <1>1, <1>3, <1>4, CallMoved

(* A smallest handle that is not in use is always there.                   *)
LEMMA FreshHandle ==
  ASSUME MemoryInv
  PROVE  Memory!Min(Memory!Handles \ live) \in Memory!Handles \ live
<1> USE DEF MemoryInv
<1> DEFINE N == Cardinality(Threads) * ObjectCount
           rest == Memory!Handles \ live
           slot(v) == CHOOSE o \in Memory!Objects : <<v, o>> \notin Holding
           keeper(n) == CHOOSE x \in Holding : objects[x].handle = n
           giver(n) == CHOOSE v \in Freeing : asking[v].handle = n
           f == [n \in live |-> IF \E x \in Holding : objects[x].handle = n THEN keeper(n)
                                ELSE <<giver(n), slot(giver(n))>>]
<1>1. N \in Nat /\ Memory!Handles = 1 .. N + 1 /\ Cardinality(Places) = N /\ IsFiniteSet(Places)
  <2>1. Cardinality(Threads) \in Nat /\ ObjectCount \in Nat
    BY MemoryConstants, FS_CardinalityType
  <2>2. N \in Nat
    BY <2>1
  <2>3. QED
    BY <2>2, PlacesFinite, MemorySets DEF Memory!Handles
<1>2. \A n \in live : \/ keeper(n) \in Holding /\ objects[keeper(n)].handle = n /\ f[n] = keeper(n)
                     \/ /\ giver(n) \in Freeing /\ asking[giver(n)].handle = n
                        /\ slot(giver(n)) \in Memory!Objects /\ f[n] = <<giver(n), slot(giver(n))>>
                        /\ f[n] \notin Holding
  <2> TAKE n \in live
  <2>1. CASE \E x \in Holding : objects[x].handle = n
    BY <2>1
  <2>2. CASE ~ \E x \in Holding : objects[x].handle = n
    <3>1. giver(n) \in Freeing /\ asking[giver(n)].handle = n
      BY <2>2 DEF Owners
    <3> DEFINE v == giver(n)
    <3> HIDE DEF v
    <3>2. v \in Freeing
      BY <3>1 DEF v
    <3>3. slot(v) \in Memory!Objects /\ <<v, slot(v)>> \notin Holding
      BY <3>2 DEF Owners
    <3>4. f[n] = <<v, slot(v)>>
      BY <2>2 DEF v
    <3>5. QED
      BY <3>1, <3>3, <3>4 DEF v
  <2>3. QED
    BY <2>1, <2>2
<1> HIDE DEF f, keeper, giver, slot
<1>3. \A n \in live : f[n] \in Places
  <2>1. Holding \subseteq Places /\ \A v \in Threads, o \in Memory!Objects : <<v, o>> \in Places
    BY ObjectsTyped
  <2>2. Freeing \subseteq Threads
    BY DEF Freeing
  <2>3. QED
    BY <1>2, <2>1, <2>2
<1>4. \A n, m \in live : f[n] = f[m] => n = m
  BY <1>2 DEF Owners
<1>5. f \in Injection(live, Places)
  <2>1. f \in [live -> Places]
    BY <1>3 DEF f
  <2>2. QED
    BY <2>1, <1>4 DEF Injection, IsInjective
<1>6. IsFiniteSet(live) /\ Cardinality(live) <= N /\ Cardinality(live) \in Nat
  <2>1. IsFiniteSet(live) /\ Cardinality(live) <= Cardinality(Places)
    BY <1>1, <1>5, FS_Injection
  <2>2. QED
    BY <1>1, <2>1, FS_CardinalityType
<1>7. Cardinality(Memory!Handles) = N + 1 /\ IsFiniteSet(Memory!Handles)
  <2>1. 1 \in Int /\ N + 1 \in Int /\ N + 1 >= 1
    BY <1>1
  <2> HIDE DEF N
  <2>2. IsFiniteSet(1 .. N + 1) /\ Cardinality(1 .. N + 1) = N + 1
    BY <1>1, <2>1, FS_Interval
  <2>3. QED
    BY <1>1, <2>2
<1> HIDE DEF N
<1>8. rest # {}
  <2> SUFFICES ASSUME rest = {}
               PROVE  FALSE
    OBVIOUS
  <2>1. Memory!Handles \in SUBSET live
    OBVIOUS
  <2>2. Cardinality(Memory!Handles) <= Cardinality(live)
    BY <1>6, <2>1, FS_Subset
  <2>3. QED
    BY <1>1, <1>6, <1>7, <2>2
<1>9. rest \subseteq Nat
  BY <1>1
<1> HIDE DEF rest
<1>10. PICK k \in rest : \A j \in rest : ~(<<j, k>> \in OpToRel(<, Nat))
  BY <1>8, <1>9, WFMin, NatLessThanWellFounded
<1>11. \A j \in rest : k <= j
  <2>1. \A j \in rest : ~(j < k)
    BY <1>9, <1>10 DEF OpToRel
  <2>2. QED
    BY <1>9, <2>1
<1>12. Memory!Min(rest) \in rest
  BY <1>11 DEF Memory!Min
<1>13. QED
  BY <1>12 DEF rest

(* It makes the object that owns the block.                                *)
LEMMA ConstructStep ==
  ASSUME MemoryInv, NEW w \in Threads, Memory!Construct(w)
  PROVE  MemoryInv'
<1> USE DEF MemoryInv
<1> DEFINE n == Memory!Min(Memory!Handles \ live)
           o == asking[w].out
           x == <<w, o>>
           v == [handle |-> n, size |-> asking[w].size, type |-> asking[w].type]
           c == [asking[w] EXCEPT !.pc = "subtract"]
<1>1. /\ asking[w].pc = "choose" /\ asking[w].type # typeCount
      /\ live' = live \union {n}
      /\ vrams' = [vrams EXCEPT ![w] = [vrams[w] EXCEPT ![o] = v]]
      /\ asking' = [asking EXCEPT ![w] = c]
      /\ freeMemoryByHeap' = freeMemoryByHeap /\ misfreed' = misfreed
  BY DEF Memory!Construct, Memory!NoType
<1>2. n \in Memory!Handles /\ n \notin live /\ n # 0
  BY FreshHandle DEF Memory!Handles
<1> HIDE DEF n
<1>3. asking \in [Threads -> Calls]
      /\ asking[w] \in [pc : {"choose", "subtract"}, out : Memory!Objects, size : Sizes, request : Requests,
                        t : 0 .. typeCount, type : Types \union {typeCount}]
  <2>1. asking \in [Threads -> Calls] /\ asking[w] \in Calls
    BY DEF MemoryTyped
  <2>2. QED
    BY <1>1, <2>1 DEF Calls, Memory!Quiet
<1>4. /\ c \in Calls /\ c.pc = "subtract" /\ c.out = o /\ c.type = asking[w].type /\ c.size = asking[w].size
      /\ v \in Slots /\ v.handle = n /\ v.type = asking[w].type /\ v.size = asking[w].size
      /\ o \in Memory!Objects /\ asking[w].type \in Types
  BY <1>1, <1>2, <1>3 DEF Calls, Slots
<1>5. x \notin Holding /\ x \in Places
  BY <1>1, <1>4 DEF MemoryTyped, Places
<1> HIDE DEF c, v
<1>6. vrams' \in [Threads -> [Memory!Objects -> Slots]] /\ objects' = [objects EXCEPT ![x] = v]
  BY <1>1, <1>4, ObjectSet
<1>7. objects'[x] = v /\ \A y \in Places \ {x} : objects'[y] = objects[y]
  BY <1>5, <1>6, ObjectsTyped
<1>8. asking'[w] = c /\ \A u \in Threads \ {w} : asking'[u] = asking[u]
  BY <1>1, <1>3
<1>9. Holding' = Holding \union {x} /\ Places' = Places
  <2>1. Places' = Places
    BY DEF Places, Memory!Objects
  <2>2. QED
    BY <1>2, <1>4, <1>5, <1>7, <2>1 DEF Holding
<1>10. Freeing' = Freeing /\ w \notin Freeing
  BY <1>1, <1>4, <1>8 DEF Freeing
<1>11. Booked' = Booked /\ x \notin Booked
  <2>1. \A y \in Holding : y \in Booked' <=> y \in Booked
    <3> TAKE y \in Holding
    <3>1. y \in Places /\ y # x /\ y \in Holding'
      BY <1>5, <1>9 DEF Holding
    <3>2. CASE y[1] = w
      <4>1. y[2] # o
        BY <3>1, <3>2 DEF Places
      <4>2. QED
        BY <1>1, <1>4, <1>8, <3>1, <3>2, <4>1 DEF Booked
    <3>3. CASE y[1] # w
      <4>1. y[1] \in Threads \ {w}
        BY <3>1, <3>3 DEF Places
      <4>2. QED
        BY <1>8, <3>1, <4>1 DEF Booked
    <3>4. QED
      BY <3>2, <3>3
  <2>2. x \notin Booked'
    BY <1>4, <1>8 DEF Booked
  <2>3. QED
    BY <1>5, <1>9, <2>1, <2>2 DEF Booked
<1>12. MemoryTyped'
  <2>1. asking' \in [Threads -> Calls]
    BY <1>1, <1>3, <1>4
  <2>2. ASSUME NEW u \in Threads
        PROVE  /\ asking'[u].pc = "choose" => <<u, asking'[u].out>> \notin Holding'
               /\ asking'[u].pc = "subtract" =>
                    /\ <<u, asking'[u].out>> \in Holding' /\ asking'[u].type \in Types
                    /\ objects'[<<u, asking'[u].out>>].size = asking'[u].size
                    /\ objects'[<<u, asking'[u].out>>].type = asking'[u].type
    <3>1. CASE u = w
      BY <1>4, <1>7, <1>8, <1>9, <3>1
    <3>2. CASE u # w
      <4>1. asking'[u] = asking[u] /\ <<u, asking[u].out>> # x
        BY <1>8, <3>2
      <4>2. <<u, asking[u].out>> \in Holding' <=> <<u, asking[u].out>> \in Holding
        BY <1>9, <4>1
      <4>3. <<u, asking[u].out>> \in Holding => objects'[<<u, asking[u].out>>] = objects[<<u, asking[u].out>>]
        BY <1>7, <4>1, ObjectsTyped
      <4>4. QED
        BY <4>1, <4>2, <4>3 DEF MemoryTyped
    <3>3. QED
      BY <3>1, <3>2
  <2>3. Types' = Types /\ Heaps' = Heaps
    BY DEF Types, Heaps, Memory!Types, Memory!Heaps
  <2>4. QED
    BY <1>1, <1>6, <2>1, <2>2, <2>3 DEF MemoryTyped
<1>13. Owners'
  <2>1. \A y \in Holding : objects'[y] = objects[y] /\ objects[y].handle # n
    BY <1>2, <1>5, <1>7, ObjectsTyped DEF Owners
  <2>2. \A u \in Freeing : asking'[u] = asking[u] /\ asking[u].handle # n /\ u # w
    BY <1>2, <1>8, <1>10 DEF Owners, Freeing
  <2>3. \A u \in Freeing : \E p \in Memory!Objects : <<u, p>> \notin Holding'
    BY <1>9, <2>2 DEF Owners
  <2>4. QED
    BY <1>1, <1>4, <1>7, <1>9, <1>10, <2>1, <2>2, <2>3 DEF Owners
<1>14. Accounted'
  <2>1. \A y \in Booked : objects[y] = objects'[y]
    BY <1>7, <1>11, ObjectsTyped
  <2>2. \A h \in Heaps : Share(Booked', objects', h) = Share(Booked, objects, h)
    BY <1>11, <2>1, ShareSame
  <2>3. QED
    BY <1>1, <2>2 DEF Accounted
<1>15. QED
  BY <1>12, <1>13, <1>14

(* Then it takes the block from the heap.                                  *)
LEMMA SubtractStep ==
  ASSUME MemoryInv, NEW w \in Threads, Memory!Subtract(w)
  PROVE  MemoryInv'
<1> USE DEF MemoryInv
<1> DEFINE x == <<w, asking[w].out>>
           s == asking[w].size
           k == heapIndex[asking[w].type]
<1>1. /\ asking[w].pc = "subtract"
      /\ freeMemoryByHeap' = [freeMemoryByHeap EXCEPT ![k] = (freeMemoryByHeap[k] + Word - s) % Word]
      /\ asking' = [asking EXCEPT ![w] = Memory!Quiet]
      /\ vrams' = vrams /\ live' = live /\ misfreed' = misfreed
  BY DEF Memory!Subtract
<1>2. /\ x \in Holding /\ objects[x].size = s /\ heapIndex[objects[x].type] = k
      /\ s \in 1 .. Word - 1 /\ k \in Heaps
  BY <1>1, ObjectsTyped DEF MemoryTyped
<1>3. /\ asking \in [Threads -> Calls] /\ Memory!Quiet \in Calls /\ Memory!Quiet.pc = "idle"
      /\ asking'[w] = Memory!Quiet /\ \A u \in Threads \ {w} : asking'[u] = asking[u]
  BY <1>1 DEF MemoryTyped, Calls, Memory!Quiet
<1>4. objects' = objects /\ Holding' = Holding
  BY <1>1, SetsKept
<1>5. Freeing' = Freeing /\ \A u \in Freeing : asking'[u] = asking[u]
  BY <1>1, <1>3 DEF Freeing
<1>6. Booked' = Booked \union {x} /\ x \notin Booked
  <2>1. x \notin Booked
    BY <1>1 DEF Booked
  <2>2. x \in Booked'
    BY <1>2, <1>3, <1>4 DEF Booked
  <2>3. \A y \in Holding \ {x} : y \in Booked' <=> y \in Booked
    <3> TAKE y \in Holding \ {x}
    <3>1. y \in Places /\ y # x /\ y \in Holding'
      BY <1>4 DEF Holding
    <3>2. CASE y[1] = w
      <4>1. y[2] # asking[w].out
        BY <3>1, <3>2 DEF Places
      <4>2. QED
        BY <1>3, <3>1, <3>2, <4>1 DEF Booked
    <3>3. CASE y[1] # w
      <4>1. y[1] \in Threads \ {w}
        BY <3>1, <3>3 DEF Places
      <4>2. QED
        BY <1>3, <3>1, <4>1 DEF Booked
    <3>4. QED
      BY <3>2, <3>3
  <2>4. QED
    BY <1>2, <1>4, <2>1, <2>2, <2>3 DEF Booked
<1> HIDE DEF x, s, k
<1>7. /\ DOMAIN freeMemoryByHeap' = Heaps /\ freeMemoryByHeap[k] \in 0 .. Word - 1
      /\ freeMemoryByHeap'[k] = (freeMemoryByHeap[k] + Word - s) % Word
      /\ \A h \in Heaps \ {k} : freeMemoryByHeap'[h] = freeMemoryByHeap[h]
  BY <1>1, <1>2 DEF MemoryTyped
<1>8. MemoryTyped'
  <2>1. \A h \in Heaps : freeMemoryByHeap'[h] \in 0 .. Word - 1
    BY <1>2, <1>7, WordMoved DEF MemoryTyped
  <2>2. asking' \in [Threads -> Calls]
    BY <1>1, <1>3
  <2>3. Types' = Types /\ Heaps' = Heaps
    BY DEF Types, Heaps, Memory!Types, Memory!Heaps
  <2>4. QED
    BY <1>1, <1>3, <1>4, <1>7, <2>1, <2>2, <2>3 DEF MemoryTyped
<1>9. Owners'
  BY <1>1, <1>4, <1>5 DEF Owners
<1>10. Accounted'
  <2> SUFFICES ASSUME NEW h \in Heaps
               PROVE  (freeMemoryByHeap'[h] + Cardinality(Share(Booked', objects', h))) % Word = Budget[h]
    BY DEF Accounted, Heaps, Memory!Heaps
  <2> DEFINE u == Cardinality(Share(Booked, objects, h))
  <2>1. Sized(Booked \union {x}, objects) /\ Sized(Booked, objects)
    BY <1>2, ObjectsTyped, MemoryConstants DEF Sized
  <2>2. IsFiniteSet(Booked) /\ u \in Nat
    BY <2>1, ObjectsTyped, ShareFinite
  <2>3. Cardinality(Share(Booked', objects', h)) = u + (IF k = h THEN s ELSE 0)
    <3>1. Cardinality(Share(Booked \union {x}, objects, h)) =
            Cardinality(Share(Booked, objects, h)) + (IF heapIndex[objects[x].type] = h THEN objects[x].size ELSE 0)
      BY <1>6, <2>1, <2>2, ShareGrown
    <3>2. QED
      BY <1>2, <1>4, <1>6, <3>1
  <2>4. (freeMemoryByHeap[h] + u) % Word = Budget[h]
    BY DEF Accounted
  <2> HIDE DEF u
  <2>5. CASE k = h
    <3>1. (((freeMemoryByHeap[k] + Word - s) % Word) + (u + s)) % Word = (freeMemoryByHeap[k] + u) % Word
      BY <1>2, <1>7, <2>2, WordMoved
    <3>2. QED
      BY <1>7, <2>3, <2>4, <2>5, <3>1
  <2>6. CASE k # h
    BY <1>7, <2>2, <2>3, <2>4, <2>6
  <2>7. QED
    BY <2>5, <2>6
<1>11. QED
  BY <1>8, <1>9, <1>10

(* A step takes a block from one object to another.                        *)
LEMMA MoveStep ==
  ASSUME MemoryInv, NEW w \in Threads, NEW o \in Memory!Objects, NEW p \in Memory!Objects, Memory!Move(w, o, p)
  PROVE  MemoryInv'
<1> USE DEF MemoryInv
<1> DEFINE x == <<w, o>>
           y == <<w, p>>
           gone == [objects[x] EXCEPT !.handle = 0]
<1>1. /\ asking[w].pc = "idle" /\ o # p /\ vrams[w][o].handle # 0 /\ vrams[w][p].handle = 0
      /\ vrams' = [vrams EXCEPT ![w] = [vrams[w] EXCEPT ![o] = Memory!MovedFrom(vrams[w][o]), ![p] = vrams[w][o]]]
      /\ freeMemoryByHeap' = freeMemoryByHeap /\ asking' = asking /\ live' = live /\ misfreed' = misfreed
  BY DEF Memory!Move, Memory!Null
<1>2. /\ x \in Places /\ y \in Places /\ x # y /\ objects[x] = vrams[w][o] /\ objects[y] = vrams[w][p]
      /\ x \in Holding /\ y \notin Holding
  BY <1>1, ObjectsTyped DEF Holding
<1>3. /\ objects[x] \in [handle : {0} \union Memory!Handles, size : Sizes, type : Types]
      /\ objects[x] \in Slots /\ objects[x].handle # 0
  BY <1>2, ObjectsTyped DEF Slots
<1>4. gone \in Slots /\ gone.handle = 0
  BY <1>3 DEF Slots
<1>5. vrams' = [vrams EXCEPT ![w] = [vrams[w] EXCEPT ![o] = gone, ![p] = objects[x]]]
  BY <1>1, <1>2 DEF Memory!MovedFrom, Memory!Null
<1> HIDE DEF gone
<1>6. /\ vrams' \in [Threads -> [Memory!Objects -> Slots]] /\ Places' = Places
      /\ objects'[x] = gone /\ objects'[y] = objects[x]
      /\ \A z \in Places \ {x, y} : objects'[z] = objects[z]
  <2>1. vrams' \in [Threads -> [Memory!Objects -> Slots]]
    BY <1>3, <1>4, <1>5 DEF MemoryTyped
  <2>2. /\ vrams'[w][o] = gone /\ vrams'[w][p] = objects[x]
        /\ \A v \in Threads, q \in Memory!Objects : <<v, q>> # x /\ <<v, q>> # y => vrams'[v][q] = vrams[v][q]
    BY <1>1, <1>5 DEF MemoryTyped
  <2>3. Places' = Places /\ \A z \in Places : objects'[z] = vrams'[z[1]][z[2]] /\ objects[z] = vrams[z[1]][z[2]]
    BY DEF objects, Places, Memory!Objects
  <2>4. \A z \in Places : z[1] \in Threads /\ z[2] \in Memory!Objects /\ z = <<z[1], z[2]>>
    BY DEF Places
  <2>5. objects'[x] = gone /\ objects'[y] = objects[x]
    BY <1>2, <2>2, <2>3
  <2>6. \A z \in Places \ {x, y} : objects'[z] = objects[z]
    BY <2>2, <2>3, <2>4
  <2>7. QED
    BY <2>1, <2>3, <2>5, <2>6
<1>7. Holding' = (Holding \ {x}) \union {y}
  BY <1>2, <1>3, <1>4, <1>6 DEF Holding
<1>8. Booked' = (Booked \ {x}) \union {y} /\ x \in Booked /\ y \notin Booked
  BY <1>1, <1>2, <1>7 DEF Booked
<1>9. Freeing' = Freeing /\ w \notin Freeing
  BY <1>1 DEF Freeing
<1>10. MemoryTyped'
  <2>1. ASSUME NEW u \in Threads
        PROVE  /\ asking'[u].pc = "choose" => <<u, asking'[u].out>> \notin Holding'
               /\ asking'[u].pc = "subtract" =>
                    /\ <<u, asking'[u].out>> \in Holding' /\ asking'[u].type \in Types
                    /\ objects'[<<u, asking'[u].out>>].size = asking'[u].size
                    /\ objects'[<<u, asking'[u].out>>].type = asking'[u].type
    <3>1. CASE u = w
      BY <1>1, <3>1
    <3>2. CASE u # w
      <4>1. asking'[u] = asking[u] /\ <<u, asking[u].out>> # x /\ <<u, asking[u].out>> # y
        BY <1>1, <3>2
      <4>2. <<u, asking[u].out>> \in Holding' <=> <<u, asking[u].out>> \in Holding
        BY <1>7, <4>1
      <4>3. <<u, asking[u].out>> \in Holding => objects'[<<u, asking[u].out>>] = objects[<<u, asking[u].out>>]
        BY <1>6, <4>1, ObjectsTyped
      <4>4. QED
        BY <4>1, <4>2, <4>3 DEF MemoryTyped
    <3>3. QED
      BY <3>1, <3>2
  <2>2. Types' = Types /\ Heaps' = Heaps
    BY DEF Types, Heaps, Memory!Types, Memory!Heaps
  <2>3. QED
    BY <1>1, <1>6, <2>1, <2>2 DEF MemoryTyped
<1>11. Owners'
  <2>1. \A z \in Holding \ {x} : z # y /\ objects'[z] = objects[z] /\ z \in Holding'
    BY <1>2, <1>6, <1>7, ObjectsTyped
  <2>2. \A u \in Freeing : u # w /\ \A q \in Memory!Objects : <<u, q>> \in Holding' <=> <<u, q>> \in Holding
    BY <1>7, <1>9
  <2>3. \A z, t \in Holding' : objects'[z].handle = objects'[t].handle => z = t
    BY <1>2, <1>6, <1>7, <2>1 DEF Owners
  <2>4. \A u \in Freeing : \A z \in Holding' : objects'[z].handle # asking[u].handle
    BY <1>2, <1>6, <1>7, <2>1 DEF Owners
  <2>5. \A n : (\E z \in Holding' : n = objects'[z].handle) <=> \E z \in Holding : n = objects[z].handle
    BY <1>2, <1>6, <1>7, <2>1
  <2>6. \A u \in Freeing : \E q \in Memory!Objects : <<u, q>> \notin Holding'
    BY <2>2 DEF Owners
  <2>7. QED
    BY <1>1, <1>9, <2>3, <2>4, <2>5, <2>6 DEF Owners
<1>12. Accounted'
  <2> SUFFICES ASSUME NEW h \in Heaps
               PROVE  Cardinality(Share(Booked', objects', h)) = Cardinality(Share(Booked, objects, h))
    BY <1>1 DEF Accounted, Heaps, Memory!Heaps
  <2> DEFINE rest == Booked \ {x}
  <2>1. /\ rest \union {x} = Booked /\ rest \union {y} = Booked' /\ x \notin rest /\ y \notin rest
        /\ \A z \in rest : objects[z] = objects'[z]
    BY <1>2, <1>6, <1>8, ObjectsTyped
  <2>2. \A z \in Booked : objects[z].size \in Nat
    BY ObjectsTyped, MemoryConstants
  <2>3. IsFiniteSet(Booked) /\ IsFiniteSet(rest)
    BY ObjectsTyped, FS_Subset
  <2>4. \A z \in rest \union {y} : objects'[z].size \in Nat
    BY <1>6, <1>8, <2>1, <2>2
  <2> HIDE DEF rest
  <2>5. Cardinality(Share(Booked, objects, h)) =
          Cardinality(Share(rest, objects, h)) + (IF heapIndex[objects[x].type] = h THEN objects[x].size ELSE 0)
    <3>1. Sized(rest \union {x}, objects)
      BY <2>1, <2>2 DEF Sized
    <3>2. Cardinality(Share(rest \union {x}, objects, h)) =
            Cardinality(Share(rest, objects, h)) + (IF heapIndex[objects[x].type] = h THEN objects[x].size ELSE 0)
      BY <2>1, <2>3, <3>1, ShareGrown
    <3>3. QED
      BY <2>1, <3>2
  <2>6. Cardinality(Share(Booked', objects', h)) =
          Cardinality(Share(rest, objects', h)) + (IF heapIndex[objects'[y].type] = h THEN objects'[y].size ELSE 0)
    <3> DEFINE d == objects'
    <3> HIDE DEF d
    <3>1. Sized(rest \union {y}, d)
      BY <2>4 DEF d, Sized
    <3>2. Cardinality(Share(rest \union {y}, d, h)) =
            Cardinality(Share(rest, d, h)) + (IF heapIndex[d[y].type] = h THEN d[y].size ELSE 0)
      BY <2>1, <2>3, <3>1, ShareGrown
    <3>3. QED
      BY <2>1, <3>2 DEF d
  <2>7. Share(rest, objects, h) = Share(rest, objects', h)
    BY <2>1, ShareSame
  <2>8. QED
    BY <1>6, <2>5, <2>6, <2>7
<1>13. QED
  BY <1>10, <1>11, <1>12

(* The destructor gives the block back to the heap.                        *)
LEMMA DestroyStep ==
  ASSUME MemoryInv, NEW w \in Threads, NEW o \in Memory!Objects, Memory!Destroy(w, o)
  PROVE  MemoryInv'
<1> USE DEF MemoryInv
<1> DEFINE x == <<w, o>>
           s == objects[x].size
           k == heapIndex[objects[x].type]
           c == [pc |-> "free", handle |-> objects[x].handle]
<1>1. /\ asking[w].pc = "idle" /\ vrams[w][o].handle # 0 /\ vrams[w][o] = objects[x] /\ x \in Places
      /\ freeMemoryByHeap' = [freeMemoryByHeap EXCEPT ![k] = (freeMemoryByHeap[k] + s) % Word]
      /\ asking' = [asking EXCEPT ![w] = c]
      /\ vrams' = [vrams EXCEPT ![w] = [vrams[w] EXCEPT ![o] = Memory!NoBlock]]
      /\ live' = live /\ misfreed' = misfreed
  <2>1. vrams[w][o] = objects[x] /\ x \in Places
    BY ObjectsTyped
  <2> HIDE DEF x
  <2>2. QED
    BY <2>1 DEF Memory!Destroy, Memory!Null
<1>2. /\ x \in Holding /\ objects[x].handle \in Memory!Handles /\ s \in 1 .. Word - 1 /\ k \in Heaps
      /\ objects[x].handle # 0
  <2>1. x \in Holding
    BY <1>1 DEF Holding
  <2> HIDE DEF x
  <2>2. QED
    BY <2>1, ObjectsTyped
<1>3. /\ asking \in [Threads -> Calls] /\ c \in Calls /\ c.pc = "free" /\ c.handle = objects[x].handle
      /\ Memory!NoBlock \in Slots /\ Memory!NoBlock.handle = 0
  BY <1>2 DEF MemoryTyped, Calls, Slots, Memory!NoBlock, Memory!Null
<1> HIDE DEF c
<1>4. vrams' \in [Threads -> [Memory!Objects -> Slots]] /\ objects' = [objects EXCEPT ![x] = Memory!NoBlock]
  BY <1>1, <1>3, ObjectSet
<1>5. objects'[x] = Memory!NoBlock /\ \A y \in Places \ {x} : objects'[y] = objects[y]
  BY <1>1, <1>4, ObjectsTyped
<1>6. asking'[w] = c /\ \A u \in Threads \ {w} : asking'[u] = asking[u]
  BY <1>1, <1>3
<1>7. Holding' = Holding \ {x}
  <2>1. Places' = Places
    BY DEF Places, Memory!Objects
  <2>2. QED
    BY <1>3, <1>5, <2>1 DEF Holding
<1>8. Freeing' = Freeing \union {w} /\ w \notin Freeing
  BY <1>1, <1>3, <1>6 DEF Freeing
<1>9. Booked' = Booked \ {x} /\ x \in Booked
  <2>1. \A y \in Holding \ {x} : y \in Booked' <=> y \in Booked
    <3> TAKE y \in Holding \ {x}
    <3>1. y \in Places /\ y \in Holding' /\ y \in Holding
      BY <1>7 DEF Holding
    <3>2. CASE y[1] = w
      BY <1>1, <1>3, <1>6, <3>1, <3>2 DEF Booked
    <3>3. CASE y[1] # w
      <4>1. y[1] \in Threads \ {w}
        BY <3>1, <3>3 DEF Places
      <4>2. QED
        BY <1>6, <3>1, <4>1 DEF Booked
    <3>4. QED
      BY <3>2, <3>3
  <2>2. x \in Booked
    BY <1>1, <1>2 DEF Booked
  <2>3. QED
    BY <1>7, <2>1, <2>2 DEF Booked
<1>10. /\ DOMAIN freeMemoryByHeap' = Heaps /\ freeMemoryByHeap[k] \in 0 .. Word - 1
       /\ freeMemoryByHeap'[k] = (freeMemoryByHeap[k] + s) % Word
       /\ \A h \in Heaps \ {k} : freeMemoryByHeap'[h] = freeMemoryByHeap[h]
  BY <1>1, <1>2 DEF MemoryTyped
<1> HIDE DEF s, k
<1>11. MemoryTyped'
  <2>1. \A h \in Heaps : freeMemoryByHeap'[h] \in 0 .. Word - 1
    BY <1>2, <1>10, WordMoved DEF MemoryTyped
  <2>2. asking' \in [Threads -> Calls]
    BY <1>1, <1>3
  <2>3. ASSUME NEW u \in Threads
        PROVE  /\ asking'[u].pc = "choose" => <<u, asking'[u].out>> \notin Holding'
               /\ asking'[u].pc = "subtract" =>
                    /\ <<u, asking'[u].out>> \in Holding' /\ asking'[u].type \in Types
                    /\ objects'[<<u, asking'[u].out>>].size = asking'[u].size
                    /\ objects'[<<u, asking'[u].out>>].type = asking'[u].type
    <3>1. CASE u = w
      BY <1>3, <1>6, <3>1
    <3>2. CASE u # w
      <4>1. asking'[u] = asking[u] /\ <<u, asking[u].out>> # x
        BY <1>6, <3>2
      <4>2. <<u, asking[u].out>> \in Holding' <=> <<u, asking[u].out>> \in Holding
        BY <1>7, <4>1
      <4>3. <<u, asking[u].out>> \in Holding => objects'[<<u, asking[u].out>>] = objects[<<u, asking[u].out>>]
        BY <1>5, <4>1, ObjectsTyped
      <4>4. QED
        BY <4>1, <4>2, <4>3 DEF MemoryTyped
    <3>3. QED
      BY <3>1, <3>2
  <2>4. Types' = Types /\ Heaps' = Heaps
    BY DEF Types, Heaps, Memory!Types, Memory!Heaps
  <2>5. QED
    BY <1>4, <1>10, <2>1, <2>2, <2>3, <2>4 DEF MemoryTyped
<1>12. Owners'
  <2>1. \A y \in Holding' : objects'[y] = objects[y] /\ y \in Holding /\ y # x
    BY <1>5, <1>7, ObjectsTyped
  <2>2. \A u \in Freeing : u # w /\ asking'[u] = asking[u] /\ asking[u].handle # objects[x].handle
    BY <1>2, <1>6, <1>8 DEF Owners, Freeing
  <2>3. asking'[w].handle = objects[x].handle /\ <<w, o>> \notin Holding'
    BY <1>3, <1>6, <1>7
  <2>4. \A y, z \in Holding' : objects'[y].handle = objects'[z].handle => y = z
    BY <2>1 DEF Owners
  <2>5. \A u \in Freeing' :
          /\ \A y \in Holding' : objects'[y].handle # asking'[u].handle
          /\ \A v \in Freeing' : asking'[v].handle = asking'[u].handle => v = u
    BY <1>2, <1>8, <2>1, <2>2, <2>3 DEF Owners
  <2>6. \A u \in Freeing' : \E q \in Memory!Objects : <<u, q>> \notin Holding'
    BY <1>7, <1>8, <2>3 DEF Owners
  <2>7. \A n : n \in live <=> (\E y \in Holding' : n = objects'[y].handle) \/ (\E u \in Freeing' : n = asking'[u].handle)
    <3> TAKE n
    <3>1. (\E y \in Holding : n = objects[y].handle)
            <=> (\E y \in Holding' : n = objects'[y].handle) \/ n = objects[x].handle
      BY <1>2, <1>7, <2>1
    <3>2. (\E u \in Freeing' : n = asking'[u].handle)
            <=> (\E u \in Freeing : n = asking[u].handle) \/ n = objects[x].handle
      BY <1>8, <2>2, <2>3
    <3>3. QED
      BY <3>1, <3>2 DEF Owners
  <2>8. QED
    BY <1>1, <2>4, <2>5, <2>6, <2>7 DEF Owners
<1>13. Accounted'
  <2> SUFFICES ASSUME NEW h \in Heaps
               PROVE  (freeMemoryByHeap'[h] + Cardinality(Share(Booked', objects', h))) % Word = Budget[h]
    BY DEF Accounted, Heaps, Memory!Heaps
  <2> DEFINE rest == Booked \ {x}
             u == Cardinality(Share(rest, objects, h))
  <2>1. /\ rest \union {x} = Booked /\ x \notin rest /\ rest = Booked'
        /\ \A y \in rest : objects[y] = objects'[y]
    BY <1>5, <1>9, ObjectsTyped
  <2>2. Sized(rest \union {x}, objects) /\ Sized(rest, objects)
    BY <2>1, ObjectsTyped, MemoryConstants DEF Sized
  <2>3. IsFiniteSet(rest)
    BY ObjectsTyped, FS_Subset
  <2> HIDE DEF rest
  <2>4. Cardinality(Share(rest \union {x}, objects, h)) =
          Cardinality(Share(rest, objects, h)) + (IF heapIndex[objects[x].type] = h THEN objects[x].size ELSE 0)
    BY <2>1, <2>2, <2>3, ShareGrown
  <2>5. Cardinality(Share(Booked, objects, h)) = u + (IF k = h THEN s ELSE 0)
    BY <2>1, <2>4 DEF k, s
  <2>6. Cardinality(Share(Booked', objects', h)) = u /\ u \in Nat
    <3>1. Share(rest, objects, h) = Share(rest, objects', h)
      BY <2>1, ShareSame
    <3>2. u \in Nat
      BY <2>2, <2>3, ShareFinite
    <3>3. QED
      BY <2>1, <3>1, <3>2
  <2>7. (freeMemoryByHeap[h] + Cardinality(Share(Booked, objects, h))) % Word = Budget[h]
    BY DEF Accounted
  <2> HIDE DEF u
  <2>8. CASE k = h
    <3> DEFINE all == u + s
    <3>1. all \in Nat /\ s <= all /\ all - s = u
      BY <1>2, <2>6
    <3>2. (freeMemoryByHeap[k] + all) % Word = Budget[h]
      BY <2>5, <2>7, <2>8
    <3> HIDE DEF all
    <3>3. (((freeMemoryByHeap[k] + s) % Word) + (all - s)) % Word = (freeMemoryByHeap[k] + all) % Word
      BY <1>2, <1>10, <3>1, WordMoved
    <3>4. QED
      BY <1>10, <2>6, <2>8, <3>1, <3>2, <3>3
  <2>9. CASE k # h
    BY <1>10, <2>5, <2>6, <2>7, <2>9
  <2>10. QED
    BY <2>8, <2>9
<1>14. QED
  BY <1>11, <1>12, <1>13

(* Then the device gets the handle.                                        *)
LEMMA FreeMemoryStep ==
  ASSUME MemoryInv, NEW w \in Threads, Memory!FreeMemory(w)
  PROVE  MemoryInv'
<1> USE DEF MemoryInv
<1>1. /\ asking[w].pc = "free" /\ live' = live \ {asking[w].handle}
      /\ misfreed' = misfreed + (IF asking[w].handle \in live THEN 0 ELSE 1)
      /\ asking' = [asking EXCEPT ![w] = Memory!Quiet]
      /\ freeMemoryByHeap' = freeMemoryByHeap /\ vrams' = vrams
  BY DEF Memory!FreeMemory
<1>2. /\ asking \in [Threads -> Calls] /\ Memory!Quiet \in Calls /\ Memory!Quiet.pc = "idle"
      /\ asking'[w] = Memory!Quiet /\ \A u \in Threads \ {w} : asking'[u] = asking[u]
  BY <1>1 DEF MemoryTyped, Calls, Memory!Quiet
<1>3. objects' = objects /\ Holding' = Holding
  BY <1>1, SetsKept
<1>4. Freeing' = Freeing \ {w} /\ w \in Freeing /\ \A u \in Freeing \ {w} : asking'[u] = asking[u]
  BY <1>1, <1>2 DEF Freeing
<1>5. Booked' = Booked
  BY <1>1, <1>2, <1>3 DEF Booked, Holding, Places
<1>6. MemoryTyped'
  <2>1. asking' \in [Threads -> Calls]
    BY <1>1, <1>2
  <2>2. QED
    BY <1>1, <1>2, <1>3, <2>1 DEF MemoryTyped
<1>7. Owners'
  <2>1. asking[w].handle \in live /\ misfreed' = 0
    BY <1>1, <1>4 DEF Owners
  <2>2. \A n : n \in live' <=> (\E x \in Holding : n = objects[x].handle) \/ (\E u \in Freeing \ {w} : n = asking[u].handle)
    BY <1>1, <1>4 DEF Owners
  <2>3. QED
    BY <1>3, <1>4, <2>1, <2>2 DEF Owners
<1>8. Accounted'
  BY <1>1, <1>3, <1>5 DEF Accounted
<1>9. QED
  BY <1>6, <1>7, <1>8

(* The invariant reads nothing of the other services.                      *)
LEMMA MemoryRests ==
  ASSUME MemoryInv, UNCHANGED memory
  PROVE  MemoryInv'
<1>1. /\ freeMemoryByHeap' = freeMemoryByHeap /\ asking' = asking /\ vrams' = vrams
      /\ live' = live /\ misfreed' = misfreed
  BY DEF memory
<1>2. objects' = objects /\ Holding' = Holding
  BY <1>1, SetsKept
<1>3. Booked' = Booked /\ Freeing' = Freeing
  BY <1>1, <1>2 DEF Booked, Freeing
<1>4. QED
  BY <1>1, <1>2, <1>3 DEF MemoryInv, MemoryTyped, Owners, Accounted

(* A step of gpu, or of another part, keeps it.                             *)
LEMMA MemorySteps ==
  ASSUME MemoryInv, [RuntimeNext]_<<part, vars, screen, sound, input, memory, spawned>>
  PROVE  MemoryInv'
<1>1. CASE UNCHANGED memory
  BY <1>1, MemoryRests
<1>2. CASE Memory!Next
  BY <1>2, AskStep, ConsiderStep, ConstructStep, SubtractStep, MoveStep, DestroyStep, FreeMemoryStep
     DEF Memory!Next
<1>3. QED
  BY <1>1, <1>2 DEF RuntimeNext

(* However the threads interleave, every block of the device has one owner *)
(* and is given back once, and a heap counts as free its budget less the   *)
(* blocks that are held: for every number of threads, objects, memory      *)
(* types and heaps, and every size.                                        *)
THEOREM MemoryIsAccounted == RuntimeSpec => []MemoryAccounted
<1>1. MemoryInv => MemoryAccounted
  <2> SUFFICES ASSUME MemoryInv
               PROVE  Memory!MemoryAccounted
    BY DEF MemoryAccounted
  <2> USE DEF MemoryInv
  <2>1. /\ Memory!Held = Holding
        /\ \A x \in Holding : Memory!Block(x) = objects[x]
    BY DEF Memory!Held, Holding, Memory!Block, objects, Places, Memory!Null
  <2>2. \A h \in Heaps : Memory!Bytes(h) = Share(Booked, objects, h)
    <3> TAKE h \in Heaps
    <3>1. Memory!InHeap(h) = {x \in Booked : heapIndex[objects[x].type] = h}
      BY <2>1 DEF Memory!InHeap, Memory!Unsubtracted, Booked
    <3>2. \A x \in Booked : Memory!Block(x) = objects[x]
      BY <2>1 DEF Booked
    <3>3. QED
      BY <3>1, <3>2 DEF Memory!Bytes, Share
  <2>3. \A h \in Heaps : (freeMemoryByHeap[h] + Memory!Cardinality(Memory!Bytes(h))) % Word = Budget[h]
    BY <2>2, MemorySets DEF Accounted
  <2>4. live = {Memory!Block(x).handle : x \in Memory!Held} \union {asking[w].handle : w \in Freeing}
    BY <2>1 DEF Owners
  <2>5. \A x, y \in Memory!Held : Memory!Block(x).handle = Memory!Block(y).handle => x = y
    BY <2>1 DEF Owners
  <2>6. misfreed = 0
    BY DEF Owners
  <2>7. QED
    BY <2>3, <2>4, <2>5, <2>6 DEF Memory!MemoryAccounted, Freeing, Heaps
<1>2. QED
  BY <1>1, MemoryInitHolds, MemorySteps, PTL DEF RuntimeSpec
=============================================================================
