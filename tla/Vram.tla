-------------------------------- MODULE Vram --------------------------------
(***************************************************************************)
(* WITE/gpu's device memory: gpu::allocate picks a memory type by score    *)
(* and by what its heap has left, and gpu::vram owns a block and gives it  *)
(* back when the last of the objects it was moved through is destroyed.    *)
(* Several threads do so at once; only the counters are atomic.            *)
(***************************************************************************)
EXTENDS Integers, FiniteSets, FiniteSetsExt

CONSTANTS
  Threads,
  typeCount,           \* memoryTypeCount
  heapIndex,           \* the heap of each memory type
  flags,               \* the property flags of each memory type
  Flags, scoreByFlag,  \* memoryScoreByFlag
  Budget,              \* per heap: heapBudget - heapUsage
  Sizes,               \* the blocks asked for: their sizes,
  Requests,            \* and the flags they require, of which memoryTypeBits
  ObjectCount,         \* bound: vram objects of a thread
  Word                 \* the counters count modulo 2^64, here modulo Word

Types == 0 .. typeCount - 1
Objects == 1 .. ObjectCount
Heaps == DOMAIN Budget

VramAssumption ==
  /\ typeCount \in Nat \ {0} /\ heapIndex \in [Types -> Heaps] /\ flags \in [Types -> SUBSET Flags]
  /\ scoreByFlag \in [Flags -> Int] /\ IsFiniteSet(Threads)
  /\ Word \in Nat /\ \A h \in Heaps : Budget[h] \in 0 .. Word - 1
  /\ Sizes \subseteq 1 .. Word - 1 /\ ObjectCount \in Nat
  /\ Requests \subseteq [requiredFlags : SUBSET Flags, memoryTypeBits : SUBSET Types]

NoType == typeCount      \* type_none
Null == 0                \* VK_NULL_HANDLE

VARIABLES
  freeMemoryByHeap,
  asking,              \* per thread: the call of allocate it is in
  vrams,               \* per thread: its vram objects
  live,                \* the device's blocks, by handle
  faults               \* history: handles given back that were not live

vars == <<freeMemoryByHeap, asking, vrams, live, faults>>

memoryScoreByType == [t \in Types |-> MapThenSumSet(LAMBDA f : scoreByFlag[f], flags[t])]

Quiet == [pc |-> "idle"]
NoBlock == [handle |-> Null]

Init ==
  /\ freeMemoryByHeap = Budget
  /\ asking = [w \in Threads |-> Quiet]
  /\ vrams = [w \in Threads |-> [o \in Objects |-> NoBlock]]
  /\ live = {}
  /\ faults = 0

(***************************************************************************)
(* gpu::allocate.  out is a vram object that holds no block.               *)
(***************************************************************************)
Ask(w, out, size, request) ==
  /\ asking[w].pc = "idle" /\ vrams[w][out].handle = Null
  /\ asking' = [asking EXCEPT ![w] = [pc |-> "choose", out |-> out, size |-> size, request |-> request,
                                      t |-> 0, type |-> NoType]]
  /\ UNCHANGED <<freeMemoryByHeap, vrams, live, faults>>

Better(a, t) ==
  /\ t \in a.request.memoryTypeBits
  /\ a.type = NoType \/ memoryScoreByType[t] > memoryScoreByType[a.type]
  /\ freeMemoryByHeap[heapIndex[t]] > a.size
  /\ a.request.requiredFlags \subseteq flags[t]

(* One round of the loop over the types; finding none ends the program.    *)
Consider(w) ==
  /\ asking[w].pc = "choose" /\ asking[w].t < typeCount
  /\ asking' = [asking EXCEPT ![w].type = IF Better(asking[w], asking[w].t) THEN asking[w].t ELSE @,
                              ![w].t = @ + 1]
  /\ UNCHANGED <<freeMemoryByHeap, vrams, live, faults>>

Handles == 1 .. Cardinality(Threads) * ObjectCount + 1

(* new(out)vram *)
Construct(w) ==
  /\ asking[w].pc = "choose" /\ asking[w].t = typeCount /\ asking[w].type # NoType
  /\ LET h == Min(Handles \ live) IN
       /\ live' = live \union {h}
       /\ vrams' = [vrams EXCEPT ![w][asking[w].out] =
                      [handle |-> h, size |-> asking[w].size, type |-> asking[w].type]]
  /\ asking' = [asking EXCEPT ![w].pc = "subtract"]
  /\ UNCHANGED <<freeMemoryByHeap, faults>>

Subtract(w) ==
  /\ asking[w].pc = "subtract"
  /\ LET h == heapIndex[asking[w].type]
     IN  freeMemoryByHeap' = [freeMemoryByHeap EXCEPT ![h] = (@ + Word - asking[w].size) % Word]
  /\ asking' = [asking EXCEPT ![w] = Quiet]
  /\ UNCHANGED <<vrams, live, faults>>

(***************************************************************************)
(* gpu::vram                                                               *)
(***************************************************************************)
(* What the move constructor leaves of the object that was moved from.     *)
MovedFrom_Copy(v) == v
MovedFrom(v) == [v EXCEPT !.handle = Null]

Move(w, from, to) ==
  /\ asking[w].pc = "idle" /\ from # to
  /\ vrams[w][from].handle # Null /\ vrams[w][to].handle = Null
  /\ vrams' = [vrams EXCEPT ![w][from] = MovedFrom(@), ![w][to] = vrams[w][from]]
  /\ UNCHANGED <<freeMemoryByHeap, asking, live, faults>>

(* The destructor counts the block as free, then gives it to the device;   *)
(* an object without a handle does nothing.                                *)
Destroy(w, o) ==
  /\ asking[w].pc = "idle" /\ vrams[w][o].handle # Null
  /\ LET v == vrams[w][o] IN
       /\ freeMemoryByHeap' = [freeMemoryByHeap EXCEPT ![heapIndex[v.type]] = (@ + v.size) % Word]
       /\ asking' = [asking EXCEPT ![w] = [pc |-> "free", handle |-> v.handle]]
       /\ vrams' = [vrams EXCEPT ![w][o] = NoBlock]
  /\ UNCHANGED <<live, faults>>

FreeMemory(w) ==
  /\ asking[w].pc = "free"
  /\ live' = live \ {asking[w].handle}
  /\ faults' = faults + (IF asking[w].handle \in live THEN 0 ELSE 1)
  /\ asking' = [asking EXCEPT ![w] = Quiet]
  /\ UNCHANGED <<freeMemoryByHeap, vrams>>

Next ==
  \E w \in Threads :
    \/ \E o \in Objects, size \in Sizes, request \in Requests : Ask(w, o, size, request)
    \/ Consider(w) \/ Construct(w) \/ Subtract(w) \/ FreeMemory(w)
    \/ \E o, p \in Objects : Move(w, o, p)
    \/ \E o \in Objects : Destroy(w, o)

Spec == Init /\ [][Next]_vars

(***************************************************************************)
(* Properties                                                              *)
(***************************************************************************)
Block(x) == vrams[x[1]][x[2]]

Held == {x \in Threads \X Objects : Block(x).handle # Null}

(* A block that allocate has not subtracted yet. *)
Unsubtracted(x) == asking[x[1]].pc = "subtract" /\ asking[x[1]].out = x[2]

InHeap(h) == {x \in Held : heapIndex[Block(x).type] = h /\ ~Unsubtracted(x)}

(* The bytes of the blocks that a heap holds, one by one.                  *)
Bytes(h) == UNION {{x} \X (1 .. Block(x).size) : x \in InHeap(h)}

(* However the threads interleave, every block of the device has one owner *)
(* and is given back once, and what the heap counts as free is its budget  *)
(* less the blocks that are held.                                          *)
MemoryAccounted ==
  /\ faults = 0
  /\ \A x, y \in Held : Block(x).handle = Block(y).handle => x = y
  /\ live = {Block(x).handle : x \in Held}
            \union {asking[w].handle : w \in {t \in Threads : asking[t].pc = "free"}}
  /\ \A h \in Heaps : (freeMemoryByHeap[h] + Cardinality(Bytes(h))) % Word = Budget[h]

(* No heap gives out more than it has.  No run checks it: two threads that *)
(* find room at once break it.                                             *)
WithinBudget == \A h \in Heaps : Cardinality(Bytes(h)) <= Budget[h]
=============================================================================
