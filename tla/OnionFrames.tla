----------------------------- MODULE OnionFrames -----------------------------
(***************************************************************************)
(* onion.hpp (render, create, destroy, set, write, join), image.hpp,       *)
(* buffer.hpp, garbageCollector.hpp and iterableRecyclingPool.hpp at run   *)
(* time: a program that makes the calls, and a GPU that works off the      *)
(* frames it is given in their order.  Per frame the CPU replaces images,  *)
(* framebuffers and descriptors while earlier frames are still in flight;  *)
(* fences, per-frame copies and the collectors keep the two apart.  There  *)
(* is one object layout, with a window, one target layout and one source   *)
(* layout; every source is drawn to every target.                          *)
(***************************************************************************)
EXTENDS Integers, Sequences, FiniteSets, SequencesExt, FiniteSetsExt

CONSTANTS Slots,      \* image slots of an object, all attachments of its target
          Swap,       \* slot -> frameswapCount of its images
          Viewed,     \* "target", "source" -> slots whose image its shader reads
          HostSwap,   \* frameswapCount of the buffer the program writes
          Sizes,      \* sizes of windows and images
          Externals,  \* what the external slot may be set to
          MaxObjects, \* bound on objects alive at a time
          LastFrame,  \* bound on frame
          MaxCalls,   \* bound on the calls between frames
          OneThread   \* whether the thread that creates is the one that renders

ASSUME FramesAssumption ==
  /\ Slots # {} /\ IsFiniteSet(Slots) /\ Viewed \in [{"target", "source"} -> SUBSET Slots]
  /\ Viewed["source"] # {}
  /\ Swap \in [Slots -> Nat \ {0}] /\ HostSwap \in Nat \ {0}
  /\ MaxObjects \in Nat \ {0} /\ LastFrame \in Nat /\ MaxCalls \in Nat
  /\ Sizes # {} /\ Externals # {} /\ OneThread \in BOOLEAN

VARIABLES frame,      \* onion::frame
          phase,      \* how far render is: "idle", "begun", "resized", "recorded";
                      \* or "closed" when the onion is gone
          done,       \* the timeline semaphore: the last frame the GPU has finished
          objects,    \* allObjects, a recycling pool
          targets,    \* allTargets, a recycling pool
          sources,    \* allSources, a recycling pool
          obj,        \* object -> its data
          tgt,        \* target -> its data
          src,        \* source -> its data
          pending,    \* objects that create has allocated and not initialised yet
          collectors, \* frame modulo cmdFrameswapCount -> garbage
          work,       \* the same -> what the frame's command buffer uses
          recorded,   \* what the command buffer that is being recorded uses
          touched,    \* what the CPU has written in its latest step
          calls       \* number of calls, for the bound

pools == <<objects, targets, sources, obj, tgt, src, pending>>
vars == <<frame, phase, done, pools, collectors, work, recorded, touched, calls>>

lcm(a, b) == Min({m \in 1..a * b : m % a = 0 /\ m % b = 0})
Counts == {Swap[s] : s \in Slots}
\* From 1 on, one count after the other.
frameswapLCM[counts \in SUBSET (Counts \cup {HostSwap})] ==
  IF counts = {} THEN 1
  ELSE LET n == CHOOSE n \in counts : TRUE IN lcm(frameswapLCM[counts \ {n}], n)
\* Of a target, which has all slots, or of a source, which has those it views.
maxFrameswap(holder) == frameswapLCM[IF holder = "target" THEN Counts ELSE {Swap[s] : s \in Viewed["source"]}]
cmdFrameswapCount == Max({3, frameswapLCM[Counts \cup {HostSwap}]})
Cmds == 0..cmdFrameswapCount - 1
Mods(holder) == 0..maxFrameswap(holder) - 1
-----------------------------------------------------------------------------
(* iterableRecyclingPool *)
EmptyPool == [store |-> 0, available |-> << >>, allocated |-> {}]
NextOf(p) == IF p.available # << >> THEN Last(p.available) ELSE p.store + 1
allocate(p) ==
  [store |-> IF p.available # << >> THEN p.store ELSE p.store + 1,
   available |-> IF p.available # << >> THEN Front(p.available) ELSE << >>,
   allocated |-> p.allocated \cup {NextOf(p)}]
free(p, x) == [store |-> p.store, available |-> Append(p.available, x), allocated |-> p.allocated \ {x}]
-----------------------------------------------------------------------------
(* image.hpp; mappedResourceTuple holds what an object has for a slot. *)
resources(o, s) == obj[o].images[s]
frameImageIdx(s, f) == f % Swap[s]
frameUpdated(o, s, f) == resources(o, s).stamp[frameImageIdx(s, f)]
frameImage(o, s, f) == <<"image", o, s, frameImageIdx(s, f), frameUpdated(o, s, f)>>
getSize(o, s, f) == resources(o, s).size[frameImageIdx(s, f)]
createView(by, o, s) == [image |-> frameImage(o, s, frame), made |-> frame, by |-> by]
View(v) == <<"view", v.image, v.made, v.by>>
Framebuffer(t, k) == <<"fb", t, k, tgt[t].fb[k].last>>
Default == CHOOSE size \in Sizes : TRUE
\* A slot's images: their sizes, the frames they were created in, and the size
\* that is asked for and since when.
FreshImages(s) ==
  [size |-> [i \in 0..Swap[s]-1 |-> Default], stamp |-> [i \in 0..Swap[s]-1 |-> 0],
   ci |-> [size |-> Default, frame |-> 0]]
FreshObject(size) ==
  [created |-> 0, target |-> 0, source |-> 0, win |-> size, winFrame |-> 0, ext |-> CHOOSE e \in Externals : TRUE,
   extFrame |-> 0, images |-> [s \in Slots |-> FreshImages(s)]]
\* Framebuffers and descriptors that have not been made yet.
None == [last |-> 0]
FreshTarget == [obj |-> 0, fb |-> [k \in Mods("target") |-> None], set |-> [k \in Mods("target") |-> None]]
FreshSource == [obj |-> 0, set |-> [k \in Mods("source") |-> None]]

Init ==
  /\ frame = 1 /\ phase = "idle" /\ done = 0
  /\ objects = EmptyPool /\ targets = EmptyPool /\ sources = EmptyPool
  /\ \E size \in Sizes : obj = [o \in 1..MaxObjects |-> FreshObject(size)]
  /\ tgt = [t \in 1..MaxObjects |-> FreshTarget]
  /\ src = [t \in 1..MaxObjects |-> FreshSource]
  /\ pending = {}
  /\ collectors = [c \in Cmds |-> {}] /\ work = [c \in Cmds |-> {}]
  /\ recorded = {} /\ touched = {} /\ calls = 0

InFlight == {f \in 1..frame - 1 : f > done}
Active == frame % cmdFrameswapCount
NextActive == (Active + 1) % cmdFrameswapCount
\* Objects, targets and sources that the frame visits.
DrawnObjects == {o \in objects.allocated : obj[o].created < frame}
DrawnTargets == {t \in targets.allocated : obj[tgt[t].obj].created < frame}
DrawnSources == {t \in sources.allocated : obj[src[t].obj].created < frame}

\* waitForFrame returns; in unsigned integers frame - cmdFrameswapCount is
\* greater than any frame while there have been fewer frames than that.
Waited(f) == f = 0 \/ frame < cmdFrameswapCount \/ f < frame - cmdFrameswapCount \/ done >= f
-----------------------------------------------------------------------------
(* garbageCollector: what is collected is destroyed; what is pushed waits until
   the collector of the frame that is being made is the active one again. *)
collect(cs) == collectors' = [c \in Cmds |-> IF c \in cs THEN {} ELSE collectors[c]]
push(garbage) == collectors' = [collectors EXCEPT ![Active] = @ \cup garbage]
-----------------------------------------------------------------------------
(* Calls between frames. *)
Call ==
  /\ calls < MaxCalls
  /\ calls' = calls + 1
  /\ UNCHANGED <<frame, phase, done, collectors, work, recorded>>
Idle == phase = "idle" /\ (OneThread => pending = {})

\* The collections of the three pools.
createTarget == targets' = allocate(targets)
freeTarget(t) == targets' = free(targets, t)
createSource == sources' = allocate(sources)
freeSource(t) == sources' = free(sources, t)
createObject == objects' = allocate(objects)

\* create, under the mutex
Create ==
  /\ Idle /\ Call
  /\ NextOf(objects) <= MaxObjects
  /\ createObject
  /\ obj' = [obj EXCEPT ![NextOf(objects)].created = frame]
  /\ pending' = pending \cup {NextOf(objects)}
  /\ touched' = {}
  /\ UNCHANGED <<targets, sources, tgt, src>>

\* object_t::reinit, after the mutex has been released: it takes a target and
\* a source from their pools.
createAllTargets(o) ==
  /\ createTarget
  /\ tgt' = [tgt EXCEPT ![NextOf(targets)].obj = o]
createAllSources(o) ==
  /\ createSource
  /\ src' = [src EXCEPT ![NextOf(sources)].obj = o]
Reinit(o) ==
  /\ o \in pending
  /\ pending' = pending \ {o}
  /\ createAllTargets(o)
  /\ createAllSources(o)
  /\ obj' = [obj EXCEPT ![o].target = NextOf(targets), ![o].source = NextOf(sources)]
  /\ touched' = {}
  /\ UNCHANGED <<frame, phase, done, objects, collectors, work, recorded, calls>>

\* object_t::free, destroy
freeAllTargets(o) == freeTarget(obj[o].target)
freeAllSources(o) == freeSource(obj[o].source)
freeObject(o) == freeAllTargets(o) /\ freeAllSources(o)
Destroy(o) ==
  /\ Idle /\ Call
  /\ o \in objects.allocated \ pending
  /\ freeObject(o)
  /\ objects' = free(objects, o)
  /\ touched' = {}
  /\ UNCHANGED <<obj, tgt, src, pending>>

\* object_t::set of an external resource
Set(o, e) ==
  /\ Idle /\ Call
  /\ o \in objects.allocated \ pending
  /\ obj[o].ext # e
  /\ obj' = [obj EXCEPT ![o].ext = e, ![o].extFrame = frame]
  /\ touched' = {}
  /\ UNCHANGED <<objects, targets, sources, tgt, src, pending>>

\* object_t::write to the host visible buffer of the coming frame
HostBuffer(o) == <<"host", o, frame % HostSwap>>
Write(o) ==
  /\ Idle
  /\ o \in objects.allocated \ pending
  /\ touched # {HostBuffer(o)}
  /\ touched' = {HostBuffer(o)}
  /\ UNCHANGED <<frame, phase, done, collectors, work, recorded, calls, pools>>

\* The window gets another size, which the next frame sees.
ResizeWindow(o, size) ==
  /\ phase = "idle" /\ Call
  /\ o \in objects.allocated \ pending
  /\ obj[o].win # size
  /\ obj' = [obj EXCEPT ![o].win = size, ![o].winFrame = frame]
  /\ touched' = {}
  /\ UNCHANGED <<objects, targets, sources, tgt, src, pending>>

\* join; gcAll
Join ==
  /\ Idle /\ Waited(frame - 1)
  /\ touched # {<<"join">>}
  /\ collect(Cmds)
  /\ touched' = {<<"join">>}
  /\ UNCHANGED <<frame, phase, done, work, recorded, calls, pools>>

\* ~onion: join, gcAll, then command buffers and fences are destroyed, and with
\* the members everything the objects have.
Close ==
  /\ phase = "idle" /\ pending = {} /\ Waited(frame - 1)
  /\ phase' = "closed"
  /\ collect(Cmds)
  /\ touched' = {<<"cmd", c>> : c \in Cmds}
  /\ UNCHANGED <<frame, done, work, recorded, calls, pools>>
-----------------------------------------------------------------------------
(* render, under the mutex *)
Begin_CollectsNext ==
  /\ Idle
  /\ frame <= LastFrame
  /\ frame > cmdFrameswapCount => Waited(frame - cmdFrameswapCount)
  /\ phase' = "begun"
  /\ collect({NextActive})
  /\ touched' = {<<"cmd", Active>>}
  /\ recorded' = {<<"cmd", Active>>}
  /\ UNCHANGED <<frame, done, work, calls, pools>>
Begin ==
  /\ Idle
  /\ frame <= LastFrame
  /\ frame > cmdFrameswapCount => Waited(frame - cmdFrameswapCount)
  /\ phase' = "begun"
  /\ collect({Active})
  /\ touched' = {<<"cmd", Active>>}
  /\ recorded' = {<<"cmd", Active>>}
  /\ UNCHANGED <<frame, done, work, calls, pools>>

\* trackWindowSize: the size of the coming frame's image is compared, and the
\* window's is asked for if it is another (image::resize).
Outsized(o, s) == getSize(o, s, frame) # obj[o].win
Requested(o, s) == IF Outsized(o, s) THEN [size |-> obj[o].win, frame |-> frame] ELSE resources(o, s).ci
\* applyPendingResize: images older than the size that is asked for are
\* replaced, each stamped with the next frame that uses it.
Replaced(o, s) == {i \in 0..Swap[s]-1 : Requested(o, s).frame > frameUpdated(o, s, i)}
Stamp_Late(s, i) == frame + Swap[s] + ((i - frame) % Swap[s])
Stamp(s, i) == frame + ((i - frame) % Swap[s])
applyPendingResize(o, s) ==
  [ci |-> Requested(o, s),
   size |-> [i \in 0..Swap[s]-1 |-> IF i \in Replaced(o, s) THEN Requested(o, s).size ELSE getSize(o, s, i)],
   stamp |-> [i \in 0..Swap[s]-1 |-> IF i \in Replaced(o, s) THEN Stamp(s, i) ELSE frameUpdated(o, s, i)]]
PreRender ==
  /\ phase = "begun"
  /\ phase' = "resized"
  /\ obj' = [o \in DOMAIN obj |->
       IF o \in DrawnObjects THEN [obj[o] EXCEPT !.images = [s \in Slots |-> applyPendingResize(o, s)]] ELSE obj[o]]
  /\ LET old == UNION {UNION {{frameImage(o, s, i) : i \in Replaced(o, s)} : s \in Slots} : o \in DrawnObjects}
     IN /\ push(old)
        /\ recorded' = recorded \cup old
  /\ touched' = {}
  /\ UNCHANGED <<frame, done, objects, targets, sources, tgt, src, pending, work, calls>>

\* The copy of a framebuffer or of descriptors that the frame uses.
Mod(holder) == frame % maxFrameswap(holder)

\* recordRenders_l3, anyOutdated, updateIfNeeded
anyOutdated(last, o) == \E s \in Slots : last < frameUpdated(o, s, frame)
UpdatedFb_KeepsViews(t) ==
  IF tgt[t].fb[Mod("target")] = None
  THEN [last |-> frame, views |-> [s \in Slots |-> createView(<<"fb", t>>, tgt[t].obj, s)]]
  ELSE tgt[t].fb[Mod("target")]
UpdatedFb(t) ==
  LET o == tgt[t].obj
      fb == tgt[t].fb[Mod("target")]
  IN IF fb = None \/ anyOutdated(fb.last, o)
     THEN [last |-> frame,
           views |-> [s \in Slots |-> IF fb = None \/ frameUpdated(o, s, frame) > 0 THEN createView(<<"fb", t>>, o, s) ELSE fb.views[s]]]
     ELSE fb
FbGarbage(t) ==
  LET fb == tgt[t].fb[Mod("target")]
  IN IF fb = None \/ UpdatedFb(t) = fb THEN {}
     ELSE {Framebuffer(t, Mod("target"))} \cup {View(fb.views[s]) : s \in {s \in Slots : frameUpdated(tgt[t].obj, s, frame) > 0}}

\* The descriptors of a target or source x = <<holder, number>>.
Held(x) == IF x[1] = "target" THEN tgt[x[2]] ELSE src[x[2]]
SetOf(x) == Held(x).set[Mod(x[1])]
DescriptorSet(x) == <<"set", x, Mod(x[1])>>
DrawnHolders == {<<"target", t>> : t \in DrawnTargets} \cup {<<"source", t>> : t \in DrawnSources}

\* mappedResourceTuple::frameLastUpdated, of all slots of the object
frameLastUpdated(o) == Max({obj[o].extFrame} \cup {frameUpdated(o, s, frame) : s \in Slots})

\* fillWrites: the descriptors that are written again.
ViewsToWrite(x) == {s \in Viewed[x[1]] : SetOf(x).last < frameUpdated(Held(x).obj, s, frame)}
WritesExternal(x) == SetOf(x).last < obj[Held(x).obj].extFrame

\* prepareDescriptors
UpdatedSet(x) ==
  LET o == Held(x).obj
      set == SetOf(x)
      New(s) == createView(<<"set", x>>, o, s)
  IN IF set = None THEN [last |-> frame, ext |-> obj[o].ext, views |-> [s \in Viewed[x[1]] |-> New(s)]]
     ELSE IF set.last < frameLastUpdated(o)
     THEN [last |-> frame, ext |-> IF WritesExternal(x) THEN obj[o].ext ELSE set.ext,
           views |-> [s \in Viewed[x[1]] |-> IF s \in ViewsToWrite(x) THEN New(s) ELSE set.views[s]]]
     ELSE set
Rewritten(x) == SetOf(x) # None /\ (ViewsToWrite(x) # {} \/ WritesExternal(x))
SetGarbage(x) == IF Rewritten(x) THEN {View(SetOf(x).views[s]) : s \in ViewsToWrite(x)} ELSE {}
\* The frame whose end is awaited before the descriptors are written; there is
\* one copy of the external resource.
WaitFrame_ImagesOnly(x) == Max({0} \cup {frame - Swap[s] : s \in ViewsToWrite(x)})
WaitFrame(x) ==
  Max({0} \cup {frame - Swap[s] : s \in ViewsToWrite(x)} \cup IF WritesExternal(x) THEN {frame - 1} ELSE {})

\* What the draws of the frame use: framebuffers, descriptors and what they show.
Uses ==
  LET views == (UNION {{UpdatedFb(t).views[s] : s \in Slots} : t \in DrawnTargets})
                 \cup (UNION {{UpdatedSet(x).views[s] : s \in Viewed[x[1]]} : x \in DrawnHolders})
  IN {<<"fb", t, Mod("target"), UpdatedFb(t).last>> : t \in DrawnTargets} \cup {DescriptorSet(x) : x \in DrawnHolders}
       \cup {HostBuffer(Held(x).obj) : x \in DrawnHolders} \cup {View(v) : v \in views} \cup {v.image : v \in views}

Record ==
  /\ phase = "resized"
  /\ \A x \in DrawnHolders : Rewritten(x) => Waited(WaitFrame(x))
  /\ phase' = "recorded"
  /\ tgt' = [t \in DOMAIN tgt |->
       IF t \in DrawnTargets
       THEN [tgt[t] EXCEPT !.fb[Mod("target")] = UpdatedFb(t), !.set[Mod("target")] = UpdatedSet(<<"target", t>>)]
       ELSE tgt[t]]
  /\ src' = [t \in DOMAIN src |->
       IF t \in DrawnSources THEN [src[t] EXCEPT !.set[Mod("source")] = UpdatedSet(<<"source", t>>)] ELSE src[t]]
  /\ push((UNION {FbGarbage(t) : t \in DrawnTargets}) \cup (UNION {SetGarbage(x) : x \in DrawnHolders}))
  /\ recorded' = recorded \cup Uses
  /\ touched' = {DescriptorSet(x) : x \in {x \in DrawnHolders : Rewritten(x)}}
  /\ UNCHANGED <<frame, done, objects, targets, sources, obj, pending, work, calls>>

\* The fence is reset and the frame submitted; frame++.
Submit ==
  /\ phase = "recorded"
  /\ phase' = "idle"
  /\ work' = [work EXCEPT ![Active] = recorded]
  /\ frame' = frame + 1
  /\ recorded' = {}
  /\ touched' = {}
  /\ UNCHANGED <<done, collectors, calls, pools>>

\* The GPU finishes the oldest frame it has been given.
Finish ==
  /\ InFlight # {}
  /\ done' = done + 1
  /\ UNCHANGED <<frame, phase, pools, collectors, work, recorded, touched, calls>>

Next ==
  \/ Create
  \/ \E o \in pending : Reinit(o)
  \/ \E o \in objects.allocated : Destroy(o) \/ Write(o) \/ \E e \in Externals : Set(o, e)
  \/ \E o \in objects.allocated, size \in Sizes : ResizeWindow(o, size)
  \/ Join \/ Close
  \/ Begin \/ PreRender \/ Record \/ Submit
  \/ Finish

Spec == Init /\ [][Next]_vars
-----------------------------------------------------------------------------
(* Properties *)
Images == UNION {UNION {{frameImage(o, s, i) : i \in 0..Swap[s]-1} : s \in Slots} : o \in DOMAIN obj}
Made(copies) == {k \in DOMAIN copies : copies[k] # None}
CachedFbs ==
  UNION {UNION {{Framebuffer(t, k)} \cup {View(tgt[t].fb[k].views[s]) : s \in Slots} : k \in Made(tgt[t].fb)} : t \in DOMAIN tgt}
CachedSets(holder, data) ==
  UNION {UNION {{View(data[t].set[k].views[s]) : s \in Viewed[holder]} : k \in Made(data[t].set)} : t \in DOMAIN data}
Alive == IF phase = "closed" THEN {}
         ELSE Images \cup CachedFbs \cup CachedSets("target", tgt) \cup CachedSets("source", src)
                \cup (UNION {collectors[c] : c \in Cmds})
UsedBy(f) == work[f % cmdFrameswapCount]
GivenToGpu == UNION {UsedBy(f) : f \in InFlight}
Destroyable == {"image", "view", "fb"}

\* The phases of a frame, at most cmdFrameswapCount frames in flight, and pools
\* that never hand an entry out twice; a created object has its target.
TypeOK ==
  /\ phase \in {"idle", "begun", "resized", "recorded", "closed"}
  /\ done < frame /\ Cardinality(InFlight) <= cmdFrameswapCount
  /\ \A p \in {objects, targets, sources} : p.allocated \cap ToSet(p.available) = {} /\ p.store <= MaxObjects
  /\ \A p \in {targets, sources} : Cardinality(objects.allocated) = Cardinality(p.allocated) + Cardinality(pending)

\* No frame that the GPU may still be working on, and not the one that is
\* being recorded, uses an image, a view or a framebuffer that has been
\* destroyed or lost (collect, applyPendingResize, updateIfNeeded, fillWrites,
\* join and ~onion).  Frames before cmdFrameswapCount - 1 are left out: until
\* there have been that many, join and ~onion wait for nothing.
NothingInUseDropped ==
  /\ TypeOK
  /\ \A f \in InFlight : f >= cmdFrameswapCount - 1 => \A u \in UsedBy(f) : u[1] \in Destroyable => u \in Alive
  /\ \A u \in recorded : u[1] \in Destroyable => u \in Alive

\* The CPU rewrites a command buffer or a descriptor set only when no frame in
\* flight uses it, and join returns with nothing in flight
\* (waitForFrame); so does ~onion.  Command buffers apart, this holds once
\* cmdFrameswapCount frames have been rendered.
CpuWaits ==
  /\ phase # "closed" => \A u \in touched : u[1] = "cmd" => u \notin GivenToGpu
  /\ frame >= cmdFrameswapCount => \A u \in touched : u[1] = "set" => u \notin GivenToGpu
  /\ phase = "closed" \/ touched = {<<"join">>} => frame < cmdFrameswapCount \/ InFlight = {}

\* What a frame draws with, framebuffer and descriptors, is made from the
\* object's own images of that frame and the buffer that is set now
\* (recordRenders_l3, prepareDescriptors), however objects and targets have
\* been recycled.
DrawsOwnImages ==
  phase = "recorded" =>
    /\ \A t \in DrawnTargets, s \in Slots : tgt[t].fb[Mod("target")].views[s].image = frameImage(tgt[t].obj, s, frame)
    /\ \A x \in DrawnHolders :
         /\ SetOf(x).ext = obj[Held(x).obj].ext
         /\ \A s \in Viewed[x[1]] : SetOf(x).views[s].image = frameImage(Held(x).obj, s, frame)

\* A window's new size has reached every image a frame draws to once the frames
\* that use the slot have gone round (trackWindowSize, applyPendingResize),
\* although the stamps of resized images lie in the future.
SizesFollow ==
  phase = "recorded" => \A o \in DrawnObjects, s \in Slots :
    frame >= obj[o].winFrame + Swap[s] => getSize(o, s, frame) = obj[o].win

\* The assertion at onion.hpp:1728: attachments of a framebuffer that is made
\* have the same size.
AttachmentsMatch ==
  phase = "recorded" => \A t \in DrawnTargets : tgt[t].fb[Mod("target")].last = frame =>
    Cardinality({getSize(tgt[t].obj, s, frame) : s \in Slots}) = 1

\* README.md:6: frames are kept apart by double-buffering; the program never
\* writes to a copy of a buffer that a frame in flight reads.
HostWritesApart == \A u \in touched : u[1] = "host" => u \notin GivenToGpu
=============================================================================
