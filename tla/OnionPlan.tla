------------------------------ MODULE OnionPlan ------------------------------
(***************************************************************************)
(* onion.hpp, onionUtils.hpp, onionTemplateStructs.hpp: the frame an onion *)
(* plans from its description at compile time (who uses a resource when,   *)
(* which barriers stand between the uses, which layout each command names) *)
(* and what the recorded commands meet when they are played frame by       *)
(* frame.  A description is a record:                                      *)
(*   RSS   resource slot -> [ol, image, N (frameswapCount), usage, track]  *)
(*   CSS   copy step -> [src, dst] (consumers)                             *)
(*   RPRS  render passes: [id, depth, color, input, shaders]               *)
(*   CSRS  compute shaders: [id, target, source] (sets of consumers)       *)
(*   LRS   layers: [copies, renders, computes] (sequences of ids)          *)
(*   windows  object layout -> window consumer or NoId                     *)
(*   XLS   target layouts, then source layouts:                            *)
(*         [id, ol, target, self, refs: {[consumer, slot, latency]}]       *)
(* A consumer of a shader is [id, descriptor, stages, access].  The image  *)
(* of latency L in frame f is number (f + L) % N of its slot.              *)
(***************************************************************************)
EXTENDS Integers, Sequences, FiniteSets, SequencesExt, FiniteSetsExt

CONSTANTS Descriptors, \* the descriptions to play
          Objects,     \* the objects that may be created
          LastFrame,   \* bound on frame
          NoId         \* NONE

ASSUME PlanAssumption == LastFrame \in Nat

VARIABLES od,      \* the description, OD, with the barriers of each slot
          plan,    \* what the compiler makes of it
          frame,   \* onion::frame
          at,      \* command of the frame that is recorded next, 0 between frames
          created, \* object -> frameCreated; objects in its domain are live
          olOf,    \* object -> its object layout
          off,     \* at most one <<object, step>> that is disabled in this frame
          layout,  \* object, slot, image number -> layout the image is in
          settled, \* images that a planned barrier has put into their layout
          open,    \* uses in this frame that no barrier follows yet
          granted  \* image -> what the latest barrier made it ready for

vars == <<od, plan, frame, at, created, olOf, off, layout, settled, open, granted>>

\* substep_e; clears are left out
barrier0 == 0
copy == 1
barrier1 == 2
barrier2 == 4
render == 5
barrier3 == 6
compute == 7
barrier4 == 8
post == 9
-----------------------------------------------------------------------------
(* onionUtils.hpp *)
findIdx(l, id) == SelectInSeq(l, LAMBDA x : x = id) - 1
findId(l, id) == SelectInSeq(l, LAMBDA x : x.id = id) - 1
findById(l, id) == l[findId(l, id) + 1]

Writes == {"shaderWrite", "transferWrite", "depthWrite", "colorWrite"}
mightWrite(access) == access \cap Writes # {}

\* Orders of timings <<latency, layer, substep, pass or shader>>.
Sooner(a, b) == \E i \in 1..4 : a[i] < b[i] /\ \A j \in 1..i-1 : a[j] = b[j]

\* resourceAccessTime::compatibleWith: r needs no barrier after u.  The code
\* asks twice whether u writes, and never whether r does.
compatibleWith_Later(u, r) == ~mightWrite(r.access) /\ u.time[1] = r.time[1]
compatibleWith(u, r) == ~mightWrite(u.access) /\ u.time[1] = r.time[1]

layoutAccessMatrix ==
  { [layout |-> "color", access |-> {"colorWrite", "colorRead"}, score |-> 50100, usage |-> {"color"}],
    [layout |-> "depth", access |-> {"depthRead", "depthWrite"}, score |-> 50500, usage |-> {"depth"}],
    [layout |-> "depthRead", access |-> {"depthRead", "sampledRead", "inputRead"}, score |-> 10100, usage |-> {"depth"}],
    [layout |-> "shaderRead", access |-> {"sampledRead", "inputRead"}, score |-> 5000, usage |-> {"input", "sampled"}],
    [layout |-> "transferSrc", access |-> {"transferRead"}, score |-> 500, usage |-> {"transferSrc"}],
    [layout |-> "transferDst", access |-> {"transferWrite"}, score |-> 500, usage |-> {"transferDst"}],
    [layout |-> "readOnly", access |-> {"depthRead", "colorRead", "sampledRead", "inputRead"}, score |-> 100, usage |-> {"input", "sampled"}],
    [layout |-> "attachment", access |-> {"depthRead", "depthWrite", "colorWrite", "colorRead"}, score |-> 10, usage |-> {"depth", "color"}] }

bestImageLayoutFor(access, usage) ==
  LET fit == {m \in layoutAccessMatrix : m.usage \cap usage # {} /\ access \subseteq m.access}
  IN IF fit = {} THEN "general" ELSE (CHOOSE m \in fit : \A n \in fit : n.score <= m.score).layout

\* toPipelineStage2: any stage at all has a bit of eAll.
toPipelineStage2(u) ==
  IF u.stages # {} THEN {"transfer", "shader"}
  ELSE IF u.access \cap {"transferRead", "transferWrite"} # {} THEN {"transfer"} ELSE {}

findResourceReferenceToConsumer(refs, c) == {r \in refs : r.consumer = c /\ c # NoId}
findResourceReferenceToSlot(refs, s) == {r \in refs : r.slot = s /\ s # NoId}
-----------------------------------------------------------------------------
(* The plan, onion.hpp *)
satisfies(refs, ids) == \A c \in ids : findResourceReferenceToConsumer(refs, c) # {}
Ids(consumers) == {c.id : c \in consumers}

\* resourceTraits
isImage(d, s) == d.RSS[s].image
\* consumerForWindowForObject: what presenting does to the consumer.
WindowAccess == {"transferRead"}

\* findUsages, first part: consumer -> latency for the slot; a later layout
\* replaces what an earlier one said of the same consumer.
referencesByConsumerId(d, s) ==
  LET Of(xl) == LET rs == findResourceReferenceToSlot(xl.refs, s)
                IN [c \in {r.consumer : r \in rs} |-> (CHOOSE r \in rs : r.consumer = c).latency]
  IN FoldLeft(LAMBDA f, xl : Of(xl) @@ f, << >>, d.XLS)

AttachmentUse(pass) ==
  {<<c, {"colorRead", "colorWrite"}>> : c \in pass.color} \cup {<<c, {"inputRead"}>> : c \in pass.input}
    \cup {<<c, {"depthRead", "depthWrite"}>> : c \in {pass.depth} \ {NoId}}

\* findUsages, second part: every use of the slot in the frame.
UsagesIn(d, s, l) ==
  LET ref == referencesByConsumerId(d, s)
      Touch(c, step, i, id, stages, access) ==
        IF c \in DOMAIN ref
        THEN {[time |-> <<ref[c], l - 1, step, i>>, id |-> id, stages |-> stages, access |-> access]}
        ELSE {}
      layer == d.LRS[l]
      Pass(i) == findById(d.RPRS, layer.renders[i])
      Shader(i) == findById(d.CSRS, layer.computes[i])
  IN UNION ({Touch(d.CSS[k].src, copy, 0, NoId, {}, {"transferRead"}) : k \in ToSet(layer.copies)}
       \cup {Touch(d.CSS[k].dst, copy, 0, NoId, {}, {"transferWrite"}) : k \in ToSet(layer.copies)}
       \cup UNION {{Touch(a[1], render, i - 1, Pass(i).id, {"fragment"}, a[2]) : a \in AttachmentUse(Pass(i))}
              \cup {Touch(c.id, render, i - 1, Pass(i).id, c.stages, c.access)
                      : c \in UNION {g.target \cup g.source : g \in ToSet(Pass(i).shaders)}}
              : i \in 1..Len(layer.renders)}
       \cup UNION {{Touch(c.id, compute, i - 1, Shader(i).id, c.stages, c.access)
                      : c \in Shader(i).target \cup Shader(i).source}
              : i \in 1..Len(layer.computes)}
       \cup IF l = Len(d.LRS)
            THEN {Touch(d.windows[ol], post, 0, NoId, {}, WindowAccess) : ol \in DOMAIN d.windows}
            ELSE {})

\* operator|= of resourceAccessTime, for all of a set of uses: the latest time,
\* whatever any of them does.
JoinedUse(uses, u) ==
  [u EXCEPT !.stages = UNION {v.stages : v \in uses}, !.access = UNION {v.access : v \in uses}]

\* findUsages, third part: sorted by time, simultaneous uses joined.
findUsages(d, s) ==
  LET all == UNION {UsagesIn(d, s, l) : l \in 1..Len(d.LRS)}
      Joined(t) == LET us == {u \in all : u.time = t}
                   IN JoinedUse(us, CHOOSE u \in us : TRUE)
  IN SetToSortSeq({Joined(u.time) : u \in all}, LAMBDA u, v : Sooner(u.time, v.time))

\* Where the barrier before use u goes, after use b.
BarrierTime(u, b, isFirst) ==
  IF isFirst \/ u.time[1] # b.time[1] \/ u.time[2] # b.time[2] THEN <<u.time[1], u.time[2], barrier0, 0>>
  ELSE IF u.time[3] # b.time[3] THEN <<u.time[1], u.time[2], u.time[3] - 1, 0>>
  ELSE u.time

\* A use opens a group of its own unless it is compatible with the group before
\* it, which absorbs it; each group comes after one barrier and before the next,
\* in a ring.
Groups(usage) ==
  FoldLeft(LAMBDA gs, u :
             IF gs # << >> /\ compatibleWith(Last(gs).after, u)
             THEN [gs EXCEPT ![Len(gs)].after = JoinedUse({@, u}, [u EXCEPT !.id = Last(gs).after.id])]
             ELSE Append(gs, [start |-> u, after |-> u]),
           << >>, usage)
Previous_NoRing(i, n) == IF i = 1 THEN 1 ELSE i - 1
Previous(i, n) == IF i = 1 THEN n ELSE i - 1
findBarriers(d, s) ==
  LET gs == Groups(findUsages(d, s))
      Lay(u) == IF isImage(d, s) THEN bestImageLayoutFor(u.access, d.RSS[s].usage) ELSE NoId
      Barrier(i, before, after) ==
        [slot |-> s, time |-> BarrierTime(gs[i].start, before, i = 1),
         before |-> before, after |-> after, beforeLayout |-> Lay(before), afterLayout |-> Lay(after)]
  IN [i \in 1..Len(gs) |-> Barrier(i, gs[Previous(i, Len(gs))].after, gs[i].after)]

\* A description with the barriers that are found for each of its slots.
Compiled(d) == ("barriers" :> [s \in DOMAIN d.RSS |-> findBarriers(d, s)]) @@ d

\* onionDescriptorValidator.hpp, getErrors: what a description declares, each
\* consumer once per place that makes one, and whether it reports no error.
Declared(d) ==
  {<<"slot", s>> : s \in DOMAIN d.RSS} \cup {<<"objects", ol>> : ol \in DOMAIN d.windows}
    \cup {<<"copy", k>> : k \in DOMAIN d.CSS} \cup {<<"pass", p.id>> : p \in ToSet(d.RPRS)}
    \cup {<<"shader", g.id>> : g \in ToSet(d.CSRS) \cup UNION {ToSet(p.shaders) : p \in ToSet(d.RPRS)}}
    \cup {<<"layout", xl.id>> : xl \in ToSet(d.XLS)}
ConsumersIn(d) ==
  LET Consumers(g) == {<<g.id, c>> : c \in Ids(g.target) \cup Ids(g.source)}
  IN {<<ol, d.windows[ol]>> : ol \in {ol \in DOMAIN d.windows : d.windows[ol] # NoId}}
       \cup UNION {Consumers(g) : g \in ToSet(d.CSRS) \cup UNION {ToSet(p.shaders) : p \in ToSet(d.RPRS)}}
       \cup UNION {{<<p.id, a[1]>> : a \in AttachmentUse(p)} : p \in ToSet(d.RPRS)}
       \cup {<<k, d.CSS[k].src>> : k \in DOMAIN d.CSS} \cup {<<k, d.CSS[k].dst>> : k \in DOMAIN d.CSS}
getErrors(d) ==
  LET all == Declared(d) \cup ConsumersIn(d)
      consumers == {p[2] : p \in ConsumersIn(d)}
  IN {x[2] : x \in {x \in all : \E y \in all : x # y /\ x[2] = y[2]}}
       \cup {s \in DOMAIN d.RSS : d.RSS[s].ol \notin DOMAIN d.windows}
       \cup {xl.id : xl \in {xl \in ToSet(d.XLS) : xl.ol \notin DOMAIN d.windows
                \/ \E r \in xl.refs : r.consumer \notin consumers \/ r.slot \notin DOMAIN d.RSS}}
       \cup UNION {(ToSet(r.copies) \ DOMAIN d.CSS) \cup (ToSet(r.renders) \ Ids(ToSet(d.RPRS)))
                     \cup (ToSet(r.computes) \ Ids(ToSet(d.CSRS))) : r \in ToSet(d.LRS)}

\* findFinalBarrierPerFrame: per latency the last barrier, or that of the next
\* lower latency, in a ring, that has one.
Final(d, s) ==
  LET bs == d.barriers[s]
      N == d.RSS[s].N
      OfLatency(l) == {i \in 1..Len(bs) : bs[i].time[1] = l}
      Source(l) == CHOOSE m \in 0..N-1 :
                     /\ OfLatency(m) # {}
                     /\ \A k \in 0..N-1 : OfLatency(k) # {} => (l - m) % N <= (l - k) % N
  IN [l \in 0..N-1 |-> bs[Max(OfLatency(Source(l)))].afterLayout]

\* getLayoutForImage; the first branch is for a slot with a single group too.
getLayoutForImage(d, s, t) ==
  LET bs == d.barriers[s]
      over == {i \in 2..Len(bs) : ~Sooner(bs[i].time, t)}
  IN IF ~isImage(d, s) THEN NoId
     ELSE IF Len(bs) = 1 \/ Sooner(t, bs[1].time) THEN bs[1].beforeLayout
     ELSE bs[(IF over = {} THEN Len(bs) + 1 ELSE Min(over)) - 1].afterLayout

\* The commands of a frame: renderFrom, recordRenders, recordComputeDispatches,
\* doPrerender before and doPostrender after them.  A barrier between passes is
\* asked for by the pass's place in RPRS, one between shaders by that in CSRS.
FrameCommands(d) ==
  LET Do(what, l, id) == [do |-> what, layer |-> l, id |-> id, step |-> barrier0, idx |-> 0]
      Barriers(l, step, i) == [do |-> "barriers", layer |-> l, id |-> NoId, step |-> step, idx |-> i]
      Layer(l) == LET r == d.LRS[l + 1] IN
        <<Barriers(l, barrier0, 0)>> \o [i \in 1..Len(r.copies) |-> Do("copy", l, r.copies[i])]
        \o <<Barriers(l, barrier1, 0), Barriers(l, barrier2, 0)>>
        \o FlattenSeq([i \in 1..Len(r.renders) |->
             <<Barriers(l, render, findId(d.RPRS, r.renders[i])), Do("render", l, r.renders[i])>>])
        \o <<Barriers(l, barrier3, 0)>>
        \o FlattenSeq([i \in 1..Len(r.computes) |->
             <<Barriers(l, compute, findId(d.CSRS, r.computes[i])), Do("dispatch", l, r.computes[i])>>])
        \o <<Barriers(l, barrier4, 0)>>
  IN <<Do("resize", 0, NoId)>> \o FlattenSeq([l \in 1..Len(d.LRS) |-> Layer(l - 1)])
       \o <<Do("present", Len(d.LRS) - 1, NoId)>>
-----------------------------------------------------------------------------
(* What the recording functions make the commands touch. *)

\* Layouts that can drive a pass or a shader.
PassTargets(d, pass) ==
  {x \in DOMAIN d.XLS : d.XLS[x].target /\ satisfies(d.XLS[x].refs, pass.color \cup pass.input \cup ({pass.depth} \ {NoId}))}
Satisfying(d, isTarget, consumers) ==
  {x \in DOMAIN d.XLS : d.XLS[x].target = isTarget /\ satisfies(d.XLS[x].refs, Ids(consumers))}

\* What a description has of one object layout.
getTargetLayouts(d, ol) == {x \in DOMAIN d.XLS : d.XLS[x].target /\ d.XLS[x].ol = ol}
getSourceLayouts(d, ol) == {x \in DOMAIN d.XLS : ~d.XLS[x].target /\ d.XLS[x].ol = ol}
getResourceReferences(d, ol) == UNION {d.XLS[x].refs : x \in getTargetLayouts(d, ol) \cup getSourceLayouts(d, ol)}
getResourceSlots(d, ol) == {s \in DOMAIN d.RSS : d.RSS[s].ol = ol}

\* A use of consumer c through layout x in time <<layer, step, idx>>; a shader's
\* descriptors are filled for the current frame, whatever the latency
\* (prepareDescriptors passes frame % maxFrameswap on).
Use(d, x, c, time, inDescriptor, stages, access, steps, by) ==
  LET r == CHOOSE r \in findResourceReferenceToConsumer(d.XLS[x].refs, c) : TRUE
  IN [x |-> x, slot |-> r.slot, latency |-> IF inDescriptor THEN 0 ELSE r.latency,
      layout |-> getLayoutForImage(d, r.slot, <<r.latency>> \o time),
      stages |-> stages, access |-> access, steps |-> steps, by |-> by]

CopyUses(d, cmd) ==
  LET step == d.CSS[cmd.id]
      time == <<cmd.layer, copy, 0>>
  IN UNION {{Use(d, x, step.src, time, FALSE, "transfer", {"transferRead"}, {cmd.id}, {}),
             Use(d, x, step.dst, time, FALSE, "transfer", {"transferWrite"}, {cmd.id}, {})}
            : x \in {x \in DOMAIN d.XLS : satisfies(d.XLS[x].refs, {step.src, step.dst})}}

\* fillWrites
ShaderUses(d, xs, consumers, time, steps, by) ==
  {Use(d, x, c.id, time, c.descriptor, "shader", c.access, steps, by) : x \in xs, c \in consumers}

\* attachmentInfo, renderPassInfoBundle
AttachmentUses(d, targets, pass, time) ==
  {Use(d, x, a[1], time, FALSE, "shader", a[2], {}, {}) : x \in targets, a \in AttachmentUse(pass)}

\* recordRenders_targetOnly: a draw of a fixed number of vertices, with the
\* target's descriptors.
TargetDraw(d, pass, g, targets, time) == ShaderUses(d, targets, g.target, time, {pass.id, g.id}, {})
\* recordRenders_l5: every source that can drive the shader is drawn to each of
\* the targets, with its descriptors and its vertex, index and indirect buffers.
NestedDraw(d, pass, g, targets, time) ==
  TargetDraw(d, pass, g, targets, time)
    \cup ShaderUses(d, Satisfying(d, FALSE, g.source), g.source, time, {pass.id, g.id}, targets)

RenderUses(d, cmd) ==
  LET pass == findById(d.RPRS, cmd.id)
      time == <<cmd.layer, render, findIdx(d.LRS[cmd.layer + 1].renders, cmd.id)>>
      targets == PassTargets(d, pass)
      Drawn(g) == targets \cap Satisfying(d, TRUE, g.target)
  IN AttachmentUses(d, targets, pass, time)
       \cup UNION {IF g.source = {} THEN TargetDraw(d, pass, g, Drawn(g), time) ELSE NestedDraw(d, pass, g, Drawn(g), time)
                   : g \in ToSet(pass.shaders)}

\* recordComputeDispatches_sourceOnly and _targetOnly
SourceDispatch(d, cs, time) ==
  ShaderUses(d, Satisfying(d, FALSE, cs.source), cs.source, time, {cs.id}, {})
TargetDispatch(d, cs, time) ==
  ShaderUses(d, Satisfying(d, TRUE, cs.target), cs.target, time, {cs.id}, {})
\* A shader with resources of both kinds dispatches nothing: see Compiles.
DispatchUses(d, cmd) ==
  LET cs == findById(d.CSRS, cmd.id)
      time == <<cmd.layer, compute, findIdx(d.LRS[cmd.layer + 1].computes, cmd.id)>>
  IN IF cs.target = {} THEN SourceDispatch(d, cs, time)
     ELSE IF cs.source = {} THEN TargetDispatch(d, cs, time) ELSE {}

\* recordComputeDispatches_nested: the shaders a layer runs for which the body of
\* it is compiled, some target layout satisfying them.
nestedDispatches(d) ==
  {cs \in {findById(d.CSRS, k) : k \in UNION {ToSet(r.computes) : r \in ToSet(d.LRS)}} :
     cs.target # {} /\ cs.source # {} /\ Satisfying(d, TRUE, cs.target) # {}}

\* Descriptions the compiler takes: every resource is used, a barrier inside a
\* step stands between render passes, windows can present what they show, and no
\* dispatch is nested (its body names a member, resources, that target_t and
\* source_t do not have).
Compiles(d) ==
  /\ nestedDispatches(d) = {}
  /\ \A s \in DOMAIN d.RSS :
       LET bs == d.barriers[s]
       IN /\ bs # << >>
          /\ \A i \in 1..Len(bs) :
               /\ bs[i].time[3] = compute => bs[i].after.id = bs[i].before.id
               /\ bs[i].time[3] = render => bs[i].after.id # bs[i].before.id
               /\ bs[i].after.time[3] = post => bs[i].afterLayout \in {"general", "transferSrc"}

\* object_t::postRender
PresentUses(d, cmd, ol) ==
  {Use(d, x, d.windows[ol], <<cmd.layer, post, 0>>, FALSE, "transfer", WindowAccess, {}, {})
   : x \in {x \in getTargetLayouts(d, ol) \cup getSourceLayouts(d, ol) : satisfies(d.XLS[x].refs, {d.windows[ol]})}}
doPostrender(d, cmd) == UNION {PresentUses(d, cmd, ol) : ol \in {ol \in DOMAIN d.windows : d.windows[ol] # NoId}}

CommandUses(d, cmd) ==
  CASE cmd.do = "copy" -> CopyUses(d, cmd)
    [] cmd.do = "render" -> RenderUses(d, cmd)
    [] cmd.do = "dispatch" -> DispatchUses(d, cmd)
    [] cmd.do = "present" -> doPostrender(d, cmd)
    [] OTHER -> {}

\* getStepIds, with every shader of a pass asked for by itself.
StepIds_OwnShaders(d, ol) ==
  LET refs == getResourceReferences(d, ol)
      Has(ids) == \E c \in ids : findResourceReferenceToConsumer(refs, c) # {}
      OfPass(p) == {g \in ToSet(p.shaders) : Has(Ids(g.target) \cup Ids(g.source))}
  IN UNION {ToSet(r.copies) \cup ToSet(r.renders) \cup ToSet(r.computes)
              \cup {g.id : g \in UNION {OfPass(findById(d.RPRS, p)) : p \in ToSet(r.renders)}}
            : r \in ToSet(d.LRS)}

\* getStepIds: the steps an object of the layout can switch on and off.
StepIds(d, ol) ==
  LET refs == getResourceReferences(d, ol)
      Has(ids) == \E c \in ids : findResourceReferenceToConsumer(refs, c) # {}
      Mine(g) == Has(Ids(g.target) \cup Ids(g.source))
      InPass(p) == satisfies(refs, p.color \cup p.input \cup ({p.depth} \ {NoId}))
      Pass(p) == {p.shaders[i].id : i \in {i \in DOMAIN p.shaders : InPass(p) \/ \E j \in 1..i : Mine(p.shaders[j])}}
                   \cup IF InPass(p) \/ \E g \in ToSet(p.shaders) : Mine(g) THEN {p.id} ELSE {}
      OfLayer(r) == {k \in ToSet(r.copies) : Has({d.CSS[k].src, d.CSS[k].dst})}
                 \cup UNION {Pass(findById(d.RPRS, p)) : p \in ToSet(r.renders)}
                 \cup {k \in ToSet(r.computes) : Mine(findById(d.CSRS, k))}
  IN UNION {OfLayer(r) : r \in ToSet(d.LRS)}

MakePlan(d) ==
  LET cs == FrameCommands(d)
  IN [commands |-> cs,
      uses |-> [i \in DOMAIN cs |-> CommandUses(d, cs[i])],
      final |-> [s \in {s \in DOMAIN d.RSS : isImage(d, s)} |-> Final(d, s)],
      steps |-> [ol \in DOMAIN d.windows |-> StepIds(d, ol)]]
-----------------------------------------------------------------------------
(* Playing the frames. *)
Images == {k \in Objects \X (DOMAIN od.RSS) \X (0..2) : k[3] < od.RSS[k[2]].N}
Nothing == [stages |-> {}, access |-> {}]
ImageAt(o, s, latency) == <<o, s, (frame + latency) % od.RSS[s].N>>

Init ==
  /\ od \in {Compiled(d) : d \in Descriptors}
  /\ plan = MakePlan(od)
  /\ frame = 1
  /\ at = 0
  /\ created = << >>
  /\ olOf = << >>
  /\ off = {}
  /\ layout = [k \in Images |-> "undefined"]
  /\ settled = {}
  /\ open = [k \in Images |-> {}]
  /\ granted = [k \in Images |-> Nothing]

Command == plan.commands[at]
\* Objects younger than this frame are skipped by every recording function.
Drawn == {o \in DOMAIN created : created[o] < frame}
OwnerOf(s) == {o \in Drawn : olOf[o] = od.RSS[s].ol}

\* mappedResourceTuple::init: the images of a new object, each in the layout that
\* the frame before the current one is taken to have left it in.
InitNumber(i, n) == (i + frame - 1) % n
InitialLayout(k) ==
  LET N == od.RSS[k[2]].N
  IN plan.final[k[2]][CHOOSE i \in 0..N - 1 : InitNumber(i, N) = k[3]]

\* onion::create, between two frames
Create(o, ol) ==
  /\ at = 0
  /\ o \notin DOMAIN created
  /\ created' = (o :> frame) @@ created
  /\ olOf' = (o :> ol) @@ olOf
  /\ layout' = [k \in Images |->
       IF k[1] = o /\ k[2] \in DOMAIN plan.final \cap getResourceSlots(od, ol) THEN InitialLayout(k) ELSE layout[k]]
  /\ settled' = {k \in settled : k[1] # o}
  /\ UNCHANGED <<od, plan, frame, at, off, open, granted>>

\* onion::render, up to the first command: the timeline semaphore orders the
\* whole frame after the one before.
BeginFrame ==
  /\ at = 0
  /\ frame <= LastFrame
  /\ \E dis \in SUBSET UNION {{o} \X plan.steps[olOf[o]] : o \in Drawn} :
       Cardinality(dis) <= 1 /\ off' = dis
  /\ at' = 1
  /\ open' = [k \in Images |-> {}]
  /\ granted' = [k \in Images |-> Nothing]
  /\ UNCHANGED <<od, plan, frame, created, olOf, layout, settled>>

\* trackWindowSize: the images that follow the size of the objects' windows.
Resized(os) ==
  {k \in Images : k[1] \in os \cap OwnerOf(k[2]) /\ isImage(od, k[2]) /\ od.RSS[k[2]].track}

\* mappedResourceTuple::preRender, image::applyPendingResize: the image of each
\* latency is replaced by one that ends in the layout its old one is taken to have.
applyPendingResize(os) ==
  [k \in Images |->
     IF k \in Resized(os)
     THEN plan.final[k[2]][CHOOSE FS \in 0..od.RSS[k[2]].N - 1 : (frame + FS) % od.RSS[k[2]].N = k[3]]
     ELSE layout[k]]

\* doPrerender; any of the windows may have changed size.
Resize ==
  /\ at > 0
  /\ Command.do = "resize"
  /\ \E os \in SUBSET Drawn :
       /\ layout' = applyPendingResize(os)
       /\ settled' = settled \ Resized(os)
  /\ at' = at + 1
  /\ UNCHANGED <<od, plan, frame, created, olOf, off, open, granted>>

\* recordBarriersForTime, recordBarriers
\* A barrier's time is its latency and the id by which the steps find it.
barrierId(time) == SubSeq(time, 2, 4)
Planned == UNION {{b \in ToSet(od.barriers[s]) : barrierId(b.time) = <<Command.layer, Command.step, Command.idx>>}
                  : s \in DOMAIN od.RSS}
BarriersOn(k) == {b \in Planned : k[1] \in OwnerOf(b.slot) /\ k = ImageAt(k[1], b.slot, b.time[1])}
RecordBarriers ==
  /\ at > 0
  /\ Command.do = "barriers"
  /\ LET hit == {k \in Images : BarriersOn(k) # {}}
         B(k) == CHOOSE b \in BarriersOn(k) : TRUE
     IN /\ layout' = [k \in Images |-> IF k \in hit /\ isImage(od, k[2]) THEN B(k).afterLayout ELSE layout[k]]
        /\ settled' = settled \cup hit
        /\ open' = [k \in Images |->
             IF k \in hit THEN {w \in open[k] : w.stages \notin toPipelineStage2(B(k).before) \/ ~(w.access \subseteq B(k).before.access)}
             ELSE open[k]]
        /\ granted' = [k \in Images |->
             IF k \in hit THEN [stages |-> toPipelineStage2(B(k).after), access |-> B(k).after.access] ELSE granted[k]]
  /\ at' = at + 1
  /\ UNCHANGED <<od, plan, frame, created, olOf, off>>

\* stepEnablementTuple: an object's switch of a step, on unless it is put off.
stepEnabled(o, step) == <<o, step>> \notin off
\* Who performs use u, and for a source a target that is not itself.
Performs(o, u) ==
  LET On(p, x) == p \in Drawn /\ olOf[p] = od.XLS[x].ol /\ \A s \in u.steps : stepEnabled(p, s)
  IN /\ On(o, u.x)
     /\ u.by = {} \/ \E t \in u.by, p \in Drawn :
                       On(p, t) /\ (od.XLS[t].self \/ od.XLS[t].ol # od.XLS[u.x].ol \/ p # o)
Doings == {<<ImageAt(p[1], p[2].slot, p[2].latency), p[2]>> :
             p \in {p \in Drawn \X plan.uses[at] : Performs(p[1], p[2])}}
Note(k) == open[k] \cup {[stages |-> p[2].stages, access |-> p[2].access] : p \in {p \in Doings : p[1] = k}}

Record(what) ==
  /\ at > 0
  /\ Command.do = what
  /\ open' = [k \in Images |-> Note(k)]
  /\ at' = at + 1
  /\ UNCHANGED <<od, plan, frame, created, olOf, off, layout, settled, granted>>

RecordCopies == Record("copy")
RecordRenders == Record("render")
RecordDispatches == Record("dispatch")

\* Submission, object_t::postRender, frame++.
EndFrame ==
  /\ at > 0
  /\ Command.do = "present"
  /\ at' = 0
  /\ frame' = frame + 1
  /\ open' = [k \in Images |-> {}]
  /\ granted' = [k \in Images |-> Nothing]
  /\ off' = {}
  /\ UNCHANGED <<od, plan, created, olOf, layout, settled>>

Next ==
  \/ \E o \in Objects, ol \in DOMAIN od.windows : Create(o, ol)
  \/ BeginFrame
  \/ Resize
  \/ RecordBarriers
  \/ RecordCopies
  \/ RecordRenders
  \/ RecordDispatches
  \/ EndFrame

Spec == Init /\ [][Next]_vars
-----------------------------------------------------------------------------
(* Properties *)

\* The variables hold what onion keeps, and a command of the frame that is being
\* recorded is one of the frame's.
TypeOK ==
  /\ DOMAIN od.barriers = DOMAIN od.RSS
  /\ frame \in 1..LastFrame + 1
  /\ at \in 0..Len(plan.commands)
  /\ DOMAIN created = DOMAIN olOf /\ DOMAIN created \subseteq Objects
  /\ \A o \in DOMAIN created : created[o] \in 1..frame /\ olOf[o] \in DOMAIN od.windows
  /\ off \subseteq UNION {{o} \X plan.steps[olOf[o]] : o \in DOMAIN created}
  /\ settled \subseteq Images
  /\ DOMAIN layout = Images /\ DOMAIN open = Images /\ DOMAIN granted = Images

\* A slot whose images all end a frame in the same layout.
OneFinal(s) == Cardinality({plan.final[s][l] : l \in DOMAIN plan.final[s]}) = 1

\* Every command, every barrier and every resize finds the image in the layout
\* it names: what the compiler works out (findBarriers, getLayoutForImage,
\* findFinalBarrierPerFrame) is where the images are, frame after frame.  For a
\* slot that ends frames in different layouts it is so from its first barrier on
\* and unless it is resized, see the README.
LayoutsAgree ==
  TypeOK /\ (at > 0 =>
    /\ \A p \in Doings : p[2].layout \in {NoId, layout[p[1]]}
    /\ Command.do = "barriers" =>
         \A k \in Images : k \in settled \/ (isImage(od, k[2]) => OneFinal(k[2])) =>
           \A b \in BarriersOn(k) : b.beforeLayout \in {NoId, layout[k]}
    /\ Command.do = "resize" =>
         \A k \in Resized(Drawn) : OneFinal(k[2]) => plan.final[k[2]][0] = layout[k])

\* Between two commands of a frame of which one may write what the other
\* touches stands a barrier that waits for the first, and the latest barrier on
\* the image makes it ready for exactly that kind of use.
UsesSeparated ==
  at > 0 =>
    \A p \in Doings :
      /\ \A w \in open[p[1]] : ~mightWrite(w.access) /\ ~mightWrite(p[2].access)
      /\ p[2].stages \in granted[p[1]].stages
      /\ p[2].access \subseteq granted[p[1]].access

\* A recording function only asks an object for the switch of a step that
\* getStepIds has given it (the look-up of any other would not end).
StepsHaveSwitches ==
  at > 0 => \A u \in plan.uses[at] :
    \A x \in {u.x} \cup u.by : u.steps \subseteq plan.steps[od.XLS[x].ol]
=============================================================================
