# A verification development for WITE

WITE is a C++20 header-mostly engine: an embedded, memory-mapped entity
database, a Vulkan frame pipeline ("onion"), and the threading, device, input
and sound code they stand on. This directory holds TLA+ modules that model the
engine's own logic, TLC configurations that check them on small instances, and
theorems about them checked by TLAPS. Every definition is read off the source;
`PROJECT.json` gives the lines each one stands for.

## 1. Inventory

| component | state it keeps | operations | what is hard | what makes it correct |
|---|---|---|---|---|
| `syncLock`, `scopeLock` | `queueSeed`, `queueCurrent`; per guard `held` | `WaitForLock`, `ReleaseLock`, `yield`, `release`, guards | threads between two atomic operations; the double take of `yield` | one owner, served in order, nobody starves |
| `concurrentReadSyncLock` | `writeLocked`, `readLocks` under a `syncLock` | `acquireRead/Write`, `releaseRead/Write` | the reader that waits outside the mutex | one writer or many readers; a counted reader bars writers |
| `dbFile` | stack of free rows, linked list of allocated rows, growth units, iterators | `allocate`, `free`, iterate, `size`, `close`, reopen | iterators while rows come and go; growth | free and listed rows partition the file; an iterator misses nothing unless its own row is freed |
| `dbIndex` | binary search tree of rows in a `dbFile` | `insert`, `remove`, `findAny`, `forEach`, `count`, `rebalance`, `clear` | equal keys after rotations; table and index change in separate steps; crash and rebuild | look-ups meet exactly the rows in range, nodes are not lost |
| `dbTable` | per row: newest copy on disk and a chain of frame-stamped logs | `allocate`, `free`, `load`, `store`, `readCurrent`, `readCommitted`, `applyLogs`, `minFrame`, `maxFrame` | load concurrent with store; chain against log file; reuse of rows | reads see the row as of one moment; chains and log file agree |
| `database` | `currentFrame`, backup flag and thread, indices | `updateTick`, `endFrame`, `requestBackup`, `gracefulShutdown`, `create`, `destroy`, `write`, start | jobs, backup thread and frame loop interleave; flush against backup; restart | each row updated once per frame, index equals table, nothing is lost by a restart |
| `threadPool` | one job ring per worker, `jobsInFlight`, `nextWorker` | `submitJob`, `waitForAll`, worker loop | full rings, wrap-around, submission while waiting | every job runs once; waiting means done |
| `thread` | map from thread id to thread object, `sem` of a call | `spawnThread`, `join`, `current` | the new thread uses the stack of its parent | the thread is registered before it runs, `sem` is not used after its time |
| `onion`, planning | none at run time: computed from the description | usages, barriers, layouts, step switches, order of commands | a barrier or layout that is right within a frame and wrong across frames, latencies and resizes | barriers separate uses; the layout named is the layout met |
| `onion`, frames; `image`, `buffer`, `garbageCollector`, `iterableRecyclingPool` | frame counter, per-frame slots of images, views, framebuffers, descriptors; collectors | `render`, `create`, `destroy`, `set`, `write`, `waitForFrame`, `join`, `~onion` | CPU ahead of the GPU; recycled objects; unsigned frame arithmetic; future stamps | nothing in use is dropped or rewritten; draws use current, own images |
| `window` | ring of semaphores and commands, swapchain images | `present` | no fence says that the screen has consumed a semaphore | a semaphore is idle when it is used again |
| `gpu` | free memory per heap, blocks | `allocate`, `vram` moved and destroyed | counters that are atomic one by one | blocks have one owner, heaps are accounted for |
| `cmdPool` | commands, fences, a pool per thread, two queues | `allocate`, `submit`, `isPending`, `waitFor` | reuse of a command that may be pending; two mutexes | no command is recorded in use, no queue called twice at once |
| `winput` | summary per control under a shared lock, keyboard buffer | `pollInput`, `getInput`, `getLatest` | several events of a control in a frame | the summary is that of the frame's events |
| `wsound`, `synth` | ring of samples, continuous sounds | `initSound`, `pushSound`, `addContinuousSound`, `clear`, callback | callback thread against callers | each frame is played once; the list holds what was added |
| `descriptorPoolPool`, `recyclingPool`, `advancedSyncLock`, profiler, configuration, shutdown, mmap, DEBUG, template helpers | - | - | section 7 | |

How they interact: `main` calls `winput::poll`, `database::updateTick`,
`onion::render`, `database::endFrame` in a loop. `updateTick` submits one job
per row to the database's own `threadPool`; a job reads rows as of the previous
frame, writes its own row in the current frame (a new log), and may create and
destroy rows. `endFrame` waits for the jobs, folds logs older than
`MIN_LOG_HISTORY` frames into the rows and advances the frame. A backup runs in
its own thread. Tables keep rows and logs in two `dbFile`s, indices their nodes
in another; `dbFile` takes `concurrentReadSyncLock`s, which take a `syncLock`.
`onion` keeps its own frame counter, plans barriers and layouts at compile time,
records and submits a command buffer per frame and hands what it replaces to the
collector of the frame's slot. `create` and loading threads submit one-off
commands through `cmdPool`; `postRender` has the `window` present.

## 2. Plan

The order follows what would hurt most if it went wrong: the locks everything
else is built on, then the files, the tables, the frame loop and its jobs, then
the frame pipeline, then the services.

| step | modules | composes / refines | state |
|---|---|---|---|
| 1 | `SyncLock`, `ConcurrentReadSyncLock` | `SyncLock` implements `FifoLock` | modelled, checked, proved |
| 2 | `DbFile` | implements `RowFile`; its mutex is step 1's | modelled, checked, proved |
| 3 | `DbIndex` | against the table it indexes; its nodes are rows of a `DbFile` | modelled, checked |
| 4 | `DbTable` | implements `LogTable`; its two files are `RowFile`s | modelled, checked, proved |
| 5 | `Database` | `DbTable` and the pool, each abstracted to what the frame loop sees | modelled, checked, proved; of jobs that destroy only their own rows where it matters |
| 6 | `ThreadPool` | its mutex is `FifoLock` | modelled, checked, safety proved |
| 7 | `OnionPlan` | planned barriers and layouts against the commands played over several frames | modelled, checked |
| 8 | `OnionFrames` | `onion` with images, buffers, pools and collectors, and a GPU behind it | modelled, checked, proved for one thread |
| 9 | `Swapchain`, `Sound`, `Input`, `Vram`, `CmdPool`, `Thread` | `MCRuntime` checks them side by side | modelled, checked, proved; `Swapchain` under a condition on the answers of Vulkan |

Left without a theorem: the invariants of `OnionPlan`, whose plan is computed by
recursive operators, and of `DbIndex`, whose tree is, and liveness. They stay
with TLC (section 5).

## 3. How the modules correspond to the code

**`FifoLock`, `SyncLock`.** `queueSeed` and `queueCurrent` are the two atomics,
`seed[t]` the local variable of `WaitForLock`, `held[t]` the flag of the thread's
`scopeLock`. Each atomic operation is an action: `Enqueue` is the `fetch_add`
that takes a number, `Enter` the load that ends the spin, `Release` and
`EndScope` the two ways a guard gives the lock up, `YieldTake` and `YieldGive`
the two `fetch_add`s of `yield`, between which a thread is owner and queued at
once. `FifoLock` is what callers rely on: an owner, a queue, and who asked
first. `MaxTickets` caps the counters; their wrap-around at 2^64 is not modelled.

**`ConcurrentReadSyncLock`.** `readLocks` and `writeLocked` under the ticket
lock, which the module keeps as its owner only (step 1 shows it excludes and
starves nobody). A reader counts itself in, gives the mutex back and *then*
looks at `writeLocked` (concurrentReadSyncLock.cpp:24-31), so `CountReader`,
`CheckWriter` and `SeeWriterGone` are separate; a writer polls under the mutex.

**`DbFile`, `RowFile`.** The header, the stack of free rows and the doubly
linked list are state; `Allocate` pops (growing the file by `AU` rows if the
stack is empty) and links at the tail, `Free` pushes and unlinks, `Begin` and
`Advance` move an iterator, `close`, `Reopen` and `Clobber` are the end of the
object and its constructor. The lock makes each one step. `seen`, `unseen` and
`spoiled` record an iterator's pass for `PassesSound` and are written, never
read, by the actions. What a row holds is the users' matter.

**`DbIndex`.** A node is a record with its children in place of their numbers;
`insert`, `remove`, `findAny`, `forEach`, `count`, `rebalance` are recursive
operators with the code's comparisons, including that the counts which should
choose the replacement of a removed node stay zero, so that the low child always
takes its place. Around the tree stand the steps of `database`: `Create` and
`CreateIndexes`, `Destroy` and `DestroyFrees`, the three steps of `write`, then
`Crash`, and `Open`, which compares the counts and rebuilds every `Batch` rows
(`checkAllIndices`). `clear` frees one node less than it unlinks: `left` counts
those that stay behind.

**`DbTable`, `LogTable`.** A master row and its chain of logs, in two files.
`allocate`, `store`, `free` and `load` are cut where another thread can come in
between: `Allocate` lists the row, `Reset` clears its chain, `Append0` (first
log), `Link` and `Finish` append a log, `Unlist` gives the row back, `Load` and
`Walk` step along a chain. `EndFrame` applies logs. The calling rules of
dbTable.hpp:171, 179, 208 and 215 are guards: nobody stores and frees the same
row at once and logs are applied while nobody else calls. `database` can break
the rule of 208 (section 6): the model says what the table does when it is kept.
The log file hands out its lowest free row instead of any; `DbFile` shows that
all one may rely on is that the row is unused. `Chain(r)` is not a variable but
what a walk from `firstLog` meets (`After`, `Met`). `LogTable` has no files: a
sequence of logs per row over a stored state.

**`Database`.** Main, the pool's workers and the backup thread are processes;
`pc` tells where each is. `updateTick`, `Submit` and `AllSubmitted` are the walk
of `updateAll`, `TakeJob` and `JobReturns` the job wrapper of dbUtils.hpp, then
`write`, `create` and `destroy` in the steps a second thread can see.
`requestBackup`, `BackupStarts` and `BackupTurn` are the backup thread,
`gracefulShutdown`, `Closed` and `Reopen` the end and the next start. Of a log
the module keeps the frame, of the index the set of rows in it, of the pool the
set of jobs that are queued. `iter` is the iterator of the walk, with the
semantics `DbFile` gives it. `JobsCreate` and `DestroyOthers` say what the
application's `update` functions do. `begun`, `seen`, `overtaken` and `asked` are
history, written and never read by the actions: the rows listed when
`updateTick` began and those submitted since; the rows that their own job took
from the index, or destroyed, while their create had not got there; and the frame
in which a backup was last asked for.

**`ThreadPool`.** `ring`, `nextRead` and `nextWrite` per worker, `submitJob` cut
at every shared access (`Look`, `Fill`, `Publish`), the worker loop
(`StartJob`, `EndJob`, `GiveBack`) and `waitForAll` (one `WaitOne` per worker).
`nextWorker` starts with any value: it has no initialiser. `runs` and `owed` are
history.

**`OnionPlan`.** A description (`OD`) is a record; the `consteval` functions are
operators on it. `Compiled` adds the barriers of each slot to the description:
`findUsages` sorts and joins its uses, `Groups` merges those that need no barrier
between them, `findBarriers` puts one before each group, in a ring over the
frames. `plan` collects, once, the list of commands of a frame, what each touches
and the layout it names (`getLayoutForImage`), the layout each image is left in
(`Final`) and the steps an object has switches for.
A compute shader with resources of its target and of its source does not compile
(section 7), so `Compiles` refuses one that some target satisfies.
The actions play the commands: `BeginFrame`, `Resize` (window size changes,
`applyPendingResize`), `RecordBarriers`, `RecordCopies`, `RecordRenders`,
`RecordDispatches`, `EndFrame`; `Create` adds an object between frames, and any
one step may be switched off (`stepEnabled`). `layout` is what the images are in,
`open` the uses that no barrier has followed, `granted` what the latest barrier
made an image ready for. `MCOnionPlan` holds the descriptions.

**`OnionFrames`.** `render` in four steps: `Begin` (wait for the slot's fence,
collect, reset the command buffer), `PreRender` (`trackWindowSize`,
`applyPendingResize`), `Record` (framebuffers, descriptors, the waits before
they are written) and `Submit`; the GPU's `Finish` comes at any time. `Create`
and `Reinit` are the two halves of `create`, of which only the first holds the
mutex; `Destroy`, `Set`, `Write`, `ResizeWindow`, `Join` and `Close` (`~onion`)
are the other calls. What the frame uses is taken
down as it is recorded (`Uses`). Images, views, framebuffers and sets are named by where
they are kept and when they were made, so a destroyed one is one that no state
holds and no collector keeps (`Alive`). `Waited` has the unsigned subtraction of
onion.hpp:2066. `touched` and `recorded` say what the CPU rewrites and what the
frame under way uses, for the properties.

**`Swapchain`.** `present` cut at its Vulkan calls, the queue in order, the
screen that gives an image back when the next is shown. `Answers` says which
errors acquire and present may give.

**`Sound`.** A cell of `combinedSounds` counts the sounds added and not played;
`pushSound` and the callback go frame by frame; `addContinuousSound` raises the
count and stores in two steps. **`Input`.** Events queue up in SDL; `pollInput`
takes the write lock and clears, `processEvent` turns the next event into what it
tells of its controls (`event`) and writes the keyboard buffer, `handleEvent` adds
one of these to the axis of its control; `getInput` inserts an unknown control
under the read lock. **`Vram`.** `gpu::allocate` over the types in the
`memoryTypeBits` of the request, block and subtraction in two steps; a moved
object leaves no handle. **`CmdPool`.** `submit`
in four steps; the renderer's submit and present on the other queue.
**`Thread`.** `spawnThread` step by step against the new thread; ids come back
after a join, which ends the native thread (`joinable`) and leaves the object.

`MCDbTable`, `MCDatabase`, `MCStorage` and `MCRuntime` add symmetry sets: rows,
threads, workers and values are interchangeable there, and no liveness property
is checked under symmetry. `MCStorage` and `MCRuntime` put components that share
no state side by side: each behaviour exercises one of them.

## 4. Runs

| run | bounds | what it shows |
|---|---|---|
| `sync_lock` | 3 threads, 6 numbers | one owner; service in order; no starvation; refinement of `FifoLock`. Six numbers let each thread come back, and let one yield while two wait. Stops when numbers are used up, hence no deadlock check |
| `read_write_lock` | 3 threads | a writer is alone; the counts are right; no writer overtakes a counted reader, and each gets to read. Three threads: a writer inside, a reader counted and one more of either kind |
| `storage` | file: 2 units of 2 rows, 1 iterator; index: 4 rows, 4 values, 1 call under way, rebalance every 2 rows, 1 crash, 8 nodes | rows are partitioned, a pass is sound, refinement of `RowFile`; look-ups are exact through removals, rotations, a crash and a rebuild; nodes are accounted for. Two units give growth in use, four rows a first, a last and a middle to free; four nodes are the fewest that `rebalance` turns. Values may repeat. The number of crashes is bounded: no deadlock check |
| `db_table` | 2 threads, 2 rows, 3 logs, 2 values, 3 frames, `MinLogHistory` 1 | chains sound and disjoint, loads return what the table held at one moment, refinement of `LogTable`. The code keeps three frames of history; with one, folding happens within three frames |
| `database` | 3 rows, 2 workers, 2 frames, `History` 0; jobs create rows, as Tests/database.cpp:84 does, and destroy their own | index equals list between phases and shutdown leaves nothing but for overtaken rows, frames never go back over a restart, the log window is kept, every listed row is updated and none has two jobs. Three rows and two workers let a job create a row while the walk and another job go on; with `History` 0 logs are folded within two frames. A backup never ends (section 6), so that a behaviour with one and with an overtaken create is not followed further (`BackupOrOvertaken`). The program may close and frames are bounded: no deadlock check |
| `thread_pool` | 2 clients, 2 workers, rings of 2 slots (one usable), 4 jobs | each job runs exactly once; waiting means done; the slot of a running job is not written; every job runs. Four jobs on two usable slots fill both rings and wrap |
| `onion_plan` | 6 descriptions, 2 objects, 5 frames | commands, barriers and resizes find the images in the layout they name; conflicting uses have a barrier of the right kind between them; switches exist for the steps that ask. Five frames go round the longest latency (3) with a creation in between |
| `onion_frames` | 2 objects, 5 frames, colour image double, depth single, host buffer double (3 frames in flight), 2 sizes, 2 externals, 4 calls | nothing in use is dropped, the CPU waits before it rewrites, draws use the object's own current images, sizes get through. Two objects recycle each other's place; five frames go round the slots; the calls are enough for destroy, create, resize and set |
| `runtime` | 3 images, 2 threads, 1 reader, rings of 4 frames and 3 events, 2 heaps of 2, 2 commands, 2 thread ids and 3 spawns | each service's property: `SemaphoresIdle`, `FramesPlayOnce`, `SoundsListed`, `FrameSummed`, `MemoryAccounted`, `CommandsGuarded`, `HandshakeHolds`. Behaviours end at the bounds: no deadlock check |
| `database_index`, `database_min_frame`, `onion_read_then_write` | as small as shows the case | section 6: each finds one statement of the sources violated |

**Fairness.** `SyncLock`: weak fairness of each thread's `Enter`, `EndScope` and
`YieldGive` - a spinning thread that is scheduled re-reads the counter, and
critical sections end. Nobody has to ask for the lock. Weak fairness is enough
because the number served stays until its owner gives it up.
`ConcurrentReadSyncLock`: strong fairness of the steps that begin by getting the
mutex (`CountReader`, `ReleaseRead`, `ReleaseWrite`), since the mutex may be
taken and free again many times before a thread's number comes up, and it does
come up (`NoStarvation` of `SyncLock`); weak fairness of the steps after that.
Readers and writers release what they hold. `TryWrite` has no fairness: a writer
leaves the mutex's queue between two tries, and readers may keep arriving, so
writers are promised nothing and no property says they are. `ThreadPool`: weak
fairness of each thread's next step once it is in a call or a job; jobs end. The
safety runs of the other modules assume no fairness.

## 5. Theorems

All for every value of the constants that satisfies the module's named
assumption; tlapm checks every leaf.

- `SyncLockProofs`. `TypeOK` and `TicketOrder` together are inductive: numbers
  waited for are distinct, not below the one served, and above it while somebody
  is inside. Two owners would both have the number served, and a thread that
  gets in has the least number, so `OneOwner` and `ServedInOrder` follow;
  `Refinement` maps each step to one of `FifoLock` under the same invariant.
- `ConcurrentReadSyncLockProofs`, for a finite set of threads. `TypeOK` bounds
  `readLocks` by the number of threads, which is not inductive: that it *is* the
  number of counted readers (`HoldersCounted`) is, together with who holds the
  mutex (`SectionsGuarded`). `Exclusion` follows: a writer claims at a count of
  zero while it holds the mutex readers need to count themselves in.
- `ThreadPoolProofs`. `SlotKept` rests on three facts, inductive only together:
  who fills a slot is at the head of the mutex's queue (`FillersHold`), the room
  it found is still there (`RoomStays`), and a worker at a job has a ring that is
  not empty (`BusyNotEmpty`). A worker only makes room, since two slots never
  have the same successor (`NextSlotInjective`); a client only takes the room it
  found; hence the slot filled is never the slot read. `NoJobLost` and
  `WaitedIsDone` follow from where each job is (`Accounts`): with one client
  until it is published, then in one slot of one ring, then done, and what a
  client waits for is in no ring it has passed (`OwedAhead`), as nothing is
  submitted again.
- `DbFileProofs`, without any assumption but that units and iterators exist. The
  walk along the links is a recursive function, about which nothing can be
  proved by unfolding; the proofs go through the sequence that the links spell
  (`Path`) from both ends, and one induction over its positions shows that it is
  what the walk meets (`PathMet`). Allocation is then `Append`, freeing
  `RemoveAt` at the row's place, and `Refinement` and `RowsStayPartitioned`
  follow with what the stack holds (`Rest`). `PassesSound` needs in addition
  that an iterator's target is the row it has yet to meet (`Remembered`): rows
  join behind every iterator, and a row that goes takes its place with it.
- `DatabaseProofs`, in three parts. *The walk*, assuming that jobs destroy no
  row but their own (`~DestroyOthers`; section 6 shows what happens otherwise).
  The list is split at the iterator: what stands before it was submitted, or was
  not there when `updateTick` began; what stands from it on was not submitted
  (`Walk`). New rows join at the end, and a job unlinks its own row, which is
  before the iterator (`JobsSeen`), so that the split survives both.
  `EveryRowUpdated` and `RowsHaveOneJob` follow. *Frames*, without assumption:
  `NoFutureStamps`, and `BackupNeverEnds`, which is what is behind the second
  finding of section 6 - `minFrame` keeps the larger value and never falls; and
  `LogStaysShort`: `endFrame` folds what leaves the window, and a backup, which
  keeps it from doing so, was asked for in a frame gone by and keeps the database
  from closing (`Window`). *Phases*, under the proviso of the walk: jobs may create
  rows while the walk submits them, and then the job of a row can run before its
  create is through; `overtaken` collects those rows, and of them nothing is
  claimed (section 6 has what the code makes of them). Every other row is in the
  hands of one actor at a time and listed as long as it is (`HandsListed`): its own
  job either waits in the ring while its create goes on, or leaves index and row
  alone. Hence the index is the list without the rows in hand (`Indexing`), only
  listed rows are spun up (`Spinning`), and a closing database holds no log before
  the last frame (`Folded`). `IndexFollowsTable` and
  `ShutdownComplete` are read off; `NothingOvertaken` adds that where jobs create
  no rows there is no such row.
- `OnionFramesProofs`, for any number of slots, copies of each, objects and
  frames, assuming that one thread creates and renders (`OneThread`; section 6
  has what happens otherwise). First arithmetic: that the least common multiple
  is one, hence that a copy kept for `frame % maxFrameswap` shows the images of
  `frame % frameswapCount` (`Turns`, `CopyOf`), and `SameRemainder`: frames that
  use one copy are a turn apart. The invariant (`PipelineHolds`) is then a chain.
  The frames in flight are the last `cmdFrameswapCount` (`Timing`). The three
  pools hand out the same numbers, as nothing comes between the halves of
  `create` (`Lockstep`), so a recycled object has its old target. An image's
  stamp is not after the next frame that uses it (`Stamped`) - the reason why
  stamps in the future do no harm - and a copy as new as the window's size has
  that size (`Sized`). A kept view is of its keeper's own image, and of the
  current one unless a newer was made after the keeper was last looked at
  (`Current`, `ExternalCurrent`), which recording then does (`Looked`):
  `OwnImagesDrawn` and `SizesGetThrough`. What is collected is older than what
  has replaced it, so nothing collected is still kept (`GarbageOld`), and it is
  used by no frame after the latest of its collector's frames (`GarbageIdle`);
  as that frame has ended when the collector is emptied, what is in use is alive
  (`InUseAlive`), which is `InUseStays`. `CpuWaitsAlways`: a wait of `fillWrites`
  reaches back to the last frame with the same copy (`WaitLongEnough`).
- `DbTableProofs`, for any number of threads, rows, logs and frames. A chain is
  the sequence that its links spell from `firstLog` on (`Spelled`); that the walk
  of `Chain` meets that sequence and no more is `PathMet`. Chains are then
  sequences in use, linked backwards, in the order of their frames, and no two
  share a log (`Chained`); `lastLog` is the last of its chain except while a log
  is linked, and no row but one that comes or goes ends on a delete log (`Ends`).
  None of this is inductive without what the threads have in hand: one writer per
  row (`OneWriter`), whose new log is on no chain and has nothing before it
  (`InHand`); and without `Closed`, that nothing allocated links to a freed log and
  no log that `allocate` has forgotten leads into a chain - such logs stay in the
  file, and a reader may still be on one. `Readers` says where readers are. A call
  appends to one sequence (`LinkStep`), empties one (`ResetStep`), or cuts the head
  off all: what `applyLogs` folds is a prefix, frames being in order
  (`FoldedFacts`), and at the end of a frame each row keeps the rest
  (`EndFrameEffect`, `ChainsCut`). `ChainsStaySound` is read off. `LoadsSeeOneState`
  follows as the logs a load has passed were not newer than its frame and the next
  one is (`WalkEnds`). `TableRefines` maps `Allocate` to `List`, `Reset` to
  `Forget`, `Link` to `Write`, `Unlist` to itself and `EndFrame` to `NextFrame`;
  every other step stutters.
- `RuntimeProofs`, the services of step 9 in the specification of `MCRuntime`. Each
  has an inductive invariant that names its own state only, and so survives the
  others' steps.
  - `cmdPool`, any number of threads and commands. A command is in its pool once at
    most, not while the thread has it, and the device executes only what is in the
    pool or about to be (`CommandsApart`); with what fences say of both
    (`FencesTell`) a command that `allocate` reuses is executed no more, although
    it looks at the oldest one alone. That nobody shares a queue follows from who
    holds `lowPrioQueueMutex` (`QueuesHeld`) where the device has two queues, as
    `CommandsAreGuarded` assumes; section 6 has the device with one.
  - `spawnThread`. `HandshakeHolds` alone is not inductive. Parent and thread point
    at each other (`Paired`), the place of the parent fixes `sem` and how far the
    thread may be (`InStep`), and the fields of the map follow the two
    (`Registered`). The only steps that use `sem` are at places where `InStep` has
    the parent still waiting.
  - `window`, any number of images. The queue has a blit and a present of one set
    after the other (`Chained`, `Ended`), from as many sets back as images wait in
    it to be shown (`Recent`). An image waits at most once, so that with two sets
    more than images the set `present` turns to is none of these, and only these
    have semaphores in use (`InUse`). `PresentTakesIdleSemaphores` assumes
    `ScreenAnswers`: an acquire may time out or find the swapchain out of date, and
    every acquire and present that goes on succeeds. With the other answers the
    code does leave a semaphore signalled, and the property is false (section 6).
  - `wsound`, any ring and number of threads. What was pushed is what was played and
    what waits between the cursors (`RingInv`). The list of continuous sounds is
    either filled, each place below the count being there or some thread's that is
    about to store, threads past the limit having counted themselves in for
    nothing, or it is cleared by one thread (`ListInv`).
  - `winput`, any number of controls and readers. The axis of every control is the
    sum of what was handed over (`ControlsSummed`; counts by way of the sets of
    positions, minimum and maximum by their bounds), the keyboard buffer is one key
    ahead at most (`KeysBuffered`), and nobody reads while a poll hands over
    (`LockHeld`).
  - `gpu`, any number of threads, objects, types and heaps, any sizes. A handle has
    one owner, object or call (`Owners`), and a heap's counter with the bytes of the
    blocks booked on it is its budget modulo the word (`Accounted`). It says nothing
    of wrapping: `WithinBudget` is false (section 6).

Where one of these needs an induction over positions, over the size of a set or
over numbers, it looks at a least counterexample instead (`WFMin` of the library
with `NatLessThanWellFounded`), since the induction theorems proper take an
operator as their parameter.

Only model-checked: liveness (`NoStarvation`, `ReadersServed`, `EveryJobRuns`),
which is beyond the prover, and what recursive operators compute, about which
nothing can be stated to it: `DbIndex` (`LookupsExact`, `NodesAccounted`) and
`OnionPlan` (`LayoutsAgree`, `UsesSeparated`, `StepsHaveSwitches`). Only proved,
and in no run: the type invariants of `SyncLock`, `ConcurrentReadSyncLock`,
`ThreadPool`, `CmdPool`, `Thread` and `Database`, `TicketOrder`,
`SectionsGuarded`, `BackupNeverEnds` and `NothingOvertaken`.

## 6. Where the code disagrees with what it says

With a run whose property states the sentence and that TLC refutes:

1. *A row can be updated before it is in the index* (`database_index`,
   Tests/database.cpp:96). `create` lists the row first; the walk may reach it
   before `create` is through. The same order lets a job store to a row that
   `allocate` is still resetting.
2. *`minFrame` is always the largest integer* (`database_min_frame`,
   dbTable.hpp:307-311). The backup thread's loop never ends, no backup is
   written, logs are never applied again after a request, and
   `gracefulShutdown` spins. `BackupTurn` models the rest of the thread all the
   same, so that a corrected `minFrame` can be checked by changing one definition.
3. *No barrier between a read and a later write* (`onion_read_then_write`,
   onionUtils.hpp:182). Whether two uses need a barrier is decided from one
   access only.

With a property, or a value of a constant, that TLC refutes in one of the
configurations of this directory; no run keeps them (properties of `Vram`, `Input`
and `Sound` are reached from `MCRuntime` through the instance, as
`Memory!WithinBudget`):

| what | source | how to see it |
|---|---|---|
| Data of the previous frame is not stable: `load` starts at the first log whatever its frame | dbTable.hpp:186-199, database.hpp:326 | `PriorFrameStable` as PROPERTY in `DbTable.cfg` |
| Logs of a previous holder are dropped, not flushed: `free` gives the row back with its delete log unapplied, `allocate` forgets the chain | dbTable.hpp:70, 162-175 | `PreviousHolderFlushed` in `DbTable.cfg` |
| A row misses its update when a job destroys the row after its own | database.hpp:26, 97, dbFile.hpp:265 | `Database.cfg` with `DestroyOthers = TRUE` |
| The index keeps a row that is gone: its job destroyed it before its create had indexed it | database.hpp:282, 341 | `IndexAgrees` stated of all `Rows`, without `\ overtaken`, in `Database.cfg` |
| The start repairs by count only, and leaves a moved row wrong | database.hpp:121-131, 167 | `StartRepairs` in `Storage.cfg` |
| A rebuild clears the second and later indices every 128 rows | database.hpp:143 | `Storage.cfg` with `FirstIndex = FALSE` |
| Attachments of different sizes, against the assertion at onion.hpp:1728: a resize stamps slots ahead, and a second one in the next frame finds them newer than itself | image.hpp:96-106 | `AttachmentsMatch` in `OnionFrames.cfg` |
| The program writes a host buffer that a frame in flight reads ("double-buffering", README.md:6): two copies, three frames in flight | buffer.hpp, onion.hpp:2066 | `HostWritesApart` in `OnionFrames.cfg` |
| `create` on another thread than `render`: a recycled object is drawn with what it had before | onion.hpp:1048 | `OnionFrames.cfg` with `OneThread = FALSE` |
| A semaphore is used while it is awaited, after a suboptimal acquire or a failed present: both return with the set half used | window.cpp:255-300 | `Runtime.cfg` with `Answers = {"acquire suboptimal"}` or `{"present out of date"}` |
| Two threads on one queue where the device has one: two mutexes guard it | gpu.cpp:134-135 | `Runtime.cfg` with `QueueCount = 1` |
| A heap gives out more than it has: check and subtraction are two steps | gpu.cpp:170 | `WithinBudget` of `Vram` |
| Two readers insert into the map of controls at once | winput.cpp:217 | `InsertsAlone` of `Input` |
| A control has "just changed" without a change (key repeat, the other axis of a hat) | winput.cpp:74 | `ChangedMeansChange` of `Input` |
| The keyboard buffer is written past its end | winput.cpp | `KeyboardFits` of `Input` |
| A sound wraps at half of the ring | wsound.cpp:84-85 | `SoundsInPlace` of `Sound` |
| The callback reads past the list of sounds, or a ring not allocated yet (the device starts before `malloc`) | wsound.cpp:75-76, 90-94 | `CallbackInBounds` of `Sound`, `EarlyDevice = TRUE` |

Seen while reading, with no model: dbTableTuple.hpp:43 asserts the opposite of
what database.hpp:202 passes; a restart after `gracefulShutdown` keeps rows that
refer to a deleted log; `lastLogAppliedFrame` of a row is not reset when it is
used again (why `StampsNotAhead` leaves that field out); gpu.cpp:290 compares
with `>` where the index equal to the count is already out of range;
threadPool.cpp:66 sets `nextWorker` from the loop variable and not from the
worker found, which costs balance only (`EveryJobRuns` holds);
descriptorPoolPool.hpp:26 says thread safe of a queue that nothing locks;
`fillWrites` counts frames without the latency of the reference; `~window`
destroys its semaphores and commands without waiting for them; an average of
`winput` multiplies a time by a value (winput.cpp:210) and may divide by zero;
`justClicked` is `justReleased` (winput.hpp:38).

In the first frames, `frame - cmdFrameswapCount` is below zero and, unsigned,
greater than any frame, so `waitForFrame` returns at once, also in `join` and
`~onion` (onion.hpp:2066, 2088, 2127-2137). With up to three copies nothing
wants to be rewritten that early but by `join` and `~onion`; with four or more,
and a slot that has fewer, a descriptor set can be. `NothingInUseDropped` and
`CpuWaits` say what holds in spite of it, frame by frame: what a frame from
`cmdFrameswapCount - 1` on uses, and what is rewritten from `cmdFrameswapCount`
on. The proof shows that this bound is right for every number of copies.

In `OnionPlan`, a slot whose images end a frame in different layouts (three
images and a latency) agrees with the plan from its first planned barrier on and
unless it is resized: `create` and `applyPendingResize` take the layout of
another image. `LayoutsAgree` is stated so.

## 7. Not modelled

- `advancedSyncLock`: nothing uses it and `holds` is never initialised.
- A crash inside an operation of `dbFile` (`free` pushes before it unlinks,
  dbFile.hpp:248): the files are mapped memory, and nothing recovers. `DbIndex`
  has crashes between operations. Copying and `size` during a growth, which read
  without the lock, are left out as well.
- `Database`: several tables at once, `deleteFiles`; ranges over several indices
  (dbCompoundQuery), whose callers only read.
- `ThreadPool`: the destructor, which drops the queued jobs and joins through a
  pointer that the worker may not have set yet, `onMemberThread`, and jobs that
  submit jobs (none in the sources does).
- `onion`: clears, whose step ids the validator never registers (a description
  with one does not compile); nested compute dispatches, whose body names a member
  `resources` that `target_t` and `source_t` do not have (onion.hpp:1954, 1982), so
  that it does not compile either as soon as a target layout satisfies the shader; the making of Vulkan objects, pipelines, shaders
  and formats; the regions of copies. The row and column order of draws is
  Vulkan's.
- `descriptorPoolPool`'s pools of 256 sets: `OnionFrames` says which set an
  object has. `recyclingPool` has no user.
- `window`: creation, sizes, and the recreation of the swapchain, which the code
  has not either. `gpu`: choosing a device, layers and the caches by hash.
- `winput`: times and averages. `wsound`, `synth`: wave forms.
- For good, what is input and output or computed at compile time without state:
  `mmap`, profiler, options, shutdown flag, `literalList`, `udm` and the other
  template helpers; the programs under PoCs and Tests, which were read for how
  the engine is called.
