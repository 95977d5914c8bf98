----------------------------- MODULE Database -----------------------------
(***************************************************************************)
(* The frame loop of WITE/database.hpp over one table with an index.  The  *)
(* main thread walks the list of rows and submits one update job per row   *)
(* while the pool's workers already run the first of them; jobs write      *)
(* their row, destroy it, and create others.  The end of a frame waits for *)
(* the jobs and folds old logs, unless the backup thread is at work.       *)
(*                                                                         *)
(* Of a log only the frame is kept (DbTable has the rest), of the index    *)
(* which rows it holds, and of the pool that a submitted job runs once, on *)
(* some worker, in any order.                                              *)
(***************************************************************************)
EXTENDS Integers, FiniteSets, SequencesExt

CONSTANTS
  Rows, Workers, Main, None,
  History,        \* MIN_LOG_HISTORY of constants.hpp
  LastFrame,      \* bound: frames played
  Top,            \* the largest uint64_t, which is the code's NONE
  JobsCreate,     \* whether the application's jobs create rows,
  DestroyOthers   \* and whether they destroy other rows than their own

ASSUME DatabaseAssumption ==
  /\ None \notin Rows /\ Main \notin Workers
  /\ History \in Nat /\ LastFrame \in Nat \ {0} /\ Top \in Nat
  /\ JobsCreate \in BOOLEAN /\ DestroyOthers \in BOOLEAN

VARIABLES
  currentFrame,
  order,          \* the listed rows, in the order of the list
  logged,         \* the frames each row has logs of
  applied,        \* lastLogAppliedFrame
  created,        \* lastCreatedFrame
  indexed,        \* rows the index holds
  up,             \* rows that are spun up
  queue,          \* jobs submitted and not yet taken: <<what, row>>
  iter,           \* where updateAll's iterator stands
  pc,             \* where the main thread and each worker are
  doing,          \* the row whose job a worker runs
  target,         \* the row its create or destroy is about
  backupInProgress,
  backupThread,   \* "none", or how far the spawned thread is
  applyFrame,     \* its local
  \* History, which no guard reads:
  begun, seen,    \* rows listed when updateTick began; rows submitted since
  overtaken,      \* rows a job destroyed, or took from the index, before their create got there
  asked           \* the frame of the latest requestBackup

table == <<order, logged, applied, created>>
backup == <<backupInProgress, backupThread, applyFrame>>
ghosts == <<begun, seen, overtaken, asked>>
vars == <<currentFrame, order, logged, applied, created, indexed, up, queue, iter, pc,
          doing, target, backupInProgress, backupThread, applyFrame, begun, seen, overtaken, asked>>

Actors == Workers \union {Main}
Listed == ToSet(order)

(* A new database, opened with both files clobbered.                       *)
Init ==
  /\ currentFrame = 1
  /\ order = <<>>
  /\ logged = [r \in Rows |-> {}]
  /\ applied = [r \in Rows |-> 0] /\ created = [r \in Rows |-> 0]
  /\ indexed = {} /\ up = {} /\ queue = {}
  /\ iter = None
  /\ pc = [a \in Actors |-> "idle"]
  /\ doing = [w \in Workers |-> None] /\ target = [a \in Actors |-> None]
  /\ backupInProgress = FALSE /\ backupThread = "none" /\ applyFrame = 0
  /\ begun = {} /\ seen = {} /\ overtaken = {} /\ asked = 0

Goto(a, place) == pc' = [pc EXCEPT ![a] = place]
Moves(a, from, to) == pc[a] = from /\ Goto(a, to)

AllDone_QueueOnly == queue = {}

(* threadPool::waitForAll returns.                                         *)
AllDone == queue = {} /\ \A w \in Workers : pc[w] = "idle"

(***************************************************************************)
(* The frames of the files.                                                *)
(***************************************************************************)
Newest(S) == CHOOSE x \in S : \A y \in S : y <= x

maxFrame ==
  Newest({0} \union UNION {IF logged[r] = {} THEN {applied[r], created[r]} ELSE logged[r] : r \in Listed})

minFrame == Newest({Top} \union UNION {{applied[r], created[r]} : r \in Listed})

(* applyLogsThrough, on the frames only.                                   *)
Upto(r, f) == {g \in logged[r] : r \in Listed /\ g <= f}

applyLogsThrough(f) ==
  /\ logged' = [r \in Rows |-> logged[r] \ Upto(r, f)]
  /\ applied' = [r \in Rows |-> IF Upto(r, f) = {} THEN applied[r] ELSE Newest(Upto(r, f))]
  /\ UNCHANGED <<order, created>>

(***************************************************************************)
(* updateTick: once all jobs are done, one job per row.  The iterator is   *)
(* moved on before the job is submitted.                                   *)
(***************************************************************************)
updateTick ==
  /\ AllDone
  /\ Moves(Main, "idle", "updating")
  /\ iter' = IF order = <<>> THEN None ELSE Head(order)
  /\ begun' = Listed /\ seen' = {}
  /\ UNCHANGED <<currentFrame, table, indexed, up, queue, doing, target, backup, overtaken, asked>>

(* The successor in the list; a row that left it has none (its links are   *)
(* cleared), and one that came back is its last.                           *)
After(r) ==
  LET here == {k \in DOMAIN order : order[k] = r /\ k < Len(order)}
  IN IF here = {} THEN None ELSE order[1 + CHOOSE k \in here : TRUE]

Submit_SkipsOne ==
  /\ pc[Main] = "updating" /\ iter # None
  /\ queue' = queue \union {<<"update", iter>>}
  /\ seen' = seen \union {iter}
  /\ iter' = IF After(iter) = None THEN None ELSE After(After(iter))
  /\ UNCHANGED <<currentFrame, table, indexed, up, pc, doing, target, backup, begun, overtaken, asked>>

Submit ==
  /\ pc[Main] = "updating" /\ iter # None
  /\ queue' = queue \union {<<"update", iter>>}
  /\ seen' = seen \union {iter}
  /\ iter' = After(iter)
  /\ UNCHANGED <<currentFrame, table, indexed, up, pc, doing, target, backup, begun, overtaken, asked>>

AllSubmitted ==
  /\ iter = None
  /\ Moves(Main, "updating", "updated")
  /\ UNCHANGED <<currentFrame, table, indexed, up, queue, iter, doing, target, backup, ghosts>>

(***************************************************************************)
(* A worker takes a job.  The application's update first reads its row and *)
(* leaves if the row is gone.                                              *)
(***************************************************************************)
TakeJob(w, r) ==
  /\ pc[w] = "idle" /\ <<"update", r>> \in queue
  /\ queue' = queue \ {<<"update", r>>}
  /\ IF r \in Listed THEN Goto(w, "update") /\ doing' = [doing EXCEPT ![w] = r]
                     ELSE UNCHANGED <<pc, doing>>
  /\ UNCHANGED <<currentFrame, table, indexed, up, iter, target, backup, ghosts>>

JobReturns(w) ==
  /\ Moves(w, "update", "idle")
  /\ doing' = [doing EXCEPT ![w] = None]
  /\ UNCHANGED <<currentFrame, table, indexed, up, queue, iter, target, backup, ghosts>>

(* Whether someone's create of the row is at one of these places.          *)
CreateAt(r, places) == \E a \in Actors : target[a] = r /\ pc[a] \in places

(* write: with new index values the row moves in the index first.          *)
WriteUnindexes_Forgets(w) ==
  /\ Moves(w, "update", "write")
  /\ indexed' = indexed \ {doing[w]}
  /\ overtaken' = overtaken \union {r \in {doing[w]} : CreateAt(r, {"listed", "allocated"})}
  /\ UNCHANGED <<currentFrame, table, up, queue, iter, doing, target, backup, begun, seen, asked>>

WriteUnindexes(w) ==
  /\ Moves(w, "update", "unindexed")
  /\ indexed' = indexed \ {doing[w]}
  /\ overtaken' = overtaken \union {r \in {doing[w]} : CreateAt(r, {"listed", "allocated"})}
  /\ UNCHANGED <<currentFrame, table, up, queue, iter, doing, target, backup, begun, seen, asked>>

WriteIndexes(w) ==
  /\ Moves(w, "unindexed", "write")
  /\ indexed' = indexed \union {doing[w]}
  /\ UNCHANGED <<currentFrame, table, up, queue, iter, doing, target, backup, ghosts>>

Write(w) ==
  /\ pc[w] \in {"update", "write"}
  /\ logged' = [logged EXCEPT ![doing[w]] = @ \union {currentFrame}]
  /\ Goto(w, "idle")
  /\ doing' = [doing EXCEPT ![w] = None]
  /\ UNCHANGED <<currentFrame, order, applied, created, indexed, up, queue, iter, target, backup, ghosts>>

(***************************************************************************)
(* create: the row is listed, then reset and given its first log, then     *)
(* indexed, then allocated and spun up.  A job calls it, or the main       *)
(* thread between frames.                                                  *)
(***************************************************************************)
Ready(a) == pc[a] = IF a = Main THEN "idle" ELSE "update"
Resume(a) == /\ Goto(a, IF a = Main THEN "idle" ELSE "update")
             /\ target' = [target EXCEPT ![a] = None]

create(a, r) ==
  /\ Ready(a) /\ r \notin Listed /\ (JobsCreate \/ a = Main)
  /\ order' = Append(order, r)
  /\ Goto(a, "listed")
  /\ target' = [target EXCEPT ![a] = r]
  /\ UNCHANGED <<currentFrame, logged, applied, created, indexed, up, queue, iter, doing, backup, ghosts>>

CreateWrites(a) ==
  /\ Moves(a, "listed", "allocated")
  /\ logged' = [logged EXCEPT ![target[a]] = {currentFrame}]
  /\ created' = [created EXCEPT ![target[a]] = currentFrame]
  /\ UNCHANGED <<currentFrame, order, applied, indexed, up, queue, iter, doing, target, backup, ghosts>>

CreateIndexes(a) ==
  /\ Moves(a, "allocated", "indexed")
  /\ indexed' = indexed \union {target[a]}
  /\ UNCHANGED <<currentFrame, table, up, queue, iter, doing, target, backup, ghosts>>

CreateSpinsUp(a) ==
  /\ pc[a] = "indexed"
  /\ up' = up \union {target[a]}
  /\ Resume(a)
  /\ UNCHANGED <<currentFrame, table, indexed, queue, iter, doing, backup, ghosts>>

(***************************************************************************)
(* destroy: out of the index, spun down, then freed.  A job destroys its   *)
(* own row and, if the application does that, rows no job is about.        *)
(***************************************************************************)
Busy(r) == (\E job \in queue : job[2] = r) \/ \E w \in Workers : doing[w] = r
InHand(r) == \E a \in Actors : target[a] = r

destroy(a, r) ==
  /\ Ready(a) /\ r \in Listed
  /\ \/ a # Main /\ doing[a] = r
     \/ (DestroyOthers \/ a = Main) /\ ~Busy(r) /\ ~InHand(r)
  /\ indexed' = indexed \ {r}
  /\ Goto(a, "deindexed")
  /\ target' = [target EXCEPT ![a] = r]
  /\ overtaken' = overtaken \union {q \in {r} : CreateAt(q, {"listed", "allocated", "indexed"})}
  /\ UNCHANGED <<currentFrame, table, up, queue, iter, doing, backup, begun, seen, asked>>

DestroySpinsDown(a) ==
  /\ Moves(a, "deindexed", "spunDown")
  /\ up' = up \ {target[a]}
  /\ UNCHANGED <<currentFrame, table, indexed, queue, iter, doing, target, backup, ghosts>>

(* free takes the row out of the list, wherever it stands.               *)
Unlinked(r) ==
  IF r \in Listed THEN RemoveAt(order, CHOOSE k \in DOMAIN order : order[k] = r) ELSE order

(* The delete log is on a row no longer listed: no one applies it.         *)
DestroyFrees(a) ==
  LET r == target[a] IN
  /\ pc[a] = "spunDown"
  /\ order' = Unlinked(r)
  /\ logged' = [logged EXCEPT ![r] = {}]
  /\ begun' = begun \ {r} /\ seen' = seen \ {r}
  /\ IF a # Main /\ doing[a] = r
     THEN /\ Goto(a, "idle")
          /\ doing' = [doing EXCEPT ![a] = None] /\ target' = [target EXCEPT ![a] = None]
     ELSE Resume(a) /\ UNCHANGED doing
  /\ UNCHANGED <<currentFrame, applied, created, indexed, up, queue, iter, backup, overtaken, asked>>

(***************************************************************************)
(* endFrame: not while a backup runs are logs folded.                      *)
(***************************************************************************)
endFrame_OneFrameLess ==
  /\ AllDone /\ currentFrame < LastFrame
  /\ Moves(Main, "updated", "idle")
  /\ IF backupInProgress THEN UNCHANGED <<table, backupThread>>
     ELSE /\ backupThread' = "none"
          /\ IF currentFrame > History THEN applyLogsThrough(currentFrame - History - 1) ELSE UNCHANGED table
  /\ currentFrame' = currentFrame + 1
  /\ UNCHANGED <<indexed, up, queue, iter, doing, target, backupInProgress, applyFrame, ghosts>>

endFrame ==
  /\ AllDone /\ currentFrame < LastFrame
  /\ Moves(Main, "updated", "idle")
  /\ IF backupInProgress THEN UNCHANGED <<table, backupThread>>
     ELSE /\ backupThread' = "none"
          /\ IF currentFrame > History THEN applyLogsThrough(currentFrame - History) ELSE UNCHANGED table
  /\ currentFrame' = currentFrame + 1
  /\ UNCHANGED <<indexed, up, queue, iter, doing, target, backupInProgress, applyFrame, ghosts>>

(***************************************************************************)
(* requestBackup and the thread it spawns.  One that is in progress is not *)
(* disturbed (the call returns false).                                     *)
(***************************************************************************)
requestBackup ==
  /\ pc[Main] = "idle" /\ ~backupInProgress
  /\ backupInProgress' = TRUE /\ backupThread' = "spawned"
  /\ asked' = currentFrame
  /\ UNCHANGED <<currentFrame, table, indexed, up, queue, iter, pc, doing, target, applyFrame,
                 begun, seen, overtaken>>

BackupStarts ==
  /\ backupThread = "spawned"
  /\ backupThread' = "waiting"
  /\ applyFrame' = (maxFrame - 1) % (Top + 1)
  /\ UNCHANGED <<currentFrame, table, indexed, up, queue, iter, pc, doing, target, backupInProgress, ghosts>>

(* One turn of its loop, or all that follows the loop.                     *)
BackupTurn ==
  /\ backupThread = "waiting"
  /\ IF minFrame >= applyFrame
     THEN applyFrame' = (maxFrame - 1) % (Top + 1) /\ UNCHANGED <<table, backupInProgress, backupThread>>
     ELSE /\ applyLogsThrough(applyFrame)
          /\ backupInProgress' = FALSE /\ backupThread' = "done"
          /\ UNCHANGED applyFrame
  /\ UNCHANGED <<currentFrame, indexed, up, queue, iter, pc, doing, target, ghosts>>

(***************************************************************************)
(* gracefulShutdown, and the next start of the program, which keeps the    *)
(* rows and starts a new log.                                              *)
(***************************************************************************)
gracefulShutdown ==
  /\ AllDone /\ ~backupInProgress
  /\ Moves(Main, "idle", "spinDown")
  /\ applyLogsThrough(currentFrame - 1)
  /\ queue' = {"spunDown"} \X Listed
  /\ UNCHANGED <<currentFrame, indexed, up, iter, doing, target, backup, ghosts>>

SpinDownJob(r) ==
  /\ <<"spunDown", r>> \in queue
  /\ queue' = queue \ {<<"spunDown", r>>}
  /\ up' = up \ {r}
  /\ UNCHANGED <<currentFrame, table, indexed, iter, pc, doing, target, backup, ghosts>>

Closed_NoWait ==
  /\ Moves(Main, "spinDown", "closed")
  /\ UNCHANGED <<currentFrame, table, indexed, up, queue, iter, doing, target, backup, ghosts>>

Closed ==
  /\ AllDone
  /\ Moves(Main, "spinDown", "closed")
  /\ UNCHANGED <<currentFrame, table, indexed, up, queue, iter, doing, target, backup, ghosts>>

Kept == Newest({0} \union UNION {{applied[r], created[r]} : r \in Listed})

Reopen_AtOne ==
  /\ Moves(Main, "closed", "idle")
  /\ logged' = [r \in Rows |-> {}]
  /\ currentFrame' = 1
  /\ queue' = {"spunUp"} \X Listed
  /\ backupThread' = "none" /\ applyFrame' = 0
  /\ UNCHANGED <<order, applied, created, indexed, up, iter, doing, target, backupInProgress, ghosts>>

Reopen ==
  /\ Moves(Main, "closed", "idle") /\ Kept < LastFrame
  /\ logged' = [r \in Rows |-> {}]
  /\ currentFrame' = Kept + 1
  /\ queue' = {"spunUp"} \X Listed
  /\ backupThread' = "none" /\ applyFrame' = 0
  /\ UNCHANGED <<order, applied, created, indexed, up, iter, doing, target, backupInProgress, ghosts>>

SpinUpJob(r) ==
  /\ <<"spunUp", r>> \in queue
  /\ queue' = queue \ {<<"spunUp", r>>}
  /\ up' = up \union {r}
  /\ UNCHANGED <<currentFrame, table, indexed, iter, pc, doing, target, backup, ghosts>>

Next ==
  \/ updateTick \/ Submit \/ AllSubmitted \/ endFrame
  \/ \E w \in Workers :
       \/ \E r \in Rows : TakeJob(w, r)
       \/ JobReturns(w) \/ WriteUnindexes(w) \/ WriteIndexes(w) \/ Write(w)
  \/ \E a \in Actors :
       \/ \E r \in Rows : create(a, r) \/ destroy(a, r)
       \/ CreateWrites(a) \/ CreateIndexes(a) \/ CreateSpinsUp(a)
       \/ DestroySpinsDown(a) \/ DestroyFrees(a)
  \/ requestBackup \/ BackupStarts \/ BackupTurn
  \/ gracefulShutdown \/ Closed \/ Reopen
  \/ \E r \in Rows : SpinDownJob(r) \/ SpinUpJob(r)

Spec == Init /\ [][Next]_vars

-----------------------------------------------------------------------------
(* Every variable has the values its code can give it.                     *)
TypeOK ==
  /\ currentFrame \in 1 .. LastFrame
  /\ Listed \subseteq Rows /\ IsInjective(order)
  /\ logged \in [Rows -> SUBSET (1 .. LastFrame)]
  /\ applied \in [Rows -> 0 .. LastFrame] /\ created \in [Rows -> 0 .. LastFrame]
  /\ indexed \subseteq Rows /\ up \subseteq Rows
  /\ queue \subseteq {"update", "spunUp", "spunDown"} \X Rows
  /\ iter \in Rows \union {None}
  /\ pc \in [Actors -> {"idle", "updating", "updated", "update", "unindexed", "write", "listed", "allocated",
                        "indexed", "deindexed", "spunDown", "spinDown", "closed"}]
  /\ doing \in [Workers -> Rows \union {None}] /\ target \in [Actors -> Rows \union {None}]
  /\ backupInProgress \in BOOLEAN /\ backupThread \in {"none", "spawned", "waiting", "done"}
  /\ applyFrame \in 0 .. Top
  /\ overtaken \subseteq Rows /\ asked \in 0 .. LastFrame

(* "called every frame" (database.hpp:26): when updateAll is through, every*)
(* row that was listed when it began, and still is, has had its job.       *)
UpdatedEveryFrame == pc[Main] = "updated" => begun \subseteq seen

(* Two jobs are never about the same row at once, so that the writes of    *)
(* jobs to their own rows do not overlap (the rule of dbTable.hpp:208).    *)
OneJobPerRow ==
  \A w \in Workers : doing[w] # None =>
    <<"update", doing[w]>> \notin queue /\ \A v \in Workers \ {w} : doing[v] # doing[w]

(* A row that is listed and not yet reset: what it holds is of the row that*)
(* was there before.                                                       *)
BeingListed(r) == CreateAt(r, {"listed"})

(* The log stays within its window: no row in use has a log older than     *)
(* MIN_LOG_HISTORY frames, and while a backup holds the logs none older    *)
(* than that when it was asked for.                                        *)
WindowKept ==
  \A r \in Listed : BeingListed(r) \/
    \A f \in logged[r] : f + History >= IF backupInProgress THEN asked ELSE currentFrame

(* Between the phases of a frame the index holds exactly the listed rows,  *)
(* whatever rows jobs create meanwhile, but for rows whose own job had them*)
(* in hand before their create was through.                                *)
IndexAgrees ==
  /\ TypeOK
  /\ AllDone /\ pc[Main] \in {"idle", "updated", "closed"} =>
       \A r \in Rows \ overtaken : r \in indexed <=> r \in Listed

(* After a graceful shutdown every row is spun down, and what the deleted  *)
(* log held is in the rows, but for what was written since the last frame  *)
(* ended.  Only a row destroyed before its create was through may be left, *)
(* spun up and gone.                                                       *)
ClosedClean ==
  pc[Main] = "closed" =>
    up \subseteq overtaken \ Listed /\ \A r \in Listed : logged[r] \subseteq {currentFrame}

(* No row in use was created or logged in a frame later than the current   *)
(* one, also after a restart has chosen the frame anew: logs are appended  *)
(* in the order of frames.                                                 *)
StampsNotAhead ==
  \A r \in Listed : BeingListed(r) \/
    (created[r] <= currentFrame /\ \A f \in logged[r] : f <= currentFrame)

(* What Tests/database.cpp:96 and 102 assert: in its own update an object  *)
(* finds itself in the index.                                              *)
IndexedWhenUpdated == \A w \in Workers : pc[w] = "update" => doing[w] \in indexed

(* What dbTable.hpp:308 says of minFrame: the "max frame among actualized  *)
(* data".                                                                  *)
MinFrameActualized ==
  order # <<>> => minFrame = Newest(UNION {{applied[r], created[r]} : r \in Listed})

===========================================================================
