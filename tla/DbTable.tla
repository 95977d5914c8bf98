------------------------------ MODULE DbTable -----------------------------
(***************************************************************************)
(* A table of WITE/dbTable.hpp: a file of master rows, each with a chain   *)
(* of log rows in a second file.  Threads allocate, free, store and load   *)
(* concurrently, within the limits dbTable.hpp:171, 179, 208 and 215 set   *)
(* to callers: store and free of one row never overlap, and logs are       *)
(* applied while no other call is running.                                 *)
(*                                                                         *)
(* The two row files are dbFiles: DbFile shows that each hands out a row   *)
(* that is not in use, which is all this module needs of them.             *)
(***************************************************************************)
EXTENDS Naturals, FiniteSets, SequencesExt

CONSTANTS
  Threads, RowIds,
  LogCount,        \* bound: rows of the log file
  Values, Deleted, NONE,
  MinLogHistory,   \* MIN_LOG_HISTORY of constants.hpp
  MaxFrame         \* bound: frames played

LogIds == 1 .. LogCount

ASSUME DbTableAssumption ==
  /\ LogCount \in Nat /\ MinLogHistory \in Nat /\ MaxFrame \in Nat \ {0}
  /\ Deleted \notin Values /\ NONE \notin RowIds /\ NONE \notin LogIds /\ NONE \notin Values \union {Deleted}

VARIABLES
  currentFrame,    \* the database's frame counter
  rows,            \* allocated rows of the master file
  master,          \* what each master row holds
  logs,            \* what each log row holds, in use or not
  logRows,         \* allocated rows of the log file
  pc,              \* where each thread is in the code
  at,              \* the master row its call is about
  tl,              \* its local log: nlid in appendLog, tl in load
  arg,             \* the data it writes, or the frame it reads
  out              \* what its load returned

disk == <<rows, master, logs, logRows>>
local == <<pc, at, tl, arg, out>>
vars == <<currentFrame, rows, master, logs, logRows, pc, at, tl, arg, out>>

Init ==
  /\ currentFrame = 1
  /\ rows = {} /\ logRows = {}
  /\ \E d \in Values : master = [r \in RowIds |-> [firstLog |-> NONE, lastLog |-> NONE,
                                                   lastCreatedFrame |-> 0, data |-> d]]
  /\ logs = [l \in LogIds |-> [frame |-> 0, data |-> Deleted, previousLog |-> NONE, nextLog |-> NONE]]
  /\ pc = [t \in Threads |-> "idle"]
  /\ at = [t \in Threads |-> NONE] /\ tl = [t \in Threads |-> NONE]
  /\ arg = [t \in Threads |-> NONE] /\ out = [t \in Threads |-> NONE]

Goto(t, place) == pc' = [pc EXCEPT ![t] = place]

(* The call returns: its locals are gone.                                  *)
Return(t) ==
  /\ Goto(t, "idle")
  /\ at' = [at EXCEPT ![t] = NONE] /\ tl' = [tl EXCEPT ![t] = NONE]
  /\ arg' = [arg EXCEPT ![t] = NONE] /\ out' = [out EXCEPT ![t] = NONE]

Writing == {"reset", "append", "link", "finish", "unlist"}

WritersOf(r) == {t \in Threads : at[t] = r /\ pc[t] \in Writing}

(* Bound: a write starts only if LogCount has room for the pending ones.   *)
LogLeft ==
  Cardinality({t \in Threads : pc[t] \in {"reset", "append"}}) < Cardinality(LogIds \ logRows)

Call(t, place, r, x) ==
  /\ pc[t] = "idle"
  /\ Goto(t, place)
  /\ at' = [at EXCEPT ![t] = r]
  /\ arg' = [arg EXCEPT ![t] = x]

(***************************************************************************)
(* allocate: the master file lists the row, then the row is reset, then    *)
(* its first log is appended.                                              *)
(***************************************************************************)
Allocate(t, r, d) ==
  /\ r \notin rows /\ LogLeft
  /\ Call(t, "reset", r, d)
  /\ rows' = rows \union {r}
  /\ UNCHANGED <<currentFrame, master, logs, logRows, tl, out>>

Reset_KeepsLast(t) ==
  /\ pc[t] = "reset"
  /\ master' = [master EXCEPT ![at[t]].firstLog = NONE, ![at[t]].lastCreatedFrame = currentFrame]
  /\ Goto(t, "append")
  /\ UNCHANGED <<currentFrame, rows, logs, logRows, at, tl, arg, out>>

Reset(t) ==
  /\ pc[t] = "reset"
  /\ master' = [master EXCEPT ![at[t]].firstLog = NONE, ![at[t]].lastLog = NONE,
                             ![at[t]].lastCreatedFrame = currentFrame]
  /\ Goto(t, "append")
  /\ UNCHANGED <<currentFrame, rows, logs, logRows, at, tl, arg, out>>

Store(t, r, d) ==
  /\ r \in rows /\ WritersOf(r) = {} /\ LogLeft
  /\ Call(t, "append", r, d)
  /\ UNCHANGED <<currentFrame, disk, tl, out>>

(* free: a delete log, and then the row is back in the master file's stack.*)
Free(t, r) ==
  /\ r \in rows /\ WritersOf(r) = {} /\ LogLeft
  /\ Call(t, "append", r, Deleted)
  /\ UNCHANGED <<currentFrame, disk, tl, out>>

(***************************************************************************)
(* appendLog, first part: a write to a deleted row is dropped; else a log  *)
(* row is allocated and filled, which nobody can see yet.                  *)
(***************************************************************************)
Append0(t) ==
  LET m == master[at[t]] IN
  /\ pc[t] = "append"
  /\ IF m.lastLog # NONE /\ logs[m.lastLog].data = Deleted
     THEN Return(t) /\ UNCHANGED <<logs, logRows>>
     ELSE \E l \in LogIds \ logRows :
            /\ \A k \in LogIds \ logRows : l <= k
            /\ logRows' = logRows \union {l}
            /\ logs' = [logs EXCEPT ![l] = [frame |-> currentFrame, data |-> arg[t],
                                            previousLog |-> m.lastLog, nextLog |-> NONE]]
            /\ tl' = [tl EXCEPT ![t] = l]
            /\ Goto(t, "link")
            /\ UNCHANGED <<at, arg, out>>
  /\ UNCHANGED <<currentFrame, rows, master>>

(* Second part: the log becomes reachable from the first one ...           *)
Link(t) ==
  LET m == master[at[t]] IN
  /\ pc[t] = "link"
  /\ IF m.firstLog = NONE
     THEN master' = [master EXCEPT ![at[t]].firstLog = tl[t]] /\ UNCHANGED logs
     ELSE logs' = [logs EXCEPT ![m.lastLog].nextLog = tl[t]] /\ UNCHANGED master
  /\ Goto(t, "finish")
  /\ UNCHANGED <<currentFrame, rows, logRows, at, tl, arg, out>>

(* ... and then is the last one.                                           *)
Finish(t) ==
  /\ pc[t] = "finish"
  /\ master' = [master EXCEPT ![at[t]].lastLog = tl[t]]
  /\ IF arg[t] = Deleted THEN Goto(t, "unlist") /\ UNCHANGED <<at, tl, arg, out>>
                         ELSE Return(t)
  /\ UNCHANGED <<currentFrame, rows, logs, logRows>>

Unlist(t) ==
  /\ pc[t] = "unlist"
  /\ rows' = rows \ {at[t]}
  /\ Return(t)
  /\ UNCHANGED <<currentFrame, master, logs, logRows>>

(***************************************************************************)
(* load, of a row in use or of one freed earlier: the first log is read    *)
(* once; without a log the row itself is copied.                           *)
(***************************************************************************)
Load(t, r, f) ==
  /\ r \in rows \/ master[r].lastLog # NONE
  /\ \A u \in WritersOf(r) : pc[u] # "reset"
  /\ Call(t, IF master[r].firstLog = NONE THEN "loaded" ELSE "walk", r, f)
  /\ tl' = [tl EXCEPT ![t] = master[r].firstLog]
  /\ out' = [out EXCEPT ![t] = IF master[r].firstLog = NONE THEN master[r].data ELSE NONE]
  /\ UNCHANGED <<currentFrame, disk>>

\* What the database reads: the frame that is being written, under a mutex of
\* the row that no writer takes, or the frame before it.
readCurrent(t, r) == Load(t, r, currentFrame)
readCommitted(t, r) == Load(t, r, currentFrame - 1)

Walk_FromLast(t) ==
  /\ pc[t] = "walk"
  /\ out' = [out EXCEPT ![t] = logs[IF master[at[t]].lastLog = NONE THEN tl[t]
                                    ELSE master[at[t]].lastLog].data]
  /\ Goto(t, "loaded")
  /\ UNCHANGED <<currentFrame, disk, at, tl, arg>>

(* From log to log, as long as the next one is not of a later frame.       *)
Walk(t) ==
  LET next == logs[tl[t]].nextLog IN
  /\ pc[t] = "walk"
  /\ IF next # NONE /\ logs[next].frame <= arg[t]
     THEN tl' = [tl EXCEPT ![t] = next] /\ UNCHANGED <<pc, out>>
     ELSE /\ out' = [out EXCEPT ![t] = logs[tl[t]].data]
          /\ Goto(t, "loaded")
          /\ UNCHANGED tl
  /\ UNCHANGED <<currentFrame, disk, at, arg>>

LoadReturns(t) ==
  /\ pc[t] = "loaded"
  /\ Return(t)
  /\ UNCHANGED <<currentFrame, disk>>

(* The logs of a row as a walk from firstLog meets them.                   *)
After == [l \in LogIds \union {NONE} |-> IF l = NONE THEN NONE ELSE logs[l].nextLog]

Met(r) ==
  LET met[n \in LogIds] == IF n = 1 THEN master[r].firstLog ELSE After[met[n - 1]]
  IN met

Chain(r) == LET met == Met(r) IN [n \in {n \in LogIds : met[n] # NONE} |-> met[n]]

(***************************************************************************)
(* applyLogs for one row: how many logs at the head of its chain are not   *)
(* newer than frame f.  None, if the first log is newer.                   *)
(***************************************************************************)
Folded_OneTooMany(r, f) ==
  LET c == Chain(r)
  IN Cardinality({k \in DOMAIN c : \A j \in 1 .. k : logs[c[j]].frame <= f + 1})

Folded(r, f) ==
  LET c == Chain(r)
  IN Cardinality({k \in DOMAIN c : \A j \in 1 .. k : logs[c[j]].frame <= f})

(* What is left of a row, n of its logs folded: the last of them becomes   *)
(* the row, its successor the first of the chain.                          *)
Applied(r, n) ==
  [master[r] EXCEPT
     !.firstLog = IF n = Len(Chain(r)) THEN NONE ELSE Chain(r)[n + 1],
     !.lastLog  = IF n = Len(Chain(r)) THEN NONE ELSE @,
     !.data = logs[Chain(r)[n]].data]

(* applyLogsAll: the folded logs are freed and the next has no predecessor.*)
(* (A listed row has no delete log here: free unlists it in the same call.)*)
ApplyAll(f) ==
  LET n == [r \in rows |-> Folded(r, f)]
      heads == {Chain(r)[n[r] + 1] : r \in {q \in rows : n[q] \in 1 .. Len(Chain(q)) - 1}}
      dropped == UNION {{Chain(r)[k] : k \in 1 .. n[r]} : r \in rows}
  IN /\ master' = [r \in RowIds |-> IF r \in rows /\ n[r] > 0 THEN Applied(r, n[r]) ELSE master[r]]
     /\ logRows' = logRows \ dropped
     /\ logs' = [l \in LogIds |-> IF l \in heads
                                  THEN [logs[l] EXCEPT !.previousLog = NONE] ELSE logs[l]]

(* database::endFrame, once all jobs are done and no backup runs.          *)
EndFrame ==
  /\ currentFrame < MaxFrame
  /\ \A t \in Threads : pc[t] = "idle"
  /\ IF currentFrame > MinLogHistory THEN ApplyAll(currentFrame - MinLogHistory)
                                     ELSE UNCHANGED <<master, logs, logRows>>
  /\ currentFrame' = currentFrame + 1
  /\ UNCHANGED <<rows, local>>

Next ==
  \/ \E t \in Threads, r \in RowIds :
       \/ \E d \in Values : Allocate(t, r, d) \/ Store(t, r, d)
       \/ Free(t, r)
       \/ readCurrent(t, r) \/ readCommitted(t, r)
  \/ \E t \in Threads :
       \/ Reset(t) \/ Append0(t) \/ Link(t) \/ Finish(t) \/ Unlist(t)
       \/ Walk(t) \/ LoadReturns(t)
  \/ EndFrame

Spec == Init /\ [][Next]_vars

-----------------------------------------------------------------------------
(* Every variable has the values its code can give it.                     *)
TypeOK ==
  /\ currentFrame \in 1 .. MaxFrame
  /\ rows \subseteq RowIds /\ logRows \subseteq LogIds
  /\ master \in [RowIds -> [firstLog : LogIds \union {NONE}, lastLog : LogIds \union {NONE},
                            lastCreatedFrame : 0 .. MaxFrame, data : Values]]
  /\ logs \in [LogIds -> [frame : 0 .. MaxFrame, data : Values \union {Deleted},
                          previousLog : LogIds \union {NONE}, nextLog : LogIds \union {NONE}]]
  /\ pc \in [Threads -> Writing \union {"idle", "walk", "loaded"}]
  /\ at \in [Threads -> RowIds \union {NONE}] /\ tl \in [Threads -> LogIds \union {NONE}]
  /\ arg \in [Threads -> Values \union {Deleted, NONE} \union 0 .. MaxFrame]
  /\ out \in [Threads -> Values \union {Deleted, NONE}]

(* The chain of a row, as the file has it.                                 *)
Sound(r) ==
  LET c == Chain(r) IN
  /\ (c = <<>>) = (master[r].lastLog = NONE)
  /\ c # <<>> => Last(c) = master[r].lastLog
  /\ ToSet(c) \subseteq logRows
  /\ \A k \in DOMAIN c :
       /\ logs[c[k]].previousLog = IF k = 1 THEN NONE ELSE c[k - 1]
       /\ k > 1 => logs[c[k - 1]].frame <= logs[c[k]].frame
       /\ k < Len(c) => logs[c[k]].data # Deleted

(* A row nobody is writing has a chain of allocated logs that ends at      *)
(* lastLog, reads the same backwards and never goes back in time; a delete *)
(* log can only be the last.  No log is on the chains of two rows, and the *)
(* log a reader stands on stays allocated until its load returns: applyLogs *)
(* frees none that somebody still reaches.                                 *)
ChainsSound ==
  /\ TypeOK
  /\ \A r \in RowIds : WritersOf(r) = {} => Sound(r)
  /\ \A r \in RowIds : \A q \in RowIds \ {r} : ToSet(Chain(r)) \intersect ToSet(Chain(q)) = {}
  /\ \A t \in Threads : pc[t] = "walk" => tl[t] \in logRows

TheLogs(r) ==
  LET c == Chain(r)
  IN [k \in DOMAIN c |-> [frame |-> logs[c[k]].frame, data |-> logs[c[k]].data]]

Table == INSTANCE LogTable WITH
  History <- MinLogHistory,
  now    <- currentFrame,
  chain  <- [r \in RowIds |-> TheLogs(r)],
  stored <- [r \in RowIds |-> master[r].data]

(* The two files with their links behave as one sequence of logs per row.  *)
ImplementsLogTable == Table!Spec

AsOf(r, f) == Table!AsOf(TheLogs(r), master[r].data, f)

LoadEnds(t) ==
  pc[t] = "walk" /\ pc'[t] = "loaded" /\ tl[t] \in ToSet(Chain(at[t]))
    => out'[t] = AsOf(at[t], arg[t])

(* load's walk ends on what the table holds for its frame at that moment,  *)
(* however many logs were appended on the way (dbTable.hpp:179, 184-185) - *)
(* unless the row has a new holder.                                        *)
LoadsAtomic == [][\A t \in Threads : LoadEnds(t)]_vars

PriorFrameStays(r) ==
  r \in rows /\ master[r].lastCreatedFrame < currentFrame /\ currentFrame' = currentFrame
    => AsOf(r, currentFrame - 1)' = AsOf(r, currentFrame - 1)

(* What database.hpp:326 says of readCommitted: the data of the frame      *)
(* before the current one does not change, for a row that existed then.    *)
PriorFrameStable == [][\A r \in RowIds : PriorFrameStays(r)]_vars

(* What dbTable.hpp:162 says of allocate: the logs of the row's previous   *)
(* holder have been flushed by the time it is handed out again.            *)
PreviousHolderFlushed ==
  \A t \in Threads : pc[t] = "reset" => Chain(at[t]) = <<>>

===========================================================================
