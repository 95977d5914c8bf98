---------------------------- MODULE ThreadPool ----------------------------
(***************************************************************************)
(* WITE/threadPool: each worker has a ring of jobs that one thread at a    *)
(* time fills, under submitMutex, and only the worker empties.  Clients    *)
(* submit jobs and wait for all of them.                                   *)
(*                                                                         *)
(* The mutex is a syncLock: SyncLock shows that it serves in the order of  *)
(* asking, which is what the queue mutex stands for.                       *)
(***************************************************************************)
EXTENDS Naturals, SequencesExt

CONSTANTS
  Clients,
  threadCount,     \* workers are numbered 0 .. threadCount-1
  jobQueueSize,    \* slots of a ring, one of which stays empty
  JobCount         \* bound: jobs submitted

ASSUME PoolAssumption ==
  threadCount \in Nat \ {0} /\ jobQueueSize \in Nat \ {0, 1} /\ JobCount \in Nat

Workers == 0 .. threadCount - 1
Slots == 0 .. jobQueueSize - 1
Jobs == 1 .. JobCount

VARIABLES
  ring,         \* the job each slot of each worker holds, 0 if it never had one
  nextRead, nextWrite,
  nextWorker,
  mutex,        \* the clients that hold or await submitMutex, in order
  pc,           \* where each client is
  k,            \* its loop variable: in submitJob, or i in waitForAll
  payload,      \* the job it submits
  wpc,          \* where each worker is
  issued,       \* jobs handed to submitJob so far
  runs,         \* how often each job has run
  owed          \* history: jobs issued when the client began to wait

rings == <<ring, nextRead, nextWrite>>
history == <<issued, runs, owed>>
vars == <<ring, nextRead, nextWrite, nextWorker, mutex, pc, k, payload, wpc, issued, runs, owed>>

(* nextWorker has no initialiser: it starts with whatever the memory held, *)
(* of which only the remainder by threadCount shows.                       *)
Init ==
  /\ ring = [w \in Workers |-> [s \in Slots |-> 0]]
  /\ nextRead = [w \in Workers |-> 0] /\ nextWrite = [w \in Workers |-> 0]
  /\ nextWorker \in Workers
  /\ mutex = <<>>
  /\ pc = [c \in Clients |-> "idle"] /\ k = [c \in Clients |-> 0]
  /\ payload = [c \in Clients |-> 0]
  /\ wpc = [w \in Workers |-> "poll"]
  /\ issued = 0
  /\ runs = [j \in Jobs |-> 0]
  /\ owed = [c \in Clients |-> {}]

Goto(c, place) == pc' = [pc EXCEPT ![c] = place]

Next1(s) == (s + 1) % jobQueueSize

(***************************************************************************)
(* submitJob.                                                              *)
(***************************************************************************)
submitJob(c) ==
  /\ pc[c] = "idle" /\ issued < JobCount
  /\ issued' = issued + 1
  /\ payload' = [payload EXCEPT ![c] = issued + 1]
  /\ mutex' = Append(mutex, c)
  /\ k' = [k EXCEPT ![c] = 0]
  /\ Goto(c, "look")
  /\ UNCHANGED <<rings, nextWorker, wpc, runs, owed>>

Holds(c) == mutex # <<>> /\ Head(mutex) = c

Aim(c) == (k[c] + nextWorker) % threadCount

HasRoom_Full(w) == TRUE

HasRoom(w) == Next1(nextWrite[w]) # nextRead[w]

(* The first worker with room; round again if no ring has any.             *)
Look(c) ==
  /\ pc[c] = "look" /\ Holds(c)
  /\ IF HasRoom(Aim(c)) THEN Goto(c, "fill") /\ UNCHANGED k
                        ELSE k' = [k EXCEPT ![c] = (@ + 1) % threadCount] /\ UNCHANGED pc
  /\ UNCHANGED <<rings, nextWorker, mutex, payload, wpc, history>>

Fill(c) ==
  /\ pc[c] = "fill"
  /\ ring' = [ring EXCEPT ![Aim(c)][nextWrite[Aim(c)]] = payload[c]]
  /\ Goto(c, "publish")
  /\ UNCHANGED <<nextRead, nextWrite, nextWorker, mutex, k, payload, wpc, history>>

Publish_Unlocked(c) ==
  /\ pc[c] = "publish"
  /\ nextWrite' = [nextWrite EXCEPT ![Aim(c)] = Next1(@)]
  /\ nextWorker' = (k[c] + 1) % threadCount
  /\ payload' = [payload EXCEPT ![c] = 0]
  /\ k' = [k EXCEPT ![c] = 0]
  /\ Goto(c, "idle")
  /\ UNCHANGED <<ring, nextRead, mutex, wpc, history>>

Publish(c) ==
  /\ pc[c] = "publish"
  /\ nextWrite' = [nextWrite EXCEPT ![Aim(c)] = Next1(@)]
  /\ nextWorker' = (k[c] + 1) % threadCount
  /\ mutex' = Tail(mutex)
  /\ payload' = [payload EXCEPT ![c] = 0]
  /\ k' = [k EXCEPT ![c] = 0]
  /\ Goto(c, "idle")
  /\ UNCHANGED <<ring, nextRead, wpc, history>>

(***************************************************************************)
(* workerEntry: the slot is given back only after the job has run.         *)
(***************************************************************************)
StartJob(w) ==
  /\ wpc[w] = "poll"
  /\ nextRead[w] # nextWrite[w]
  /\ wpc' = [wpc EXCEPT ![w] = "running"]
  /\ UNCHANGED <<rings, nextWorker, mutex, pc, k, payload, history>>

JobAt(w) == ring[w][nextRead[w]]

EndJob(w) ==
  /\ wpc[w] = "running"
  /\ runs' = [runs EXCEPT ![JobAt(w)] = @ + 1]
  /\ wpc' = [wpc EXCEPT ![w] = "ran"]
  /\ UNCHANGED <<rings, nextWorker, mutex, pc, k, payload, issued, owed>>

GiveBack_Stays(w) ==
  /\ wpc[w] = "ran"
  /\ wpc' = [wpc EXCEPT ![w] = "poll"]
  /\ UNCHANGED <<rings, nextWorker, mutex, pc, k, payload, history>>

GiveBack(w) ==
  /\ wpc[w] = "ran"
  /\ nextRead' = [nextRead EXCEPT ![w] = Next1(@)]
  /\ wpc' = [wpc EXCEPT ![w] = "poll"]
  /\ UNCHANGED <<ring, nextWrite, nextWorker, mutex, pc, k, payload, history>>

(***************************************************************************)
(* waitForAll: one worker after the other until each was seen empty once.  *)
(***************************************************************************)
waitForAll(c) ==
  /\ pc[c] = "idle"
  /\ owed' = [owed EXCEPT ![c] = {j \in 1 .. issued : \A d \in Clients : payload[d] # j}]
  /\ k' = [k EXCEPT ![c] = 0]
  /\ Goto(c, "wait")
  /\ UNCHANGED <<rings, nextWorker, mutex, payload, wpc, issued, runs>>

SeesEmpty_ByStart(w) == nextRead[w] = nextWrite[w] \/ wpc[w] # "poll"

SeesEmpty(w) == nextRead[w] = nextWrite[w]

WaitOne(c) ==
  /\ pc[c] = "wait" /\ SeesEmpty(k[c])
  /\ IF k[c] = threadCount - 1 THEN Goto(c, "waited") /\ k' = [k EXCEPT ![c] = 0]
                               ELSE UNCHANGED pc /\ k' = [k EXCEPT ![c] = @ + 1]
  /\ UNCHANGED <<rings, nextWorker, mutex, payload, wpc, history>>

WaitReturns(c) ==
  /\ pc[c] = "waited"
  /\ Goto(c, "idle")
  /\ owed' = [owed EXCEPT ![c] = {}]
  /\ UNCHANGED <<rings, nextWorker, mutex, k, payload, wpc, issued, runs>>

ClientStep(c) == Look(c) \/ Fill(c) \/ Publish(c) \/ WaitOne(c) \/ WaitReturns(c)
WorkerStep(w) == StartJob(w) \/ EndJob(w) \/ GiveBack(w)

Next ==
  \/ \E c \in Clients : submitJob(c) \/ waitForAll(c) \/ ClientStep(c)
  \/ \E w \in Workers : WorkerStep(w)

(* Every thread goes on running: the loops are ordinary code, and the      *)
(* clients' calls return when they can.                                    *)
Fairness ==
  /\ \A c \in Clients : WF_vars(ClientStep(c))
  /\ \A w \in Workers : WF_vars(WorkerStep(w))

Spec == Init /\ [][Next]_vars /\ Fairness

-----------------------------------------------------------------------------
(* Every variable has the values its code can give it.                     *)
TypeOK ==
  /\ ring \in [Workers -> [Slots -> {0} \union Jobs]]
  /\ nextRead \in [Workers -> Slots] /\ nextWrite \in [Workers -> Slots]
  /\ nextWorker \in Workers
  /\ mutex \in Seq(Clients)
  /\ pc \in [Clients -> {"idle", "look", "fill", "publish", "wait", "waited"}]
  /\ k \in [Clients -> Workers]
  /\ payload \in [Clients -> {0} \union Jobs]
  /\ wpc \in [Workers -> {"poll", "running", "ran"}]
  /\ issued \in 0 .. JobCount
  /\ runs \in [Jobs -> Nat]
  /\ owed \in [Clients -> SUBSET Jobs]

(* The slots a worker has yet to finish, from nextRead on.                 *)
Waiting(w) == {s \in Slots : (s + jobQueueSize - nextRead[w]) % jobQueueSize
                             < (nextWrite[w] + jobQueueSize - nextRead[w]) % jobQueueSize}

(* No job is lost or run twice, on whatever worker and slot it went round: *)
(* one that was issued is with its client, or in exactly one ring, or has  *)
(* run once; in the ring it may have run while its slot is not given back. *)
JobsAccounted ==
  \A j \in 1 .. issued :
    LET places == {p \in Workers \X Slots : p[2] \in Waiting(p[1]) /\ ring[p[1]][p[2]] = j}
        over(p) == wpc[p[1]] = "ran" /\ p[2] = nextRead[p[1]]
    IN IF \E c \in Clients : payload[c] = j THEN places = {} /\ runs[j] = 0
       ELSE \/ places = {} /\ runs[j] = 1
            \/ \E p \in places : places = {p} /\ runs[j] = IF over(p) THEN 1 ELSE 0

(* The slot of a job that runs is not written: the worker holds a          *)
(* reference into the ring (threadPool.cpp:30, "there was room").          *)
RunningSlotKept ==
  [][\A w \in Workers : wpc[w] # "poll" => ring'[w][nextRead[w]] = JobAt(w)]_vars

(* Waiting for all means that all jobs submitted before are done, although *)
(* the workers are looked at one after the other (database.hpp:43).        *)
WaitMeansDone == \A c \in Clients : pc[c] = "waited" => \A j \in owed[c] : runs[j] = 1

(* Every job submitted runs, also those that found all rings full.         *)
EveryJobRuns == \A j \in Jobs : (issued >= j) ~> (runs[j] = 1)

===========================================================================
