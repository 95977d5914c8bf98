------------------------- MODULE ThreadPoolProofs -------------------------
(***************************************************************************)
(* The rings of the pool for every number of clients, of workers, of slots *)
(* and of jobs.  The thread that fills a slot is the one the mutex serves, *)
(* and still has the room it found; a worker at a job has not run empty.   *)
(* Together these keep the slot of a running job from being written; that, *)
(* and where each job is, give that none is lost and none run twice.       *)
(***************************************************************************)
EXTENDS ThreadPool, TLAPS

Filling(c) == pc[c] \in {"fill", "publish"}

(* Who fills a slot is served by the mutex.                                *)
FillersHold == \A c \in Clients : Filling(c) => mutex # <<>> /\ Head(mutex) = c

(* The worker found to have room has room until the slot is published.     *)
RoomStays == \A c \in Clients : Filling(c) => HasRoom(Aim(c))

(* A worker with a job has a ring that is not empty.                       *)
BusyNotEmpty == \A w \in Workers : wpc[w] # "poll" => nextRead[w] # nextWrite[w]

IInv == TypeOK /\ FillersHold /\ RoomStays /\ BusyNotEmpty

(* The next slot is a slot, and two slots never share it.                  *)
LEMMA NextSlot ==
  ASSUME NEW s \in Slots
  PROVE  /\ Next1(s) \in Slots
         /\ Next1(s) = IF s = jobQueueSize - 1 THEN 0 ELSE s + 1
<1>1. CASE s = jobQueueSize - 1
  BY <1>1, PoolAssumption, SMT DEF Next1, Slots
<1>2. CASE s # jobQueueSize - 1
  <2>1. s + 1 \in Nat /\ s + 1 < jobQueueSize
    BY <1>2, PoolAssumption DEF Slots
  <2>2. (s + 1) % jobQueueSize = s + 1
    BY <2>1, PoolAssumption, SMT
  <2>3. QED
    BY <2>1, <2>2, <1>2, PoolAssumption DEF Next1, Slots
<1>3. QED
  BY <1>1, <1>2

(* Two slots do not have the same successor.                               *)
LEMMA NextSlotInjective ==
  ASSUME NEW s \in Slots, NEW q \in Slots, Next1(s) = Next1(q)
  PROVE  s = q
<1>1. Next1(s) = (IF s = jobQueueSize - 1 THEN 0 ELSE s + 1)
  BY NextSlot
<1>2. Next1(q) = (IF q = jobQueueSize - 1 THEN 0 ELSE q + 1)
  BY NextSlot
<1>3. s \in Nat /\ q \in Nat /\ s + 1 # 0 /\ q + 1 # 0
  BY PoolAssumption DEF Slots
<1>4. (IF s = jobQueueSize - 1 THEN 0 ELSE s + 1) = (IF q = jobQueueSize - 1 THEN 0 ELSE q + 1)
  BY <1>1, <1>2
<1>5. CASE s = jobQueueSize - 1
  BY <1>3, <1>4, <1>5
<1>6. CASE s # jobQueueSize - 1
  BY <1>3, <1>4, <1>6
<1>7. QED
  BY <1>5, <1>6

(* A remainder by threadCount is a worker.                                 *)
LEMMA Remainder ==
  ASSUME NEW n \in Nat
  PROVE  n % threadCount \in Workers
BY PoolAssumption DEF Workers

(* submitJob looks at a worker that exists.                                *)
LEMMA AimIsWorker ==
  ASSUME TypeOK, NEW c \in Clients
  PROVE  Aim(c) \in Workers
<1>1. k[c] \in Nat /\ nextWorker \in Nat
  BY PoolAssumption DEF TypeOK, Workers
<1>2. k[c] + nextWorker \in Nat
  BY <1>1
<1>3. QED
  BY <1>2, Remainder DEF Aim

(* A new pool has empty rings.                                             *)
LEMMA InitIInv == Init => IInv
<1> SUFFICES ASSUME Init
             PROVE  IInv
  OBVIOUS
<1>1. 0 \in Workers /\ 0 \in Slots
  BY PoolAssumption DEF Workers, Slots
<1>2. TypeOK
  BY <1>1, PoolAssumption DEF Init, TypeOK, Jobs
<1>3. FillersHold /\ RoomStays /\ BusyNotEmpty
  BY DEF Init, FillersHold, RoomStays, BusyNotEmpty, Filling
<1>4. QED
  BY <1>2, <1>3 DEF IInv

(* Indices, jobs and the queue stay in range.                              *)
LEMMA TypeOKStep ==
  ASSUME IInv, [Next]_vars
  PROVE  TypeOK'
<1> USE PoolAssumption DEF IInv, rings, history, Goto
<1>1. ASSUME NEW c \in Clients, submitJob(c)
      PROVE  TypeOK'
  <2>1. issued + 1 \in Jobs /\ issued' \in 0 .. JobCount /\ 0 \in Workers
    BY <1>1 DEF TypeOK, submitJob, Jobs, Workers
  <2>2. QED
    BY <1>1, <2>1 DEF TypeOK, submitJob
<1>2. ASSUME NEW c \in Clients, Look(c)
      PROVE  TypeOK'
  <2>1. k[c] + 1 \in Nat
    BY DEF TypeOK, Workers
  <2>2. (k[c] + 1) % threadCount \in Workers
    BY <2>1, Remainder
  <2>3. QED
    BY <1>2, <2>2 DEF TypeOK, Look
<1>3. ASSUME NEW c \in Clients, Fill(c)
      PROVE  TypeOK'
  BY <1>3, AimIsWorker DEF TypeOK, Fill
<1>4. ASSUME NEW c \in Clients, Publish(c)
      PROVE  TypeOK'
  <2>1. mutex # <<>>
    BY <1>4 DEF FillersHold, Filling, Publish
  <2>2. Tail(mutex) \in Seq(Clients)
    BY <2>1 DEF TypeOK
  <2>3. k[c] + 1 \in Nat /\ 0 \in Workers
    BY DEF TypeOK, Workers
  <2>4. (k[c] + 1) % threadCount \in Workers
    BY <2>3, Remainder
  <2>5. Next1(nextWrite[Aim(c)]) \in Slots
    BY AimIsWorker, NextSlot DEF TypeOK
  <2>6. QED
    BY <1>4, <2>2, <2>3, <2>4, <2>5 DEF TypeOK, Publish
<1>5. ASSUME NEW w \in Workers, StartJob(w) \/ EndJob(w)
      PROVE  TypeOK'
  <2>1. runs' \in [Jobs -> Nat]
    <3>1. CASE StartJob(w)
      BY <3>1 DEF TypeOK, StartJob
    <3>2. CASE EndJob(w)
      <4>1. runs' = [j \in Jobs |-> IF j = JobAt(w) THEN runs[JobAt(w)] + 1 ELSE runs[j]]
        BY <3>2 DEF EndJob, TypeOK
      <4>2. \A j \in Jobs : runs[j] \in Nat
        BY DEF TypeOK
      <4>3. \A j \in Jobs : (IF j = JobAt(w) THEN runs[JobAt(w)] + 1 ELSE runs[j]) \in Nat
        BY <4>2
      <4>4. QED
        BY <4>1, <4>3
    <3>3. QED
      BY <1>5, <3>1, <3>2
  <2>2. wpc' \in [Workers -> {"poll", "running", "ran"}]
    BY <1>5 DEF TypeOK, StartJob, EndJob
  <2>3. UNCHANGED <<ring, nextRead, nextWrite, nextWorker, mutex, pc, k, payload, issued, owed>>
    BY <1>5 DEF StartJob, EndJob
  <2>4. QED
    BY <2>1, <2>2, <2>3 DEF TypeOK
<1>6. ASSUME NEW w \in Workers, GiveBack(w)
      PROVE  TypeOK'
  <2>1. Next1(nextRead[w]) \in Slots
    BY NextSlot DEF TypeOK
  <2>2. QED
    BY <1>6, <2>1 DEF TypeOK, GiveBack
<1>7. ASSUME NEW c \in Clients, waitForAll(c)
      PROVE  TypeOK'
  <2>1. 0 \in Workers /\ 1 .. issued \subseteq Jobs
    BY DEF TypeOK, Workers, Jobs
  <2>2. QED
    BY <1>7, <2>1 DEF TypeOK, waitForAll
<1>8. ASSUME NEW c \in Clients, WaitOne(c)
      PROVE  TypeOK'
  <2>1. 0 \in Workers /\ (k[c] # threadCount - 1 => k[c] + 1 \in Workers)
    BY DEF TypeOK, Workers
  <2>2. QED
    BY <1>8, <2>1 DEF TypeOK, WaitOne
<1>9. ASSUME NEW c \in Clients, WaitReturns(c)
      PROVE  TypeOK'
  BY <1>9 DEF TypeOK, WaitReturns
<1>10. CASE UNCHANGED vars
  BY <1>10 DEF TypeOK, vars
<1>11. QED
  BY <1>1, <1>2, <1>3, <1>4, <1>5, <1>6, <1>7, <1>8, <1>9, <1>10
  DEF Next, ClientStep, WorkerStep

(* Only who holds the mutex gets to fill, and keeps it until done.         *)
LEMMA FillersHoldStep ==
  ASSUME IInv, [Next]_vars
  PROVE  FillersHold'
<1> USE DEF IInv, FillersHold, Filling, Goto
<1>1. ASSUME NEW c \in Clients, submitJob(c)
      PROVE  FillersHold'
  <2>1. mutex # <<>> => mutex' # <<>> /\ Head(mutex') = Head(mutex)
    BY <1>1 DEF submitJob, TypeOK
  <2>2. QED
    BY <1>1, <2>1 DEF submitJob, TypeOK
<1>2. ASSUME NEW c \in Clients, Look(c)
      PROVE  FillersHold'
  BY <1>2 DEF Look, TypeOK, Holds
<1>3. ASSUME NEW c \in Clients, Fill(c)
      PROVE  FillersHold'
  BY <1>3 DEF Fill, TypeOK
<1>4. ASSUME NEW c \in Clients, Publish(c)
      PROVE  FillersHold'
  BY <1>4 DEF Publish, TypeOK
<1>5. ASSUME NEW c \in Clients, waitForAll(c) \/ WaitOne(c) \/ WaitReturns(c)
      PROVE  FillersHold'
  BY <1>5 DEF waitForAll, WaitOne, WaitReturns, TypeOK
<1>6. ASSUME NEW w \in Workers, WorkerStep(w)
      PROVE  FillersHold'
  BY <1>6 DEF WorkerStep, StartJob, EndJob, GiveBack
<1>7. CASE UNCHANGED vars
  BY <1>7 DEF vars
<1>8. QED
  BY <1>1, <1>2, <1>3, <1>4, <1>5, <1>6, <1>7 DEF Next, ClientStep

(* A worker starts on a ring that is not empty, which no client can make   *)
(* look empty.                                                             *)
LEMMA BusyNotEmptyStep ==
  ASSUME IInv, [Next]_vars
  PROVE  BusyNotEmpty'
<1> USE DEF IInv, BusyNotEmpty
<1>1. ASSUME NEW c \in Clients, Publish(c)
      PROVE  BusyNotEmpty'
  <2>1. HasRoom(Aim(c)) /\ Aim(c) \in Workers
    BY <1>1, AimIsWorker DEF RoomStays, Filling, Publish
  <2>2. nextWrite' = [nextWrite EXCEPT ![Aim(c)] = Next1(nextWrite[Aim(c)])]
        /\ nextRead' = nextRead /\ wpc' = wpc
    BY <1>1 DEF Publish, history
  <2>3. QED
    BY <2>1, <2>2 DEF HasRoom, TypeOK
<1>2. ASSUME NEW c \in Clients,
             submitJob(c) \/ Look(c) \/ Fill(c) \/ waitForAll(c) \/ WaitOne(c) \/ WaitReturns(c)
      PROVE  BusyNotEmpty'
  BY <1>2 DEF submitJob, Look, Fill, waitForAll, WaitOne, WaitReturns, rings
<1>3. ASSUME NEW w \in Workers, StartJob(w) \/ EndJob(w)
      PROVE  BusyNotEmpty'
  BY <1>3 DEF StartJob, EndJob, rings, TypeOK
<1>4. ASSUME NEW w \in Workers, GiveBack(w)
      PROVE  BusyNotEmpty'
  BY <1>4 DEF GiveBack, TypeOK
<1>5. CASE UNCHANGED vars
  BY <1>5 DEF vars
<1>6. QED
  BY <1>1, <1>2, <1>3, <1>4, <1>5 DEF Next, ClientStep, WorkerStep

(* Room is taken by its finder only; workers make more of it.              *)
LEMMA RoomStaysStep ==
  ASSUME IInv, [Next]_vars
  PROVE  RoomStays'
<1> USE DEF IInv
<1>1. ASSUME NEW c \in Clients, submitJob(c)
      PROVE  RoomStays'
  BY <1>1 DEF RoomStays, Filling, Aim, HasRoom, Goto, submitJob, rings, TypeOK
<1>2. ASSUME NEW c \in Clients, Look(c)
      PROVE  RoomStays'
  BY <1>2 DEF RoomStays, Filling, Aim, HasRoom, Goto, Look, rings, TypeOK
<1>3. ASSUME NEW c \in Clients, Fill(c)
      PROVE  RoomStays'
  BY <1>3 DEF RoomStays, Filling, Aim, HasRoom, Goto, Fill, TypeOK
<1>4. ASSUME NEW c \in Clients, Publish(c)
      PROVE  RoomStays'
  <2>1. \A d \in Clients : ~Filling(d)'
    BY <1>4 DEF FillersHold, Filling, Publish, Goto, TypeOK
  <2>2. QED
    BY <2>1 DEF RoomStays
<1>5. ASSUME NEW c \in Clients, waitForAll(c) \/ WaitOne(c) \/ WaitReturns(c)
      PROVE  RoomStays'
  BY <1>5 DEF RoomStays, Filling, Aim, HasRoom, Goto, waitForAll, WaitOne, WaitReturns, rings, TypeOK
<1>6. ASSUME NEW w \in Workers, StartJob(w) \/ EndJob(w)
      PROVE  RoomStays'
  BY <1>6 DEF RoomStays, Filling, Aim, HasRoom, StartJob, EndJob, rings
<1>7. ASSUME NEW w \in Workers, GiveBack(w)
      PROVE  RoomStays'
  <2>1. SUFFICES ASSUME NEW c \in Clients, Filling(c)
                 PROVE  HasRoom(Aim(c))'
    BY <1>7 DEF RoomStays, Filling, GiveBack
  <2>2. HasRoom(Aim(c)) /\ Aim(c) \in Workers
    BY <2>1, AimIsWorker DEF RoomStays
  <2>3. Aim(c)' = Aim(c) /\ nextWrite' = nextWrite
        /\ nextRead' = [nextRead EXCEPT ![w] = Next1(nextRead[w])]
    BY <1>7 DEF Aim, GiveBack
  <2>4. CASE Aim(c) = w
    <3>1. nextRead[w] # nextWrite[w] /\ nextRead[w] \in Slots /\ nextWrite[w] \in Slots
      BY <1>7 DEF BusyNotEmpty, GiveBack, TypeOK
    <3>2. Next1(nextWrite[w]) # Next1(nextRead[w])
      BY <3>1, NextSlotInjective
    <3>3. QED
      BY <2>3, <2>4, <3>2 DEF HasRoom, TypeOK
  <2>5. CASE Aim(c) # w
    BY <2>2, <2>3, <2>5 DEF HasRoom, TypeOK
  <2>6. QED
    BY <2>4, <2>5
<1>8. CASE UNCHANGED vars
  BY <1>8 DEF RoomStays, Filling, Aim, HasRoom, vars
<1>9. QED
  BY <1>1, <1>2, <1>3, <1>4, <1>5, <1>6, <1>7, <1>8 DEF Next, ClientStep, WorkerStep

(* The rings are well formed, a slot is only filled by the thread the      *)
(* mutex serves, and the room it found cannot be taken from it.            *)
THEOREM RingsSound == Spec => []IInv
<1>1. IInv /\ [Next]_vars => IInv'
  BY TypeOKStep, FillersHoldStep, BusyNotEmptyStep, RoomStaysStep DEF IInv
<1>2. QED
  BY InitIInv, <1>1, PTL DEF Spec

(* Every variable of the pool has the values its code can give it.         *)
THEOREM WellTyped == Spec => []TypeOK
<1>1. IInv => TypeOK
  BY DEF IInv
<1>2. QED
  BY <1>1, RingsSound, PTL

(* Only Fill writes a slot: the one past the last published, which is not  *)
(* the one its worker reads, as a worker at a job has not run empty.       *)
LEMMA SlotKeptStep ==
  ASSUME IInv, [Next]_vars, NEW w \in Workers, wpc[w] # "poll"
  PROVE  ring'[w][nextRead[w]] = JobAt(w)
<1>1. ASSUME NEW c \in Clients, Fill(c)
      PROVE  ring'[w][nextRead[w]] = JobAt(w)
  <2>1. nextRead[w] # nextWrite[w] /\ Aim(c) \in Workers
    BY AimIsWorker DEF IInv, BusyNotEmpty
  <2>2. ring' = [ring EXCEPT ![Aim(c)][nextWrite[Aim(c)]] = payload[c]]
    BY <1>1 DEF Fill
  <2>3. QED
    BY <2>1, <2>2 DEF IInv, TypeOK, JobAt
<1>2. ASSUME ring' = ring
      PROVE  ring'[w][nextRead[w]] = JobAt(w)
  BY <1>2 DEF JobAt
<1>3. ring' = ring \/ \E c \in Clients : Fill(c)
  BY DEF Next, ClientStep, WorkerStep, submitJob, Look, Publish, waitForAll, WaitOne,
         WaitReturns, StartJob, EndJob, GiveBack, rings, vars
<1>4. QED
  BY <1>1, <1>2, <1>3

(* Whatever the number of workers and slots, and however clients and       *)
(* workers interleave, the slot a worker runs its job from is not written  *)
(* before the job has returned.                                            *)
THEOREM SlotKept == Spec => RunningSlotKept
<1>1. IInv /\ [Next]_vars =>
        [\A w \in Workers : wpc[w] # "poll" => ring'[w][nextRead[w]] = JobAt(w)]_vars
  BY SlotKeptStep
<1>2. QED
  BY <1>1, RingsSound, PTL DEF Spec, RunningSlotKept

(***************************************************************************)
(* No job is lost or run twice.                                            *)
(***************************************************************************)
InRing(j) == \E w \in Workers : \E s \in Waiting(w) : ring[w][s] = j

WithClient(j) == \E c \in Clients : payload[c] = j

(* A client has a job with it from submitJob until it is published, and no *)
(* other client has that one.                                              *)
Carried ==
  \A c \in Clients :
    /\ payload[c] # 0 <=> pc[c] \in {"look", "fill", "publish"}
    /\ \A d \in Clients : payload[c] # 0 /\ payload[c] = payload[d] => c = d

(* What is about to be published is the job.                               *)
SlotFilled == \A c \in Clients : pc[c] = "publish" => ring[Aim(c)][nextWrite[Aim(c)]] = payload[c]

(* The rings hold each job in one place, and it has run only if its worker *)
(* has yet to give the slot back.                                          *)
Queued ==
  \A w \in Workers : \A s \in Waiting(w) :
    /\ ring[w][s] # 0
    /\ runs[ring[w][s]] = IF wpc[w] = "ran" /\ s = nextRead[w] THEN 1 ELSE 0
    /\ \A v \in Workers : \A t \in Waiting(v) : ring[v][t] = ring[w][s] => v = w /\ t = s

(* A job is still to be issued, with a client, in a ring or done.          *)
Placed ==
  \A j \in Jobs :
    /\ j > issued => runs[j] = 0 /\ ~WithClient(j) /\ ~InRing(j)
    /\ WithClient(j) => runs[j] = 0 /\ ~InRing(j)
    /\ j <= issued /\ ~WithClient(j) /\ ~InRing(j) => runs[j] = 1

(* What a client waits for is in no ring that it has passed.               *)
OwedAhead ==
  \A c \in Clients : \A j \in owed[c] :
    /\ j <= issued /\ ~WithClient(j)
    /\ pc[c] = "wait" => \A w \in Workers : w < k[c] => \A s \in Waiting(w) : ring[w][s] # j
    /\ pc[c] = "waited" => ~InRing(j)
    /\ pc[c] \in {"wait", "waited"}

Accounts == Carried /\ SlotFilled /\ Queued /\ Placed /\ OwedAhead

(* The slots from r to n, round the end of the ring.                       *)
LEMMA SlotsBetween ==
  ASSUME NEW r \in Slots, NEW n \in Slots, NEW s \in Slots
  PROVE  (s + jobQueueSize - r) % jobQueueSize < (n + jobQueueSize - r) % jobQueueSize
         <=> IF r <= n THEN r <= s /\ s < n ELSE r <= s \/ s < n
<1>1. ASSUME NEW x \in Slots, NEW y \in Slots
      PROVE  (x + jobQueueSize - y) % jobQueueSize = IF y <= x THEN x - y ELSE x + jobQueueSize - y
  <2>1. jobQueueSize \in Nat \ {0} /\ x \in Nat /\ y \in Nat /\ x < jobQueueSize /\ y < jobQueueSize
    BY PoolAssumption DEF Slots
  <2>2. CASE y <= x
    <3>1. x - y \in Nat /\ x - y < jobQueueSize
      BY <2>1, <2>2
    <3>2. ((x - y) + jobQueueSize) % jobQueueSize = x - y
      BY <2>1, <3>1
    <3>3. x + jobQueueSize - y = (x - y) + jobQueueSize
      BY <2>1
    <3>4. QED
      BY <2>2, <3>2, <3>3
  <2>3. CASE ~(y <= x)
    <3>1. x + jobQueueSize - y \in Nat /\ x + jobQueueSize - y < jobQueueSize
      BY <2>1, <2>3
    <3>2. QED
      BY <2>1, <2>3, <3>1
  <2>4. QED
    BY <2>2, <2>3
<1>2. (s + jobQueueSize - r) % jobQueueSize = IF r <= s THEN s - r ELSE s + jobQueueSize - r
  BY <1>1
<1>3. (n + jobQueueSize - r) % jobQueueSize = IF r <= n THEN n - r ELSE n + jobQueueSize - r
  BY <1>1
<1>4. r \in Nat /\ n \in Nat /\ s \in Nat /\ jobQueueSize \in Nat
      /\ r < jobQueueSize /\ n < jobQueueSize /\ s < jobQueueSize
  BY PoolAssumption DEF Slots
<1>5. QED
  BY <1>2, <1>3, <1>4

(* To publish is to make the slot past the last one wait.                  *)
LEMMA PublishAdds ==
  ASSUME TypeOK, NEW c \in Clients, Publish(c), NEW a \in Workers, a = Aim(c), HasRoom(a)
  PROVE  /\ nextWrite[a] \notin Waiting(a)
         /\ \A w \in Workers : Waiting(w)' = IF w = a THEN Waiting(w) \union {nextWrite[w]}
                                                      ELSE Waiting(w)
<1>1. nextWrite[a] \in Slots /\ nextRead[a] \in Slots
  BY DEF TypeOK
<1>2. nextRead' = nextRead /\ nextWrite' = [nextWrite EXCEPT ![a] = Next1(nextWrite[a])]
  BY DEF Publish
<1>3. nextWrite'[a] = (IF nextWrite[a] = jobQueueSize - 1 THEN 0 ELSE nextWrite[a] + 1)
      /\ nextWrite'[a] \in Slots /\ nextWrite'[a] # nextRead[a] /\ nextRead'[a] = nextRead[a]
  BY <1>1, <1>2, NextSlot DEF TypeOK, HasRoom
<1>4. ASSUME NEW s \in Slots
      PROVE  (s \in Waiting(a)' <=> s \in Waiting(a) \/ s = nextWrite[a])
             /\ ~(s = nextWrite[a] /\ s \in Waiting(a))
  <2>1. s \in Waiting(a) <=> IF nextRead[a] <= nextWrite[a]
                             THEN nextRead[a] <= s /\ s < nextWrite[a]
                             ELSE nextRead[a] <= s \/ s < nextWrite[a]
    BY <1>1, SlotsBetween DEF Waiting
  <2>2. s \in Waiting(a)' <=> IF nextRead[a] <= nextWrite'[a]
                              THEN nextRead[a] <= s /\ s < nextWrite'[a]
                              ELSE nextRead[a] <= s \/ s < nextWrite'[a]
    BY <1>1, <1>3, SlotsBetween DEF Waiting
  <2>3. QED
    BY <1>1, <1>3, <2>1, <2>2, PoolAssumption DEF Slots
<1>5. Waiting(a) \subseteq Slots /\ Waiting(a)' \subseteq Slots
  BY DEF Waiting
<1>6. ASSUME NEW w \in Workers, w # a
      PROVE  Waiting(w)' = Waiting(w)
  <2>1. nextRead'[w] = nextRead[w] /\ nextWrite'[w] = nextWrite[w]
    BY <1>2, <1>6 DEF TypeOK
  <2>2. QED
    BY <2>1 DEF Waiting
<1>7. QED
  BY <1>1, <1>4, <1>5, <1>6

(* To give back is to take the slot that was read from those that wait.    *)
LEMMA GiveBackRemoves ==
  ASSUME TypeOK, NEW a \in Workers, GiveBack(a), nextRead[a] # nextWrite[a]
  PROVE  /\ nextRead[a] \in Waiting(a)
         /\ \A w \in Workers : Waiting(w)' = IF w = a THEN Waiting(w) \ {nextRead[w]}
                                                      ELSE Waiting(w)
<1>1. nextWrite[a] \in Slots /\ nextRead[a] \in Slots
  BY DEF TypeOK
<1>2. nextWrite' = nextWrite /\ nextRead' = [nextRead EXCEPT ![a] = Next1(nextRead[a])]
  BY DEF GiveBack
<1>3. nextRead'[a] = (IF nextRead[a] = jobQueueSize - 1 THEN 0 ELSE nextRead[a] + 1)
      /\ nextRead'[a] \in Slots /\ nextWrite'[a] = nextWrite[a]
  BY <1>1, <1>2, NextSlot DEF TypeOK
<1>4. ASSUME NEW s \in Slots
      PROVE  (s \in Waiting(a)' <=> s \in Waiting(a) /\ s # nextRead[a])
             /\ (s = nextRead[a] => s \in Waiting(a))
  <2>1. s \in Waiting(a) <=> IF nextRead[a] <= nextWrite[a]
                             THEN nextRead[a] <= s /\ s < nextWrite[a]
                             ELSE nextRead[a] <= s \/ s < nextWrite[a]
    BY <1>1, SlotsBetween DEF Waiting
  <2>2. s \in Waiting(a)' <=> IF nextRead'[a] <= nextWrite[a]
                              THEN nextRead'[a] <= s /\ s < nextWrite[a]
                              ELSE nextRead'[a] <= s \/ s < nextWrite[a]
    BY <1>1, <1>3, SlotsBetween DEF Waiting
  <2>3. QED
    BY <1>1, <1>3, <2>1, <2>2, PoolAssumption DEF Slots
<1>5. Waiting(a) \subseteq Slots /\ Waiting(a)' \subseteq Slots
  BY DEF Waiting
<1>6. ASSUME NEW w \in Workers, w # a
      PROVE  Waiting(w)' = Waiting(w)
  <2>1. nextRead'[w] = nextRead[w] /\ nextWrite'[w] = nextWrite[w]
    BY <1>2, <1>6 DEF TypeOK
  <2>2. QED
    BY <2>1 DEF Waiting
<1>7. QED
  BY <1>1, <1>4, <1>5, <1>6

(* What leaves the indices and the slots that wait alone moves no job.     *)
LEMMA QueuesKept ==
  ASSUME UNCHANGED <<nextRead, nextWrite>>,
         \A w \in Workers : \A s \in Waiting(w) : ring'[w][s] = ring[w][s]
  PROVE  /\ \A w \in Workers : Waiting(w)' = Waiting(w)
         /\ \A j : InRing(j)' <=> InRing(j)
<1>1. \A w \in Workers : Waiting(w)' = Waiting(w)
  BY DEF Waiting
<1>2. ASSUME NEW j
      PROVE  InRing(j)' <=> InRing(j)
  BY <1>1 DEF InRing
<1>3. QED
  BY <1>1, <1>2

(* The job submitted is new.                                               *)
LEMMA SubmitAccounts ==
  ASSUME IInv, Accounts, NEW c \in Clients, submitJob(c)
  PROVE  Accounts'
<1> DEFINE j == issued + 1
<1>1. /\ j \in Jobs /\ j > issued /\ j # 0
      /\ \A i \in Jobs : (i > j => i > issued) /\ (i <= j /\ i # j => i <= issued)
  BY PoolAssumption DEF submitJob, IInv, TypeOK, Jobs
<1>2. /\ pc[c] = "idle" /\ issued' = j /\ UNCHANGED <<ring, nextRead, nextWrite, nextWorker, wpc, runs, owed>>
      /\ \A d \in Clients : payload'[d] = IF d = c THEN j ELSE payload[d]
      /\ \A d \in Clients : pc'[d] = IF d = c THEN "look" ELSE pc[d]
      /\ \A d \in Clients : k'[d] = IF d = c THEN 0 ELSE k[d]
  BY DEF submitJob, Goto, rings, IInv, TypeOK
<1>3. (\A w \in Workers : Waiting(w)' = Waiting(w)) /\ (\A i : InRing(i)' <=> InRing(i))
  BY <1>2, QueuesKept
<1>4. ~InRing(j) /\ ~WithClient(j) /\ runs[j] = 0 /\ payload[c] = 0
  BY <1>1, <1>2 DEF Accounts, Placed, Carried
<1>5. \A i \in Jobs : WithClient(i)' <=> WithClient(i) \/ i = j
  <2>1. \A i \in Jobs : i # 0
    BY DEF Jobs
  <2>2. QED
    BY <1>2, <1>4, <2>1 DEF WithClient
<1>6. Carried'
  BY <1>1, <1>2, <1>4 DEF Accounts, Carried, WithClient
<1>7. SlotFilled'
  BY <1>2 DEF Accounts, SlotFilled, Aim
<1>8. Queued'
  BY <1>2, <1>3 DEF Accounts, Queued
<1>9. Placed'
  <2>1. ASSUME NEW i \in Jobs
        PROVE  /\ i > issued' => runs[i] = 0 /\ ~WithClient(i)' /\ ~InRing(i)'
               /\ WithClient(i)' => runs[i] = 0 /\ ~InRing(i)'
               /\ i <= issued' /\ ~WithClient(i)' /\ ~InRing(i)' => runs[i] = 1
    <3>1. /\ i > issued => runs[i] = 0 /\ ~WithClient(i) /\ ~InRing(i)
          /\ WithClient(i) => runs[i] = 0 /\ ~InRing(i)
          /\ i <= issued /\ ~WithClient(i) /\ ~InRing(i) => runs[i] = 1
      BY DEF Accounts, Placed
    <3>2. /\ InRing(i)' <=> InRing(i)
          /\ WithClient(i)' <=> WithClient(i) \/ i = j
          /\ i > j => i > issued
          /\ i <= j /\ i # j => i <= issued
      BY <1>1, <1>3, <1>5
    <3>3. CASE i = j
      <4>1. j > j => FALSE
        BY <1>1 DEF Jobs
      <4>2. QED
        BY <1>2, <1>4, <3>2, <3>3, <4>1
    <3>4. CASE i # j
      BY <1>2, <3>1, <3>2, <3>4
    <3>5. QED
      BY <3>3, <3>4
  <2>2. QED
    BY <1>2, <2>1 DEF Placed
<1>10. OwedAhead'
  <2>1. ASSUME NEW d \in Clients, NEW i \in owed[d]
        PROVE  d # c /\ i \in Jobs /\ i <= j /\ i # j
    BY <1>1, <1>2, PoolAssumption DEF Accounts, OwedAhead, IInv, TypeOK, Jobs
  <2>2. QED
    BY <1>2, <1>3, <1>5, <2>1 DEF Accounts, OwedAhead
<1>11. QED
  BY <1>6, <1>7, <1>8, <1>9, <1>10 DEF Accounts

(* The slot past the last published does not wait, the one a busy worker   *)
(* reads does.                                                             *)
LEMMA EndsOfQueue ==
  ASSUME TypeOK, NEW w \in Workers
  PROVE  /\ nextWrite[w] \in Slots \ Waiting(w)
         /\ nextRead[w] # nextWrite[w] => nextRead[w] \in Waiting(w)
<1>1. nextWrite[w] \in Slots /\ nextRead[w] \in Slots
  BY DEF TypeOK
<1>2. \A s \in Slots : s \in Waiting(w) <=> IF nextRead[w] <= nextWrite[w]
                                            THEN nextRead[w] <= s /\ s < nextWrite[w]
                                            ELSE nextRead[w] <= s \/ s < nextWrite[w]
  BY <1>1, SlotsBetween DEF Waiting
<1>3. QED
  BY <1>1, <1>2, PoolAssumption DEF Slots

(* To look for a worker, to wait and to return change no queue.            *)
LEMMA WaitAccounts ==
  ASSUME IInv, Accounts, NEW c \in Clients, Look(c) \/ waitForAll(c) \/ WaitOne(c) \/ WaitReturns(c)
  PROVE  Accounts'
<1>1. UNCHANGED <<ring, nextRead, nextWrite, nextWorker, payload, wpc, issued, runs>>
  BY DEF Look, waitForAll, WaitOne, WaitReturns, rings, history
<1>2. (\A w \in Workers : Waiting(w)' = Waiting(w)) /\ (\A i : InRing(i)' <=> InRing(i))
  BY <1>1, QueuesKept
<1>3. \A i : WithClient(i)' <=> WithClient(i)
  BY <1>1 DEF WithClient
<1>4. /\ \A d \in Clients : d # c => pc'[d] = pc[d] /\ k'[d] = k[d] /\ owed'[d] = owed[d]
      /\ payload[c] # 0 <=> pc'[c] \in {"look", "fill", "publish"}
      /\ pc'[c] # "publish"
  BY DEF Look, waitForAll, WaitOne, WaitReturns, Goto, history, Accounts, Carried, IInv, TypeOK
<1>5. Carried'
  BY <1>1, <1>4 DEF Accounts, Carried
<1>6. SlotFilled'
  BY <1>1, <1>4 DEF Accounts, SlotFilled, Aim
<1>7. Queued'
  BY <1>1, <1>2 DEF Accounts, Queued
<1>8. Placed'
  BY <1>1, <1>2, <1>3 DEF Accounts, Placed
<1>9. OwedAhead'
  <2>1. ASSUME NEW j \in owed'[c]
        PROVE  /\ j <= issued /\ ~WithClient(j)
               /\ pc'[c] = "wait" => \A w \in Workers : w < k'[c] => \A s \in Waiting(w) : ring[w][s] # j
               /\ pc'[c] = "waited" => ~InRing(j)
               /\ pc'[c] \in {"wait", "waited"}
    <3>1. CASE Look(c)
      BY <2>1, <3>1 DEF Look, history, Accounts, OwedAhead
    <3>2. CASE waitForAll(c)
      <4>1. pc'[c] = "wait" /\ k'[c] = 0 /\ j \in 1 .. issued /\ \A d \in Clients : payload[d] # j
        BY <2>1, <3>2 DEF waitForAll, Goto, IInv, TypeOK
      <4>2. \A w \in Workers : ~(w < 0)
        BY DEF Workers
      <4>3. QED
        BY <4>1, <4>2 DEF WithClient
    <3>3. CASE WaitOne(c)
      <4>1. j \in owed[c] /\ pc[c] = "wait" /\ k[c] \in Workers /\ nextRead[k[c]] = nextWrite[k[c]]
        BY <2>1, <3>3 DEF WaitOne, history, SeesEmpty, IInv, TypeOK
      <4>2. Waiting(k[c]) = {}
        <5>1. nextWrite[k[c]] \in Slots /\ nextRead[k[c]] \in Slots
          BY <4>1 DEF IInv, TypeOK
        <5>2. \A s \in Slots : s \in Waiting(k[c]) <=> nextRead[k[c]] <= s /\ s < nextRead[k[c]]
          BY <4>1, <5>1, SlotsBetween DEF Waiting, Slots
        <5>3. \A s \in Slots : ~(nextRead[k[c]] <= s /\ s < nextRead[k[c]])
          BY <5>1, PoolAssumption DEF Slots
        <5>4. QED
          BY <5>2, <5>3 DEF Waiting
      <4>3. \A w \in Workers : w <= k[c] => \A s \in Waiting(w) : ring[w][s] # j
        BY <4>1, <4>2, PoolAssumption DEF Accounts, OwedAhead, Workers
      <4>4. CASE k[c] = threadCount - 1
        <5>1. pc'[c] = "waited"
          BY <3>3, <4>4 DEF WaitOne, Goto, IInv, TypeOK
        <5>2. ~InRing(j)
          BY <4>3, <4>4, PoolAssumption DEF InRing, Workers
        <5>3. QED
          BY <4>1, <5>1, <5>2 DEF Accounts, OwedAhead
      <4>5. CASE k[c] # threadCount - 1
        <5>1. pc'[c] = "wait" /\ k'[c] = k[c] + 1
          BY <3>3, <4>1, <4>5 DEF WaitOne, IInv, TypeOK
        <5>2. \A w \in Workers : w < k[c] + 1 => w <= k[c]
          BY <4>1, PoolAssumption DEF Workers
        <5>3. QED
          BY <4>1, <4>3, <5>1, <5>2 DEF Accounts, OwedAhead
      <4>6. QED
        BY <4>4, <4>5
    <3>4. CASE WaitReturns(c)
      BY <2>1, <3>4 DEF WaitReturns, IInv, TypeOK
    <3>5. QED
      BY <3>1, <3>2, <3>3, <3>4
  <2>2. QED
    BY <1>1, <1>2, <1>3, <1>4, <2>1 DEF Accounts, OwedAhead
<1>10. QED
  BY <1>5, <1>6, <1>7, <1>8, <1>9 DEF Accounts

(* The slot filled does not wait yet.                                      *)
LEMMA FillAccounts ==
  ASSUME IInv, Accounts, NEW c \in Clients, Fill(c)
  PROVE  Accounts'
<1>1. PICK a \in Workers : a = Aim(c)
  BY AimIsWorker DEF IInv
<1>2. /\ ring' = [ring EXCEPT ![a][nextWrite[a]] = payload[c]]
      /\ pc[c] = "fill" /\ pc' = [pc EXCEPT ![c] = "publish"]
      /\ UNCHANGED <<nextRead, nextWrite, nextWorker, k, payload, wpc, issued, runs, owed>>
  BY <1>1 DEF Fill, Goto, history
<1>3. /\ ring'[a][nextWrite[a]] = payload[c]
      /\ \A w \in Workers : \A s \in Waiting(w) : ring'[w][s] = ring[w][s]
  <2>1. nextWrite[a] \in Slots \ Waiting(a)
    BY <1>1, EndsOfQueue DEF IInv
  <2>2. QED
    BY <1>2, <2>1 DEF IInv, TypeOK, Waiting
<1>4. (\A w \in Workers : Waiting(w)' = Waiting(w)) /\ (\A i : InRing(i)' <=> InRing(i))
  BY <1>2, <1>3, QueuesKept
<1>5. \A i : WithClient(i)' <=> WithClient(i)
  BY <1>2 DEF WithClient
<1>6. \A d \in Clients : pc'[d] = IF d = c THEN "publish" ELSE pc[d]
  BY <1>2 DEF IInv, TypeOK
<1>7. Carried'
  BY <1>2, <1>6 DEF Accounts, Carried
<1>8. SlotFilled'
  <2>1. \A d \in Clients : pc'[d] = "publish" => d = c
    BY <1>2, <1>6 DEF IInv, FillersHold, Filling
  <2>2. QED
    BY <1>1, <1>2, <1>3, <2>1 DEF SlotFilled, Aim
<1>9. Queued'
  BY <1>2, <1>3, <1>4 DEF Accounts, Queued
<1>10. Placed'
  BY <1>2, <1>4, <1>5 DEF Accounts, Placed
<1>11. OwedAhead'
  BY <1>2, <1>3, <1>4, <1>5, <1>6 DEF Accounts, OwedAhead
<1>12. QED
  BY <1>7, <1>8, <1>9, <1>10, <1>11 DEF Accounts

(* The job leaves its client and comes to the ring's end.                  *)
LEMMA PublishAccounts ==
  ASSUME IInv, Accounts, NEW c \in Clients, Publish(c)
  PROVE  Accounts'
<1>1. PICK a \in Workers : a = Aim(c)
  BY AimIsWorker DEF IInv
<1>2. /\ pc[c] = "publish" /\ UNCHANGED <<ring, nextRead, wpc, issued, runs, owed>>
      /\ nextWrite[a] \in Slots \ Waiting(a)
      /\ nextRead[a] # nextWrite[a] \/ wpc[a] = "poll"
  BY <1>1, EndsOfQueue DEF Publish, history, IInv, BusyNotEmpty
<1>3. /\ \A d \in Clients : payload'[d] = IF d = c THEN 0 ELSE payload[d]
      /\ \A d \in Clients : pc'[d] = IF d = c THEN "idle" ELSE pc[d]
      /\ \A d \in Clients : d # c => k'[d] = k[d]
      /\ \A d \in Clients : Filling(d) => d = c
  BY DEF Publish, Goto, Filling, IInv, TypeOK, FillersHold
<1>4. HasRoom(a)
  BY <1>1, <1>2 DEF IInv, RoomStays, Filling
<1>5. /\ nextWrite[a] \in Slots \ Waiting(a)
      /\ \A w \in Workers : Waiting(w)' = IF w = a THEN Waiting(w) \union {nextWrite[w]} ELSE Waiting(w)
  BY <1>1, <1>4, PublishAdds, EndsOfQueue DEF IInv
<1>6. /\ ring[a][nextWrite[a]] = payload[c] /\ payload[c] # 0 /\ payload[c] \in Jobs
      /\ WithClient(payload[c])
  BY <1>1, <1>2 DEF Accounts, SlotFilled, Carried, WithClient, IInv, TypeOK
<1>7. ~InRing(payload[c]) /\ runs[payload[c]] = 0
  BY <1>6 DEF Accounts, Placed
<1>8. \A i : InRing(i)' <=> InRing(i) \/ i = payload[c]
  BY <1>2, <1>5, <1>6 DEF InRing
<1>9. \A i \in Jobs : WithClient(i)' <=> WithClient(i) /\ i # payload[c]
  <2>1. \A i \in Jobs : i # 0
    BY DEF Jobs
  <2>2. QED
    BY <1>3, <1>6, <2>1 DEF WithClient, Accounts, Carried
<1>10. Carried'
  BY <1>3 DEF Accounts, Carried
<1>11. SlotFilled'
  BY <1>3 DEF SlotFilled, Filling
<1>12. Queued'
  <2>1. \A w \in Workers : \A s \in Waiting(w) : ring[w][s] # payload[c]
    BY <1>7 DEF InRing
  <2>2. ~(wpc[a] = "ran" /\ nextWrite[a] = nextRead[a])
    BY DEF IInv, BusyNotEmpty
  <2>3. ASSUME NEW w \in Workers, NEW s \in Waiting(w)'
        PROVE  /\ ring[w][s] # 0
               /\ runs[ring[w][s]] = IF wpc[w] = "ran" /\ s = nextRead[w] THEN 1 ELSE 0
    <3>1. CASE s \in Waiting(w)
      BY <3>1 DEF Accounts, Queued
    <3>2. CASE s \notin Waiting(w)
      BY <1>5, <1>6, <1>7, <2>2, <2>3, <3>2
    <3>3. QED
      BY <3>1, <3>2
  <2>4. ASSUME NEW w \in Workers, NEW s \in Waiting(w)', NEW v \in Workers, NEW t \in Waiting(v)',
               ring[v][t] = ring[w][s]
        PROVE  v = w /\ t = s
    BY <1>5, <1>6, <2>1, <2>4 DEF Accounts, Queued
  <2>5. QED
    BY <1>2, <2>3, <2>4 DEF Queued
<1>13. Placed'
  <2>1. ASSUME NEW j \in Jobs
        PROVE  /\ j > issued => runs[j] = 0 /\ ~WithClient(j)' /\ ~InRing(j)'
               /\ WithClient(j)' => runs[j] = 0 /\ ~InRing(j)'
               /\ j <= issued /\ ~WithClient(j)' /\ ~InRing(j)' => runs[j] = 1
    <3>1. CASE j = payload[c]
      BY <1>6, <1>7, <1>8, <1>9, <3>1 DEF Accounts, Placed
    <3>2. CASE j # payload[c]
      BY <1>8, <1>9, <3>2 DEF Accounts, Placed
    <3>3. QED
      BY <3>1, <3>2
  <2>2. QED
    BY <1>2, <2>1 DEF Placed
<1>14. OwedAhead'
  <2>1. ASSUME NEW d \in Clients, NEW i \in owed[d]
        PROVE  i \in Jobs /\ i # payload[c] /\ d # c
    BY <1>2, <1>6 DEF Accounts, OwedAhead, IInv, TypeOK
  <2>2. QED
    BY <1>2, <1>3, <1>5, <1>6, <1>8, <1>9, <2>1 DEF Accounts, OwedAhead
<1>15. QED
  BY <1>10, <1>11, <1>12, <1>13, <1>14 DEF Accounts

(* A worker takes up the job at its end of the queue, runs it and only     *)
(* then lets go of it.                                                     *)
LEMMA WorkerAccounts ==
  ASSUME IInv, Accounts, NEW a \in Workers, WorkerStep(a)
  PROVE  Accounts'
<1>1. UNCHANGED <<ring, nextWrite, nextWorker, pc, k, payload, issued, owed>>
  BY DEF WorkerStep, StartJob, EndJob, GiveBack, rings, history
<1>2. \A i : WithClient(i)' <=> WithClient(i)
  BY <1>1 DEF WithClient
<1>3. Carried' /\ SlotFilled'
  BY <1>1 DEF Accounts, Carried, SlotFilled, Aim
<1>4. CASE StartJob(a)
  <2>1. UNCHANGED <<nextRead, runs>> /\ \A w \in Workers : wpc'[w] = "ran" <=> wpc[w] = "ran"
    BY <1>4 DEF StartJob, rings, history, IInv, TypeOK
  <2>2. (\A w \in Workers : Waiting(w)' = Waiting(w)) /\ (\A i : InRing(i)' <=> InRing(i))
    BY <1>1, <2>1, QueuesKept
  <2>3. Queued'
    BY <1>1, <2>1, <2>2 DEF Accounts, Queued
  <2>4. Placed' /\ OwedAhead'
    BY <1>1, <1>2, <2>1, <2>2 DEF Accounts, Placed, OwedAhead
  <2>5. QED
    BY <1>3, <2>3, <2>4 DEF Accounts
<1>5. CASE EndJob(a)
  <2>1. /\ wpc[a] = "running" /\ UNCHANGED nextRead
        /\ \A w \in Workers : wpc'[w] = IF w = a THEN "ran" ELSE wpc[w]
        /\ runs' = [runs EXCEPT ![JobAt(a)] = runs[JobAt(a)] + 1]
    BY <1>5 DEF EndJob, rings, IInv, TypeOK
  <2>2. (\A w \in Workers : Waiting(w)' = Waiting(w)) /\ (\A i : InRing(i)' <=> InRing(i))
    BY <1>1, <2>1, QueuesKept
  <2>3. nextRead[a] \in Waiting(a)
    BY <2>1, EndsOfQueue DEF IInv, BusyNotEmpty
  <2>4. JobAt(a) \in Jobs /\ runs[JobAt(a)] = 0 /\ InRing(JobAt(a))
    <3>1. ring[a][nextRead[a]] # 0 /\ runs[ring[a][nextRead[a]]] = 0
      BY <2>1, <2>3 DEF Accounts, Queued
    <3>2. ring[a][nextRead[a]] \in {0} \union Jobs
      BY <2>3 DEF Waiting, IInv, TypeOK
    <3>3. QED
      BY <2>3, <3>1, <3>2 DEF JobAt, InRing
  <2>5. \A i \in Jobs : runs'[i] = IF i = JobAt(a) THEN 1 ELSE runs[i]
    BY <2>1, <2>4 DEF IInv, TypeOK
  <2>6. \A w \in Workers : \A s \in Waiting(w) :
          ring[w][s] \in Jobs /\ (ring[w][s] = JobAt(a) <=> w = a /\ s = nextRead[a])
    BY <2>3 DEF JobAt, Accounts, Queued, Waiting, IInv, TypeOK
  <2>7. Queued'
    BY <1>1, <2>1, <2>2, <2>5, <2>6 DEF Accounts, Queued
  <2>8. Placed'
    BY <1>1, <1>2, <2>2, <2>4, <2>5 DEF Accounts, Placed
  <2>9. OwedAhead'
    BY <1>1, <1>2, <2>2 DEF Accounts, OwedAhead
  <2>10. QED
    BY <1>3, <2>7, <2>8, <2>9 DEF Accounts
<1>6. CASE GiveBack(a)
  <2>1. /\ wpc[a] = "ran" /\ UNCHANGED runs
        /\ \A w \in Workers : wpc'[w] = IF w = a THEN "poll" ELSE wpc[w]
        /\ \A w \in Workers : w # a => nextRead'[w] = nextRead[w]
    BY <1>6 DEF GiveBack, history, IInv, TypeOK
  <2>2. /\ nextRead[a] \in Waiting(a)
        /\ \A w \in Workers : Waiting(w)' = IF w = a THEN Waiting(w) \ {nextRead[w]} ELSE Waiting(w)
    BY <1>6, <2>1, GiveBackRemoves DEF IInv, BusyNotEmpty
  <2>3. JobAt(a) \in Jobs /\ runs[JobAt(a)] = 1
    BY <2>1, <2>2 DEF JobAt, Accounts, Queued, Waiting, IInv, TypeOK
  <2>4. \A w \in Workers : \A s \in Waiting(w) : ring[w][s] = JobAt(a) <=> w = a /\ s = nextRead[a]
    BY <2>2 DEF JobAt, Accounts, Queued
  <2>5. \A i : InRing(i)' <=> InRing(i) /\ i # JobAt(a)
    BY <1>1, <2>2, <2>4 DEF InRing
  <2>6. Queued'
    <3>1. \A w \in Workers : \A s \in Waiting(w)' :
            s \in Waiting(w) /\ ((wpc'[w] = "ran" /\ s = nextRead'[w]) <=> (wpc[w] = "ran" /\ s = nextRead[w]))
      BY <2>1, <2>2
    <3>2. QED
      BY <1>1, <2>1, <3>1 DEF Accounts, Queued
  <2>7. Placed'
    BY <1>1, <1>2, <2>1, <2>3, <2>5 DEF Accounts, Placed
  <2>8. OwedAhead'
    BY <1>1, <1>2, <2>2, <2>5 DEF Accounts, OwedAhead
  <2>9. QED
    BY <1>3, <2>6, <2>7, <2>8 DEF Accounts
<1>7. QED
  BY <1>4, <1>5, <1>6 DEF WorkerStep

(* A new pool has no jobs.                                                 *)
LEMMA InitAccounts == Init => Accounts
<1> SUFFICES ASSUME Init
             PROVE  Accounts
  OBVIOUS
<1>1. \A w \in Workers : Waiting(w) = {}
  <2>1. \A w \in Workers : \A s \in Slots : s \in Waiting(w) <=> 0 <= s /\ s < 0
    BY SlotsBetween, PoolAssumption DEF Init, Waiting, Slots
  <2>2. \A s \in Slots : ~(0 <= s /\ s < 0)
    BY DEF Slots
  <2>3. QED
    BY <2>1, <2>2 DEF Waiting
<1>2. \A j : ~InRing(j)
  BY <1>1 DEF InRing
<1>3. \A j \in Jobs : ~WithClient(j) /\ j > 0 /\ ~(j <= 0)
  BY DEF WithClient, Init, Jobs
<1>4. QED
  BY <1>1, <1>2, <1>3 DEF Init, Accounts, Carried, SlotFilled, Queued, Placed, OwedAhead

(* Every step keeps account of the jobs.                                   *)
LEMMA AccountsStep ==
  ASSUME IInv, Accounts, [Next]_vars
  PROVE  Accounts'
<1>1. CASE UNCHANGED vars
  <2>1. (\A w \in Workers : Waiting(w)' = Waiting(w)) /\ (\A i : InRing(i)' <=> InRing(i))
        /\ (\A i : WithClient(i)' <=> WithClient(i))
    BY <1>1, QueuesKept DEF vars, WithClient
  <2>2. QED
    BY <1>1, <2>1 DEF vars, Accounts, Carried, SlotFilled, Aim, Queued, Placed, OwedAhead
<1>2. QED
  BY <1>1, SubmitAccounts, WaitAccounts, FillAccounts, PublishAccounts, WorkerAccounts
  DEF Next, ClientStep

(* Wherever the jobs are, each is in one place and runs once.              *)
THEOREM EveryJobPlaced == Spec => []Accounts
<1>1. IInv /\ Accounts /\ [Next]_vars => Accounts'
  BY AccountsStep
<1>2. QED
  BY InitAccounts, RingsSound, <1>1, PTL DEF Spec

(* However many clients submit to however many workers with rings of       *)
(* whatever length, no job is lost and none is run twice.                  *)
THEOREM NoJobLost == Spec => []JobsAccounted
<1>1. IInv /\ Accounts => JobsAccounted
  <2> SUFFICES ASSUME IInv, Accounts, NEW j \in 1 .. issued
               PROVE  LET places == {p \in Workers \X Slots : p[2] \in Waiting(p[1]) /\ ring[p[1]][p[2]] = j}
                          over(p) == wpc[p[1]] = "ran" /\ p[2] = nextRead[p[1]]
                      IN IF \E c \in Clients : payload[c] = j THEN places = {} /\ runs[j] = 0
                         ELSE \/ places = {} /\ runs[j] = 1
                              \/ \E p \in places : places = {p} /\ runs[j] = IF over(p) THEN 1 ELSE 0
    BY DEF JobsAccounted
  <2> DEFINE places == {p \in Workers \X Slots : p[2] \in Waiting(p[1]) /\ ring[p[1]][p[2]] = j}
             over(p) == wpc[p[1]] = "ran" /\ p[2] = nextRead[p[1]]
  <2>1. j \in Jobs /\ j <= issued
    BY PoolAssumption DEF IInv, TypeOK, Jobs
  <2>2. CASE WithClient(j)
    BY <2>1, <2>2 DEF WithClient, InRing, Accounts, Placed
  <2>3. CASE ~WithClient(j) /\ ~InRing(j)
    BY <2>1, <2>3 DEF WithClient, InRing, Accounts, Placed
  <2>4. CASE ~WithClient(j) /\ InRing(j)
    <3>1. PICK w \in Workers : \E s \in Waiting(w) : ring[w][s] = j
      BY <2>4 DEF InRing
    <3> PICK s \in Waiting(w) : ring[w][s] = j
      BY <3>1
    <3>2. <<w, s>> \in places
      BY DEF Waiting
    <3>3. ASSUME NEW p \in places
          PROVE  p = <<w, s>>
      BY DEF Accounts, Queued
    <3>4. places = {<<w, s>>} /\ runs[j] = IF over(<<w, s>>) THEN 1 ELSE 0
      BY <3>2, <3>3 DEF Accounts, Queued
    <3>5. QED
      BY <2>4, <3>2, <3>4 DEF WithClient
  <2>5. QED
    BY <2>2, <2>3, <2>4
<1>2. QED
  BY <1>1, RingsSound, EveryJobPlaced, PTL

(* When waitForAll returns, what was submitted before it is done, though   *)
(* the workers were looked at one after the other.                         *)
THEOREM WaitedIsDone == Spec => []WaitMeansDone
<1>1. IInv /\ Accounts => WaitMeansDone
  BY DEF WaitMeansDone, Accounts, OwedAhead, Placed, IInv, TypeOK
<1>2. QED
  BY <1>1, RingsSound, EveryJobPlaced, PTL

===========================================================================
