------------------------------- MODULE Thread -------------------------------
(***************************************************************************)
(* WITE/thread: spawnThread and the map of threads.  The new thread and    *)
(* the one that spawned it shake hands through sem, a variable in the      *)
(* frame of spawnThread, so that the new thread starts its entry only when *)
(* it is in the map and never touches sem when spawnThread has returned.   *)
(*                                                                         *)
(* Parents spawn one thread after the other and join it.  The system gives *)
(* the id of a joined thread to the next one that it likes.                *)
(***************************************************************************)
EXTENDS Naturals, FiniteSets

CONSTANTS
  Parents,             \* threads that spawn
  Tids,                \* ids of spawned threads
  MaxSpawns            \* bound: threads spawned

ThreadAssumption == IsFiniteSet(Tids) /\ Parents \intersect Tids = {} /\ MaxSpawns \in Nat

VARIABLES
  at,                  \* where each parent is in spawnThread or join
  sem,                 \* of each parent's call: 0, 1, 2, or "gone" when the call has returned
  baby,                \* the thread of each parent's call
  child,               \* where each spawned thread is, and its parent
  threads,             \* the entries of the map: id -> whether it is joinable and tid is set
  spawns, faults       \* history: threads spawned, uses of a sem that is gone

vars == <<at, sem, baby, child, threads, spawns, faults>>

NoThread == "none"
Unused == [pc |-> "unused", parent |-> NoThread]
Gone == 3

Init ==
  /\ at = [p \in Parents |-> "idle"]
  /\ sem = [p \in Parents |-> Gone]
  /\ baby = [p \in Parents |-> NoThread]
  /\ child = [t \in Tids |-> Unused]
  /\ threads = [t \in {} |-> {}]
  /\ spawns = 0 /\ faults = 0

(* threadResource::get: the entry of an id, made when there is none.       *)
Entry(t) == IF t \in DOMAIN threads THEN threads[t] ELSE {}

Set(t, field) == [u \in DOMAIN threads \union {t} |-> IF u = t THEN Entry(t) \union {field} ELSE threads[u]]

Goto(p, place) == at' = [at EXCEPT ![p] = place]

(***************************************************************************)
(* The parent                                                              *)
(***************************************************************************)
Spawn(p, t) ==
  /\ at[p] = "idle" /\ child[t].pc = "unused" /\ spawns < MaxSpawns
  /\ child' = [child EXCEPT ![t] = [pc |-> "spin", parent |-> p]]
  /\ sem' = [sem EXCEPT ![p] = 0]
  /\ baby' = [baby EXCEPT ![p] = t]
  /\ spawns' = spawns + 1
  /\ Goto(p, "register")
  /\ UNCHANGED <<threads, faults>>

(* The entry takes over the thread object, which is joinable.              *)
Register(p) ==
  /\ at[p] = "register"
  /\ threads' = Set(baby[p], "joinable")
  /\ Goto(p, "allow")
  /\ UNCHANGED <<sem, baby, child, spawns, faults>>

Allow(p) ==
  /\ at[p] = "allow"
  /\ sem' = [sem EXCEPT ![p] = 1]
  /\ Goto(p, "await")
  /\ UNCHANGED <<baby, child, threads, spawns, faults>>

Answered_Any(p) == sem[p] \in {1, 2}
Answered(p) == sem[p] = 2

Return(p) ==
  /\ at[p] = "await" /\ Answered(p)
  /\ sem' = [sem EXCEPT ![p] = Gone]
  /\ Goto(p, "spawned")
  /\ UNCHANGED <<baby, child, threads, spawns, faults>>

(* "all spawned threads should be joined": the entry keeps its object,     *)
(* which is not joinable any more.                                         *)
Join(p) ==
  /\ at[p] = "spawned" /\ child[baby[p]].pc = "done"
  /\ child' = [child EXCEPT ![baby[p]] = Unused]
  /\ threads' = [threads EXCEPT ![baby[p]] = @ \ {"joinable"}]
  /\ baby' = [baby EXCEPT ![p] = NoThread]
  /\ Goto(p, "idle")
  /\ UNCHANGED <<sem, spawns, faults>>

(***************************************************************************)
(* The new thread                                                          *)
(***************************************************************************)
Touch(t) == faults' = faults + (IF sem[child[t].parent] = Gone THEN 1 ELSE 0)

Step(t, from, to) == child[t].pc = from /\ child' = [child EXCEPT ![t].pc = to]

Spin(t) == sem[child[t].parent] # 0

Awake(t) ==
  /\ Step(t, "spin", "answer")
  /\ Spin(t) /\ Touch(t)
  /\ UNCHANGED <<at, sem, baby, threads, spawns>>

Answer(t) ==
  /\ Step(t, "answer", "init")
  /\ sem' = [sem EXCEPT ![child[t].parent] = 2]
  /\ Touch(t)
  /\ UNCHANGED <<at, baby, threads, spawns>>

initThisThread(t) ==
  /\ Step(t, "init", "entry")
  /\ threads' = Set(t, "tid")
  /\ UNCHANGED <<at, sem, baby, spawns, faults>>

Finish(t) ==
  /\ Step(t, "entry", "done")
  /\ UNCHANGED <<at, sem, baby, threads, spawns, faults>>

Next ==
  \/ \E p \in Parents :
       (\E t \in Tids : Spawn(p, t)) \/ Register(p) \/ Allow(p) \/ Return(p) \/ Join(p)
  \/ \E t \in Tids : Awake(t) \/ Answer(t) \/ initThisThread(t) \/ Finish(t)

Spec == Init /\ [][Next]_vars

(***************************************************************************)
(* Properties                                                              *)
(***************************************************************************)
(* Places, semaphores, threads and the entries of the map have the values  *)
(* that spawnThread and the new thread give them.                          *)
TypeOK ==
  /\ at \in [Parents -> {"idle", "register", "allow", "await", "spawned"}]
  /\ sem \in [Parents -> {0, 1, 2, Gone}]
  /\ baby \in [Parents -> Tids \union {NoThread}]
  /\ child \in [Tids -> [pc : {"unused", "spin", "answer", "init", "entry", "done"},
                         parent : Parents \union {NoThread}]]
  /\ DOMAIN threads \subseteq Tids
  /\ threads \in [DOMAIN threads -> SUBSET {"joinable", "tid"}]
  /\ spawns \in Nat /\ faults \in Nat

(* A thread runs its entry only when its thread object is in the map, where*)
(* current finds it and join, which warns and returns if it is not         *)
(* joinable, can wait for it; and sem is used only while spawnThread still *)
(* has it on its stack.                                                    *)
HandshakeHolds ==
  /\ faults = 0
  /\ \A t \in Tids : child[t].pc \in {"entry", "done"} => Entry(t) = {"joinable", "tid"}
  /\ \A p \in Parents : at[p] = "spawned" => "joinable" \in Entry(baby[p])
=============================================================================
