---------------------- MODULE ConcurrentReadSyncLock ----------------------
(***************************************************************************)
(* The shared lock of WITE/concurrentReadSyncLock.{hpp,cpp}: one writer, or *)
(* any number of readers.  Its counters are guarded by a syncLock, here the *)
(* variable internalMutex (its owners: SyncLockProofs shows there is at     *)
(* most one, and SyncLock that whoever asks for it gets it).  A reader that *)
(* found a writer inside waits WITHOUT the mutex, reading writeLocked.      *)
(***************************************************************************)
EXTENDS Naturals, FiniteSets

CONSTANT Threads

ASSUME ThreadsAssumption == IsFiniteSet(Threads)

VARIABLES
  internalMutex,  \* the threads inside a section of internalMutex
  writeLocked,
  readLocks,
  pc              \* where each thread is in the code

vars == <<internalMutex, writeLocked, readLocks, pc>>

(***************************************************************************)
(* "idle"         holds nothing                                            *)
(* "wantsRead"    called acquireRead, waits for the mutex                  *)
(* "counted"      in the mutex, readLocks incremented                      *)
(* "awaitsWriter" out of the mutex, in the loop that reads writeLocked     *)
(* "reading"      acquireRead returned                                     *)
(* "wantsWrite"   called acquireWrite, outside the mutex                   *)
(* "claiming"     in the mutex, found no holder, writeLocked not set yet   *)
(* "writing"      acquireWrite returned                                    *)
(***************************************************************************)
Places == {"idle", "wantsRead", "counted", "awaitsWriter", "reading",
           "wantsWrite", "claiming", "writing"}

CountedIn(t) == pc[t] \in {"counted", "awaitsWriter", "reading"}

Readers == {t \in Threads : CountedIn(t)}

Go(t, place) == pc' = [pc EXCEPT ![t] = place]

Init ==
  /\ internalMutex = {}
  /\ writeLocked = FALSE
  /\ readLocks = 0
  /\ pc = [t \in Threads |-> "idle"]

RequestRead(t) ==
  /\ pc[t] = "idle"
  /\ Go(t, "wantsRead")
  /\ UNCHANGED <<internalMutex, writeLocked, readLocks>>

RequestWrite(t) ==
  /\ pc[t] = "idle"
  /\ Go(t, "wantsWrite")
  /\ UNCHANGED <<internalMutex, writeLocked, readLocks>>

CountReader_Late(t) ==
  /\ pc[t] = "wantsRead"
  /\ internalMutex = {}
  /\ internalMutex' = {t}
  /\ IF writeLocked THEN UNCHANGED readLocks ELSE readLocks' = readLocks + 1
  /\ Go(t, "counted")
  /\ UNCHANGED writeLocked

(* acquireRead takes the mutex and counts itself in, writer or no writer.  *)
CountReader(t) ==
  /\ pc[t] = "wantsRead"
  /\ internalMutex = {}
  /\ internalMutex' = {t}
  /\ readLocks' = readLocks + 1
  /\ Go(t, "counted")
  /\ UNCHANGED writeLocked

CheckWriter_Skipped(t) ==
  /\ pc[t] = "counted"
  /\ internalMutex' = {}
  /\ Go(t, "reading")
  /\ UNCHANGED <<writeLocked, readLocks>>

(* The end of the mutex section: no writer, return; else go and wait.      *)
CheckWriter(t) ==
  /\ pc[t] = "counted"
  /\ internalMutex' = {}
  /\ Go(t, IF writeLocked THEN "awaitsWriter" ELSE "reading")
  /\ UNCHANGED <<writeLocked, readLocks>>

(* The loop of acquireRead leaves when it reads FALSE, mutex or no mutex.  *)
SeeWriterGone(t) ==
  /\ pc[t] = "awaitsWriter"
  /\ ~writeLocked
  /\ Go(t, "reading")
  /\ UNCHANGED <<internalMutex, writeLocked, readLocks>>

ReleaseRead(t) ==
  /\ pc[t] = "reading"
  /\ internalMutex = {}
  /\ readLocks' = readLocks - 1
  /\ Go(t, "idle")
  /\ UNCHANGED <<internalMutex, writeLocked>>

TryWrite_IgnoresReaders(t) ==
  /\ pc[t] = "wantsWrite"
  /\ internalMutex = {}
  /\ ~writeLocked
  /\ internalMutex' = {t}
  /\ Go(t, "claiming")
  /\ UNCHANGED <<writeLocked, readLocks>>

(***************************************************************************)
(* One turn of the loop of acquireWrite that finds no holder.  A turn that *)
(* finds one gives the mutex back and sleeps: it changes nothing.          *)
(***************************************************************************)
TryWrite(t) ==
  /\ pc[t] = "wantsWrite"
  /\ internalMutex = {}
  /\ ~writeLocked /\ readLocks = 0
  /\ internalMutex' = {t}
  /\ Go(t, "claiming")
  /\ UNCHANGED <<writeLocked, readLocks>>

ClaimWrite(t) ==
  /\ pc[t] = "claiming"
  /\ writeLocked' = TRUE
  /\ internalMutex' = {}
  /\ Go(t, "writing")
  /\ UNCHANGED readLocks

ReleaseWrite(t) ==
  /\ pc[t] = "writing"
  /\ internalMutex = {}
  /\ writeLocked' = FALSE
  /\ Go(t, "idle")
  /\ UNCHANGED <<internalMutex, readLocks>>

Next ==
  \E t \in Threads :
    \/ RequestRead(t) \/ CountReader(t) \/ CheckWriter(t)
    \/ SeeWriterGone(t) \/ ReleaseRead(t)
    \/ RequestWrite(t) \/ TryWrite(t) \/ ClaimWrite(t) \/ ReleaseWrite(t)

(***************************************************************************)
(* Strong fairness where the step waits for the mutex: SyncLock serves in  *)
(* order, so a thread that asks is let in though others come and go.  No   *)
(* fairness for TryWrite: between two turns of its loop a writer is not in *)
(* the queue of the mutex, and nothing keeps new readers out meanwhile.    *)
(***************************************************************************)
Fairness ==
  \A t \in Threads :
    /\ SF_vars(CountReader(t)) /\ SF_vars(ReleaseRead(t)) /\ SF_vars(ReleaseWrite(t))
    /\ WF_vars(CheckWriter(t)) /\ WF_vars(SeeWriterGone(t)) /\ WF_vars(ClaimWrite(t))

Spec == Init /\ [][Next]_vars

FairSpec == Spec /\ Fairness

---------------------------------------------------------------------------

(* No more holds are counted than there are threads: each release takes    *)
(* back one acquire, so the unsigned counter never goes below zero.        *)
TypeOK ==
  /\ internalMutex \in SUBSET Threads
  /\ writeLocked \in BOOLEAN
  /\ readLocks \in 0 .. Cardinality(Threads)
  /\ pc \in [Threads -> Places]

(* "one write hold with no reads, or many read holds with no write"        *)
(* (concurrentReadSyncLock.hpp:21).                                        *)
WriterExcludes ==
  \A w \in Threads : pc[w] = "writing" =>
    \A t \in Threads \ {w} : pc[t] \notin {"reading", "writing"}

(* readLocks counts the readers inside and those that wait for a writer,   *)
(* each once, and writeLocked tells whether somebody writes.               *)
HoldersCounted ==
  /\ readLocks = Cardinality(Readers)
  /\ writeLocked <=> \E w \in Threads : pc[w] = "writing"

(* What the mutex protects: a thread inside one of its sections is alone,  *)
(* and what a claiming writer saw is still so when it sets writeLocked.    *)
SectionsGuarded ==
  /\ \A t \in Threads : t \in internalMutex <=> pc[t] \in {"counted", "claiming"}
  /\ \A t, u \in internalMutex : t = u
  /\ \A t \in Threads : pc[t] = "claiming" => ~writeLocked /\ Readers = {}
  /\ \A t \in Threads : pc[t] = "reading" => ~writeLocked
  /\ \A t, u \in Threads : pc[t] = "writing" /\ pc[u] = "writing" => t = u

StartsWriting(w) == pc[w] # "writing" /\ pc'[w] = "writing"

ReadersFirst == \A w \in Threads : StartsWriting(w) => Readers = {}

(* "do this early to prevent a new write from grabbing hold if a new one   *)
(* appears while we wait" (concurrentReadSyncLock.cpp:23): once a reader   *)
(* is counted in, no further writer gets in before it has read.            *)
NoWriterJumpsAReader == [][ReadersFirst]_vars

(* So every reader reads, however many writers there are.                  *)
ReadersServed == \A t \in Threads : pc[t] = "wantsRead" ~> pc[t] = "reading"

===========================================================================
