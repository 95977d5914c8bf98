------------------- MODULE ConcurrentReadSyncLockProofs -------------------
(***************************************************************************)
(* Safety of the shared lock for every finite set of threads.  The         *)
(* inductive invariant joins the count of the readers (HoldersCounted) and *)
(* what the mutex sections guarantee (SectionsGuarded): a claiming writer  *)
(* saw readLocks = 0, hence no reader, and the mutex keeps it so until     *)
(* writeLocked is set.                                                     *)
(***************************************************************************)
EXTENDS ConcurrentReadSyncLock, FiniteSetTheorems, TLAPS

Typed ==
  /\ internalMutex \in SUBSET Threads
  /\ writeLocked \in BOOLEAN
  /\ readLocks \in Nat
  /\ pc \in [Threads -> Places]

IInv == Typed /\ HoldersCounted /\ SectionsGuarded

(* The readers are finitely many, and no more than the threads.            *)
LEMMA ReadersFinite ==
  IsFiniteSet(Readers) /\ Cardinality(Readers) \in Nat
  /\ Cardinality(Readers) <= Cardinality(Threads)
<1>1. Readers \subseteq Threads
  BY DEF Readers
<1>2. QED
  BY <1>1, ThreadsAssumption, FS_Subset, FS_CardinalityType

(* A count of zero means that there are no readers, which a writer relies  *)
(* on.                                                                     *)
LEMMA NoneCounted ==
  ASSUME HoldersCounted, readLocks = 0
  PROVE  Readers = {}
BY ReadersFinite, FS_EmptySet DEF HoldersCounted

(* The constructor establishes the invariant.                              *)
LEMMA InitInv == Init => IInv
<1> SUFFICES ASSUME Init PROVE IInv
  OBVIOUS
<1>1. Readers = {}
  BY DEF Init, Readers, CountedIn
<1>2. Cardinality(Readers) = 0
  BY <1>1, FS_EmptySet
<1>3. QED
  BY <1>1, <1>2 DEF Init, IInv, Typed, HoldersCounted, SectionsGuarded, Places

(* Only two actions change the set of readers.                             *)
LEMMA ReadersUnchanged ==
  ASSUME Typed, NEW t \in Threads,
         \/ RequestRead(t) \/ CheckWriter(t) \/ SeeWriterGone(t)
         \/ RequestWrite(t) \/ TryWrite(t) \/ ClaimWrite(t) \/ ReleaseWrite(t)
  PROVE  Readers' = Readers
BY DEF Typed, RequestRead, CheckWriter, SeeWriterGone, RequestWrite, TryWrite,
       ClaimWrite, ReleaseWrite, Readers, CountedIn, Go

(* A reader that counts itself in was not counted.                         *)
LEMMA ReaderJoins ==
  ASSUME Typed, NEW t \in Threads, CountReader(t)
  PROVE  /\ Readers' = Readers \union {t}
         /\ Cardinality(Readers') = Cardinality(Readers) + 1
<1>1. t \notin Readers /\ Readers' = Readers \union {t}
  BY DEF Typed, CountReader, Readers, CountedIn, Go
<1>2. QED
  BY <1>1, ReadersFinite, FS_AddElement

(* A reader that releases was counted, so the counter is above zero.       *)
LEMMA ReaderLeaves ==
  ASSUME Typed, NEW t \in Threads, ReleaseRead(t)
  PROVE  /\ Readers' = Readers \ {t}
         /\ Cardinality(Readers') = Cardinality(Readers) - 1
         /\ Cardinality(Readers) \in Nat \ {0}
<1>1. t \in Readers /\ Readers' = Readers \ {t}
  BY DEF Typed, ReleaseRead, Readers, CountedIn, Go
<1>2. Cardinality(Readers') = Cardinality(Readers) - 1
  BY <1>1, ReadersFinite, FS_RemoveElement
<1>3. Cardinality(Readers) # 0
  BY <1>1, ReadersFinite, FS_EmptySet
<1>4. QED
  BY <1>1, <1>2, <1>3, ReadersFinite

(* Every step of a reader or a writer keeps the invariant.                 *)
LEMMA InvStep ==
  ASSUME IInv, [Next]_vars
  PROVE  IInv'
<1> USE DEF IInv
<1>1. ASSUME NEW t \in Threads, RequestRead(t) \/ RequestWrite(t)
      PROVE  IInv'
  <2>1. Readers' = Readers
    BY <1>1, ReadersUnchanged
  <2>2. QED
    BY <1>1, <2>1 DEF Typed, HoldersCounted, SectionsGuarded, Places,
                      RequestRead, RequestWrite, Go
<1>2. ASSUME NEW t \in Threads, CountReader(t)
      PROVE  IInv'
  <2>1. readLocks' = Cardinality(Readers')
    BY <1>2, ReaderJoins DEF HoldersCounted, CountReader
  <2>2. Typed'
    BY <1>2 DEF Typed, Places, CountReader, Go
  <2>3. HoldersCounted'
    BY <1>2, <2>1 DEF Typed, HoldersCounted, CountReader, Go
  <2>4. SectionsGuarded'
    BY <1>2 DEF Typed, SectionsGuarded, Places, CountReader, Go
  <2>5. QED
    BY <2>2, <2>3, <2>4
<1>3. ASSUME NEW t \in Threads, CheckWriter(t)
      PROVE  IInv'
  <2>1. Readers' = Readers
    BY <1>3, ReadersUnchanged
  <2>2. QED
    BY <1>3, <2>1 DEF Typed, HoldersCounted, SectionsGuarded, Places, CheckWriter, Go
<1>4. ASSUME NEW t \in Threads, SeeWriterGone(t)
      PROVE  IInv'
  <2>1. Readers' = Readers
    BY <1>4, ReadersUnchanged
  <2>2. QED
    BY <1>4, <2>1 DEF Typed, HoldersCounted, SectionsGuarded, Places, SeeWriterGone, Go
<1>5. ASSUME NEW t \in Threads, ReleaseRead(t)
      PROVE  IInv'
  <2>1. readLocks' = Cardinality(Readers') /\ readLocks' \in Nat
    BY <1>5, ReaderLeaves DEF HoldersCounted, ReleaseRead
  <2>2. Typed'
    BY <1>5, <2>1 DEF Typed, Places, ReleaseRead, Go
  <2>3. HoldersCounted'
    BY <1>5, <2>1 DEF Typed, HoldersCounted, ReleaseRead, Go
  <2>4. SectionsGuarded'
    BY <1>5, ReaderLeaves DEF Typed, SectionsGuarded, Places, ReleaseRead, Go
  <2>5. QED
    BY <2>2, <2>3, <2>4
<1>6. ASSUME NEW t \in Threads, TryWrite(t)
      PROVE  IInv'
  <2>1. Readers' = Readers /\ Readers = {}
    BY <1>6, ReadersUnchanged, NoneCounted DEF TryWrite
  <2>2. QED
    BY <1>6, <2>1 DEF Typed, HoldersCounted, SectionsGuarded, Places, TryWrite, Go
<1>7. ASSUME NEW t \in Threads, ClaimWrite(t)
      PROVE  IInv'
  <2>1. Readers' = Readers /\ Readers = {}
    BY <1>7, ReadersUnchanged DEF SectionsGuarded, ClaimWrite
  <2>2. \A u \in Threads : pc[u] # "reading" /\ pc[u] # "writing"
    BY <1>7, <2>1 DEF ClaimWrite, HoldersCounted, SectionsGuarded, Readers, CountedIn
  <2>3. QED
    BY <1>7, <2>1, <2>2
    DEF Typed, HoldersCounted, SectionsGuarded, Places, ClaimWrite, Go
<1>8. ASSUME NEW t \in Threads, ReleaseWrite(t)
      PROVE  IInv'
  <2>1. Readers' = Readers
    BY <1>8, ReadersUnchanged
  <2>2. Typed'
    BY <1>8 DEF Typed, Places, ReleaseWrite, Go
  <2>3. HoldersCounted'
    BY <1>8, <2>1 DEF Typed, HoldersCounted, SectionsGuarded, ReleaseWrite, Go
  <2>4. SectionsGuarded'
    BY <1>8, <2>1 DEF Typed, SectionsGuarded, ReleaseWrite, Go
  <2>5. QED
    BY <2>2, <2>3, <2>4
<1>9. CASE UNCHANGED vars
  <2>1. Readers' = Readers
    BY <1>9 DEF vars, Readers, CountedIn
  <2>2. QED
    BY <1>9, <2>1 DEF vars, Typed, HoldersCounted, SectionsGuarded
<1>10. QED
  BY <1>1, <1>2, <1>3, <1>4, <1>5, <1>6, <1>7, <1>8, <1>9 DEF Next

(* So it always holds.                                                     *)
LEMMA Inductive == Spec => []IInv
<1>1. IInv /\ [Next]_vars => IInv'
  BY InvStep
<1>2. QED
  BY InitInv, <1>1, PTL DEF Spec

(* The state is well typed, and readLocks never exceeds the threads.       *)
THEOREM WellTyped == Spec => []TypeOK
<1>1. IInv => TypeOK
  BY ReadersFinite, ThreadsAssumption, FS_CardinalityType
  DEF IInv, Typed, HoldersCounted, TypeOK
<1>2. QED
  BY <1>1, Inductive, PTL

(* readLocks counts the readers and writeLocked tells of a writer.         *)
THEOREM Counted == Spec => []HoldersCounted
<1>1. IInv => HoldersCounted
  BY DEF IInv
<1>2. QED
  BY <1>1, Inductive, PTL

(* One writer and nobody else, or readers only.                            *)
THEOREM Exclusion == Spec => []WriterExcludes
<1>1. IInv => WriterExcludes
  BY DEF IInv, HoldersCounted, SectionsGuarded, WriterExcludes
<1>2. QED
  BY <1>1, Inductive, PTL

(* A writer gets in only when no reader is counted in.                     *)
THEOREM ReadersBeforeWriters == Spec => NoWriterJumpsAReader
<1>1. ASSUME IInv, [Next]_vars, NEW w \in Threads, StartsWriting(w)
      PROVE  Readers = {}
  <2>1. ClaimWrite(w)
    BY <1>1 DEF IInv, Typed, StartsWriting, Next, vars, Go, RequestRead, CountReader,
       CheckWriter, SeeWriterGone, ReleaseRead, RequestWrite, TryWrite, ClaimWrite,
       ReleaseWrite
  <2>2. QED
    BY <1>1, <2>1 DEF IInv, SectionsGuarded, ClaimWrite
<1>2. IInv /\ [Next]_vars => [ReadersFirst]_vars
  BY <1>1 DEF ReadersFirst
<1>3. QED
  BY <1>2, Inductive, PTL DEF Spec, NoWriterJumpsAReader

===========================================================================
