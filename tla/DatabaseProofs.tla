-------------------------- MODULE DatabaseProofs --------------------------
(***************************************************************************)
(* Database for every number of rows, workers and frames, in three parts.  *)
(*                                                                         *)
(* The walk of updateAll: provided that no job destroys a row of another,  *)
(* no row misses its update and no row is updated by two jobs at once,     *)
(* however the walk interleaves with jobs that create rows and destroy     *)
(* their own.  The argument is about the list: what stands before the      *)
(* iterator was submitted or came too late to matter, what stands from the *)
(* iterator on was not submitted.  A job only unlinks its own row, which is*)
(* before the iterator, and created rows join the list at its end.         *)
(*                                                                         *)
(* The frames of rows, logs and backups, whatever the jobs do.             *)
(*                                                                         *)
(* The phases, again provided that no job destroys a row of another:       *)
(* between the phases index, spun up rows and log agree with the list.     *)
(* Jobs may create rows while the walk submits them, and then the job of a *)
(* row can overtake its create; the history variable overtaken has those   *)
(* rows, and the argument is about all others, which one actor has in hand *)
(* at a time (README, 6).                                                  *)
(***************************************************************************)
EXTENDS Database, TLAPS, WellFoundedInduction

Kinds == {"update", "spunUp", "spunDown"}

(* The part of TypeOK the walk depends on, and where begun and seen lie.   *)
Typed ==
  /\ order \in Seq(Rows) /\ IsInjective(order)
  /\ queue \subseteq Kinds \X Rows
  /\ iter \in Rows \union {None}
  /\ DOMAIN pc = Actors
  /\ doing \in [Workers -> Rows \union {None}]
  /\ target \in [Actors -> Rows \union {None}]
  /\ begun \subseteq Listed /\ seen \subseteq Listed

(* Jobs only run between updateTick and the end of the frame.              *)
Quiet ==
  pc[Main] \notin {"updating", "updated"} =>
    (\A w \in Workers : pc[w] = "idle") /\ \A r \in Rows : <<"update", r>> \notin queue

(* A worker that is not idle has a row, and destroys no other.             *)
AtWork ==
  \A w \in Workers :
    /\ (pc[w] = "idle") <=> (doing[w] = None)
    /\ pc[w] \in {"deindexed", "spunDown"} => target[w] = doing[w]

(* Jobs, queued or running, are about rows the walk has passed.            *)
JobsSeen ==
  /\ \A r \in Rows : <<"update", r>> \in queue => r \in seen
  /\ \A w \in Workers : doing[w] # None => doing[w] \in seen

(* Where the iterator stands.                                              *)
Splits(k) ==
  /\ order[k] = iter
  /\ \A i \in DOMAIN order : i >= k => order[i] \notin seen
  /\ \A i \in DOMAIN order : i < k /\ order[i] \in begun => order[i] \in seen

Walk ==
  /\ iter # None => pc[Main] = "updating" /\ \E k \in DOMAIN order : Splits(k)
  /\ iter = None /\ pc[Main] \in {"updating", "updated"} => begun \subseteq seen

IInv == Typed /\ Quiet /\ AtWork /\ JobsSeen /\ OneJobPerRow /\ Walk

-----------------------------------------------------------------------------
(* Taking out one of the rows of a list moves those behind it one place    *)
(* forward and leaves the others.                                          *)
LEMMA RemoveAtShifts ==
  ASSUME NEW S, NEW s \in Seq(S), NEW k \in DOMAIN s
  PROVE  /\ RemoveAt(s, k) \in Seq(S)
         /\ DOMAIN RemoveAt(s, k) = 1 .. Len(s) - 1
         /\ \A i \in 1 .. Len(s) - 1 : RemoveAt(s, k)[i] = IF i < k THEN s[i] ELSE s[i + 1]
<1> k \in Nat /\ 1 <= k /\ k <= Len(s) /\ Len(s) \in Nat
  OBVIOUS
<1> DEFINE p == SubSeq(s, 1, k - 1)
           q == SubSeq(s, k + 1, Len(s))
<1>1. p \in Seq(S) /\ Len(p) = k - 1 /\ \A i \in 1 .. k - 1 : p[i] = s[i]
  OBVIOUS
<1>2. q \in Seq(S) /\ Len(q) = Len(s) - k /\ \A i \in 1 .. Len(s) - k : q[i] = s[k + i]
  OBVIOUS
<1>3. RemoveAt(s, k) = p \o q
  BY DEF RemoveAt
<1> HIDE DEF p, q
<1>4. Len(p \o q) = Len(s) - 1 /\ p \o q \in Seq(S)
  BY <1>1, <1>2
<1>5. ASSUME NEW i \in 1 .. Len(s) - 1
      PROVE  (p \o q)[i] = IF i < k THEN s[i] ELSE s[i + 1]
  <2>1. CASE i < k
    BY <1>1, <1>2, <2>1
  <2>2. CASE ~(i < k)
    <3>1. i - (k - 1) \in 1 .. Len(s) - k /\ k + (i - (k - 1)) = i + 1
      BY <2>2
    <3>2. (p \o q)[i] = q[i - (k - 1)]
      BY <1>1, <1>2, <2>2
    <3>3. QED
      BY <1>2, <2>2, <3>1, <3>2
  <2>3. QED
    BY <2>1, <2>2
<1>6. QED
  BY <1>3, <1>4, <1>5

(* The list without r: what it holds, and where its rows stand.            *)
LEMMA UnlinkedList ==
  ASSUME order \in Seq(Rows), IsInjective(order), NEW r \in Listed
  PROVE  \E j \in DOMAIN order :
           /\ order[j] = r
           /\ Unlinked(r) \in Seq(Rows)
           /\ DOMAIN Unlinked(r) = 1 .. Len(order) - 1
           /\ \A i \in 1 .. Len(order) - 1 : Unlinked(r)[i] = IF i < j THEN order[i] ELSE order[i + 1]
           /\ IsInjective(Unlinked(r))
           /\ ToSet(Unlinked(r)) = Listed \ {r}
<1> DEFINE j == CHOOSE i \in DOMAIN order : order[i] = r
           u == Unlinked(r)
<1>1. order \in Seq(Rows) /\ DOMAIN order = 1 .. Len(order) /\ Len(order) \in Nat
  OBVIOUS
<1>2. j \in DOMAIN order /\ order[j] = r
  <2>1. \E i \in DOMAIN order : order[i] = r
    BY DEF Listed, ToSet
  <2>2. QED
    BY <2>1
<1>3. u = RemoveAt(order, j)
  BY DEF Unlinked
<1> HIDE DEF j, u
<1>4. /\ u \in Seq(Rows) /\ DOMAIN u = 1 .. Len(order) - 1
      /\ \A i \in 1 .. Len(order) - 1 : u[i] = IF i < j THEN order[i] ELSE order[i + 1]
  BY <1>1, <1>2, <1>3, RemoveAtShifts
<1>5. IsInjective(u)
  <2>1. SUFFICES ASSUME NEW a \in 1 .. Len(order) - 1, NEW b \in 1 .. Len(order) - 1, u[a] = u[b]
                 PROVE  a = b
    BY <1>4 DEF IsInjective
  <2>2. PICK x \in DOMAIN order : u[a] = order[x] /\ x = IF a < j THEN a ELSE a + 1
    BY <1>1, <1>2, <1>4
  <2>3. PICK y \in DOMAIN order : u[b] = order[y] /\ y = IF b < j THEN b ELSE b + 1
    BY <1>1, <1>2, <1>4
  <2>4. x = y
    BY <2>1, <2>2, <2>3 DEF IsInjective
  <2>5. QED
    BY <1>1, <1>2, <2>2, <2>3, <2>4
<1>6. ToSet(u) \subseteq Listed \ {r}
  <2>1. SUFFICES ASSUME NEW a \in 1 .. Len(order) - 1
                 PROVE  u[a] \in Listed \ {r}
    BY <1>4 DEF ToSet
  <2>2. PICK x \in DOMAIN order : u[a] = order[x] /\ x = IF a < j THEN a ELSE a + 1
    BY <1>1, <1>2, <1>4
  <2>3. x # j
    BY <1>1, <1>2, <2>2
  <2>4. order[x] # r
    BY <1>2, <2>3 DEF IsInjective
  <2>5. QED
    BY <2>2, <2>4 DEF Listed, ToSet
<1>7. Listed \ {r} \subseteq ToSet(u)
  <2>1. SUFFICES ASSUME NEW x \in 1 .. Len(order), order[x] # r
                 PROVE  order[x] \in ToSet(u)
    BY <1>1 DEF Listed, ToSet
  <2>2. x # j
    BY <1>2, <2>1
  <2>3. CASE x < j
    <3>1. x \in 1 .. Len(order) - 1 /\ u[x] = order[x]
      BY <1>1, <1>2, <1>4, <2>3
    <3>2. QED
      BY <1>4, <3>1 DEF ToSet
  <2>4. CASE ~(x < j)
    <3>1. x - 1 \in 1 .. Len(order) - 1 /\ u[x - 1] = order[x]
      BY <1>1, <1>2, <1>4, <2>2, <2>4
    <3>2. QED
      BY <1>4, <3>1 DEF ToSet
  <2>5. QED
    BY <2>3, <2>4
<1>8. QED
  BY <1>2, <1>4, <1>5, <1>6, <1>7 DEF u

(* The list with a new row at its end.                                     *)
LEMMA LengthenedList ==
  ASSUME order \in Seq(Rows), IsInjective(order), NEW r \in Rows, r \notin Listed
  PROVE  /\ Append(order, r) \in Seq(Rows)
         /\ IsInjective(Append(order, r))
         /\ ToSet(Append(order, r)) = Listed \union {r}
<1>1. order \in Seq(Rows) /\ DOMAIN order = 1 .. Len(order) /\ Len(order) \in Nat
  OBVIOUS
<1>2. \A i \in DOMAIN order : order[i] # r
  BY DEF Listed, ToSet
<1>3. /\ Append(order, r) \in Seq(Rows) /\ DOMAIN Append(order, r) = 1 .. Len(order) + 1
      /\ Append(order, r)[Len(order) + 1] = r
      /\ \A i \in DOMAIN order : Append(order, r)[i] = order[i]
  BY <1>1
<1>4. IsInjective(Append(order, r))
  BY <1>1, <1>2, <1>3 DEF IsInjective
<1>5. ToSet(Append(order, r)) = Listed \union {r}
  BY <1>1, <1>3 DEF Listed, ToSet
<1>6. QED
  BY <1>3, <1>4, <1>5

(* What follows a row of the list.                                         *)
LEMMA AfterNext ==
  ASSUME Typed, NEW k \in DOMAIN order
  PROVE  After(order[k]) = IF k < Len(order) THEN order[k + 1] ELSE None
<1>1. DOMAIN order = 1 .. Len(order) /\ Len(order) \in Nat
  BY DEF Typed
<1> DEFINE here == {i \in DOMAIN order : order[i] = order[k] /\ i < Len(order)}
<1>2. After(order[k]) = IF here = {} THEN None ELSE order[1 + CHOOSE i \in here : TRUE]
  BY DEF After
<1>3. \A i \in here : i = k
  BY DEF Typed, IsInjective
<1>4. k < Len(order) => here = {k}
  BY <1>3
<1>5. ~(k < Len(order)) => here = {}
  BY <1>3
<1> HIDE DEF here
<1>6. CASE k < Len(order)
  <2>1. (CHOOSE i \in here : TRUE) = k
    BY <1>4, <1>6
  <2>2. 1 + k = k + 1
    BY <1>1
  <2>3. QED
    BY <1>2, <1>4, <1>6, <2>1, <2>2
<1>7. CASE ~(k < Len(order))
  BY <1>2, <1>5, <1>7
<1>8. QED
  BY <1>6, <1>7

-----------------------------------------------------------------------------
(* An empty table has nothing to walk.                                     *)
LEMMA InitIInv == Init => IInv
<1> SUFFICES ASSUME Init
             PROVE  IInv
  OBVIOUS
<1>1. order = <<>> /\ Listed = {} /\ order \in Seq(Rows) /\ IsInjective(order)
  BY DEF Init, Listed, ToSet, IsInjective
<1>2. Typed /\ Quiet /\ AtWork /\ JobsSeen /\ OneJobPerRow /\ Walk
  BY <1>1, DatabaseAssumption DEF Init, Typed, Quiet, AtWork, JobsSeen, OneJobPerRow, Walk, Actors
<1>3. QED
  BY <1>2 DEF IInv

(* A step that leaves the list, the walk and the jobs in hand alone.       *)
LEMMA Aside ==
  ASSUME IInv,
         UNCHANGED <<order, iter, doing, begun, seen>>,
         DOMAIN pc' = Actors, target' \in [Actors -> Rows \union {None}],
         queue' \subseteq Kinds \X Rows,
         \A r \in Rows : <<"update", r>> \in queue' => <<"update", r>> \in queue,
         pc'[Main] = pc[Main]
           \/ ({pc[Main], pc'[Main]} \intersect {"updating", "updated"} = {}),
         \A w \in Workers :
           /\ (pc'[w] = "idle") <=> (pc[w] = "idle")
           /\ pc'[w] \in {"deindexed", "spunDown"} => target'[w] = doing[w]
  PROVE  IInv'
<1>1. Typed'
  BY DEF IInv, Typed, Listed
<1>2. Quiet'
  BY DEF IInv, Quiet
<1>3. AtWork'
  BY DEF IInv, AtWork
<1>4. JobsSeen'
  BY DEF IInv, JobsSeen
<1>5. OneJobPerRow'
  BY DEF IInv, OneJobPerRow, Typed
<1>6. Walk'
  BY DEF IInv, Walk, Splits
<1>7. QED
  BY <1>1, <1>2, <1>3, <1>4, <1>5, <1>6 DEF IInv

(* updateTick begins a walk over rows none of which has been submitted.    *)
LEMMA updateTickStep ==
  ASSUME IInv, updateTick
  PROVE  IInv'
<1> USE DatabaseAssumption DEF IInv, table, backup
<1>1. /\ UNCHANGED <<order, queue, doing, target>>
      /\ begun' = Listed /\ seen' = {}
      /\ iter' = IF order = <<>> THEN None ELSE Head(order)
      /\ pc' = [pc EXCEPT ![Main] = "updating"]
      /\ queue = {} /\ \A w \in Workers : pc[w] = "idle"
  BY DEF updateTick, Moves, Goto, AllDone
<1>2. order # <<>> => 1 \in DOMAIN order /\ Head(order) = order[1]
  BY DEF Typed
<1>3. Listed' = Listed /\ \A i \in DOMAIN order : order[i] \in Listed
  BY <1>1 DEF Listed, ToSet
<1>4. Typed'
  BY <1>1, <1>2, <1>3 DEF Typed
<1>5. pc'[Main] = "updating" /\ \A w \in Workers : pc'[w] = pc[w]
  BY <1>1 DEF Typed, Actors
<1>6. Quiet' /\ AtWork' /\ JobsSeen' /\ OneJobPerRow'
  BY <1>1, <1>5 DEF Quiet, AtWork, JobsSeen, OneJobPerRow
<1>7. Walk'
  <2>1. CASE order = <<>>
    <3>1. Listed = {}
      BY <2>1 DEF Listed, ToSet
    <3>2. QED
      BY <1>1, <2>1, <3>1 DEF Walk
  <2>2. CASE order # <<>>
    <3>1. Splits(1)'
      BY <1>1, <1>2, <2>2 DEF Splits, Typed
    <3>2. iter' # None
      BY <1>1, <1>2, <1>3, <2>2 DEF Typed
    <3>3. QED
      BY <1>1, <1>2, <1>5, <2>2, <3>1, <3>2 DEF Walk
  <2>3. QED
    BY <2>1, <2>2
<1>8. QED
  BY <1>4, <1>6, <1>7

(* Submit passes the row it submits: its successor is the next unseen row. *)
LEMMA SubmitStep ==
  ASSUME IInv, Submit
  PROVE  IInv'
<1> USE DatabaseAssumption DEF IInv, table, backup
<1>1. /\ UNCHANGED <<order, pc, doing, target, begun>>
      /\ queue' = queue \union {<<"update", iter>>}
      /\ seen' = seen \union {iter} /\ iter' = After(iter)
      /\ pc[Main] = "updating" /\ iter # None
  BY DEF Submit
<1>2. PICK k \in DOMAIN order : Splits(k)
  BY <1>1 DEF Walk
<1>3. /\ DOMAIN order = 1 .. Len(order) /\ Len(order) \in Nat
      /\ \A i \in DOMAIN order : order[i] \in Rows /\ order[i] \in Listed
  BY DEF Typed, Listed, ToSet
<1>4. order[k] = iter /\ iter \in Listed /\ iter \in Rows /\ iter \notin seen
  BY <1>2, <1>3 DEF Splits
<1>5. iter' = IF k < Len(order) THEN order[k + 1] ELSE None
  BY <1>1, <1>4, AfterNext
<1>6. \A i \in DOMAIN order : i # k => order[i] # iter
  BY <1>4 DEF Typed, IsInjective
<1>7. Typed'
  <2>1. Listed' = Listed
    BY <1>1 DEF Listed
  <2>2. iter' \in Rows \union {None}
    BY <1>3, <1>5
  <2>3. queue' \subseteq Kinds \X Rows
    BY <1>1, <1>4 DEF Typed, Kinds
  <2>4. QED
    BY <1>1, <1>4, <2>1, <2>2, <2>3 DEF Typed
<1>8. Quiet' /\ AtWork'
  BY <1>1 DEF Quiet, AtWork
<1>9. JobsSeen'
  BY <1>1 DEF JobsSeen
<1>10. OneJobPerRow'
  BY <1>1, <1>4 DEF OneJobPerRow, JobsSeen
<1>11. Walk'
  <2>1. CASE k < Len(order)
    <3>1. k + 1 \in DOMAIN order /\ iter' = order[k + 1]
      BY <1>3, <1>5, <2>1
    <3>2. \A i \in DOMAIN order : i >= k + 1 => order[i] \notin seen'
      BY <1>1, <1>2, <1>3, <1>6 DEF Splits
    <3>3. \A i \in DOMAIN order : i < k + 1 /\ order[i] \in begun => order[i] \in seen'
      BY <1>1, <1>2, <1>3, <1>4 DEF Splits
    <3>4. Splits(k + 1)'
      BY <1>1, <3>1, <3>2, <3>3 DEF Splits
    <3>5. iter' # None
      BY <1>3, <3>1
    <3>6. QED
      BY <1>1, <3>1, <3>4, <3>5 DEF Walk
  <2>2. CASE ~(k < Len(order))
    <3>1. \A i \in DOMAIN order : order[i] \in begun => order[i] \in seen'
      BY <1>1, <1>2, <1>3, <1>4, <2>2 DEF Splits
    <3>2. begun \subseteq seen'
      BY <3>1 DEF Typed, Listed, ToSet
    <3>3. QED
      BY <1>1, <1>5, <2>2, <3>2 DEF Walk
  <2>3. QED
    BY <2>1, <2>2
<1>12. QED
  BY <1>7, <1>8, <1>9, <1>10, <1>11

(* The walk ends when the iterator has run out.                            *)
LEMMA AllSubmittedStep ==
  ASSUME IInv, AllSubmitted
  PROVE  IInv'
<1> USE DatabaseAssumption DEF IInv
<1>1. /\ UNCHANGED <<order, queue, iter, doing, target, begun, seen>>
      /\ iter = None /\ pc[Main] = "updating" /\ pc' = [pc EXCEPT ![Main] = "updated"]
  BY DEF AllSubmitted, Moves, Goto, table, ghosts
<1>2. pc'[Main] = "updated" /\ DOMAIN pc' = Actors /\ \A w \in Workers : pc'[w] = pc[w]
  BY <1>1 DEF Typed, Actors
<1>3. Typed'
  BY <1>1, <1>2 DEF Typed, Listed
<1>4. Quiet' /\ AtWork' /\ JobsSeen' /\ OneJobPerRow'
  BY <1>1, <1>2 DEF Quiet, AtWork, JobsSeen, OneJobPerRow
<1>5. Walk'
  BY <1>1, <1>2 DEF Walk
<1>6. QED
  BY <1>3, <1>4, <1>5

(* The job a worker takes was the only one about its row.                  *)
LEMMA TakeJobStep ==
  ASSUME IInv, NEW w \in Workers, NEW r \in Rows, TakeJob(w, r)
  PROVE  IInv'
<1> USE DatabaseAssumption DEF IInv
<1>1. r \in seen /\ r \in Listed /\ pc[w] = "idle" /\ <<"update", r>> \in queue
  BY DEF TakeJob, JobsSeen, Typed
<1>2. /\ UNCHANGED <<order, iter, target, begun, seen>>
      /\ queue' = queue \ {<<"update", r>>}
      /\ pc' = [pc EXCEPT ![w] = "update"] /\ doing' = [doing EXCEPT ![w] = r]
  BY <1>1 DEF TakeJob, Goto, table, ghosts
<1>3. /\ DOMAIN pc' = Actors /\ pc'[Main] = pc[Main] /\ pc'[w] = "update" /\ doing'[w] = r
      /\ doing' \in [Workers -> Rows \union {None}]
      /\ \A v \in Workers \ {w} : pc'[v] = pc[v] /\ doing'[v] = doing[v]
  BY <1>2 DEF Typed, Actors
<1>4. Typed'
  BY <1>2, <1>3 DEF Typed, Listed
<1>5. Quiet'
  BY <1>1, <1>2, <1>3 DEF Quiet
<1>6. AtWork'
  BY <1>1, <1>2, <1>3 DEF AtWork
<1>7. JobsSeen'
  BY <1>1, <1>2, <1>3 DEF JobsSeen
<1>8. OneJobPerRow'
  <2>1. \A v \in Workers \ {w} : doing[v] # r
    BY <1>1 DEF OneJobPerRow
  <2>2. QED
    BY <1>2, <1>3, <2>1 DEF OneJobPerRow
<1>9. Walk'
  BY <1>2, <1>3 DEF Walk, Splits
<1>10. QED
  BY <1>4, <1>5, <1>6, <1>7, <1>8, <1>9

(* JobReturns and Write both leave the worker idle.                        *)
LEMMA JobEnds ==
  ASSUME IInv, NEW w \in Workers, JobReturns(w) \/ Write(w)
  PROVE  IInv'
<1> USE DatabaseAssumption DEF IInv
<1>1. /\ UNCHANGED <<order, queue, iter, target, begun, seen>>
      /\ pc' = [pc EXCEPT ![w] = "idle"] /\ doing' = [doing EXCEPT ![w] = None]
  BY DEF JobReturns, Write, Moves, Goto, table, ghosts
<1>2. /\ DOMAIN pc' = Actors /\ pc'[Main] = pc[Main] /\ pc'[w] = "idle" /\ doing'[w] = None
      /\ doing' \in [Workers -> Rows \union {None}]
      /\ \A v \in Workers \ {w} : pc'[v] = pc[v] /\ doing'[v] = doing[v]
  BY <1>1 DEF Typed, Actors
<1>3. Typed'
  BY <1>1, <1>2 DEF Typed, Listed
<1>4. Quiet' /\ AtWork' /\ JobsSeen'
  BY <1>1, <1>2 DEF Quiet, AtWork, JobsSeen
<1>5. OneJobPerRow'
  BY <1>1, <1>2 DEF OneJobPerRow
<1>6. Walk'
  BY <1>1, <1>2 DEF Walk, Splits
<1>7. QED
  BY <1>3, <1>4, <1>5, <1>6

(* A new row joins the list behind the iterator's place.                   *)
LEMMA createStep ==
  ASSUME IInv, NEW a \in Actors, NEW r \in Rows, create(a, r)
  PROVE  IInv'
<1> USE DatabaseAssumption DEF IInv
<1>1. /\ UNCHANGED <<queue, iter, doing, begun, seen>>
      /\ order' = Append(order, r) /\ r \notin Listed
      /\ pc[a] = (IF a = Main THEN "idle" ELSE "update")
      /\ pc' = [pc EXCEPT ![a] = "listed"] /\ target' = [target EXCEPT ![a] = r]
  BY DEF create, Ready, Goto, ghosts
<1>2. order' \in Seq(Rows) /\ IsInjective(order') /\ Listed' = Listed \union {r}
  BY <1>1, LengthenedList DEF Listed, Typed
<1>3. DOMAIN pc' = Actors /\ pc'[a] = "listed" /\ \A b \in Actors \ {a} : pc'[b] = pc[b]
  BY <1>1 DEF Typed
<1>4. Typed'
  BY <1>1, <1>2, <1>3 DEF Typed
<1>5. pc'[Main] = pc[Main] \/ (pc[Main] = "idle" /\ pc'[Main] = "listed")
  BY <1>1, <1>3 DEF Actors
<1>6. \A w \in Workers : pc'[w] = pc[w] \/ (pc[w] = "update" /\ pc'[w] = "listed")
  BY <1>1, <1>3 DEF Actors
<1>7. \A w \in Workers : (pc'[w] = pc[w] /\ target'[w] = target[w]) \/ (pc[w] = "update" /\ pc'[w] = "listed")
  BY <1>1, <1>3 DEF Actors, Typed
<1>8. Quiet'
  BY <1>1, <1>5, <1>6 DEF Quiet
<1>9. AtWork' /\ JobsSeen'
  BY <1>1, <1>7 DEF AtWork, JobsSeen
<1>10. OneJobPerRow'
  BY <1>1 DEF OneJobPerRow
<1>11. Walk'
  <2>1. ASSUME iter # None
        PROVE  \E k \in DOMAIN order' : Splits(k)'
    <3>1. PICK k \in DOMAIN order : Splits(k)
      BY <2>1 DEF Walk
    <3>2. /\ DOMAIN order = 1 .. Len(order) /\ Len(order) \in Nat
          /\ DOMAIN order' = 1 .. Len(order) + 1 /\ order'[Len(order) + 1] = r
          /\ \A i \in DOMAIN order : order'[i] = order[i]
      BY <1>1 DEF Typed
    <3>3. r \notin seen
      BY <1>1 DEF Typed
    <3>4. Splits(k)'
      BY <1>1, <3>1, <3>2, <3>3 DEF Splits
    <3>5. QED
      BY <3>1, <3>2, <3>4
  <2>2. QED
    BY <1>1, <1>5, <2>1 DEF Walk
<1>12. QED
  BY <1>4, <1>8, <1>9, <1>10, <1>11

(* The row that is freed was passed by the walk, if there is one: those    *)
(* from the iterator on move forward together with it.                     *)
LEMMA FreedBehindIterator ==
  ASSUME Typed, NEW r \in Listed, NEW k \in DOMAIN order, Splits(k), r \in seen,
         order' = Unlinked(r), iter' = iter, begun' = begun \ {r}, seen' = seen \ {r}
  PROVE  k - 1 \in DOMAIN order' /\ Splits(k - 1)'
<1>1. PICK j \in DOMAIN order :
        /\ order[j] = r
        /\ DOMAIN order' = 1 .. Len(order) - 1
        /\ \A i \in 1 .. Len(order) - 1 : order'[i] = IF i < j THEN order[i] ELSE order[i + 1]
  BY UnlinkedList DEF Typed
<1>2. DOMAIN order = 1 .. Len(order) /\ Len(order) \in Nat
  BY DEF Typed
<1>3. j < k
  BY <1>1, <1>2 DEF Splits
<1>4. k - 1 \in DOMAIN order' /\ order'[k - 1] = order[k]
  BY <1>1, <1>2, <1>3
<1>5. ASSUME NEW i \in DOMAIN order', i >= k - 1
      PROVE  order'[i] \notin seen'
  <2>1. order'[i] = order[i + 1] /\ i + 1 \in DOMAIN order /\ i + 1 >= k
    BY <1>1, <1>2, <1>3, <1>5
  <2>2. QED
    BY <2>1 DEF Splits
<1>6. ASSUME NEW i \in DOMAIN order', i < k - 1, order'[i] \in begun'
      PROVE  order'[i] \in seen'
  <2>1. PICK x \in DOMAIN order : order'[i] = order[x] /\ x < k
    BY <1>1, <1>2, <1>6
  <2>2. QED
    BY <1>6, <2>1 DEF Splits
<1>7. QED
  BY <1>4, <1>5, <1>6 DEF Splits

(* A job that frees its own row ends there.                                *)
LEMMA WorkerFreesStep ==
  ASSUME IInv, NEW w \in Workers, DestroyFrees(w)
  PROVE  IInv'
<1> USE DatabaseAssumption DEF IInv
<1> DEFINE r == doing[w]
<1>1. target[w] = r /\ w # Main /\ pc[w] = "spunDown"
  BY DEF DestroyFrees, AtWork
<1>2. r # None /\ r \in Rows /\ r \in seen /\ r \in Listed
  BY <1>1 DEF AtWork, JobsSeen, Typed
<1>3. /\ UNCHANGED <<queue, iter>>
      /\ order' = Unlinked(r) /\ begun' = begun \ {r} /\ seen' = seen \ {r}
      /\ pc' = [pc EXCEPT ![w] = "idle"]
      /\ doing' = [doing EXCEPT ![w] = None] /\ target' = [target EXCEPT ![w] = None]
  BY <1>1 DEF DestroyFrees, Goto
<1> HIDE DEF r
<1>4. /\ DOMAIN pc' = Actors /\ pc'[Main] = pc[Main] /\ pc'[w] = "idle" /\ doing'[w] = None
      /\ doing' \in [Workers -> Rows \union {None}] /\ target' \in [Actors -> Rows \union {None}]
      /\ \A v \in Workers \ {w} : pc'[v] = pc[v] /\ doing'[v] = doing[v] /\ target'[v] = target[v]
  BY <1>3 DEF Typed, Actors
<1>5. order' \in Seq(Rows) /\ IsInjective(order') /\ Listed' = Listed \ {r}
  BY <1>2, <1>3, UnlinkedList DEF Listed, Typed
<1>6. Typed'
  BY <1>3, <1>4, <1>5 DEF Typed
<1>7. Quiet' /\ AtWork'
  BY <1>3, <1>4 DEF Quiet, AtWork
<1>8. <<"update", r>> \notin queue /\ \A v \in Workers \ {w} : doing[v] # r
  BY <1>2 DEF OneJobPerRow, r
<1>9. JobsSeen'
  BY <1>3, <1>4, <1>8 DEF JobsSeen
<1>10. OneJobPerRow'
  BY <1>3, <1>4 DEF OneJobPerRow
<1>11. Walk'
  <2>1. ASSUME iter # None
        PROVE  \E k \in DOMAIN order' : Splits(k)'
    <3>1. PICK k \in DOMAIN order : Splits(k)
      BY <2>1 DEF Walk
    <3>2. k - 1 \in DOMAIN order' /\ Splits(k - 1)'
      BY <1>2, <1>3, <3>1, FreedBehindIterator
    <3>3. QED
      BY <3>2
  <2>2. QED
    BY <1>3, <1>4, <2>1 DEF Walk
<1>12. QED
  BY <1>6, <1>7, <1>9, <1>10, <1>11

(* The main thread frees rows only while no walk and no job is under way.  *)
LEMMA MainFreesStep ==
  ASSUME IInv, DestroyFrees(Main)
  PROVE  IInv'
<1> USE DatabaseAssumption DEF IInv
<1> DEFINE r == target[Main]
<1>1. /\ UNCHANGED <<queue, iter, doing>>
      /\ order' = Unlinked(r) /\ begun' = begun \ {r} /\ seen' = seen \ {r}
      /\ pc[Main] = "spunDown" /\ pc' = [pc EXCEPT ![Main] = "idle"]
      /\ target' = [target EXCEPT ![Main] = None]
  BY DEF DestroyFrees, Resume, Goto
<1> HIDE DEF r
<1>2. /\ DOMAIN pc' = Actors /\ pc'[Main] = "idle" /\ \A w \in Workers : pc'[w] = pc[w]
      /\ target' \in [Actors -> Rows \union {None}] /\ \A w \in Workers : target'[w] = target[w]
  BY <1>1 DEF Typed, Actors
<1>3. order' \in Seq(Rows) /\ IsInjective(order') /\ Listed' = Listed \ {r}
  <2>1. CASE r \in Listed
    BY <1>1, <2>1, UnlinkedList DEF Listed, Typed
  <2>2. CASE r \notin Listed
    <3>1. order' = order
      BY <1>1, <2>2 DEF Unlinked
    <3>2. QED
      BY <2>2, <3>1 DEF Typed, Listed
  <2>3. QED
    BY <2>1, <2>2
<1>4. Typed'
  BY <1>1, <1>2, <1>3 DEF Typed
<1>5. \A w \in Workers : pc[w] = "idle" /\ doing[w] = None
  BY <1>1 DEF Quiet, AtWork
<1>6. \A q \in Rows : <<"update", q>> \notin queue
  BY <1>1 DEF Quiet
<1>7. Quiet' /\ AtWork' /\ JobsSeen' /\ OneJobPerRow'
  BY <1>1, <1>2, <1>5, <1>6 DEF Quiet, AtWork, JobsSeen, OneJobPerRow
<1>8. Walk'
  BY <1>1, <1>2 DEF Walk
<1>9. QED
  BY <1>4, <1>7, <1>8

(* The frame ends when all jobs are done.                                  *)
LEMMA endFrameStep ==
  ASSUME IInv, endFrame
  PROVE  IInv'
<1> USE DatabaseAssumption DEF IInv
<1>1. /\ UNCHANGED <<order, queue, iter, doing, target, begun, seen>>
      /\ pc[Main] = "updated" /\ pc' = [pc EXCEPT ![Main] = "idle"]
      /\ queue = {} /\ \A w \in Workers : pc[w] = "idle"
  BY DEF endFrame, Moves, Goto, AllDone, table, ghosts, applyLogsThrough
<1>2. DOMAIN pc' = Actors /\ pc'[Main] = "idle" /\ \A w \in Workers : pc'[w] = pc[w]
  BY <1>1 DEF Typed, Actors
<1>3. Typed'
  BY <1>1, <1>2 DEF Typed, Listed
<1>4. Quiet' /\ AtWork' /\ JobsSeen' /\ OneJobPerRow'
  BY <1>1, <1>2 DEF Quiet, AtWork, JobsSeen, OneJobPerRow
<1>5. Walk'
  BY <1>1, <1>2 DEF Walk
<1>6. QED
  BY <1>3, <1>4, <1>5

(* Within a call of a job or of the main thread, away from the list.       *)
LEMMA CallStep ==
  ASSUME IInv, NEW a \in Actors,
         \/ a # Main /\ (WriteUnindexes(a) \/ WriteIndexes(a))
         \/ CreateWrites(a) \/ CreateIndexes(a) \/ CreateSpinsUp(a) \/ DestroySpinsDown(a)
  PROVE  IInv'
<1> USE DatabaseAssumption DEF Moves, Goto, table, ghosts, Resume
<1>1. UNCHANGED <<order, iter, doing, begun, seen, queue>>
  BY DEF WriteUnindexes, WriteIndexes, CreateWrites, CreateIndexes, CreateSpinsUp, DestroySpinsDown
<1>2. target' = target \/ target' = [target EXCEPT ![a] = None]
  BY DEF WriteUnindexes, WriteIndexes, CreateWrites, CreateIndexes, CreateSpinsUp, DestroySpinsDown
<1>3. PICK place :
        /\ pc' = [pc EXCEPT ![a] = place]
        /\ pc[a] \notin {"idle", "updating", "updated"} /\ place \notin {"updating", "updated"}
        /\ a # Main => place # "idle"
        /\ place \in {"deindexed", "spunDown"} => pc[a] = "deindexed" /\ target' = target
  BY DEF WriteUnindexes, WriteIndexes, CreateWrites, CreateIndexes, CreateSpinsUp, DestroySpinsDown
<1>4. DOMAIN pc' = Actors /\ target' \in [Actors -> Rows \union {None}] /\ queue' \subseteq Kinds \X Rows
  BY <1>1, <1>2, <1>3 DEF IInv, Typed
<1>5. pc'[Main] = pc[Main] \/ ({pc[Main], pc'[Main]} \intersect {"updating", "updated"} = {})
  BY <1>3 DEF IInv, Typed, Actors
<1>6. ASSUME NEW w \in Workers
      PROVE  /\ (pc'[w] = "idle") <=> (pc[w] = "idle")
             /\ pc'[w] \in {"deindexed", "spunDown"} => target'[w] = doing[w]
  <2>1. CASE w = a
    BY <1>3, <2>1 DEF IInv, Typed, Actors, AtWork
  <2>2. CASE w # a
    BY <1>2, <1>3, <2>2 DEF IInv, Typed, Actors, AtWork
  <2>3. QED
    BY <2>1, <2>2
<1>7. QED
  BY <1>1, <1>4, <1>5, <1>6, Aside

(* A job that destroys destroys its own row.                               *)
LEMMA destroyStep ==
  ASSUME ~DestroyOthers, IInv, NEW a \in Actors, NEW r \in Rows, destroy(a, r)
  PROVE  IInv'
<1> USE DatabaseAssumption DEF Goto, table, ghosts
<1>1. /\ UNCHANGED <<order, iter, doing, begun, seen, queue>>
      /\ target' = [target EXCEPT ![a] = r] /\ pc' = [pc EXCEPT ![a] = "deindexed"]
      /\ a # Main => pc[a] = "update" /\ doing[a] = r
      /\ a = Main => pc[a] = "idle"
  BY DEF destroy, Ready
<1>2. DOMAIN pc' = Actors /\ target' \in [Actors -> Rows \union {None}] /\ queue' \subseteq Kinds \X Rows
  BY <1>1 DEF IInv, Typed
<1>3. pc'[Main] = pc[Main] \/ ({pc[Main], pc'[Main]} \intersect {"updating", "updated"} = {})
  BY <1>1 DEF IInv, Typed, Actors
<1>4. ASSUME NEW w \in Workers
      PROVE  /\ (pc'[w] = "idle") <=> (pc[w] = "idle")
             /\ pc'[w] \in {"deindexed", "spunDown"} => target'[w] = doing[w]
  <2>1. CASE w = a
    BY <1>1, <2>1 DEF IInv, Typed, Actors, AtWork
  <2>2. CASE w # a
    BY <1>1, <2>2 DEF IInv, Typed, Actors, AtWork
  <2>3. QED
    BY <2>1, <2>2
<1>5. QED
  BY <1>1, <1>2, <1>3, <1>4, Aside

(* The backup thread, and the end and the start of the program.            *)
LEMMA LoopStep ==
  ASSUME IInv,
         \/ requestBackup \/ BackupStarts \/ BackupTurn \/ gracefulShutdown \/ Closed \/ Reopen
         \/ \E r \in Rows : SpinDownJob(r) \/ SpinUpJob(r)
  PROVE  IInv'
<1> USE DatabaseAssumption DEF Moves, Goto, table, ghosts
<1>1. UNCHANGED <<order, iter, doing, begun, seen, target>>
  BY DEF requestBackup, BackupStarts, BackupTurn, applyLogsThrough, gracefulShutdown, Closed, Reopen,
         SpinDownJob, SpinUpJob
<1>2. \/ queue' \subseteq queue
      \/ queue' = {"spunDown"} \X Listed
      \/ queue' = {"spunUp"} \X Listed
  BY DEF requestBackup, BackupStarts, BackupTurn, applyLogsThrough, gracefulShutdown, Closed, Reopen,
         SpinDownJob, SpinUpJob
<1>3. \/ pc' = pc
      \/ /\ pc[Main] \in {"idle", "spinDown", "closed"}
         /\ \E place \in {"idle", "spinDown", "closed"} : pc' = [pc EXCEPT ![Main] = place]
  BY DEF requestBackup, BackupStarts, BackupTurn, gracefulShutdown, Closed, Reopen,
         SpinDownJob, SpinUpJob
<1>4. DOMAIN pc' = Actors /\ \A w \in Workers : pc'[w] = pc[w]
  BY <1>3 DEF IInv, Typed, Actors
<1>5. pc'[Main] = pc[Main] \/ ({pc[Main], pc'[Main]} \intersect {"updating", "updated"} = {})
  BY <1>3 DEF IInv, Typed, Actors
<1>6. Listed \subseteq Rows
  BY DEF IInv, Typed, Listed, ToSet
<1>7. queue' \subseteq Kinds \X Rows
  BY <1>2, <1>6 DEF IInv, Typed, Kinds
<1>8. \A r \in Rows : <<"update", r>> \in queue' => <<"update", r>> \in queue
  BY <1>2
<1>9. target' \in [Actors -> Rows \union {None}]
  BY <1>1 DEF IInv, Typed
<1>10. \A w \in Workers :
         /\ (pc'[w] = "idle") <=> (pc[w] = "idle")
         /\ pc'[w] \in {"deindexed", "spunDown"} => target'[w] = doing[w]
  BY <1>1, <1>4 DEF IInv, AtWork
<1>11. QED
  BY <1>1, <1>4, <1>5, <1>7, <1>8, <1>9, <1>10, Aside

(* Every step keeps the split.                                             *)
LEMMA IInvStep ==
  ASSUME ~DestroyOthers, IInv, [Next]_vars
  PROVE  IInv'
<1>1. CASE updateTick \/ Submit \/ AllSubmitted \/ endFrame
  BY <1>1, updateTickStep, SubmitStep, AllSubmittedStep, endFrameStep
<1>2. ASSUME NEW w \in Workers, NEW r \in Rows, TakeJob(w, r)
      PROVE  IInv'
  BY <1>2, TakeJobStep
<1>3. ASSUME NEW w \in Workers, JobReturns(w) \/ Write(w)
      PROVE  IInv'
  BY <1>3, JobEnds
<1>4. ASSUME NEW w \in Workers, WriteUnindexes(w) \/ WriteIndexes(w)
      PROVE  IInv'
  BY <1>4, CallStep, DatabaseAssumption DEF Actors
<1>5. ASSUME NEW a \in Actors, NEW r \in Rows, create(a, r) \/ destroy(a, r)
      PROVE  IInv'
  BY <1>5, createStep, destroyStep
<1>6. ASSUME NEW a \in Actors,
             CreateWrites(a) \/ CreateIndexes(a) \/ CreateSpinsUp(a) \/ DestroySpinsDown(a)
      PROVE  IInv'
  BY <1>6, CallStep
<1>7. ASSUME NEW a \in Actors, DestroyFrees(a)
      PROVE  IInv'
  BY <1>7, WorkerFreesStep, MainFreesStep DEF Actors
<1>8. CASE \/ requestBackup \/ BackupStarts \/ BackupTurn \/ gracefulShutdown \/ Closed \/ Reopen
           \/ \E r \in Rows : SpinDownJob(r) \/ SpinUpJob(r)
  BY <1>8, LoopStep
<1>9. CASE UNCHANGED vars
  <2>1. /\ UNCHANGED <<order, iter, doing, begun, seen, queue, pc, target>>
    BY <1>9 DEF vars
  <2>2. QED
    BY <2>1 DEF IInv, Typed, Listed, Quiet, AtWork, JobsSeen, OneJobPerRow, Walk, Splits
<1>10. QED
  BY <1>1, <1>2, <1>3, <1>4, <1>5, <1>6, <1>7, <1>8, <1>9 DEF Next

-----------------------------------------------------------------------------
(* Where the walk stands, as long as jobs destroy no row but their own.    *)
THEOREM WalkSound ==
  ASSUME ~DestroyOthers
  PROVE  Spec => []IInv
<1>1. IInv /\ [Next]_vars => IInv'
  BY IInvStep
<1>2. QED
  BY InitIInv, <1>1, PTL DEF Spec

(* "Called every frame": with any number of rows and workers, no row that  *)
(* was listed when updateTick began goes without its update, provided that *)
(* jobs destroy only their own rows (DatabaseSkips.cfg shows the walk fail *)
(* without that).                                                          *)
THEOREM EveryRowUpdated ==
  ASSUME ~DestroyOthers
  PROVE  Spec => []UpdatedEveryFrame
<1>1. IInv => UpdatedEveryFrame
  BY DEF IInv, Walk, UpdatedEveryFrame
<1>2. QED
  BY <1>1, WalkSound, PTL

(* The writes of jobs to their own rows never overlap, whatever rows jobs  *)
(* create and whichever row identifiers are used again within a frame.     *)
THEOREM RowsHaveOneJob ==
  ASSUME ~DestroyOthers
  PROVE  Spec => []OneJobPerRow
<1>1. IInv => OneJobPerRow
  BY DEF IInv
<1>2. QED
  BY <1>1, WalkSound, PTL

-----------------------------------------------------------------------------
(***************************************************************************)
(* Types, and the frames of rows, logs and backups, whatever jobs do.      *)
(***************************************************************************)
(* A set of numbers up to a bound has a newest element. *)
LEMMA NewestOfSet ==
  ASSUME NEW N \in Nat, NEW S, S \subseteq 0 .. N, S # {}
  PROVE  Newest(S) \in S /\ Newest(S) \in 0 .. N /\ \A y \in S : y <= Newest(S)
<1> DEFINE T == {N - x : x \in S}
<1>1. T \subseteq Nat /\ T # {}
  <2>1. \A x \in S : N - x \in Nat
    OBVIOUS
  <2>2. PICK x \in S : TRUE
    OBVIOUS
  <2>3. QED
    BY <2>1, <2>2
<1>2. PICK t \in T : \A y \in T : ~(<<y, t>> \in OpToRel(<, Nat))
  BY <1>1, WFMin, NatLessThanWellFounded
<1>3. \A y \in T : ~(y < t)
  BY <1>1, <1>2 DEF OpToRel
<1>4. PICK m \in S : t = N - m
  OBVIOUS
<1>5. ASSUME NEW y \in S
      PROVE  y <= m
  <2>1. ~(N - y < N - m)
    BY <1>3, <1>4
  <2>2. y \in Int /\ m \in Int
    OBVIOUS
  <2>3. QED
    BY <2>1, <2>2
<1>6. Newest(S) \in S /\ \A y \in S : y <= Newest(S)
  BY <1>5 DEF Newest
<1>7. QED
  BY <1>6

(* Which actions change what.                                              *)
LEMMA Writers ==
  ASSUME [Next]_vars
  PROVE  /\ currentFrame' = currentFrame \/ endFrame \/ Reopen
         /\ order' = order \/ \E a \in Actors : DestroyFrees(a) \/ \E r \in Rows : create(a, r)
         /\ \/ UNCHANGED <<logged, applied, created>>
            \/ endFrame \/ BackupTurn \/ gracefulShutdown \/ Reopen
            \/ \E w \in Workers : Write(w)
            \/ \E a \in Actors : CreateWrites(a) \/ DestroyFrees(a)
         /\ applyFrame' = applyFrame \/ BackupStarts \/ BackupTurn \/ Reopen
         /\ \/ UNCHANGED <<backupInProgress, backupThread>>
            \/ requestBackup \/ BackupStarts \/ BackupTurn \/ endFrame \/ Reopen
         /\ \/ indexed' = indexed
            \/ \E w \in Workers : WriteUnindexes(w) \/ WriteIndexes(w)
            \/ \E a \in Actors : CreateIndexes(a) \/ \E r \in Rows : destroy(a, r)
         /\ \/ up' = up
            \/ \E a \in Actors : CreateSpinsUp(a) \/ DestroySpinsDown(a)
            \/ \E r \in Rows : SpinDownJob(r) \/ SpinUpJob(r)
         /\ \/ queue' = queue
            \/ Submit \/ gracefulShutdown \/ Reopen
            \/ \E r \in Rows : SpinDownJob(r) \/ SpinUpJob(r) \/ \E w \in Workers : TakeJob(w, r)
         /\ iter' = iter \/ updateTick \/ Submit
         /\ \/ overtaken' = overtaken
            \/ \E w \in Workers : WriteUnindexes(w)
            \/ \E a \in Actors, r \in Rows : destroy(a, r)
         /\ asked' = asked \/ requestBackup
<1> USE DEF Next, vars, table, backup, ghosts, applyLogsThrough, updateTick, Submit, AllSubmitted, TakeJob,
        JobReturns, WriteUnindexes, WriteIndexes, Write, create, CreateWrites, CreateIndexes, CreateSpinsUp,
        destroy, DestroySpinsDown, DestroyFrees, endFrame, requestBackup, BackupStarts, BackupTurn,
        gracefulShutdown, SpinDownJob, Closed, Reopen, SpinUpJob
<1>1. currentFrame' = currentFrame \/ endFrame \/ Reopen
  OBVIOUS
<1>2. order' = order \/ \E a \in Actors : DestroyFrees(a) \/ \E r \in Rows : create(a, r)
  OBVIOUS
<1>3. \/ UNCHANGED <<logged, applied, created>>
      \/ endFrame \/ BackupTurn \/ gracefulShutdown \/ Reopen
      \/ \E w \in Workers : Write(w)
      \/ \E a \in Actors : CreateWrites(a) \/ DestroyFrees(a)
  OBVIOUS
<1>4. applyFrame' = applyFrame \/ BackupStarts \/ BackupTurn \/ Reopen
  OBVIOUS
<1>5. \/ UNCHANGED <<backupInProgress, backupThread>>
      \/ requestBackup \/ BackupStarts \/ BackupTurn \/ endFrame \/ Reopen
  OBVIOUS
<1>6. \/ indexed' = indexed
      \/ \E w \in Workers : WriteUnindexes(w) \/ WriteIndexes(w)
      \/ \E a \in Actors : CreateIndexes(a) \/ \E r \in Rows : destroy(a, r)
  OBVIOUS
<1>7. \/ up' = up
      \/ \E a \in Actors : CreateSpinsUp(a) \/ DestroySpinsDown(a)
      \/ \E r \in Rows : SpinDownJob(r) \/ SpinUpJob(r)
  OBVIOUS
<1>8. \/ queue' = queue
      \/ Submit \/ gracefulShutdown \/ Reopen
      \/ \E r \in Rows : SpinDownJob(r) \/ SpinUpJob(r) \/ \E w \in Workers : TakeJob(w, r)
  OBVIOUS
<1>9. iter' = iter \/ updateTick \/ Submit
  OBVIOUS
<1>10. \/ overtaken' = overtaken
       \/ \E w \in Workers : WriteUnindexes(w)
       \/ \E a \in Actors, r \in Rows : destroy(a, r)
  OBVIOUS
<1>11. asked' = asked \/ requestBackup
  OBVIOUS
<1>12. QED
  BY <1>1, <1>2, <1>3, <1>4, <1>5, <1>6, <1>7, <1>8, <1>9, <1>10, <1>11

Creating == {"listed", "allocated", "indexed"}
Destroying == {"deindexed", "spunDown"}

(* Which rows the main thread and the workers have in hand at which place. *)
Hands ==
  /\ pc \in [Actors -> {"idle", "updating", "updated", "update", "unindexed", "write", "spinDown", "closed"}
                       \union Creating \union Destroying]
  /\ doing \in [Workers -> Rows \union {None}] /\ target \in [Actors -> Rows \union {None}]
  /\ pc[Main] \notin {"update", "unindexed", "write"}
  /\ \A w \in Workers :
       /\ pc[w] \notin {"updating", "updated", "spinDown", "closed"}
       /\ pc[w] = "idle" <=> doing[w] = None
  /\ \A a \in Actors : target[a] = None <=> pc[a] \notin Creating \union Destroying

(* At each step one of them moves, and takes up or lays down its row.      *)
LEMMA HandsStep ==
  ASSUME Hands, [Next]_vars
  PROVE  Hands'
<1> USE DatabaseAssumption DEF Hands, Creating, Destroying, Actors, Moves, Goto
<1>1. ASSUME NEW w \in Workers, NEW r \in Rows, TakeJob(w, r)
      PROVE  Hands'
  BY <1>1 DEF TakeJob
<1>2. ASSUME NEW w \in Workers, JobReturns(w) \/ Write(w)
      PROVE  Hands'
  BY <1>2 DEF JobReturns, Write
<1>3. ASSUME NEW w \in Workers, WriteUnindexes(w) \/ WriteIndexes(w)
      PROVE  Hands'
  BY <1>3 DEF WriteUnindexes, WriteIndexes
<1>4. ASSUME NEW a \in Actors, NEW r \in Rows, create(a, r) \/ destroy(a, r)
      PROVE  Hands'
  BY <1>4 DEF create, destroy, Ready
<1>5. ASSUME NEW a \in Actors, CreateWrites(a) \/ CreateIndexes(a) \/ DestroySpinsDown(a)
      PROVE  Hands'
  BY <1>5 DEF CreateWrites, CreateIndexes, DestroySpinsDown
<1>6. ASSUME NEW a \in Actors, CreateSpinsUp(a)
      PROVE  Hands'
  BY <1>6 DEF CreateSpinsUp, Resume
<1>7. ASSUME NEW a \in Actors, DestroyFrees(a)
      PROVE  Hands'
  BY <1>7 DEF DestroyFrees, Resume
<1>8. CASE updateTick \/ AllSubmitted \/ endFrame \/ gracefulShutdown \/ Closed \/ Reopen
  <2>1. UNCHANGED <<doing, target>>
        /\ \E here, there \in {"idle", "updating", "updated", "spinDown", "closed"} :
             pc[Main] = here /\ pc' = [pc EXCEPT ![Main] = there]
    BY <1>8 DEF updateTick, AllSubmitted, endFrame, gracefulShutdown, Closed, Reopen
  <2>2. QED
    BY <2>1
<1>9. CASE UNCHANGED <<pc, doing, target>>
  BY <1>9
<1>10. QED
  <2>1. CASE Submit \/ requestBackup \/ BackupStarts \/ BackupTurn \/ \E r \in Rows : SpinDownJob(r) \/ SpinUpJob(r)
    BY <1>9, <2>1 DEF Submit, requestBackup, BackupStarts, BackupTurn, SpinDownJob, SpinUpJob
  <2>2. CASE UNCHANGED vars
    BY <1>9, <2>2 DEF vars
  <2>3. QED
    BY <1>1, <1>2, <1>3, <1>4, <1>5, <1>6, <1>7, <1>8, <2>1, <2>2 DEF Next

(* applyLogsThrough takes logs away, and applies one of them.              *)
LEMMA FoldedLogs ==
  ASSUME NEW f, applyLogsThrough(f), logged \in [Rows -> SUBSET (1 .. LastFrame)],
         applied \in [Rows -> 0 .. LastFrame]
  PROVE  /\ logged' = [r \in Rows |-> {g \in logged[r] : ~(r \in Listed /\ g <= f)}]
         /\ applied' \in [Rows -> 0 .. LastFrame]
<1>1. ASSUME NEW r \in Rows, Upto(r, f) # {}
      PROVE  Newest(Upto(r, f)) \in 0 .. LastFrame
  <2>1. Upto(r, f) \subseteq 0 .. LastFrame
    BY DEF Upto
  <2>2. QED
    BY <1>1, <2>1, NewestOfSet, DatabaseAssumption
<1>2. applied' \in [Rows -> 0 .. LastFrame]
  BY <1>1 DEF applyLogsThrough
<1>3. QED
  BY <1>2 DEF applyLogsThrough, Upto

(* What the frames of the files are.                                       *)
LEMMA FrameOfFiles ==
  ASSUME logged \in [Rows -> SUBSET (1 .. LastFrame)], applied \in [Rows -> 0 .. LastFrame],
         created \in [Rows -> 0 .. LastFrame], Listed \subseteq Rows
  PROVE  /\ maxFrame \in 0 .. LastFrame
         /\ minFrame \in Nat /\ minFrame >= Top
         /\ Kept \in 0 .. LastFrame /\ \A r \in Listed : created[r] <= Kept
<1> USE DatabaseAssumption
<1>1. maxFrame \in 0 .. LastFrame
  <2> DEFINE S == {0} \union UNION {IF logged[r] = {} THEN {applied[r], created[r]} ELSE logged[r] : r \in Listed}
  <2>1. S \subseteq 0 .. LastFrame /\ S # {}
    OBVIOUS
  <2>2. Newest(S) \in 0 .. LastFrame
    BY <2>1, NewestOfSet
  <2>3. QED
    BY <2>2 DEF maxFrame
<1>2. minFrame \in Nat /\ minFrame >= Top
  <2> DEFINE S == {Top} \union UNION {{applied[r], created[r]} : r \in Listed}
  <2>1. S \subseteq 0 .. Top + LastFrame /\ Top \in S /\ Top + LastFrame \in Nat
    OBVIOUS
  <2>2. Newest(S) \in 0 .. Top + LastFrame /\ Top <= Newest(S)
    BY <2>1, NewestOfSet
  <2>3. QED
    BY <2>2 DEF minFrame
<1>3. Kept \in 0 .. LastFrame /\ \A r \in Listed : created[r] <= Kept
  <2> DEFINE S == {0} \union UNION {{applied[r], created[r]} : r \in Listed}
  <2>1. S \subseteq 0 .. LastFrame /\ S # {} /\ \A r \in Listed : created[r] \in S
    OBVIOUS
  <2>2. Newest(S) \in 0 .. LastFrame /\ \A y \in S : y <= Newest(S)
    BY <2>1, NewestOfSet
  <2>3. QED
    BY <2>1, <2>2 DEF Kept
<1>4. QED
  BY <1>1, <1>2, <1>3

(* Types, with the list a sequence of rows and the history sets of rows.   *)
Base == TypeOK /\ order \in Seq(Rows) /\ Hands

(* A database starts well typed.                                           *)
LEMMA InitBase == Init => Base
<1> SUFFICES ASSUME Init
             PROVE  Base
  OBVIOUS
<1>1. order = <<>> /\ Listed = {} /\ order \in Seq(Rows) /\ IsInjective(order)
  BY DEF Init, Listed, ToSet, IsInjective
<1>2. 1 \in 1 .. LastFrame /\ 0 \in 0 .. LastFrame /\ 0 \in 0 .. Top
  BY DatabaseAssumption
<1>3. TypeOK /\ Hands
  BY <1>1, <1>2, DatabaseAssumption DEF Init, TypeOK, Hands, Creating, Destroying, Actors
<1>4. QED
  BY <1>1, <1>3 DEF Base

(* What follows a row in the list is a row, if anything does.              *)
LEMMA AfterInList ==
  ASSUME order \in Seq(Rows), NEW r
  PROVE  After(r) \in Rows \union {None}
<1> DEFINE here == {k \in DOMAIN order : order[k] = r /\ k < Len(order)}
<1>1. here # {} => (CHOOSE k \in here : TRUE) \in here
  OBVIOUS
<1>2. \A k \in here : order[1 + k] \in Rows
  OBVIOUS
<1>3. After(r) = IF here = {} THEN None ELSE order[1 + CHOOSE k \in here : TRUE]
  BY DEF After
<1> HIDE DEF here
<1>4. QED
  BY <1>1, <1>2, <1>3

(* The list stays one of rows without repetition.                          *)
LEMMA ListStep ==
  ASSUME Base, [Next]_vars
  PROVE  order' \in Seq(Rows) /\ IsInjective(order')
<1>1. ASSUME NEW a \in Actors, NEW r \in Rows, create(a, r)
      PROVE  order' \in Seq(Rows) /\ IsInjective(order')
  BY <1>1, LengthenedList DEF create, Base, TypeOK
<1>2. ASSUME NEW a \in Actors, DestroyFrees(a)
      PROVE  order' \in Seq(Rows) /\ IsInjective(order')
  <2>1. order' = Unlinked(target[a])
    BY <1>2 DEF DestroyFrees
  <2>2. CASE target[a] \in Listed
    BY <2>1, <2>2, UnlinkedList DEF Base, TypeOK
  <2>3. CASE target[a] \notin Listed
    BY <2>1, <2>3 DEF Unlinked, Base, TypeOK
  <2>4. QED
    BY <2>2, <2>3
<1>3. CASE order' = order
  BY <1>3 DEF Base, TypeOK
<1>4. QED
  BY <1>1, <1>2, <1>3, Writers

(* Frames stay in range.                                                   *)
LEMMA FramesStep ==
  ASSUME Base, [Next]_vars
  PROVE  /\ currentFrame' \in 1 .. LastFrame /\ applyFrame' \in 0 .. Top
         /\ logged' \in [Rows -> SUBSET (1 .. LastFrame)]
         /\ applied' \in [Rows -> 0 .. LastFrame] /\ created' \in [Rows -> 0 .. LastFrame]
<1> USE DatabaseAssumption DEF Base, TypeOK
<1>1. maxFrame \in 0 .. LastFrame /\ Kept \in 0 .. LastFrame
  BY FrameOfFiles
<1>2. currentFrame' \in 1 .. LastFrame
  BY <1>1, Writers DEF endFrame, Reopen
<1>3. applyFrame' \in 0 .. Top
  <2>1. (maxFrame - 1) % (Top + 1) \in 0 .. Top
    BY <1>1
  <2>2. CASE BackupStarts
    BY <2>1, <2>2 DEF BackupStarts
  <2>3. CASE BackupTurn
    BY <2>1, <2>3 DEF BackupTurn
  <2>4. CASE Reopen
    BY <2>4 DEF Reopen
  <2>5. QED
    BY <2>2, <2>3, <2>4, Writers
<1>4. /\ logged' \in [Rows -> SUBSET (1 .. LastFrame)]
      /\ applied' \in [Rows -> 0 .. LastFrame] /\ created' \in [Rows -> 0 .. LastFrame]
  <2>1. ASSUME NEW f, applyLogsThrough(f)
        PROVE  /\ logged' \in [Rows -> SUBSET (1 .. LastFrame)]
               /\ applied' \in [Rows -> 0 .. LastFrame] /\ created' \in [Rows -> 0 .. LastFrame]
    BY <2>1, FoldedLogs DEF applyLogsThrough
  <2>2. CASE endFrame \/ BackupTurn \/ gracefulShutdown
    BY <2>1, <2>2 DEF endFrame, BackupTurn, gracefulShutdown, table
  <2>3. CASE Reopen
    BY <2>3 DEF Reopen
  <2>4. ASSUME NEW w \in Workers, Write(w)
        PROVE  UNCHANGED <<applied, created>> /\ logged' \in [Rows -> SUBSET (1 .. LastFrame)]
    BY <2>4 DEF Write
  <2>5. ASSUME NEW a \in Actors, CreateWrites(a)
        PROVE  /\ UNCHANGED applied /\ logged' \in [Rows -> SUBSET (1 .. LastFrame)]
               /\ created' \in [Rows -> 0 .. LastFrame]
    <3>1. currentFrame \in 0 .. LastFrame /\ {currentFrame} \in SUBSET (1 .. LastFrame)
      OBVIOUS
    <3>2. /\ UNCHANGED applied
          /\ logged' = [logged EXCEPT ![target[a]] = {currentFrame}]
          /\ created' = [created EXCEPT ![target[a]] = currentFrame]
      BY <2>5 DEF CreateWrites
    <3>3. logged' \in [Rows -> SUBSET (1 .. LastFrame)]
      BY <3>1, <3>2
    <3>4. QED
      BY <3>1, <3>2, <3>3
  <2>6. ASSUME NEW a \in Actors, DestroyFrees(a)
        PROVE  UNCHANGED <<applied, created>> /\ logged' \in [Rows -> SUBSET (1 .. LastFrame)]
    BY <2>6 DEF DestroyFrees
  <2>7. QED
    BY <2>2, <2>3, <2>4, <2>5, <2>6, Writers
<1>5. QED
  BY <1>2, <1>3, <1>4

(* Whatever the application does.                                          *)
LEMMA BaseStep ==
  ASSUME Base, [Next]_vars
  PROVE  Base'
<1> USE DEF Base, TypeOK
<1>1. Hands' /\ order' \in Seq(Rows) /\ IsInjective(order')
  BY HandsStep, ListStep
<1>2. Listed' \subseteq Rows /\ Listed \subseteq Rows
  BY <1>1 DEF Listed, ToSet
<1>3. \A a \in Actors : pc[a] \in Creating \union Destroying => target[a] \in Rows
  BY DEF Hands
<1>4. \A w \in Workers : pc[w] # "idle" => doing[w] \in Rows
  BY DEF Hands
<1>5. indexed' \subseteq Rows
  <2>1. ASSUME NEW w \in Workers, WriteUnindexes(w) \/ WriteIndexes(w)
        PROVE  indexed' \subseteq Rows
    BY <1>4, <2>1 DEF WriteUnindexes, WriteIndexes, Moves
  <2>2. ASSUME NEW a \in Actors, CreateIndexes(a) \/ \E r \in Rows : destroy(a, r)
        PROVE  indexed' \subseteq Rows
    BY <1>3, <2>2 DEF CreateIndexes, destroy, Moves, Creating
  <2>3. QED
    BY <2>1, <2>2, Writers
<1>6. up' \subseteq Rows
  <2>1. ASSUME NEW a \in Actors, CreateSpinsUp(a) \/ DestroySpinsDown(a)
        PROVE  up' \subseteq Rows
    BY <1>3, <2>1 DEF CreateSpinsUp, DestroySpinsDown, Creating
  <2>2. ASSUME NEW r \in Rows, SpinDownJob(r) \/ SpinUpJob(r)
        PROVE  up' \subseteq Rows
    BY <2>2 DEF SpinDownJob, SpinUpJob
  <2>3. QED
    BY <2>1, <2>2, Writers
<1>7. queue' \subseteq Kinds \X Rows
  <2>1. CASE Submit
    BY <2>1, DatabaseAssumption DEF Submit, Kinds
  <2>2. CASE gracefulShutdown \/ Reopen
    BY <1>2, <2>2 DEF gracefulShutdown, Reopen, Kinds
  <2>3. ASSUME NEW r \in Rows, SpinDownJob(r) \/ SpinUpJob(r) \/ \E w \in Workers : TakeJob(w, r)
        PROVE  queue' \subseteq queue
    BY <2>3 DEF SpinDownJob, SpinUpJob, TakeJob
  <2>4. queue \subseteq Kinds \X Rows
    BY DEF Kinds
  <2>5. QED
    BY <2>1, <2>2, <2>3, <2>4, Writers
<1>8. iter' \in Rows \union {None}
  <2>1. ASSUME order # <<>>
        PROVE  Head(order) \in Rows
    BY <2>1
  <2>2. After(iter) \in Rows \union {None}
    BY AfterInList
  <2>3. QED
    BY <2>1, <2>2, Writers DEF updateTick, Submit
<1>9. backupInProgress' \in BOOLEAN /\ backupThread' \in {"none", "spawned", "waiting", "done"}
  BY Writers DEF requestBackup, BackupStarts, BackupTurn, endFrame, Reopen
<1>10. overtaken' \subseteq Rows
  <2>1. ASSUME NEW w \in Workers, WriteUnindexes(w)
        PROVE  overtaken' \subseteq Rows
    BY <1>4, <2>1 DEF WriteUnindexes, Moves
  <2>2. ASSUME NEW a \in Actors, NEW r \in Rows, destroy(a, r)
        PROVE  overtaken' \subseteq Rows
    BY <2>2 DEF destroy
  <2>3. QED
    BY <2>1, <2>2, Writers
<1>11. asked' \in 0 .. LastFrame
  <2>1. asked' \in {asked, currentFrame}
    BY Writers DEF requestBackup
  <2>2. currentFrame \in 0 .. LastFrame
    BY DatabaseAssumption
  <2>3. QED
    BY <2>1, <2>2
<1>12. QED
  BY <1>1, <1>2, <1>5, <1>6, <1>7, <1>8, <1>9, <1>10, <1>11, FramesStep DEF Hands, Creating, Destroying, Kinds

(* Types and control are sound, whatever rows the application's jobs       *)
(* create and destroy.                                                     *)
THEOREM BaseHolds == Spec => []Base
<1>1. Base /\ [Next]_vars => Base'
  BY BaseStep
<1>2. QED
  BY InitBase, <1>1, PTL DEF Spec

(* Every variable of the database has the values its code can give it.     *)
THEOREM WellTyped == Spec => []TypeOK
<1>1. Base => TypeOK
  BY DEF Base
<1>2. QED
  BY <1>1, BaseHolds, PTL

-----------------------------------------------------------------------------
Stamps(r) == created[r] <= currentFrame /\ \A f \in logged[r] : f <= currentFrame

(* Only between being listed and its first log may a row have old stamps.  *)
Stamped == \A r \in Listed : BeingListed(r) \/ Stamps(r)

(* What a step adds to the list is a row that is being created.            *)
LEMMA NewlyListed ==
  ASSUME Base, [Next]_vars, NEW r \in Listed', r \notin Listed
  PROVE  \E a \in Actors : create(a, r) /\ target'[a] = r /\ pc'[a] = "listed"
<1>1. ASSUME NEW a \in Actors, NEW q \in Rows, create(a, q)
      PROVE  Listed' = Listed \union {q} /\ target'[a] = q /\ pc'[a] = "listed"
  <2>1. Listed' = Listed \union {q}
    BY <1>1, LengthenedList DEF create, Base, TypeOK, Listed
  <2>2. QED
    BY <1>1, <2>1 DEF create, Goto, Base, Hands
<1>2. ASSUME NEW a \in Actors, DestroyFrees(a)
      PROVE  Listed' \subseteq Listed
  <2>1. order' = Unlinked(target[a])
    BY <1>2 DEF DestroyFrees
  <2>2. CASE target[a] \in Listed
    BY <2>1, <2>2, UnlinkedList DEF Base, TypeOK, Listed
  <2>3. CASE target[a] \notin Listed
    BY <2>1, <2>3 DEF Unlinked, Listed
  <2>4. QED
    BY <2>2, <2>3
<1>3. order' = order => Listed' = Listed
  BY DEF Listed
<1>4. QED
  BY <1>1, <1>2, <1>3, Writers

(* Who has listed a row stays with it until its first log is written.      *)
LEMMA ListingLasts ==
  ASSUME Base, [Next]_vars, NEW a \in Actors, pc[a] = "listed"
  PROVE  CreateWrites(a) \/ (pc'[a] = "listed" /\ target'[a] = target[a])
<1> USE DatabaseAssumption DEF Base, Hands, Actors, Moves, Goto, Creating, Destroying
<1>1. ASSUME NEW w \in Workers, NEW r \in Rows, TakeJob(w, r)
      PROVE  pc'[a] = "listed" /\ target'[a] = target[a]
  BY <1>1 DEF TakeJob
<1>2. ASSUME NEW w \in Workers, JobReturns(w) \/ Write(w) \/ WriteUnindexes(w) \/ WriteIndexes(w)
      PROVE  pc'[a] = "listed" /\ target'[a] = target[a]
  BY <1>2 DEF JobReturns, Write, WriteUnindexes, WriteIndexes
<1>3. ASSUME NEW b \in Actors, NEW r \in Rows, create(b, r) \/ destroy(b, r)
      PROVE  pc'[a] = "listed" /\ target'[a] = target[a]
  BY <1>3 DEF create, destroy, Ready
<1>4. ASSUME NEW b \in Actors, b # a, CreateWrites(b)
      PROVE  pc'[a] = "listed" /\ target'[a] = target[a]
  BY <1>4 DEF CreateWrites
<1>5. ASSUME NEW b \in Actors, CreateIndexes(b) \/ CreateSpinsUp(b) \/ DestroySpinsDown(b)
      PROVE  pc'[a] = "listed" /\ target'[a] = target[a]
  BY <1>5 DEF CreateIndexes, CreateSpinsUp, DestroySpinsDown, Resume
<1>6. ASSUME NEW b \in Actors, DestroyFrees(b)
      PROVE  pc'[a] = "listed" /\ target'[a] = target[a]
  BY <1>6 DEF DestroyFrees, Resume
<1>7. CASE updateTick \/ AllSubmitted \/ endFrame \/ gracefulShutdown \/ Closed \/ Reopen
  BY <1>7 DEF updateTick, AllSubmitted, endFrame, gracefulShutdown, Closed, Reopen
<1>8. CASE \/ Submit \/ requestBackup \/ BackupStarts \/ BackupTurn
           \/ \E r \in Rows : SpinDownJob(r) \/ SpinUpJob(r)
           \/ UNCHANGED vars
  BY <1>8 DEF Submit, requestBackup, BackupStarts, BackupTurn, SpinDownJob, SpinUpJob, vars
<1>9. QED
  BY <1>1, <1>2, <1>3, <1>4, <1>5, <1>6, <1>7, <1>8 DEF Next

(* A row with sound stamps keeps them.                                     *)
LEMMA StampsKept ==
  ASSUME Base, [Next]_vars, NEW r \in Listed, Stamps(r)
  PROVE  Stamps(r)'
<1> USE DatabaseAssumption DEF Base, TypeOK, Stamps
<1>1. currentFrame \in Nat /\ r \in Rows /\ created[r] \in Nat /\ \A f \in logged[r] : f \in Nat
  OBVIOUS
<1>2. ASSUME ~Reopen
      PROVE  currentFrame' \in Nat /\ currentFrame <= currentFrame'
  BY <1>1, <1>2, Writers DEF endFrame
<1>3. CASE Reopen
  <2>1. created[r] <= Kept /\ Kept \in Nat
    BY FrameOfFiles
  <2>2. QED
    BY <1>1, <1>3, <2>1 DEF Reopen
<1>4. ASSUME ~Reopen, created'[r] \in {created[r], currentFrame},
             logged'[r] \subseteq logged[r] \union {currentFrame}
      PROVE  Stamps(r)'
  <2>1. created'[r] \in Nat /\ created'[r] <= currentFrame
    BY <1>1, <1>4
  <2>2. \A f \in logged'[r] : f \in Nat /\ f <= currentFrame
    BY <1>1, <1>4
  <2>3. QED
    BY <1>1, <1>2, <1>4, <2>1, <2>2
<1>5. ASSUME ~Reopen
      PROVE  created'[r] \in {created[r], currentFrame} /\ logged'[r] \subseteq logged[r] \union {currentFrame}
  <2>1. ASSUME NEW f, applyLogsThrough(f)
        PROVE  created' = created /\ logged'[r] \subseteq logged[r]
    BY <1>1, <2>1, FoldedLogs DEF applyLogsThrough
  <2>2. CASE endFrame \/ BackupTurn \/ gracefulShutdown
    BY <2>1, <2>2 DEF endFrame, BackupTurn, gracefulShutdown, table
  <2>3. ASSUME NEW w \in Workers, Write(w)
        PROVE  created' = created /\ logged'[r] \subseteq logged[r] \union {currentFrame}
    BY <2>3 DEF Write
  <2>4. ASSUME NEW a \in Actors, CreateWrites(a)
        PROVE  created'[r] \in {created[r], currentFrame} /\ logged'[r] \subseteq logged[r] \union {currentFrame}
    BY <1>1, <2>4 DEF CreateWrites
  <2>5. ASSUME NEW a \in Actors, DestroyFrees(a)
        PROVE  created' = created /\ logged'[r] \subseteq logged[r]
    BY <1>1, <2>5 DEF DestroyFrees
  <2>6. QED
    BY <1>5, <2>2, <2>3, <2>4, <2>5, Writers
<1>6. QED
  BY <1>3, <1>4, <1>5

(* Every step stamps rows with the frame it happens in.                    *)
LEMMA StampedStep ==
  ASSUME Base, Stamped, [Next]_vars
  PROVE  Stamped'
<1> SUFFICES ASSUME NEW r \in Listed'
             PROVE  BeingListed(r)' \/ Stamps(r)'
  BY DEF Stamped
<1>1. CASE r \notin Listed
  BY <1>1, NewlyListed DEF BeingListed, CreateAt
<1>2. ASSUME r \in Listed, NEW a \in Actors, target[a] = r, pc[a] = "listed"
      PROVE  BeingListed(r)' \/ Stamps(r)'
  <2>1. CASE CreateWrites(a)
    BY <1>2, <2>1, DatabaseAssumption DEF CreateWrites, Stamps, Base, TypeOK
  <2>2. CASE ~CreateWrites(a)
    BY <1>2, <2>2, ListingLasts DEF BeingListed, CreateAt
  <2>3. QED
    BY <2>1, <2>2
<1>3. CASE r \in Listed /\ Stamps(r)
  BY <1>3, StampsKept
<1>4. QED
  BY <1>1, <1>2, <1>3 DEF Stamped, BeingListed, CreateAt

(* No row in use is stamped with a frame that is still to come, whatever   *)
(* jobs create, destroy and write, and also after a restart.               *)
THEOREM NoFutureStamps == Spec => []StampsNotAhead
<1>1. Init => Stamped
  BY DEF Init, Stamped, Listed, ToSet
<1>2. Base /\ Stamped /\ [Next]_vars => Stamped'
  BY StampedStep
<1>3. Stamped => StampsNotAhead
  BY DEF Stamped, Stamps, StampsNotAhead
<1>4. QED
  BY <1>1, <1>2, <1>3, BaseHolds, PTL DEF Spec

(* A backup once begun is in progress for good: its loop waits for         *)
(* minFrame to fall below a frame that is at most NONE, and minFrame,      *)
(* which starts its search for a minimum at NONE and keeps the larger of   *)
(* two values, never does.  No frame's end folds logs after that, and no   *)
(* graceful shutdown begins.                                               *)
THEOREM BackupNeverEnds == Spec => [][backupInProgress => backupInProgress']_vars
<1>1. ASSUME Base, Next, backupInProgress
      PROVE  backupInProgress'
  <2>1. CASE BackupTurn
    <3>1. minFrame \in Nat /\ minFrame >= Top /\ applyFrame \in 0 .. Top
      BY <1>1, FrameOfFiles DEF Base, TypeOK
    <3>2. minFrame >= applyFrame
      BY <3>1, DatabaseAssumption
    <3>3. QED
      BY <1>1, <2>1, <3>2 DEF BackupTurn
  <2>2. CASE ~BackupTurn
    BY <1>1, <2>2, Writers DEF requestBackup, BackupStarts, endFrame, Reopen
  <2>3. QED
    BY <2>1, <2>2
<1>2. Base /\ [Next]_vars => [backupInProgress => backupInProgress']_vars
  BY <1>1
<1>3. QED
  BY <1>2, BaseHolds, PTL DEF Spec

-----------------------------------------------------------------------------

(***************************************************************************)
(* The window of the log, whatever jobs do.                                *)
(***************************************************************************)
(* What the end of a frame, or a shutdown, leaves of the log.              *)
LEMMA FoldsKeep ==
  ASSUME Base, NEW f \in Int, applyLogsThrough(f), NEW r \in Listed, NEW g \in logged'[r]
  PROVE  g \in logged[r] /\ g > f /\ g \in 1 .. LastFrame
<1>1. /\ logged \in [Rows -> SUBSET (1 .. LastFrame)] /\ applied \in [Rows -> 0 .. LastFrame]
      /\ r \in Rows
  BY DEF Base, TypeOK
<1>2. logged' = [q \in Rows |-> {h \in logged[q] : ~(q \in Listed /\ h <= f)}]
  BY <1>1, FoldedLogs
<1>3. g \in logged[r] /\ ~(g <= f)
  BY <1>1, <1>2
<1>4. QED
  BY <1>1, <1>3, DatabaseAssumption

(* When all jobs are done, and the main thread has none in hand, no row is *)
(* being created.                                                          *)
LEMMA NoneListedNow ==
  ASSUME Base, AllDone, pc[Main] \in {"idle", "updated"}, NEW r
  PROVE  ~BeingListed(r)
BY DatabaseAssumption DEF AllDone, BeingListed, CreateAt, Actors

(* A backup does not get through, so that the table is its own.            *)
LEMMA BackupWaits ==
  ASSUME Base, BackupTurn
  PROVE  UNCHANGED <<table, backupInProgress, currentFrame, pc, asked>>
<1>1. minFrame \in Nat /\ minFrame >= Top /\ applyFrame \in 0 .. Top
  BY FrameOfFiles DEF Base, TypeOK
<1>2. minFrame >= applyFrame
  BY <1>1, DatabaseAssumption
<1>3. QED
  BY <1>2 DEF BackupTurn, ghosts

(* Only gracefulShutdown begins to close the database.                     *)
LEMMA ClosingBegins ==
  ASSUME Base, [Next]_vars, pc'[Main] \in {"spinDown", "closed"}
  PROVE  gracefulShutdown \/ pc[Main] \in {"spinDown", "closed"}
<1> USE DatabaseAssumption DEF Base, Hands, Actors, Moves, Goto
<1>1. ASSUME NEW w \in Workers, \/ JobReturns(w) \/ Write(w) \/ WriteUnindexes(w) \/ WriteIndexes(w)
                                \/ \E r \in Rows : TakeJob(w, r)
      PROVE  pc'[Main] = pc[Main]
  BY <1>1 DEF JobReturns, Write, WriteUnindexes, WriteIndexes, TakeJob
<1>2. ASSUME NEW a \in Actors, \/ CreateWrites(a) \/ CreateIndexes(a) \/ DestroySpinsDown(a)
                               \/ \E r \in Rows : create(a, r) \/ destroy(a, r)
      PROVE  pc'[Main] \in {pc[Main], "allocated", "indexed", "spunDown", "listed", "deindexed"}
  BY <1>2 DEF CreateWrites, CreateIndexes, DestroySpinsDown, create, destroy
<1>3. ASSUME NEW a \in Actors, CreateSpinsUp(a) \/ DestroyFrees(a)
      PROVE  pc'[Main] \in {pc[Main], "idle", "update"}
  BY <1>3 DEF CreateSpinsUp, DestroyFrees, Resume
<1>4. CASE updateTick \/ AllSubmitted \/ endFrame \/ Closed \/ Reopen
  BY <1>4 DEF updateTick, AllSubmitted, endFrame, Closed, Reopen
<1>5. CASE \/ Submit \/ requestBackup \/ BackupStarts \/ BackupTurn
           \/ \E r \in Rows : SpinDownJob(r) \/ SpinUpJob(r)
           \/ UNCHANGED vars
  BY <1>5 DEF Submit, requestBackup, BackupStarts, BackupTurn, SpinDownJob, SpinUpJob, vars
<1>6. QED
  BY <1>1, <1>2, <1>3, <1>4, <1>5 DEF Next

(* The frame that the window ends at, and the rows that are within it.     *)
Floor == IF backupInProgress THEN asked ELSE currentFrame
Recent(r) == \A f \in logged[r] : f + History >= Floor

(* A backup in progress was asked for in a frame gone by, and keeps the    *)
(* database from closing.                                                  *)
Window ==
  /\ WindowKept
  /\ backupInProgress => asked <= currentFrame /\ pc[Main] \notin {"spinDown", "closed"}

(* Frames go by, but while a backup is in progress its window stays.       *)
LEMMA FloorStep ==
  ASSUME Base, Window, [Next]_vars
  PROVE  /\ backupInProgress' => asked' <= currentFrame' /\ pc'[Main] \notin {"spinDown", "closed"}
         /\ Floor \in Nat /\ Floor <= currentFrame
         /\ Floor' = Floor \/ endFrame \/ Reopen
<1> USE DatabaseAssumption DEF Moves, Goto
<1>1. /\ asked \in Nat /\ currentFrame \in Nat /\ DOMAIN pc = Actors /\ Main \in Actors
      /\ backupInProgress => asked <= currentFrame /\ pc[Main] \notin {"spinDown", "closed"}
  BY DEF Base, TypeOK, Hands, Window, Actors
<1>2. CASE requestBackup
  BY <1>1, <1>2 DEF requestBackup, Floor
<1>3. CASE Reopen
  <2>1. pc[Main] = "closed" /\ backupInProgress' = backupInProgress
    BY <1>3 DEF Reopen
  <2>2. QED
    BY <1>1, <1>3, <2>1 DEF Floor
<1>4. CASE endFrame
  <2>1. /\ currentFrame' = currentFrame + 1 /\ pc'[Main] = "idle"
        /\ UNCHANGED <<backupInProgress, asked>>
    BY <1>1, <1>4 DEF endFrame, ghosts
  <2>2. QED
    BY <1>1, <1>4, <2>1 DEF Floor
<1>5. CASE BackupTurn
  BY <1>1, <1>5, BackupWaits DEF Floor
<1>6. CASE ~requestBackup /\ ~Reopen /\ ~endFrame /\ ~BackupTurn
  <2>1. UNCHANGED <<currentFrame, asked>> /\ backupInProgress' = backupInProgress
    BY <1>6, Writers DEF BackupStarts
  <2>2. ASSUME backupInProgress
        PROVE  pc'[Main] \notin {"spinDown", "closed"}
    BY <1>1, <2>2, ClosingBegins DEF gracefulShutdown
  <2>3. QED
    BY <1>1, <2>1, <2>2 DEF Floor
<1>7. QED
  BY <1>2, <1>3, <1>4, <1>5, <1>6

(* A row within the window stays there: a frame that ends takes the logs   *)
(* that would be before it.                                                *)
LEMMA RecentKept ==
  ASSUME Base, Window, [Next]_vars, NEW r \in Listed, Recent(r)
  PROVE  Recent(r)'
<1> USE DatabaseAssumption DEF Recent
<1>1. /\ r \in Rows /\ currentFrame \in Nat /\ logged \in [Rows -> SUBSET (1 .. LastFrame)]
      /\ \A f \in logged[r] : f \in Nat /\ f >= 1
  BY DEF Base, TypeOK
<1>2. Floor \in Nat /\ Floor <= currentFrame /\ (Floor' = Floor \/ endFrame \/ Reopen)
  BY FloorStep
<1>3. CASE Reopen
  BY <1>1, <1>3 DEF Reopen
<1>4. CASE endFrame
  <2>1. currentFrame' = currentFrame + 1 /\ backupInProgress' = backupInProgress /\ asked' = asked
    BY <1>4 DEF endFrame, ghosts
  <2>2. CASE backupInProgress
    BY <1>4, <2>1, <2>2 DEF endFrame, table, Floor
  <2>3. CASE ~backupInProgress /\ currentFrame <= History
    <3>1. logged' = logged
      BY <1>1, <1>4, <2>3 DEF endFrame, table
    <3>2. QED
      BY <1>1, <2>1, <2>3, <3>1 DEF Floor
  <2>4. CASE ~backupInProgress /\ currentFrame > History
    <3>1. applyLogsThrough(currentFrame - History) /\ currentFrame - History \in Int
      BY <1>1, <1>4, <2>4 DEF endFrame
    <3>2. \A g \in logged'[r] : g > currentFrame - History /\ g \in Nat
      BY <3>1, FoldsKeep
    <3>3. \A g \in logged'[r] : g + History >= currentFrame + 1
      BY <1>1, <3>2
    <3>4. QED
      BY <2>1, <2>4, <3>3 DEF Floor
  <2>5. QED
    BY <1>1, <2>2, <2>3, <2>4
<1>5. ASSUME Floor' = Floor, logged'[r] \subseteq logged[r] \union {currentFrame}
      PROVE  \A f \in logged'[r] : f + History >= Floor'
  BY <1>1, <1>2, <1>5
<1>6. ASSUME ~Reopen, ~endFrame
      PROVE  logged'[r] \subseteq logged[r] \union {currentFrame}
  <2>1. ASSUME NEW w \in Workers, Write(w)
        PROVE  logged'[r] \subseteq logged[r] \union {currentFrame}
    BY <1>1, <2>1 DEF Write
  <2>2. ASSUME NEW a \in Actors, CreateWrites(a) \/ DestroyFrees(a)
        PROVE  logged'[r] \subseteq logged[r] \union {currentFrame}
    BY <1>1, <2>2 DEF CreateWrites, DestroyFrees
  <2>3. CASE gracefulShutdown
    <3>1. applyLogsThrough(currentFrame - 1) /\ applied \in [Rows -> 0 .. LastFrame]
      BY <2>3 DEF gracefulShutdown, Base, TypeOK
    <3>2. QED
      BY <1>1, <3>1, FoldedLogs
  <2>4. CASE BackupTurn
    BY <2>4, BackupWaits DEF table
  <2>5. QED
    BY <1>6, <2>1, <2>2, <2>3, <2>4, Writers
<1>7. QED
  BY <1>2, <1>3, <1>4, <1>5, <1>6

(* No step lets a row in use have a log from before the window.            *)
LEMMA WindowStep ==
  ASSUME Base, Window, [Next]_vars
  PROVE  Window'
<1>1. SUFFICES ASSUME NEW r \in Listed'
               PROVE  BeingListed(r)' \/ Recent(r)'
  BY FloorStep DEF Window, WindowKept, Recent, Floor
<1>2. CASE r \notin Listed
  BY <1>2, NewlyListed DEF BeingListed, CreateAt
<1>3. ASSUME r \in Listed, NEW a \in Actors, target[a] = r, pc[a] = "listed"
      PROVE  BeingListed(r)' \/ Recent(r)'
  <2>1. CASE CreateWrites(a)
    <3>1. logged'[r] = {currentFrame} /\ Floor' = Floor
      BY <1>3, <2>1 DEF CreateWrites, Base, TypeOK, Floor, backup, ghosts
    <3>2. Floor <= currentFrame /\ Floor \in Nat /\ currentFrame \in Nat
      BY FloorStep DEF Base, TypeOK
    <3>3. QED
      BY <3>1, <3>2, DatabaseAssumption DEF Recent
  <2>2. CASE ~CreateWrites(a)
    BY <1>3, <2>2, ListingLasts DEF BeingListed, CreateAt
  <2>3. QED
    BY <2>1, <2>2
<1>4. CASE r \in Listed /\ Recent(r)
  BY <1>4, RecentKept
<1>5. QED
  BY <1>2, <1>3, <1>4 DEF Window, WindowKept, Recent, Floor, BeingListed, CreateAt

(* No row in use has a log from before the window: endFrame folds each     *)
(* frame as it leaves it, until a backup is asked for, and then nothing is *)
(* older than it was at that moment.  Whatever jobs create, destroy and    *)
(* write.                                                                  *)
THEOREM LogStaysShort == Spec => []WindowKept
<1>1. Init => Window
  BY DEF Init, Window, WindowKept, Listed, ToSet
<1>2. Base /\ Window /\ [Next]_vars => Window'
  BY WindowStep
<1>3. Window => WindowKept
  BY DEF Window
<1>4. QED
  BY <1>1, <1>2, <1>3, BaseHolds, PTL DEF Spec

-----------------------------------------------------------------------------
(***************************************************************************)
(* Between the phases, when jobs destroy no rows but their own: whatever   *)
(* rows they create, index, spun up rows and log agree with the list, but  *)
(* for the rows whose job overtook their create.                           *)
(***************************************************************************)
AtFrame == pc[Main] \in {"updating", "updated"}

(* A row that was not overtaken is listed as long as anyone has it in hand,*)
(* by one actor, and its job does not come between its create and index.   *)
HandsListed ==
  /\ \A a \in Actors : target[a] \in Rows \ overtaken => target[a] \in Listed
  /\ \A a, b \in Actors : target[a] \in Rows \ overtaken /\ target[a] = target[b] => a = b
  /\ \A w \in Workers, a \in Actors :
       pc[w] = "unindexed" /\ doing[w] \notin overtaken /\ pc[a] \in {"listed", "allocated"} =>
         target[a] # doing[w]

(* Who keeps a listed row from the index.                                  *)
Withheld(r) ==
  \/ \E a \in Actors : target[a] = r /\ pc[a] \in {"listed", "allocated", "deindexed", "spunDown"}
  \/ \E w \in Workers : doing[w] = r /\ pc[w] = "unindexed"

Indexing == \A r \in Rows \ overtaken : r \in indexed <=> r \in Listed /\ ~Withheld(r)

(* Only listed rows are spun up; jobs that spin up and down run before the *)
(* first frame and after the last, on rows not in hand.                    *)
Spinning ==
  /\ up \ overtaken \subseteq Listed
  /\ \A a \in Actors : pc[a] = "spunDown" /\ target[a] \notin overtaken => target[a] \notin up
  /\ \A r \in Rows : <<"spunDown", r>> \in queue => pc[Main] = "spinDown"
  /\ \A r \in Rows : <<"spunUp", r>> \in queue =>
       /\ r \in Listed /\ target[Main] # r
       /\ pc[Main] \notin {"updating", "updated", "spinDown", "closed"}
  /\ pc[Main] = "spinDown" => \A r \in up \intersect Listed : <<"spunDown", r>> \in queue
  /\ pc[Main] = "closed" => up \intersect Listed = {}

(* Once the database closes the log holds no frame before the last.        *)
Folded == pc[Main] \in {"spinDown", "closed"} => \A r \in Listed : logged[r] \subseteq {currentFrame}

Orderly == HandsListed /\ Indexing /\ Spinning /\ Folded

(* While main is not at a frame no job runs; while it is, main has no row  *)
(* in hand; a worker destroys its job's row, and no two have the same.     *)
LEMMA OwnRows ==
  ASSUME Base, IInv
  PROVE  /\ ~AtFrame => \A w \in Workers : pc[w] = "idle" /\ doing[w] = None /\ target[w] = None
         /\ pc[Main] \in {"updating", "updated", "idle", "spinDown", "closed"} => target[Main] = None
         /\ \A w \in Workers : pc[w] \in Destroying => target[w] = doing[w]
         /\ \A w \in Workers : doing[w] # None => doing[w] \in Listed
         /\ \A v, w \in Workers : doing[v] = doing[w] /\ doing[v] # None => v = w
<1> USE DatabaseAssumption DEF Base, Hands, IInv, AtFrame, Actors, Creating, Destroying
<1>1. ~AtFrame => \A w \in Workers : pc[w] = "idle" /\ doing[w] = None /\ target[w] = None
  BY DEF Quiet
<1>2. pc[Main] \in {"updating", "updated", "idle", "spinDown", "closed"} => target[Main] = None
  OBVIOUS
<1>3. \A w \in Workers : pc[w] \in Destroying => target[w] = doing[w]
  BY DEF AtWork
<1>4. \A w \in Workers : doing[w] # None => doing[w] \in Listed
  BY DEF JobsSeen, Typed
<1>5. \A v, w \in Workers : doing[v] = doing[w] /\ doing[v] # None => v = w
  BY DEF OneJobPerRow
<1>6. QED
  BY <1>1, <1>2, <1>3, <1>4, <1>5

(* create and DestroyFrees alone change which rows are listed, and rows    *)
(* once overtaken stay so.                                                 *)
LEMMA ListedStep ==
  ASSUME Base, [Next]_vars
  PROVE  /\ \A a \in Actors, r \in Rows : create(a, r) => Listed' = Listed \union {r} /\ r \notin Listed
         /\ \A a \in Actors : DestroyFrees(a) => Listed' = Listed \ {target[a]}
         /\ overtaken \subseteq overtaken'
<1>1. ASSUME NEW a \in Actors, NEW r \in Rows, create(a, r)
      PROVE  Listed' = Listed \union {r} /\ r \notin Listed
  BY <1>1, LengthenedList DEF create, Base, TypeOK, Listed
<1>2. ASSUME NEW a \in Actors, DestroyFrees(a)
      PROVE  Listed' = Listed \ {target[a]}
  <2>1. order' = Unlinked(target[a])
    BY <1>2 DEF DestroyFrees
  <2>2. CASE target[a] \in Listed
    BY <2>1, <2>2, UnlinkedList DEF Base, TypeOK, Listed
  <2>3. CASE target[a] \notin Listed
    BY <2>1, <2>3 DEF Unlinked, Listed
  <2>4. QED
    BY <2>2, <2>3
<1>3. overtaken \subseteq overtaken'
  BY Writers DEF WriteUnindexes, destroy
<1>4. QED
  BY <1>1, <1>2, <1>3

(* A row in hand is freed by none but who has it, and who takes up one that*)
(* another is still creating overtakes it.                                 *)
LEMMA HandsListedStep ==
  ASSUME ~DestroyOthers, Base, IInv, HandsListed, [Next]_vars
  PROVE  HandsListed'
<1> USE DatabaseAssumption DEF Actors, Moves, Goto
<1>1. /\ \A w \in Workers : w # Main
      /\ pc \in [Actors -> {"idle", "updating", "updated", "update", "unindexed", "write", "spinDown", "closed"}
                           \union Creating \union Destroying]
      /\ doing \in [Workers -> Rows \union {None}] /\ target \in [Actors -> Rows \union {None}]
      /\ \A w \in Workers : pc[w] = "idle" <=> doing[w] = None
      /\ \A a \in Actors : target[a] = None <=> pc[a] \notin Creating \union Destroying
  BY DEF Base, Hands
<1>2. ASSUME NEW a \in Actors, NEW r \in Rows, create(a, r)
      PROVE  HandsListed'
  <2>1. /\ Listed' = Listed \union {r} /\ r \notin Listed /\ UNCHANGED <<overtaken, doing>>
        /\ \A b \in Actors : /\ target'[b] = IF b = a THEN r ELSE target[b]
                             /\ pc'[b] = IF b = a THEN "listed" ELSE pc[b]
    BY <1>1, <1>2, ListedStep DEF create, ghosts
  <2>2. r \notin overtaken => \A b \in Actors : target[b] # r
    BY <2>1 DEF HandsListed
  <2>3. \A w \in Workers : pc[w] = "unindexed" => doing[w] # r
    BY <1>1, <2>1, OwnRows
  <2>4. QED
    BY <2>1, <2>2, <2>3 DEF HandsListed
<1>3. ASSUME NEW a \in Actors, DestroyFrees(a)
      PROVE  HandsListed'
  <2>1. /\ Listed' = Listed \ {target[a]} /\ overtaken' = overtaken
        /\ \A b \in Actors : /\ target'[b] = IF b = a THEN None ELSE target[b]
                             /\ IF b = a THEN pc'[b] \in {"idle", "update"} ELSE pc'[b] = pc[b]
        /\ \A w \in Workers : w # a => doing'[w] = doing[w]
    BY <1>1, <1>3, ListedStep DEF DestroyFrees, Resume
  <2>2. \A b \in Actors : b # a /\ target[b] \in Rows \ overtaken => target[b] # target[a]
    BY DEF HandsListed
  <2>3. \A b \in Actors : target'[b] \in Rows => b # a /\ target'[b] = target[b]
    BY <2>1, DatabaseAssumption
  <2>4. \A b \in Actors : pc'[b] \in {"listed", "allocated"} => pc[b] = pc'[b] /\ target'[b] = target[b]
    BY <2>1
  <2>5. \A w \in Workers : pc'[w] = "unindexed" => pc[w] = "unindexed" /\ doing'[w] = doing[w]
    BY <2>1
  <2>6. QED
    BY <2>1, <2>2, <2>3, <2>4, <2>5 DEF HandsListed
<1>4. ASSUME NEW a \in Actors, NEW r \in Rows, destroy(a, r)
      PROVE  HandsListed'
  <2>1. /\ Listed' = Listed /\ r \in Listed /\ doing' = doing
        /\ overtaken' = overtaken \union {q \in {r} : CreateAt(q, {"listed", "allocated", "indexed"})}
        /\ \A b \in Actors : /\ target'[b] = IF b = a THEN r ELSE target[b]
                             /\ pc'[b] = IF b = a THEN "deindexed" ELSE pc[b]
        /\ pc[a] = IF a = Main THEN "idle" ELSE "update"
        /\ IF a = Main THEN ~InHand(r) ELSE doing[a] = r
    BY <1>1, <1>4 DEF destroy, Ready, table, Listed
  <2>2. ASSUME r \notin overtaken', NEW b \in Actors, b # a
        PROVE  target[b] # r
    <3>1. CASE pc[b] \in Creating
      BY <2>1, <2>2, <3>1 DEF CreateAt, Creating
    <3>2. CASE pc[b] \in Destroying
      <4>1. CASE a = Main
        BY <2>1, <4>1 DEF InHand
      <4>2. CASE a # Main
        <5>1. AtFrame /\ pc[Main] \notin Destroying
          BY <1>1, <2>1, <4>2, OwnRows DEF AtFrame, Destroying
        <5>2. b \in Workers /\ target[b] = doing[b]
          BY <3>2, <5>1, OwnRows
        <5>3. QED
          BY <1>1, <2>1, <2>2, <4>2, <5>2, OwnRows
      <4>3. QED
        BY <4>1, <4>2
    <3>3. CASE pc[b] \notin Creating \union Destroying
      BY <1>1, <3>3
    <3>4. QED
      BY <3>1, <3>2, <3>3
  <2>3. \A b \in Actors : target'[b] \in Rows \ overtaken' => target'[b] \in Listed
    BY <2>1 DEF HandsListed
  <2>4. ASSUME NEW b \in Actors, NEW c \in Actors, target'[b] \in Rows \ overtaken', target'[b] = target'[c]
        PROVE  b = c
    BY <2>1, <2>2, <2>4 DEF HandsListed
  <2>5. ASSUME NEW w \in Workers, NEW b \in Actors,
               pc'[w] = "unindexed", doing[w] \notin overtaken', pc'[b] \in {"listed", "allocated"}
        PROVE  target'[b] # doing[w]
    BY <2>1, <2>5 DEF HandsListed
  <2>6. QED
    BY <2>1, <2>3, <2>4, <2>5 DEF HandsListed
<1>5. ASSUME NEW a \in Actors, CreateWrites(a) \/ CreateIndexes(a) \/ CreateSpinsUp(a) \/ DestroySpinsDown(a)
      PROVE  HandsListed'
  <2>1. /\ order' = order /\ UNCHANGED <<overtaken, doing>>
        /\ \A b \in Actors : b # a => target'[b] = target[b] /\ pc'[b] = pc[b]
        /\ \/ target'[a] = target[a]
           \/ target'[a] = None /\ pc'[a] \in {"idle", "update"}
        /\ pc'[a] \in {"allocated", "indexed", "idle", "update", "spunDown"}
        /\ pc'[a] = "allocated" => pc[a] = "listed"
    BY <1>1, <1>5 DEF CreateWrites, CreateIndexes, CreateSpinsUp, DestroySpinsDown, Resume, table, ghosts
  <2>2. \A b \in Actors : target'[b] \in Rows => target'[b] = target[b]
    BY <2>1
  <2>3. \A b \in Actors : pc'[b] \in {"listed", "allocated"} =>
          pc[b] \in {"listed", "allocated"} /\ target'[b] = target[b]
    BY <2>1
  <2>4. Listed' = Listed /\ \A w \in Workers : pc'[w] = "unindexed" => pc[w] = "unindexed"
    BY <2>1 DEF Listed
  <2>5. QED
    BY <2>1, <2>2, <2>3, <2>4 DEF HandsListed
<1>6. ASSUME NEW w \in Workers, WriteUnindexes(w)
      PROVE  HandsListed'
  <2>1. /\ order' = order /\ UNCHANGED <<target, doing>>
        /\ overtaken' = overtaken \union {r \in {doing[w]} : CreateAt(r, {"listed", "allocated"})}
        /\ \A b \in Actors : pc'[b] = IF b = w THEN "unindexed" ELSE pc[b]
    BY <1>1, <1>6 DEF WriteUnindexes, table
  <2>2. Listed' = Listed /\ overtaken \subseteq overtaken'
    BY <2>1 DEF Listed
  <2>3. doing[w] \notin overtaken' => \A a \in Actors : pc[a] \in {"listed", "allocated"} => target[a] # doing[w]
    BY <2>1 DEF CreateAt
  <2>4. \A v \in Workers : \A a \in Actors :
          pc'[v] = "unindexed" /\ doing[v] \notin overtaken' /\ pc'[a] \in {"listed", "allocated"} =>
            target[a] # doing[v]
    BY <2>1, <2>2, <2>3 DEF HandsListed
  <2>5. QED
    BY <2>1, <2>2, <2>4 DEF HandsListed
<1>7. ASSUME NEW w \in Workers, JobReturns(w) \/ Write(w) \/ WriteIndexes(w) \/ \E r \in Rows : TakeJob(w, r)
      PROVE  HandsListed'
  <2>1. /\ order' = order /\ UNCHANGED <<target, overtaken>>
        /\ \A b \in Actors : pc'[b] = pc[b] \/ (b = w /\ pc'[b] \in {"idle", "update", "write"})
        /\ \A v \in Workers : doing'[v] = doing[v] \/ (v = w /\ pc'[v] # "unindexed")
    BY <1>1, <1>7 DEF JobReturns, Write, WriteIndexes, TakeJob, table, ghosts
  <2>2. QED
    BY <2>1 DEF HandsListed, Listed
<1>8. CASE \/ updateTick \/ Submit \/ AllSubmitted \/ endFrame \/ requestBackup \/ BackupStarts \/ BackupTurn
           \/ gracefulShutdown \/ Closed \/ Reopen \/ \E r \in Rows : SpinDownJob(r) \/ SpinUpJob(r)
           \/ UNCHANGED vars
  <2>1. /\ UNCHANGED <<order, target, doing, overtaken>>
        /\ \/ pc' = pc
           \/ \E place \in {"idle", "updating", "updated", "spinDown", "closed"} : pc' = [pc EXCEPT ![Main] = place]
    BY <1>8 DEF updateTick, Submit, AllSubmitted, endFrame, requestBackup, BackupStarts, BackupTurn,
       gracefulShutdown, Closed, Reopen, SpinDownJob, SpinUpJob, vars, table, applyLogsThrough, ghosts
  <2>2. \A b \in Actors : pc'[b] = pc[b] \/ pc'[b] \notin {"unindexed", "listed", "allocated"}
    BY <1>1, <2>1
  <2>3. QED
    BY <2>1, <2>2 DEF HandsListed, Listed
<1>9. QED
  BY <1>2, <1>3, <1>4, <1>5, <1>6, <1>7, <1>8 DEF Next

(* A row leaves the index before it is withheld, and is back or gone when  *)
(* that is over.                                                           *)
LEMMA IndexingStep ==
  ASSUME ~DestroyOthers, Base, IInv, HandsListed, Indexing, [Next]_vars, HandsListed'
  PROVE  Indexing'
<1> USE DatabaseAssumption DEF Actors, Moves, Goto
<1>1. /\ \A w \in Workers : w # Main
      /\ pc \in [Actors -> {"idle", "updating", "updated", "update", "unindexed", "write", "spinDown", "closed"}
                           \union Creating \union Destroying]
      /\ doing \in [Workers -> Rows \union {None}] /\ target \in [Actors -> Rows \union {None}]
      /\ \A w \in Workers : pc[w] = "idle" <=> doing[w] = None
      /\ \A a \in Actors : target[a] = None <=> pc[a] \notin Creating \union Destroying
  BY DEF Base, Hands
<1>2. overtaken \subseteq overtaken'
  BY ListedStep
<1>3. ASSUME NEW w \in Workers, WriteUnindexes(w)
      PROVE  Indexing'
  <2>1. /\ order' = order /\ UNCHANGED <<target, doing>> /\ indexed' = indexed \ {doing[w]} /\ pc[w] = "update"
        /\ \A b \in Actors : pc'[b] = IF b = w THEN "unindexed" ELSE pc[b]
    BY <1>1, <1>3 DEF WriteUnindexes, table
  <2>2. \A r \in Rows : Withheld(r)' <=> Withheld(r) \/ r = doing[w]
    BY <2>1 DEF Withheld
  <2>3. QED
    BY <1>2, <2>1, <2>2 DEF Indexing, Listed
<1>4. ASSUME NEW w \in Workers, WriteIndexes(w)
      PROVE  Indexing'
  <2>1. /\ order' = order /\ UNCHANGED <<target, doing, overtaken>> /\ indexed' = indexed \union {doing[w]}
        /\ \A b \in Actors : pc'[b] = IF b = w THEN "write" ELSE pc[b]
        /\ pc[w] = "unindexed"
    BY <1>1, <1>4 DEF WriteIndexes, table, ghosts
  <2>2. doing[w] \in Listed /\ AtFrame
    BY <1>1, <2>1, OwnRows
  <2>3. ASSUME doing[w] \notin overtaken, NEW a \in Actors,
               pc'[a] \in {"listed", "allocated", "deindexed", "spunDown"}
        PROVE  target[a] # doing[w]
    <3>1. CASE pc[a] \in {"listed", "allocated"}
      BY <2>1, <2>3, <3>1 DEF HandsListed
    <3>2. CASE pc[a] \in Destroying
      <4>1. a \in Workers /\ target[a] = doing[a] /\ a # w
        BY <2>1, <2>2, <3>2, OwnRows DEF AtFrame, Destroying
      <4>2. QED
        BY <1>1, <2>1, <4>1, OwnRows
    <3>3. QED
      BY <2>1, <2>3, <3>1, <3>2 DEF Destroying
  <2>4. \A v \in Workers : doing[v] = doing[w] => v = w
    BY <1>1, <2>1, OwnRows
  <2>5. doing[w] \notin overtaken => ~Withheld(doing[w])'
    BY <2>1, <2>3, <2>4 DEF Withheld
  <2>6. \A r \in Rows : r # doing[w] => (Withheld(r)' <=> Withheld(r))
    BY <2>1 DEF Withheld
  <2>7. QED
    BY <2>1, <2>2, <2>5, <2>6 DEF Indexing, Listed
<1>5. ASSUME NEW w \in Workers, JobReturns(w) \/ Write(w) \/ \E r \in Rows : TakeJob(w, r)
      PROVE  Indexing'
  <2>1. /\ order' = order /\ UNCHANGED <<target, overtaken, indexed>>
        /\ \A b \in Actors : b # w => pc'[b] = pc[b]
        /\ \A v \in Workers : v # w => doing'[v] = doing[v]
        /\ pc[w] \in {"update", "write", "idle"} /\ pc'[w] \in {"update", "idle"}
    BY <1>1, <1>5 DEF JobReturns, Write, TakeJob, table, ghosts
  <2>2. \A r \in Rows : Withheld(r)' <=> Withheld(r)
    BY <2>1 DEF Withheld
  <2>3. QED
    BY <2>1, <2>2 DEF Indexing, Listed
<1>6. ASSUME NEW a \in Actors, NEW r \in Rows, create(a, r)
      PROVE  Indexing'
  <2>1. /\ Listed' = Listed \union {r} /\ r \notin Listed /\ UNCHANGED <<overtaken, doing, indexed>>
        /\ pc[a] \in {"idle", "update"}
        /\ \A b \in Actors : /\ target'[b] = IF b = a THEN r ELSE target[b]
                             /\ pc'[b] = IF b = a THEN "listed" ELSE pc[b]
    BY <1>1, <1>6, ListedStep DEF create, Ready, ghosts
  <2>2. \A q \in Rows : Withheld(q)' <=> Withheld(q) \/ q = r
    BY <2>1 DEF Withheld
  <2>3. QED
    BY <2>1, <2>2 DEF Indexing
<1>7. ASSUME NEW a \in Actors, CreateIndexes(a)
      PROVE  Indexing'
  <2>1. /\ order' = order /\ UNCHANGED <<target, doing, overtaken>> /\ indexed' = indexed \union {target[a]}
        /\ \A b \in Actors : pc'[b] = IF b = a THEN "indexed" ELSE pc[b]
        /\ pc[a] = "allocated"
    BY <1>1, <1>7 DEF CreateIndexes, table, ghosts
  <2>2. target[a] \in Rows
    BY <1>1, <2>1 DEF Creating
  <2>3. target[a] \notin overtaken => target[a] \in Listed /\ ~Withheld(target[a])'
    BY <2>1, <2>2 DEF Withheld, HandsListed
  <2>4. \A r \in Rows : r # target[a] => (Withheld(r)' <=> Withheld(r))
    BY <2>1 DEF Withheld
  <2>5. QED
    BY <2>1, <2>3, <2>4 DEF Indexing, Listed
<1>8. ASSUME NEW a \in Actors, CreateWrites(a) \/ CreateSpinsUp(a) \/ DestroySpinsDown(a)
      PROVE  Indexing'
  <2>1. /\ order' = order /\ UNCHANGED <<doing, overtaken, indexed>>
        /\ \A b \in Actors : b # a => pc'[b] = pc[b] /\ target'[b] = target[b]
        /\ \/ target'[a] = target[a] /\ pc[a] = "listed" /\ pc'[a] = "allocated"
           \/ target'[a] = target[a] /\ pc[a] = "deindexed" /\ pc'[a] = "spunDown"
           \/ pc[a] = "indexed" /\ pc'[a] \in {"idle", "update"}
    BY <1>1, <1>8 DEF CreateWrites, CreateSpinsUp, DestroySpinsDown, Resume, table, ghosts
  <2>2. \A r \in Rows : Withheld(r)' <=> Withheld(r)
    BY <2>1 DEF Withheld
  <2>3. QED
    BY <2>1, <2>2 DEF Indexing, Listed
<1>9. ASSUME NEW a \in Actors, NEW r \in Rows, destroy(a, r)
      PROVE  Indexing'
  <2>1. /\ order' = order /\ indexed' = indexed \ {r} /\ doing' = doing /\ pc[a] \in {"idle", "update"}
        /\ \A b \in Actors : /\ target'[b] = IF b = a THEN r ELSE target[b]
                             /\ pc'[b] = IF b = a THEN "deindexed" ELSE pc[b]
    BY <1>1, <1>9 DEF destroy, Ready, table
  <2>2. \A q \in Rows : Withheld(q)' <=> Withheld(q) \/ q = r
    BY <2>1 DEF Withheld
  <2>3. QED
    BY <1>2, <2>1, <2>2 DEF Indexing, Listed
<1>10. ASSUME NEW a \in Actors, DestroyFrees(a)
       PROVE  Indexing'
  <2>1. /\ Listed' = Listed \ {target[a]} /\ UNCHANGED <<overtaken, indexed>> /\ pc[a] = "spunDown"
        /\ \A b \in Actors : /\ target'[b] = IF b = a THEN None ELSE target[b]
                             /\ IF b = a THEN pc'[b] \in {"idle", "update"} ELSE pc'[b] = pc[b]
        /\ \A w \in Workers : w # a => doing'[w] = doing[w]
    BY <1>1, <1>10, ListedStep DEF DestroyFrees, Resume
  <2>2. Withheld(target[a]) /\ target[a] \in Rows
    BY <1>1, <2>1 DEF Withheld, Destroying
  <2>3. \A r \in Rows : r # target[a] => (Withheld(r)' <=> Withheld(r))
    BY <2>1 DEF Withheld
  <2>4. QED
    BY <2>1, <2>2, <2>3 DEF Indexing
<1>11. CASE \/ updateTick \/ Submit \/ AllSubmitted \/ endFrame \/ requestBackup \/ BackupStarts \/ BackupTurn
            \/ gracefulShutdown \/ Closed \/ Reopen \/ \E r \in Rows : SpinDownJob(r) \/ SpinUpJob(r)
            \/ UNCHANGED vars
  <2>1. /\ UNCHANGED <<order, target, indexed, doing, overtaken>>
        /\ \/ pc' = pc
           \/ \E here, there \in {"idle", "updating", "updated", "spinDown", "closed"} :
                pc[Main] = here /\ pc' = [pc EXCEPT ![Main] = there]
    BY <1>11 DEF updateTick, Submit, AllSubmitted, endFrame, requestBackup, BackupStarts, BackupTurn,
       gracefulShutdown, Closed, Reopen, SpinDownJob, SpinUpJob, vars, table, applyLogsThrough, ghosts
  <2>2. \A r \in Rows : Withheld(r)' <=> Withheld(r)
    BY <1>1, <2>1 DEF Withheld
  <2>3. QED
    BY <2>1, <2>2 DEF Indexing, Listed
<1>12. QED
  BY <1>3, <1>4, <1>5, <1>6, <1>7, <1>8, <1>9, <1>10, <1>11 DEF Next

(* Jobs that spin a row up or down come when nothing else does.            *)
LEMMA SpinningStep ==
  ASSUME Base, IInv, HandsListed, Spinning, [Next]_vars
  PROVE  Spinning'
<1> USE DatabaseAssumption DEF Actors, Moves, Goto
<1>1. /\ \A w \in Workers : w # Main
      /\ pc \in [Actors -> {"idle", "updating", "updated", "update", "unindexed", "write", "spinDown", "closed"}
                           \union Creating \union Destroying]
      /\ target \in [Actors -> Rows \union {None}]
      /\ \A a \in Actors : target[a] = None <=> pc[a] \notin Creating \union Destroying
      /\ up \subseteq Rows /\ Listed \subseteq Rows
  BY DEF Base, Hands, TypeOK
<1>2. \A w \in Workers : pc[w] # "idle" => pc[Main] \in {"updating", "updated"}
  BY OwnRows DEF AtFrame
<1>3. overtaken \subseteq overtaken'
  BY ListedStep
<1>4. ASSUME NEW w \in Workers, \/ JobReturns(w) \/ Write(w) \/ WriteUnindexes(w) \/ WriteIndexes(w)
                                \/ \E r \in Rows : TakeJob(w, r)
      PROVE  Spinning'
  <2>1. /\ order' = order /\ up' = up /\ target' = target
        /\ queue' = queue \/ \E r \in Rows : queue' = queue \ {<<"update", r>>}
        /\ pc' = pc \/ \E place \in {"idle", "update", "unindexed", "write"} : pc' = [pc EXCEPT ![w] = place]
    BY <1>4 DEF JobReturns, Write, WriteUnindexes, WriteIndexes, TakeJob, table
  <2>2. /\ Listed' = Listed /\ pc'[Main] = pc[Main] /\ \A a \in Actors : pc'[a] = "spunDown" => pc[a] = "spunDown"
        /\ \A r \in Rows : /\ <<"spunDown", r>> \in queue' <=> <<"spunDown", r>> \in queue
                           /\ <<"spunUp", r>> \in queue' <=> <<"spunUp", r>> \in queue
    BY <1>1, <2>1 DEF Listed
  <2>3. QED
    BY <1>1, <1>3, <2>1, <2>2 DEF Spinning
<1>5. ASSUME NEW a \in Actors, NEW r \in Rows, create(a, r)
      PROVE  Spinning'
  <2>1. /\ Listed' = Listed \union {r} /\ r \notin Listed /\ UNCHANGED <<up, queue, overtaken>>
        /\ \A b \in Actors : /\ target'[b] = IF b = a THEN r ELSE target[b]
                             /\ pc'[b] = IF b = a THEN "listed" ELSE pc[b]
        /\ pc[a] = IF a = Main THEN "idle" ELSE "update"
    BY <1>1, <1>5, ListedStep DEF create, Ready, ghosts
  <2>2. pc'[Main] \notin {"spinDown", "closed"} /\ pc[Main] \notin {"spinDown", "closed"}
    BY <1>2, <2>1
  <2>3. a # Main => pc[Main] \in {"updating", "updated"}
    BY <1>2, <2>1
  <2>4. \A q \in Rows : <<"spunDown", q>> \notin queue
    BY <2>2 DEF Spinning
  <2>5. ASSUME NEW q \in Rows, <<"spunUp", q>> \in queue
        PROVE  q \in Listed' /\ target'[Main] # q /\ pc'[Main] \notin {"updating", "updated", "spinDown", "closed"}
    BY <2>1, <2>3, <2>5 DEF Spinning
  <2>6. /\ \A b \in Actors : pc'[b] = "spunDown" => pc[b] = "spunDown" /\ target'[b] = target[b]
        /\ up \ overtaken \subseteq Listed'
    BY <2>1 DEF Spinning
  <2>7. QED
    BY <2>1, <2>2, <2>4, <2>5, <2>6 DEF Spinning
<1>6. ASSUME NEW a \in Actors, CreateWrites(a) \/ CreateIndexes(a) \/ CreateSpinsUp(a)
      PROVE  Spinning'
  <2>1. /\ order' = order /\ queue' = queue /\ up' \in {up, up \union {target[a]}} /\ overtaken' = overtaken
        /\ pc[a] \in Creating /\ pc'[a] \in {"allocated", "indexed", "idle", "update"}
        /\ target'[a] \in {target[a], None}
        /\ \A b \in Actors : b # a => pc'[b] = pc[b] /\ target'[b] = target[b]
        /\ a = Main => pc'[a] \in {"allocated", "indexed", "idle"}
    BY <1>1, <1>6 DEF CreateWrites, CreateIndexes, CreateSpinsUp, Resume, table, Creating, ghosts
  <2>2. /\ a # Main => pc'[Main] = pc[Main] /\ pc[Main] \in {"updating", "updated"}
        /\ pc'[Main] \notin {"spinDown", "closed"} /\ pc[Main] \notin {"spinDown", "closed"}
    BY <1>2, <2>1 DEF Creating
  <2>3. target[a] \in Rows /\ (target[a] \notin overtaken => target[a] \in Listed)
    BY <1>1, <2>1 DEF HandsListed
  <2>4. Listed' = Listed /\ up' \ overtaken' \subseteq Listed'
    <3>1. Listed' = Listed
      BY <2>1 DEF Listed
    <3>2. QED
      BY <2>1, <2>3, <3>1 DEF Spinning
  <2>5. ASSUME NEW b \in Actors, pc'[b] = "spunDown", target'[b] \notin overtaken
        PROVE  target'[b] \notin up'
    <3>1. b # a /\ pc[b] = "spunDown" /\ target'[b] = target[b]
      BY <2>1, <2>5
    <3>2. target[b] \notin up /\ target[b] \in Rows
      BY <1>1, <2>5, <3>1 DEF Spinning, Destroying
    <3>3. target[b] # target[a]
      BY <2>5, <3>1, <3>2 DEF HandsListed
    <3>4. QED
      BY <2>1, <3>1, <3>2, <3>3
  <2>6. \A r \in Rows : <<"spunDown", r>> \notin queue
    BY <2>2 DEF Spinning
  <2>7. ASSUME NEW r \in Rows, <<"spunUp", r>> \in queue
        PROVE  r \in Listed /\ target'[Main] # r /\ pc'[Main] \notin {"updating", "updated", "spinDown", "closed"}
    <3>1. a = Main /\ r \in Listed /\ target[Main] # r
      BY <2>2, <2>7 DEF Spinning
    <3>2. QED
      BY <2>1, <2>7, <3>1
  <2>8. QED
    BY <2>1, <2>2, <2>4, <2>5, <2>6, <2>7 DEF Spinning
<1>7. ASSUME NEW a \in Actors, NEW r \in Rows, destroy(a, r)
      PROVE  Spinning'
  <2>1. /\ order' = order /\ up' = up /\ queue' = queue
        /\ target' = [target EXCEPT ![a] = r] /\ pc' = [pc EXCEPT ![a] = "deindexed"]
        /\ pc[a] = (IF a = Main THEN "idle" ELSE "update") /\ (a = Main => ~Busy(r))
    BY <1>7 DEF destroy, Ready, table
  <2>2. a = Main => <<"spunUp", r>> \notin queue
    BY <2>1 DEF Busy
  <2>3. /\ \A b \in Actors : pc'[b] = "spunDown" => pc[b] = "spunDown" /\ target'[b] = target[b]
        /\ a = Main => pc'[Main] = "deindexed" /\ target'[Main] = r
        /\ a # Main => pc'[Main] = pc[Main] /\ target'[Main] = target[Main]
    BY <1>1, <2>1
  <2>4. QED
    BY <1>3, <2>1, <2>2, <2>3 DEF Spinning, Listed
<1>8. ASSUME NEW a \in Actors, DestroySpinsDown(a)
      PROVE  Spinning'
  <2>1. /\ order' = order /\ up' = up \ {target[a]} /\ queue' = queue /\ target' = target
        /\ pc' = [pc EXCEPT ![a] = "spunDown"] /\ pc[a] = "deindexed" /\ overtaken' = overtaken
    BY <1>8 DEF DestroySpinsDown, table, ghosts
  <2>2. /\ \A b \in Actors : pc'[b] = "spunDown" => pc[b] = "spunDown" \/ b = a
        /\ pc'[Main] \in {pc[Main], "spunDown"} /\ (pc'[Main] # pc[Main] => pc[Main] = "deindexed")
    BY <1>1, <2>1
  <2>3. QED
    BY <2>1, <2>2 DEF Spinning, Listed
<1>9. ASSUME NEW a \in Actors, DestroyFrees(a)
      PROVE  Spinning'
  <2>1. /\ Listed' = Listed \ {target[a]} /\ pc[a] = "spunDown" /\ UNCHANGED <<up, queue, overtaken>>
        /\ \A b \in Actors : /\ target'[b] = IF b = a THEN None ELSE target[b]
                             /\ IF b = a THEN pc'[b] \in {"idle", "update"} ELSE pc'[b] = pc[b]
    BY <1>1, <1>9, ListedStep DEF DestroyFrees, Resume
  <2>2. target[a] \notin up \/ target[a] \in overtaken
    BY <2>1 DEF Spinning
  <2>3. /\ \A b \in Actors : pc'[b] = "spunDown" => pc[b] = "spunDown" /\ target'[b] = target[b]
        /\ a = Main => pc'[Main] \in {"idle", "update"} /\ target'[Main] = None
        /\ a # Main => pc'[Main] = pc[Main] /\ target'[Main] = target[Main] /\ pc[Main] \in {"updating", "updated"}
    BY <1>1, <1>2, <2>1
  <2>4. QED
    BY <2>1, <2>2, <2>3 DEF Spinning
<1>10. CASE \/ updateTick \/ Submit \/ AllSubmitted \/ endFrame \/ requestBackup \/ BackupStarts \/ BackupTurn
            \/ UNCHANGED vars
  <2>1. /\ UNCHANGED <<order, target, up>>
        /\ \/ queue' = queue
           \/ \E r : queue' = queue \union {<<"update", r>>}
        /\ \/ pc' = pc
           \/ /\ pc[Main] = "idle" /\ queue = {} /\ pc' = [pc EXCEPT ![Main] = "updating"]
           \/ /\ pc[Main] = "updating" /\ pc' = [pc EXCEPT ![Main] = "updated"]
           \/ /\ pc[Main] = "updated" /\ pc' = [pc EXCEPT ![Main] = "idle"]
    BY <1>10 DEF updateTick, Submit, AllSubmitted, endFrame, requestBackup, BackupStarts, BackupTurn, AllDone,
       vars, table, applyLogsThrough
  <2>2. \A b \in Actors : pc'[b] = "spunDown" => pc[b] = "spunDown"
    BY <1>1, <2>1
  <2>3. \/ pc'[Main] = pc[Main]
        \/ pc[Main] = "idle" /\ queue = {} /\ pc'[Main] = "updating"
        \/ pc[Main] = "updating" /\ pc'[Main] = "updated"
        \/ pc[Main] = "updated" /\ pc'[Main] = "idle"
    BY <1>1, <2>1
  <2>4. \A r \in Rows : /\ <<"spunDown", r>> \in queue' <=> <<"spunDown", r>> \in queue
                        /\ <<"spunUp", r>> \in queue' <=> <<"spunUp", r>> \in queue
    BY <2>1
  <2>5. queue = {} => \A r \in Rows : <<"spunUp", r>> \notin queue'
    BY <2>4
  <2>6. QED
    BY <1>1, <1>3, <2>1, <2>2, <2>3, <2>4, <2>5 DEF Spinning, Listed
<1>11. CASE gracefulShutdown \/ Closed \/ Reopen
  <2>1. UNCHANGED <<order, target, up>>
    BY <1>11 DEF gracefulShutdown, Closed, Reopen, table, applyLogsThrough
  <2>2. \A w \in Workers : pc'[w] = pc[w]
    BY <1>1, <1>11 DEF gracefulShutdown, Closed, Reopen
  <2>3. CASE gracefulShutdown
    <3>1. pc'[Main] = "spinDown" /\ queue' = {"spunDown"} \X Listed
      BY <1>1, <2>3 DEF gracefulShutdown
    <3>2. QED
      BY <1>1, <1>3, <2>1, <2>2, <3>1 DEF Spinning, Listed
  <2>4. CASE Closed
    <3>1. pc'[Main] = "closed" /\ queue' = {} /\ pc[Main] = "spinDown" /\ queue = {}
      BY <1>1, <2>4 DEF Closed, AllDone
    <3>2. up \intersect Listed = {}
      BY <1>1, <3>1 DEF Spinning
    <3>3. QED
      BY <1>1, <1>3, <2>1, <2>2, <3>1, <3>2 DEF Spinning, Listed
  <2>5. CASE Reopen
    <3>1. pc'[Main] = "idle" /\ queue' = {"spunUp"} \X Listed /\ pc[Main] = "closed"
      BY <1>1, <2>5 DEF Reopen
    <3>2. target[Main] = None
      BY <3>1, OwnRows
    <3>3. QED
      BY <1>1, <1>3, <2>1, <2>2, <3>1, <3>2 DEF Spinning, Listed
  <2>6. QED
    BY <1>11, <2>3, <2>4, <2>5
<1>12. ASSUME NEW r \in Rows, SpinDownJob(r) \/ SpinUpJob(r)
       PROVE  Spinning'
  <2>1. UNCHANGED <<order, target, pc, overtaken>>
    BY <1>12 DEF SpinDownJob, SpinUpJob, table, ghosts
  <2>2. CASE SpinDownJob(r)
    <3>1. up' = up \ {r} /\ queue' = queue \ {<<"spunDown", r>>}
      BY <2>2 DEF SpinDownJob
    <3>2. QED
      BY <1>1, <2>1, <3>1 DEF Spinning, Listed
  <2>3. CASE SpinUpJob(r)
    <3>1. up' = up \union {r} /\ queue' = queue \ {<<"spunUp", r>>} /\ <<"spunUp", r>> \in queue
      BY <2>3 DEF SpinUpJob
    <3>2. r \in Listed /\ target[Main] # r /\ pc[Main] \notin {"updating", "updated", "spinDown", "closed"}
      BY <3>1 DEF Spinning
    <3>3. \A w \in Workers : pc[w] = "idle"
      BY <1>2, <3>2
    <3>4. QED
      BY <1>1, <2>1, <3>1, <3>2, <3>3 DEF Spinning, Listed
  <2>4. QED
    BY <1>12, <2>2, <2>3
<1>13. QED
  BY <1>4, <1>5, <1>6, <1>7, <1>8, <1>9, <1>10, <1>11, <1>12 DEF Next

(* A shutdown folds all frames but the last, and no one writes after that. *)
LEMMA FoldedStep ==
  ASSUME Base, IInv, Stamped, Folded, [Next]_vars
  PROVE  Folded'
<1> USE DatabaseAssumption DEF Actors
<1> SUFFICES ASSUME pc'[Main] \in {"spinDown", "closed"}
             PROVE  \A r \in Listed' : logged'[r] \subseteq {currentFrame'}
  BY DEF Folded
<1>1. CASE gracefulShutdown
  <2>1. /\ order' = order /\ currentFrame' = currentFrame /\ AllDone /\ pc[Main] = "idle"
        /\ applyLogsThrough(currentFrame - 1) /\ currentFrame - 1 \in Int /\ currentFrame \in Int
    BY <1>1 DEF gracefulShutdown, applyLogsThrough, Moves, Base, TypeOK
  <2>2. ASSUME NEW r \in Listed, NEW g \in logged'[r]
        PROVE  g = currentFrame
    <3>1. g \in logged[r] /\ g > currentFrame - 1 /\ g \in 1 .. LastFrame
      BY <2>1, <2>2, FoldsKeep
    <3>2. g <= currentFrame
      BY <2>1, <3>1, NoneListedNow DEF Stamped, Stamps
    <3>3. QED
      BY <2>1, <3>1, <3>2
  <2>3. QED
    BY <2>1, <2>2 DEF Listed
<1>2. CASE pc[Main] \in {"spinDown", "closed"}
  <2>1. ~AtFrame /\ target[Main] = None /\ \A w \in Workers : pc[w] = "idle"
    BY <1>2, OwnRows DEF AtFrame
  <2>2. ~Reopen /\ ~endFrame /\ ~gracefulShutdown
    BY <1>2 DEF Reopen, endFrame, gracefulShutdown, Moves, Goto, Base, Hands
  <2>3. ASSUME NEW a \in Actors
        PROVE  /\ ~DestroyFrees(a) /\ ~CreateWrites(a) /\ \A r \in Rows : ~create(a, r)
    BY <1>2, <2>1 DEF DestroyFrees, CreateWrites, create, Ready, Moves
  <2>4. \A w \in Workers : ~Write(w)
    BY <2>1 DEF Write
  <2>5. BackupTurn => logged' = logged
    BY BackupWaits DEF table
  <2>6. order' = order /\ currentFrame' = currentFrame /\ logged' = logged
    BY <2>2, <2>3, <2>4, <2>5, Writers
  <2>7. QED
    BY <1>2, <2>6 DEF Folded, Listed
<1>3. QED
  BY <1>1, <1>2, ClosingBegins

(* A new database is in order.                                             *)
LEMMA InitOrderly == Init => Orderly
<1> SUFFICES ASSUME Init
             PROVE  Orderly
  OBVIOUS
<1>1. Listed = {} /\ \A a \in Actors : pc[a] = "idle" /\ target[a] = None
  BY DEF Init, Listed, ToSet
<1>2. HandsListed /\ Indexing
  BY <1>1, DatabaseAssumption DEF Init, HandsListed, Indexing, Actors
<1>3. Spinning /\ Folded
  BY <1>1, DatabaseAssumption DEF Init, Spinning, Folded, Actors
<1>4. QED
  BY <1>2, <1>3 DEF Orderly

(* As long as no job destroys rows of others, the parts of the database    *)
(* agree at every step on every row that was not overtaken.                *)
THEOREM OrderlyHolds ==
  ASSUME ~DestroyOthers
  PROVE  Spec => []Orderly
<1>1. Base /\ IInv /\ Stamped /\ Orderly /\ [Next]_vars => Orderly'
  <2> SUFFICES ASSUME Base, IInv, Stamped, Orderly, [Next]_vars
               PROVE  Orderly'
    OBVIOUS
  <2>1. HandsListed'
    BY HandsListedStep DEF Orderly
  <2>2. Indexing'
    BY <2>1, IndexingStep DEF Orderly
  <2>3. Spinning' /\ Folded'
    BY SpinningStep, FoldedStep DEF Orderly
  <2>4. QED
    BY <2>1, <2>2, <2>3 DEF Orderly
<1>2. Base /\ Stamped /\ [Next]_vars => Stamped'
  BY StampedStep
<1>3. Init => Stamped
  BY DEF Init, Stamped, Listed, ToSet
<1>4. Spec => []IInv
  BY WalkSound
<1>5. QED
  BY <1>1, <1>2, <1>3, <1>4, BaseHolds, InitOrderly, PTL DEF Spec

(* Between the phases of a frame the index holds exactly the listed rows,  *)
(* however the jobs that create rows interleave with those of the rows they*)
(* create: destroy, write and create take a row out and put it back within *)
(* a phase.  Left out are the rows whose own job took them from the index, *)
(* or destroyed them, before their create had got as far.                  *)
THEOREM IndexFollowsTable ==
  ASSUME ~DestroyOthers
  PROVE  Spec => []IndexAgrees
<1>1. Base /\ Orderly => IndexAgrees
  <2> SUFFICES ASSUME Base, Orderly, AllDone, pc[Main] \in {"idle", "updated", "closed"}
               PROVE  \A r \in Rows \ overtaken : r \in indexed <=> r \in Listed
    BY DEF IndexAgrees, Base
  <2>1. \A a \in Actors : pc[a] \in {"idle", "updated", "closed"}
    BY DEF AllDone, Actors
  <2>2. \A r \in Rows : ~Withheld(r)
    BY <2>1, DatabaseAssumption DEF Withheld, Actors
  <2>3. QED
    BY <2>2 DEF Orderly, Indexing
<1>2. QED
  BY <1>1, BaseHolds, OrderlyHolds, PTL

(* A graceful shutdown leaves every row spun down, and nothing in the log  *)
(* it deletes but what was written since the last frame ended, whatever    *)
(* rows jobs created.  A row that its own job destroyed before its create  *)
(* was through may be left spun up, and it is no longer listed.            *)
THEOREM ShutdownComplete ==
  ASSUME ~DestroyOthers
  PROVE  Spec => []ClosedClean
<1>1. Base /\ Orderly => ClosedClean
  BY DEF Base, TypeOK, Orderly, Spinning, Folded, ClosedClean
<1>2. QED
  BY <1>1, BaseHolds, OrderlyHolds, PTL

(* Nothing is overtaken where only the main thread creates rows: it does so*)
(* between frames, when no job runs.  The two theorems above then hold of  *)
(* all rows.                                                               *)
THEOREM NothingOvertaken ==
  ASSUME ~JobsCreate, ~DestroyOthers
  PROVE  Spec => [](overtaken = {})
<1> USE DatabaseAssumption
<1> DEFINE Alone == overtaken = {} /\ \A w \in Workers : pc[w] \notin Creating
<1>1. Base /\ IInv /\ Alone /\ [Next]_vars => Alone'
  <2> SUFFICES ASSUME Base, IInv, Alone, [Next]_vars
               PROVE  Alone'
    OBVIOUS
  <2>1. /\ \A w \in Workers : w # Main
        /\ pc \in [Actors -> {"idle", "updating", "updated", "update", "unindexed", "write", "spinDown", "closed"}
                             \union Creating \union Destroying]
    BY DEF Base, Hands
  <2>2. ASSUME NEW r, NEW places, places \subseteq Creating, AtFrame \/ pc[Main] = "idle"
        PROVE  ~CreateAt(r, places)
    BY <2>2 DEF CreateAt, AtFrame, Creating, Actors
  <2>3. overtaken' = {}
    <3>1. ASSUME NEW w \in Workers, WriteUnindexes(w)
          PROVE  overtaken' = {}
      <4>1. AtFrame
        BY <3>1, OwnRows DEF WriteUnindexes, Moves
      <4>2. ~CreateAt(doing[w], {"listed", "allocated"})
        BY <2>2, <4>1 DEF Creating
      <4>3. QED
        BY <3>1, <4>2 DEF WriteUnindexes
    <3>2. ASSUME NEW a \in Actors, NEW r \in Rows, destroy(a, r)
          PROVE  overtaken' = {}
      <4>1. AtFrame \/ pc[Main] = "idle"
        BY <3>2, OwnRows DEF destroy, Ready, Actors
      <4>2. ~CreateAt(r, {"listed", "allocated", "indexed"})
        BY <2>2, <4>1 DEF Creating
      <4>3. QED
        BY <3>2, <4>2 DEF destroy
    <3>3. QED
      BY <3>1, <3>2, Writers
  <2>4. ASSUME NEW w \in Workers
        PROVE  pc'[w] \notin Creating
    <3> USE <2>1 DEF Creating, Actors, Moves, Goto
    <3>1. ASSUME NEW v \in Workers, \/ JobReturns(v) \/ Write(v) \/ WriteUnindexes(v) \/ WriteIndexes(v)
                                    \/ \E r \in Rows : TakeJob(v, r)
          PROVE  pc'[w] \notin Creating
      BY <3>1 DEF JobReturns, Write, WriteUnindexes, WriteIndexes, TakeJob
    <3>2. ASSUME NEW a \in Actors, CreateWrites(a) \/ CreateIndexes(a) \/ \E r \in Rows : create(a, r)
          PROVE  pc'[w] \notin Creating
      BY <3>2 DEF CreateWrites, CreateIndexes, create
    <3>3. ASSUME NEW a \in Actors, \/ CreateSpinsUp(a) \/ DestroySpinsDown(a) \/ DestroyFrees(a)
                                   \/ \E r \in Rows : destroy(a, r)
          PROVE  pc'[w] \notin Creating
      BY <3>3 DEF CreateSpinsUp, DestroySpinsDown, DestroyFrees, destroy, Resume
    <3>4. CASE \/ updateTick \/ Submit \/ AllSubmitted \/ endFrame \/ requestBackup \/ BackupStarts \/ BackupTurn
               \/ gracefulShutdown \/ Closed \/ Reopen \/ \E r \in Rows : SpinDownJob(r) \/ SpinUpJob(r)
               \/ UNCHANGED vars
      BY <3>4 DEF updateTick, Submit, AllSubmitted, endFrame, requestBackup, BackupStarts, BackupTurn,
         gracefulShutdown, Closed, Reopen, SpinDownJob, SpinUpJob, vars
    <3>5. QED
      BY <3>1, <3>2, <3>3, <3>4 DEF Next
  <2>5. QED
    BY <2>3, <2>4
<1>2. Init => Alone
  BY DEF Init, Actors, Creating
<1>3. Alone => overtaken = {}
  OBVIOUS
<1>4. Spec => []IInv
  BY WalkSound
<1> HIDE DEF Alone
<1>5. QED
  BY <1>1, <1>2, <1>3, <1>4, BaseHolds, PTL DEF Spec

===========================================================================
