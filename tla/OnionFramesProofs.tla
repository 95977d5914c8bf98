-------------------------- MODULE OnionFramesProofs --------------------------
(***************************************************************************)
(* The frame pipeline for every number of copies of every slot, of objects *)
(* and of frames, when one thread creates and renders: nothing that a      *)
(* frame in flight uses is dropped or rewritten, draws use the object's    *)
(* own current images, and sizes get through.                              *)
(*                                                                         *)
(* First arithmetic: remainders, and that a frameswapLCM is a common       *)
(* multiple.  Then the invariant, part by part: frames in flight (Timing), *)
(* pools (Lockstep), the stamps of images (Stamped, Sized), what keeps     *)
(* views of them (Current, Looked), and what is collected and in use       *)
(* (GarbageOld, GarbageIdle, InUseAlive).                                  *)
(***************************************************************************)
EXTENDS OnionFrames, TLAPS, FiniteSetTheorems, WellFoundedInduction

Objs == 1 .. MaxObjects
Holders == {"target", "source"} \X Objs

(* Who keeps views: framebuffers, and descriptors.  Of each, the slots it   *)
(* shows, the object, the number of copies and the copies themselves.      *)
Keepers == {<<"fb", t>> : t \in Objs} \cup {<<"set", x>> : x \in Holders}
Shown(by) == IF by[1] = "fb" THEN Slots ELSE Viewed[by[2][1]]
Owner(by) == IF by[1] = "fb" THEN by[2] ELSE by[2][2]
Period(by) == IF by[1] = "fb" THEN maxFrameswap("target") ELSE maxFrameswap(by[2][1])
Rounds(by) == 0 .. Period(by) - 1
Cell(by, k) == IF by[1] = "fb" THEN tgt[by[2]].fb[k] ELSE Held(by[2]).set[k]

stamp(o, s, i) == obj[o].images[s].stamp[i]
Copies(s) == 0 .. Swap[s] - 1

-----------------------------------------------------------------------------
(* The frames in flight are the last cmdFrameswapCount at most.            *)
Timing ==
  /\ frame \in Nat \ {0} /\ done \in Nat /\ done < frame
  /\ phase \in {"idle", "begun", "resized", "recorded", "closed"}
  /\ frame <= done + cmdFrameswapCount + (IF phase \in {"idle", "closed"} THEN 1 ELSE 0)
  /\ phase \in {"idle", "closed"} => recorded = {}

(* A pool has its entries allocated or available.                          *)
Pool(p) ==
  /\ p \in [store : 0 .. MaxObjects, available : Seq(Objs), allocated : SUBSET Objs]
  /\ IsInjective(p.available)
  /\ \A n \in Objs : n <= p.store <=> n \in p.allocated \/ n \in ToSet(p.available)
  /\ p.allocated \cap ToSet(p.available) = {}

(* The three pools hand out the same numbers, as nothing comes between the  *)
(* two halves of create; so an object always has the same target.          *)
Lockstep ==
  /\ Pool(objects) /\ Pool(targets) /\ sources = targets
  /\ \/ pending = {} /\ objects = targets
     \/ pending = {NextOf(targets)} /\ objects = allocate(targets) /\ phase = "idle"
  /\ \A t \in targets.allocated : tgt[t].obj = t /\ src[t].obj = t /\ obj[t].target = t /\ obj[t].source = t

(* The data have their fields and copies.                                  *)
Shaped ==
  /\ DOMAIN obj = Objs /\ DOMAIN tgt = Objs /\ DOMAIN src = Objs
  /\ \A o \in Objs :
       /\ DOMAIN obj[o] = {"created", "target", "source", "win", "winFrame", "ext", "extFrame", "images"}
       /\ obj[o].extFrame \in 0 .. frame /\ obj[o].winFrame \in 0 .. frame /\ obj[o].created \in 0 .. frame
       /\ DOMAIN tgt[o] = {"obj", "fb", "set"} /\ DOMAIN src[o] = {"obj", "set"}
       /\ DOMAIN tgt[o].fb = Mods("target") /\ DOMAIN tgt[o].set = Mods("target")
       /\ DOMAIN src[o].set = Mods("source")
  /\ DOMAIN collectors = Cmds /\ DOMAIN work = Cmds

(* The frame in which a copy of an image was made, or will first be used,   *)
(* is no later than the next frame that uses it, and not before the frame  *)
(* in which the size it has was asked for.                                 *)
Stamped ==
  \A o \in Objs, s \in Slots : \A i \in Copies(s) :
    /\ stamp(o, s, i) \in Nat
    /\ stamp(o, s, i) <= frame + Swap[s] - (IF phase \in {"resized", "recorded"} THEN 1 ELSE 2)
    /\ \A f \in Nat : f >= frame /\ f % Swap[s] = i => stamp(o, s, i) <= f
    /\ obj[o].images[s].ci.frame \in Nat /\ obj[o].images[s].ci.frame <= stamp(o, s, i)

(* A copy that is new since the window's size changed has that size.       *)
Sized ==
  \A o \in Objs, s \in Slots : \A i \in Copies(s) :
    stamp(o, s, i) > 0 /\ stamp(o, s, i) >= obj[o].winFrame + Swap[s] - 1
      => obj[o].images[s].size[i] = obj[o].win
SizedNow ==
  phase \in {"resized", "recorded"} => \A o \in DrawnObjects, s \in Slots :
    frame >= obj[o].winFrame + Swap[s] => getSize(o, s, frame) = obj[o].win

(* A view that is kept shows an image of the keeper's own object, of the    *)
(* slot and the copy it is kept for, and that image is still the current   *)
(* one unless a new one was made after the keeper was last looked at.      *)
Kept(v, by, k, s, last) ==
  LET i == k % Swap[s] IN
  /\ v.by = by /\ v.made \in 1 .. last /\ v.made % Period(by) = k
  /\ \E f \in Nat : v.image = <<"image", Owner(by), s, i, f>>
  /\ v.image = <<"image", Owner(by), s, i, stamp(Owner(by), s, i)>> \/ last < stamp(Owner(by), s, i)

Current ==
  \A by \in Keepers : \A k \in Rounds(by) : Cell(by, k) # None =>
    /\ Cell(by, k).last \in 1 .. (IF phase = "recorded" THEN frame ELSE frame - 1)
    /\ \A s \in Shown(by) : Kept(Cell(by, k).views[s], by, k, s, Cell(by, k).last)

(* The same of the external resource.                                      *)
ExternalCurrent ==
  \A x \in Holders : \A k \in Mods(x[1]) : Held(x).set[k] # None =>
    Held(x).set[k].ext = obj[x[2]].ext \/ Held(x).set[k].last < obj[x[2]].extFrame

(* What the frame that has been recorded draws with has been looked at.    *)
Looked ==
  phase = "recorded" => \A by \in Keepers : Owner(by) \in DrawnTargets =>
    LET cell == Cell(by, frame % Period(by)) IN
    /\ cell # None
    /\ \A s \in Shown(by) : cell.last >= stamp(Owner(by), s, frame % Swap[s])
    /\ by[1] = "set" => cell.last >= obj[Owner(by)].extFrame

-----------------------------------------------------------------------------
(* What is collected is older than what has taken its place.               *)
OldImage(g) ==
  \E o \in Objs, s \in Slots : \E i \in Copies(s), f \in Nat :
    g = <<"image", o, s, i, f>> /\ f < stamp(o, s, i)
OldFramebuffer(g) ==
  \E t \in Objs, k \in Mods("target"), f \in Nat :
    g = <<"fb", t, k, f>> /\ tgt[t].fb[k] # None /\ f < tgt[t].fb[k].last
OldView(g) ==
  \E by \in Keepers : \E s \in Shown(by), k \in Rounds(by), f \in Nat : \E i \in Copies(s), f2 \in Nat :
    /\ g = <<"view", <<"image", Owner(by), s, i, f2>>, f, by>>
    /\ f % Period(by) = k /\ Cell(by, k) # None /\ f < Cell(by, k).views[s].made
GarbageOld == \A c \in Cmds : \A g \in collectors[c] : OldImage(g) \/ OldFramebuffer(g) \/ OldView(g)

(* The frames given to the GPU name their own command buffer and sets.     *)
Named(u, f) ==
  /\ u[1] = "cmd" => u = <<"cmd", f % cmdFrameswapCount>>
  /\ u[1] = "set" => u[2] \in Holders /\ u[3] = f % maxFrameswap(u[2][1])
OwnNames ==
  /\ \A f \in InFlight : \A u \in UsedBy(f) : Named(u, f)
  /\ \A u \in recorded : Named(u, frame)

(* What a frame uses is alive.                                             *)
InUseAlive ==
  /\ \A f \in InFlight : f >= cmdFrameswapCount - 1 =>
       phase # "closed" /\ \A u \in UsedBy(f) : u[1] \in Destroyable => u \in Alive
  /\ \A u \in recorded : u[1] \in Destroyable => u \in Alive

(* Garbage is used by no frame after the latest of its collector's frames. *)
GarbageIdle ==
  /\ \A c \in Cmds : \A g \in collectors[c] : \A f \in InFlight : g \in UsedBy(f) =>
       \E h \in f .. (IF phase \in {"resized", "recorded"} THEN frame ELSE frame - 1) : h % cmdFrameswapCount = c
  /\ \A c \in Cmds \ {Active} : collectors[c] \cap recorded = {}

-----------------------------------------------------------------------------
(* Quotient and remainder.                                                 *)
LEMMA Division ==
  ASSUME NEW a \in Int, NEW m \in Nat \ {0}
  PROVE  a % m \in 0 .. m - 1 /\ \E q \in Int : a = m * q + (a % m)
<1>1. a \div m \in Int /\ a % m \in 0 .. m - 1 /\ a = m * (a \div m) + (a % m)
  OBVIOUS
<1>2. QED
  BY <1>1

(* Multiples of m are m apart.                                             *)
LEMMA Apart ==
  ASSUME NEW p \in Int, NEW q \in Int, NEW m \in Nat \ {0}, p < q
  PROVE  m * p + m <= m * q
OBVIOUS

(* Integers form a ring.                                                   *)
LEMMA Ring ==
  \A x, y, z \in Int :
    /\ x * y \in Int /\ x * y = y * x
    /\ (x * y) * z = x * (y * z) /\ x * y + x * z = x * (y + z) /\ x * y - x * z = x * (y - z)
OBVIOUS

(* A remainder is known by its quotient.                                   *)
LEMMA Remainder ==
  ASSUME NEW a \in Int, NEW m \in Nat \ {0}, NEW q \in Int, NEW r \in 0 .. m - 1, a = m * q + r
  PROVE  a % m = r
<1>1. PICK p \in Int : a = m * p + (a % m)
  BY Division
<1>2. a % m \in 0 .. m - 1 /\ m * p \in Int /\ m * q \in Int
  BY Division, Ring
<1>3. CASE p < q
  BY <1>1, <1>2, <1>3, Apart
<1>4. CASE q < p
  BY <1>1, <1>2, <1>4, Apart
<1>5. CASE q = p
  BY <1>1, <1>2, <1>5
<1>6. QED
  BY <1>3, <1>4, <1>5

(* Two numbers with the same remainder are a whole divisor apart.          *)
LEMMA SameRemainder ==
  ASSUME NEW a \in Int, NEW b \in Int, NEW m \in Nat \ {0}, a % m = b % m, a < b
  PROVE  a + m <= b
<1>1. PICK p \in Int : a = m * p + (a % m)
  BY Division
<1>2. PICK q \in Int : b = m * q + (b % m)
  BY Division
<1>3. a % m \in 0 .. m - 1 /\ m * p \in Int /\ m * q \in Int
  BY Division, Ring
<1>4. CASE p < q
  BY <1>1, <1>2, <1>3, <1>4, Apart
<1>5. CASE q < p
  BY <1>1, <1>2, <1>3, <1>5, Apart
<1>6. CASE q = p
  BY <1>1, <1>2, <1>3, <1>6
<1>7. QED
  BY <1>4, <1>5, <1>6

(* The remainder of a multiple's remainder.                                *)
LEMMA RemainderOfRemainder ==
  ASSUME NEW a \in Int, NEW m \in Nat \ {0}, NEW n \in Nat \ {0}, m % n = 0
  PROVE  (a % m) % n = a % n
<1>1. PICK p \in Int, r \in 0 .. m - 1 : a = m * p + r /\ a % m = r
  BY Division
<1>2. PICK d \in Int : m = n * d
  <2>1. m \in Int
    OBVIOUS
  <2>2. PICK d \in Int : m = n * d + (m % n)
    BY <2>1, Division
  <2>3. QED
    BY <2>2, Ring
<1>3. PICK q \in Int, t \in 0 .. n - 1 : r = n * q + t /\ r % n = t
  <2>1. r \in Int
    OBVIOUS
  <2>2. QED
    BY <2>1, Division
<1>4. m * p = n * (d * p) /\ d * p \in Int /\ n * (d * p) + n * q = n * (d * p + q) /\ n * q \in Int
  BY <1>2, Ring
<1>5. a = n * (d * p + q) + t /\ d * p + q \in Int
  BY <1>1, <1>3, <1>4
<1>6. a % n = t
  BY <1>5, Remainder
<1>7. QED
  BY <1>1, <1>3, <1>6

(* The next number from a on that has f's remainder is no later than f.    *)
LEMMA NextTurn ==
  ASSUME NEW a \in Int, NEW f \in Int, a <= f, NEW m \in Nat \ {0}
  PROVE  ((f % m) - a) % m \in 0 .. m - 1 /\ ((f % m) - a) % m <= f - a
<1>1. PICK p \in Int, r \in 0 .. m - 1 : f = m * p + r /\ f % m = r
  BY Division
<1>2. f - a \in Int
  OBVIOUS
<1>3. PICK q \in Int, t \in 0 .. m - 1 : f - a = m * q + t /\ (f - a) % m = t
  BY <1>2, Division
<1>4. m * q - m * p = m * (q - p) /\ m * p \in Int /\ m * q \in Int /\ q - p \in Int
  BY Ring
<1>5. r - a \in Int /\ r - a = m * (q - p) + t
  BY <1>1, <1>3, <1>4
<1>6. (r - a) % m = t
  BY <1>4, <1>5, Remainder
<1>7. t <= f - a
  <2>1. q < 0 => m * q + m <= m * 0
    BY Apart
  <2>2. q > 0 => m * 0 + m <= m * q
    BY Apart
  <2>3. QED
    BY <1>3, <1>4, <2>1, <2>2
<1>8. QED
  BY <1>1, <1>6, <1>7

(* Multiples of a multiple.                                                *)
LEMMA MultipleOf ==
  ASSUME NEW m \in Nat \ {0}, NEW k \in Nat \ {0}, NEW n \in Nat \ {0}, m % n = 0
  PROVE  (m * k) % n = 0 /\ m * k \in Nat \ {0} /\ m * k = k * m /\ n <= m
<1>1. PICK d \in Int : m = n * d
  <2>1. m \in Int
    OBVIOUS
  <2>2. PICK d \in Int : m = n * d + (m % n)
    BY <2>1, Division
  <2>3. QED
    BY <2>2, Ring
<1>2. m * k = n * (d * k) /\ d * k \in Int /\ m * k \in Int /\ k * m = m * k
  BY <1>1, Ring
<1>3. (m * k) % n = 0
  <2>1. n * (d * k) = n * (d * k) + 0 /\ 0 \in 0 .. n - 1
    BY <1>2, Ring
  <2>2. QED
    BY <1>2, <2>1, Remainder
<1>4. m * k # 0 /\ m * k >= 0
  OBVIOUS
<1>5. n <= m
  <2>1. m < n => m = n * 0 + m /\ m \in 0 .. n - 1
    OBVIOUS
  <2>2. m < n => m % n = m
    BY <2>1, Remainder
  <2>3. QED
    BY <2>2
<1>6. QED
  BY <1>2, <1>3, <1>4, <1>5
-----------------------------------------------------------------------------
(* A set of numbers has a least one.                                       *)
LEMMA LeastNumber ==
  ASSUME NEW S \in SUBSET Nat, S # {}
  PROVE  \E least \in S : \A x \in S : least <= x
<1>1. PICK k \in S : \A x \in S : ~(<<x, k>> \in OpToRel(<, Nat))
  BY WFMin, NatLessThanWellFounded
<1>2. \A x \in S : x \in Nat /\ k \in Nat /\ ~(x < k)
  BY <1>1 DEF OpToRel
<1>3. \A x \in S : k <= x
  BY <1>2
<1>4. QED
  BY <1>3

(* ... and Min is it.                                                      *)
LEMMA MinIs ==
  ASSUME NEW S \in SUBSET Nat, S # {}
  PROVE  Min(S) \in S /\ \A x \in S : Min(S) <= x
BY LeastNumber DEF Min

(* A finite set of integers that are no less than a number in it has a     *)
(* greatest one, and Max is it.                                            *)
LEMMA MaxIs ==
  ASSUME NEW S \in SUBSET Int, S # {}, IsFiniteSet(S)
  PROVE  Max(S) \in S /\ \A x \in S : x <= Max(S)
<1> DEFINE Above(x) == {y \in S : y > x}
           Counted == {n \in Nat : \E x \in S : Cardinality(Above(x)) = n}
<1>1. \A x \in S : IsFiniteSet(Above(x)) /\ Cardinality(Above(x)) \in Nat
  BY FS_Subset, FS_CardinalityType
<1>2. Counted \in SUBSET Nat /\ Counted # {}
  BY <1>1
<1> HIDE DEF Counted
<1>3. PICK n \in Counted : \A c \in Counted : n <= c
  BY <1>2, LeastNumber
<1>4. PICK x \in S : Cardinality(Above(x)) = n
  BY <1>3 DEF Counted
<1>5. ASSUME NEW y \in S, y > x
      PROVE  FALSE
  <2>1. Above(y) \subseteq Above(x) /\ y \in Above(x) \ Above(y)
    <3>1. \A z \in S : z \in Int /\ (z > y => z > x)
      BY <1>5
    <3>2. y \in Int /\ ~(y > y)
      BY <1>5
    <3>3. QED
      BY <1>5, <3>1, <3>2
  <2>2. Cardinality(Above(y)) <= Cardinality(Above(x)) /\ Cardinality(Above(y)) # Cardinality(Above(x))
    BY <1>1, <2>1, FS_Subset
  <2>3. Cardinality(Above(y)) \in Counted
    BY <1>1 DEF Counted
  <2>4. QED
    BY <1>1, <1>3, <1>4, <2>2, <2>3
<1>6. \A y \in S : x >= y
  BY <1>5
<1>7. QED
  BY <1>6 DEF Max

(* The least common multiple is a multiple.                                *)
LEMMA LcmDivided ==
  ASSUME NEW a \in Nat \ {0}, NEW b \in Nat \ {0}
  PROVE  lcm(a, b) \in Nat \ {0} /\ lcm(a, b) % a = 0 /\ lcm(a, b) % b = 0
<1> DEFINE S == {m \in 1 .. a * b : m % a = 0 /\ m % b = 0}
<1>1. a % a = 0 /\ b % b = 0
  <2>1. a = a * 1 + 0 /\ b = b * 1 + 0 /\ 0 \in 0 .. a - 1 /\ 0 \in 0 .. b - 1
    OBVIOUS
  <2>2. QED
    BY <2>1, Remainder
<1>2. (a * b) % a = 0 /\ (b * a) % b = 0 /\ a * b \in Nat \ {0} /\ a * b = b * a
  BY <1>1, MultipleOf
<1>3. a * b \in S /\ S \in SUBSET Nat
  BY <1>2
<1> HIDE DEF S
<1>4. Min(S) \in S
  BY <1>3, MinIs
<1>5. lcm(a, b) = Min(S)
  BY DEF lcm, S
<1>6. \A m \in 1 .. a * b : m \in Nat \ {0}
  BY <1>2
<1>7. QED
  BY <1>4, <1>5, <1>6 DEF S

(* The numbers of copies, of images and of the program's buffer.           *)
AllCounts == Counts \cup {HostSwap}

(* One number of a set, and the step from the others to the set.           *)
Drawn(c) == CHOOSE n \in c : TRUE
Fold(f, c) == IF c = {} THEN 1 ELSE lcm(f[c \ {Drawn(c)}], Drawn(c))

(* The numbers are positive and finitely many.                             *)
LEMMA CountsFinite ==
  /\ IsFiniteSet(AllCounts) /\ AllCounts \subseteq Nat \ {0}
  /\ \A c \in SUBSET AllCounts : IsFiniteSet(c) /\ Cardinality(c) \in Nat /\ Cardinality(c) <= Cardinality(AllCounts)
  /\ \A c \in SUBSET AllCounts : c # {} =>
       /\ Drawn(c) \in c /\ c \ {Drawn(c)} \in SUBSET AllCounts
       /\ Cardinality(c \ {Drawn(c)}) = Cardinality(c) - 1
<1>1. IsFiniteSet(Slots) /\ Swap \in [Slots -> Nat \ {0}] /\ HostSwap \in Nat \ {0}
  BY FramesAssumption
<1>2. IsFiniteSet(Counts)
  <2>1. Swap \in Surjection(Slots, Counts)
    BY <1>1 DEF Surjection, Counts
  <2>2. QED
    BY <1>1, <2>1, FS_Surjection
<1>3. IsFiniteSet(AllCounts) /\ AllCounts \subseteq Nat \ {0}
  BY <1>1, <1>2, FS_AddElement DEF AllCounts, Counts
<1>4. \A c \in SUBSET AllCounts : IsFiniteSet(c) /\ Cardinality(c) \in Nat /\ Cardinality(c) <= Cardinality(AllCounts)
  BY <1>3, FS_Subset, FS_CardinalityType
<1>5. ASSUME NEW c \in SUBSET AllCounts, c # {}
      PROVE  /\ Drawn(c) \in c /\ c \ {Drawn(c)} \in SUBSET AllCounts
             /\ Cardinality(c \ {Drawn(c)}) = Cardinality(c) - 1
  <2>1. Drawn(c) \in c
    BY <1>5 DEF Drawn
  <2>2. QED
    BY <1>4, <2>1, FS_RemoveElement
<1>6. QED
  BY <1>3, <1>4, <1>5

(* The recursion has a solution: one for sets of at most n numbers extends  *)
(* to sets of n + 1.                                                       *)
LEMMA FoldExists == \E f : f = [c \in SUBSET AllCounts |-> Fold(f, c)]
<1> DEFINE Upto(n) == {c \in SUBSET AllCounts : Cardinality(c) <= n}
           Solved(n) == \E f : f = [c \in Upto(n) |-> Fold(f, c)]
           Unsolved == {n \in Nat : ~Solved(n)}
<1>1. Solved(0)
  <2>1. \A c \in Upto(0) : c = {}
    BY CountsFinite, FS_EmptySet
  <2>2. [c \in Upto(0) |-> 1] = [c \in Upto(0) |-> Fold([d \in Upto(0) |-> 1], c)]
    BY <2>1 DEF Fold
  <2>3. QED
    BY <2>2
<1>2. ASSUME NEW n \in Nat, Solved(n)
      PROVE  Solved(n + 1)
  <2>1. PICK f : f = [c \in Upto(n) |-> Fold(f, c)]
    BY <1>2
  <2> DEFINE g == [c \in Upto(n + 1) |-> Fold(f, c)]
  <2>2. ASSUME NEW c \in Upto(n + 1)
        PROVE  Fold(f, c) = Fold(g, c)
    <3>1. CASE c = {}
      BY <3>1 DEF Fold
    <3>2. CASE c # {}
      <4>1. c \ {Drawn(c)} \in Upto(n) /\ c \ {Drawn(c)} \in Upto(n + 1)
        <5>1. c \in SUBSET AllCounts /\ Cardinality(c) <= n + 1 /\ Cardinality(c) \in Nat
          BY CountsFinite
        <5>2. c \ {Drawn(c)} \in SUBSET AllCounts /\ Cardinality(c \ {Drawn(c)}) = Cardinality(c) - 1
          BY <3>2, <5>1, CountsFinite
        <5>3. QED
          BY <5>1, <5>2
      <4>2. g[c \ {Drawn(c)}] = f[c \ {Drawn(c)}]
        BY <2>1, <4>1
      <4>3. QED
        BY <3>2, <4>2 DEF Fold
    <3>3. QED
      BY <3>1, <3>2
  <2>3. g = [c \in Upto(n + 1) |-> Fold(g, c)]
    BY <2>2
  <2>4. QED
    BY <2>3
<1> HIDE DEF Solved
<1>3. Unsolved = {}
  <2>1. SUFFICES ASSUME Unsolved # {}
                 PROVE  FALSE
    OBVIOUS
  <2>2. PICK n \in Unsolved : \A m \in Unsolved : n <= m
    BY <2>1, LeastNumber
  <2>3. n # 0
    BY <1>1, <2>2
  <2>4. n - 1 \in Nat /\ n - 1 \notin Unsolved
    BY <2>2, <2>3
  <2>5. Solved(n - 1) => Solved((n - 1) + 1)
    BY <1>2, <2>4
  <2>6. QED
    BY <2>2, <2>4, <2>5
<1>4. Solved(Cardinality(AllCounts))
  BY <1>3, CountsFinite
<1>5. Upto(Cardinality(AllCounts)) = SUBSET AllCounts
  BY CountsFinite
<1>6. QED
  BY <1>4, <1>5 DEF Solved

(* A frameswapLCM is a common multiple.                                    *)
LEMMA FrameswapDivided ==
  \A c \in SUBSET AllCounts : frameswapLCM[c] \in Nat \ {0} /\ \A n \in c : frameswapLCM[c] % n = 0 /\ n <= frameswapLCM[c]
<1>1. frameswapLCM = [c \in SUBSET AllCounts |-> Fold(frameswapLCM, c)]
  <2>1. frameswapLCM = CHOOSE f : f = [c \in SUBSET AllCounts |-> Fold(f, c)]
    BY DEF frameswapLCM, AllCounts, Fold, Drawn
  <2>2. QED
    BY <2>1, FoldExists
<1> DEFINE Right(c) == frameswapLCM[c] \in Nat \ {0} /\ \A n \in c : frameswapLCM[c] % n = 0
           Wrong == {n \in Nat : \E c \in SUBSET AllCounts : Cardinality(c) = n /\ ~Right(c)}
<1>2. Wrong = {}
  <2>1. SUFFICES ASSUME Wrong # {}
                 PROVE  FALSE
    OBVIOUS
  <2>2. PICK n \in Wrong : \A m \in Wrong : n <= m
    BY <2>1, LeastNumber
  <2>3. PICK c \in SUBSET AllCounts : Cardinality(c) = n /\ ~Right(c)
    BY <2>2
  <2>4. c # {}
    <3>1. c = {} => frameswapLCM[c] = 1
      BY <1>1 DEF Fold
    <3>2. QED
      BY <2>3, <3>1
  <2> DEFINE x == Drawn(c)
             d == c \ {x}
  <2>5. x \in c /\ d \in SUBSET AllCounts /\ Cardinality(d) = n - 1 /\ n \in Nat /\ Cardinality(d) \in Nat /\ x \in Nat \ {0}
    BY <2>2, <2>3, <2>4, CountsFinite
  <2>6. Right(d)
    <3>1. ~Right(d) => Cardinality(d) \in Wrong
      BY <2>5
    <3>2. n - 1 \notin Wrong
      BY <2>2, <2>5
    <3>3. QED
      BY <2>5, <3>1, <3>2
  <2>7. frameswapLCM[c] = lcm(frameswapLCM[d], x)
    BY <1>1, <2>4 DEF Fold
  <2> DEFINE b == frameswapLCM[d]
             a == frameswapLCM[c]
  <2> HIDE DEF x, d, a, b
  <2>8. a \in Nat \ {0} /\ a % b = 0 /\ a % x = 0 /\ b \in Nat \ {0}
    BY <2>5, <2>6, <2>7, LcmDivided DEF a, b
  <2>9. ASSUME NEW m \in d
        PROVE  a % m = 0
    <3>1. m \in Nat \ {0} /\ b % m = 0
      BY <2>5, <2>6, <2>9, CountsFinite DEF b
    <3>2. (a % b) % m = a % m
      <4>1. a \in Int
        BY <2>8
      <4>2. QED
        BY <2>8, <3>1, <4>1, RemainderOfRemainder
    <3>3. 0 % m = 0
      BY <3>1
    <3>4. QED
      BY <2>8, <3>2, <3>3
  <2>10. QED
    BY <2>3, <2>8, <2>9 DEF a, d
<1>3. ASSUME NEW c \in SUBSET AllCounts, NEW n \in c
      PROVE  n <= frameswapLCM[c]
  <2>1. n \in Nat \ {0} /\ frameswapLCM[c] \in Nat \ {0} /\ frameswapLCM[c] % n = 0
    BY <1>2, CountsFinite
  <2>2. QED
    BY <2>1, MultipleOf
<1>4. QED
  BY <1>2, <1>3, CountsFinite
(* A sequence with one more element.                                       *)
LEMMA OneMore ==
  ASSUME NEW S, NEW s \in Seq(S), IsInjective(s), NEW r \in S \ ToSet(s)
  PROVE  /\ Append(s, r) \in Seq(S) /\ IsInjective(Append(s, r))
         /\ Len(Append(s, r)) = Len(s) + 1 /\ DOMAIN Append(s, r) = 1 .. Len(s) + 1
         /\ \A i \in 1 .. Len(s) + 1 : Append(s, r)[i] = IF i <= Len(s) THEN s[i] ELSE r
         /\ ToSet(Append(s, r)) = ToSet(s) \union {r}
<1>1. /\ Append(s, r) \in Seq(S) /\ Len(Append(s, r)) = Len(s) + 1 /\ DOMAIN Append(s, r) = 1 .. Len(s) + 1
      /\ \A i \in 1 .. Len(s) + 1 : Append(s, r)[i] = IF i <= Len(s) THEN s[i] ELSE r
      /\ Len(s) \in Nat /\ DOMAIN s = 1 .. Len(s)
  OBVIOUS
<1>2. ToSet(Append(s, r)) = ToSet(s) \union {r}
  <2>1. \A i \in 1 .. Len(s) : i \in 1 .. Len(s) + 1 /\ Append(s, r)[i] = s[i]
    BY <1>1
  <2>2. Len(s) + 1 \in 1 .. Len(s) + 1 /\ Append(s, r)[Len(s) + 1] = r
    BY <1>1
  <2>3. \A i \in 1 .. Len(s) + 1 : i \in 1 .. Len(s) \/ i = Len(s) + 1
    BY <1>1
  <2>4. QED
    BY <1>1, <2>1, <2>2, <2>3 DEF ToSet
<1>3. \A i \in 1 .. Len(s) : s[i] # r
  BY <1>1 DEF ToSet
<1>4. IsInjective(Append(s, r))
  BY <1>1, <1>3 DEF IsInjective
<1>5. QED
  BY <1>1, <1>2, <1>4

(* ... and without its last.                                               *)
LEMMA LastOff ==
  ASSUME NEW S, NEW s \in Seq(S), IsInjective(s), s # <<>>
  PROVE  /\ Front(s) \in Seq(S) /\ IsInjective(Front(s)) /\ Len(Front(s)) = Len(s) - 1
         /\ Last(s) \in ToSet(s) /\ ToSet(Front(s)) = ToSet(s) \ {Last(s)}
<1>1. /\ Front(s) \in Seq(S) /\ Len(Front(s)) = Len(s) - 1 /\ DOMAIN Front(s) = 1 .. Len(s) - 1
      /\ \A i \in 1 .. Len(s) - 1 : Front(s)[i] = s[i]
      /\ Len(s) \in Nat \ {0} /\ DOMAIN s = 1 .. Len(s) /\ Last(s) = s[Len(s)]
  <2>1. Len(s) \in Nat /\ Len(s) # 0 /\ DOMAIN s = 1 .. Len(s)
    OBVIOUS
  <2>2. Front(s) = SubSeq(s, 1, Len(s) - 1) /\ Last(s) = s[Len(s)]
    BY DEF Front, Last
  <2>3. /\ SubSeq(s, 1, Len(s) - 1) \in Seq(S) /\ Len(SubSeq(s, 1, Len(s) - 1)) = Len(s) - 1
        /\ \A i \in 1 .. Len(s) - 1 : SubSeq(s, 1, Len(s) - 1)[i] = s[i]
    BY <2>1
  <2>4. QED
    BY <2>1, <2>2, <2>3
<1>2. IsInjective(Front(s))
  BY <1>1 DEF IsInjective
<1>3. Last(s) \in ToSet(s)
  BY <1>1 DEF ToSet
<1>4. ToSet(Front(s)) = ToSet(s) \ {Last(s)}
  <2>1. \A i \in 1 .. Len(s) - 1 : s[i] # s[Len(s)]
    BY <1>1 DEF IsInjective
  <2>2. \A i \in 1 .. Len(s) : i # Len(s) => i \in 1 .. Len(s) - 1
    BY <1>1
  <2>3. QED
    BY <1>1, <2>1, <2>2 DEF ToSet
<1>5. QED
  BY <1>1, <1>2, <1>3, <1>4

-----------------------------------------------------------------------------
(* The numbers of copies and of frames in flight.                          *)
LEMMA Turns ==
  /\ cmdFrameswapCount \in Nat /\ cmdFrameswapCount >= 3
  /\ \A s \in Slots : Swap[s] \in Nat \ {0} /\ Swap[s] <= cmdFrameswapCount
  /\ \A h \in {"target", "source"} : maxFrameswap(h) \in Nat \ {0} /\ Viewed[h] \subseteq Slots
  /\ \A s \in Slots : maxFrameswap("target") % Swap[s] = 0 /\ Swap[s] <= maxFrameswap("target")
  /\ \A s \in Viewed["source"] : maxFrameswap("source") % Swap[s] = 0 /\ Swap[s] <= maxFrameswap("source")
<1>1. /\ Swap \in [Slots -> Nat \ {0}] /\ Viewed \in [{"target", "source"} -> SUBSET Slots]
  BY FramesAssumption
<1> DEFINE all == frameswapLCM[AllCounts]
<1>2. all \in Nat \ {0} /\ \A s \in Slots : Swap[s] <= all
  <2>1. \A s \in Slots : Swap[s] \in AllCounts
    BY DEF AllCounts, Counts
  <2>2. QED
    BY <2>1, FrameswapDivided
<1>3. cmdFrameswapCount = Max({3, all})
  BY DEF cmdFrameswapCount, AllCounts
<1> HIDE DEF all
<1>4. Max({3, all}) \in {3, all} /\ \A x \in {3, all} : x <= Max({3, all})
  <2>1. {3, all} \in SUBSET Int /\ {3, all} = {3} \cup {all}
    BY <1>2
  <2>2. IsFiniteSet({3, all})
    <3>1. IsFiniteSet({3})
      BY FS_Singleton
    <3>2. IsFiniteSet({3} \cup {all})
      BY <3>1, FS_AddElement
    <3>3. QED
      BY <2>1, <3>2
  <2>3. QED
    BY <2>1, <2>2, MaxIs
<1>5. Counts \in SUBSET AllCounts /\ {Swap[s] : s \in Viewed["source"]} \in SUBSET AllCounts
  BY <1>1 DEF AllCounts, Counts
<1>6. /\ maxFrameswap("target") = frameswapLCM[Counts]
      /\ maxFrameswap("source") = frameswapLCM[{Swap[s] : s \in Viewed["source"]}]
  BY DEF maxFrameswap
<1>7. /\ maxFrameswap("target") \in Nat \ {0}
      /\ \A s \in Slots : maxFrameswap("target") % Swap[s] = 0 /\ Swap[s] <= maxFrameswap("target")
  BY <1>5, <1>6, FrameswapDivided DEF Counts
<1>8. /\ maxFrameswap("source") \in Nat \ {0}
      /\ \A s \in Viewed["source"] : maxFrameswap("source") % Swap[s] = 0 /\ Swap[s] <= maxFrameswap("source")
  BY <1>5, <1>6, FrameswapDivided
<1>9. cmdFrameswapCount \in Nat /\ cmdFrameswapCount >= 3 /\ \A s \in Slots : Swap[s] <= cmdFrameswapCount
  BY <1>1, <1>2, <1>3, <1>4
<1>10. QED
  BY <1>1, <1>7, <1>8, <1>9

(* What keeps views: of which slots, for how many frames, of which object. *)
LEMMA KeeperTurns ==
  ASSUME NEW by \in Keepers
  PROVE  /\ Owner(by) \in Objs /\ Period(by) \in Nat \ {0} /\ Shown(by) \subseteq Slots
         /\ \A s \in Shown(by) : Period(by) % Swap[s] = 0 /\ Swap[s] <= Period(by)
<1>1. CASE \E t \in Objs : by = <<"fb", t>>
  BY <1>1, Turns DEF Owner, Period, Shown
<1>2. CASE \E t \in Objs : by = <<"set", <<"target", t>>>>
  BY <1>2, Turns DEF Owner, Period, Shown
<1>3. CASE \E t \in Objs : by = <<"set", <<"source", t>>>>
  BY <1>3, Turns DEF Owner, Period, Shown
<1>4. QED
  BY <1>1, <1>2, <1>3 DEF Keepers, Holders

(* Of the copies for the frame f.                                          *)
LEMMA CopyOf ==
  ASSUME NEW f \in Nat
  PROVE  /\ \A s \in Slots : f % Swap[s] \in Copies(s)
         /\ \A by \in Keepers : f % Period(by) \in Rounds(by)
         /\ \A h \in {"target", "source"} : f % maxFrameswap(h) \in Mods(h)
         /\ f % cmdFrameswapCount \in Cmds
         /\ \A by \in Keepers : \A s \in Shown(by) : (f % Period(by)) % Swap[s] = f % Swap[s]
         /\ \A s \in Slots : \A i \in Copies(s) : i % Swap[s] = i
<1>1. \A m \in Nat \ {0} : f % m \in 0 .. m - 1 /\ \A i \in 0 .. m - 1 : i % m = i
  <2>1. f \in Int
    OBVIOUS
  <2>2. ASSUME NEW m \in Nat \ {0}, NEW i \in 0 .. m - 1
        PROVE  i % m = i
    <3>1. i \in Int /\ 0 \in Int /\ i = m * 0 + i
      OBVIOUS
    <3>2. QED
      BY <3>1, Remainder
  <2>3. QED
    BY <2>1, <2>2, Division
<1>2. \A by \in Keepers : \A s \in Shown(by) : (f % Period(by)) % Swap[s] = f % Swap[s]
  <2>1. ASSUME NEW by \in Keepers, NEW s \in Shown(by)
        PROVE  (f % Period(by)) % Swap[s] = f % Swap[s]
    <3>1. Period(by) \in Nat \ {0} /\ s \in Slots /\ Period(by) % Swap[s] = 0
      BY <2>1, KeeperTurns
    <3>2. Swap[s] \in Nat \ {0} /\ f \in Int
      BY <3>1, Turns
    <3>3. QED
      BY <3>1, <3>2, RemainderOfRemainder
  <2>2. QED
    BY <2>1
<1>3. \A by \in Keepers : Period(by) \in Nat \ {0}
  BY KeeperTurns
<1>4. \A s \in Slots : f % Swap[s] \in Copies(s) /\ \A i \in Copies(s) : i % Swap[s] = i
  BY <1>1, Turns DEF Copies
<1>5. \A by \in Keepers : f % Period(by) \in Rounds(by)
  BY <1>1, <1>3 DEF Rounds
<1>6. (\A h \in {"target", "source"} : f % maxFrameswap(h) \in Mods(h)) /\ f % cmdFrameswapCount \in Cmds
  BY <1>1, Turns DEF Mods, Cmds
<1>7. QED
  BY <1>2, <1>4, <1>5, <1>6

-----------------------------------------------------------------------------
(* A pool hands out what nobody has.                                       *)
LEMMA PoolAllocates ==
  ASSUME NEW p, Pool(p), NextOf(p) <= MaxObjects
  PROVE  /\ Pool(allocate(p)) /\ NextOf(p) \in Objs \ p.allocated
         /\ allocate(p).allocated = p.allocated \cup {NextOf(p)}
         /\ allocate(p).store <= MaxObjects
<1>1. /\ p.store \in 0 .. MaxObjects /\ p.available \in Seq(Objs) /\ p.allocated \in SUBSET Objs
      /\ IsInjective(p.available) /\ p.allocated \cap ToSet(p.available) = {}
      /\ \A n \in Objs : n <= p.store <=> n \in p.allocated \/ n \in ToSet(p.available)
      /\ MaxObjects \in Nat
  BY FramesAssumption DEF Pool
<1>2. CASE p.available # << >>
  <2>1. /\ Front(p.available) \in Seq(Objs) /\ IsInjective(Front(p.available))
        /\ Last(p.available) \in ToSet(p.available) /\ ToSet(Front(p.available)) = ToSet(p.available) \ {Last(p.available)}
    BY <1>1, <1>2, LastOff
  <2>2. NextOf(p) = Last(p.available) /\ Last(p.available) \in Objs
    BY <1>1, <1>2, <2>1 DEF NextOf, ToSet
  <2>3. allocate(p) = [store |-> p.store, available |-> Front(p.available), allocated |-> p.allocated \cup {NextOf(p)}]
    BY <1>2 DEF allocate
  <2>4. QED
    BY <1>1, <2>1, <2>2, <2>3 DEF Pool
<1>3. CASE p.available = << >>
  <2>1. NextOf(p) = p.store + 1 /\ ToSet(<< >>) = {} /\ << >> \in Seq(Objs) /\ IsInjective(<< >>)
    BY <1>3 DEF NextOf, ToSet, IsInjective
  <2>2. allocate(p) = [store |-> p.store + 1, available |-> << >>, allocated |-> p.allocated \cup {NextOf(p)}]
    BY <1>3 DEF allocate
  <2>3. NextOf(p) \in Objs \ p.allocated
    <3>1. p.store + 1 \in Objs
      BY <1>1, <2>1 DEF Objs
    <3>2. ~(p.store + 1 <= p.store)
      BY <1>1
    <3>3. QED
      BY <1>1, <2>1, <3>1, <3>2
  <2>4. \A n \in Objs : n <= p.store + 1 <=> n \in p.allocated \cup {p.store + 1}
    <3>1. \A n \in Objs : n \in Int /\ (n <= p.store + 1 <=> n <= p.store \/ n = p.store + 1)
      BY <1>1 DEF Objs
    <3>2. QED
      BY <1>1, <1>3, <2>1, <3>1
  <2>5. p.store + 1 \in 0 .. MaxObjects
    BY <1>1, <2>1
  <2>6. QED
    BY <1>1, <2>1, <2>2, <2>3, <2>4, <2>5 DEF Pool
<1>4. QED
  BY <1>2, <1>3

(* ... and takes it back.                                                  *)
LEMMA PoolFrees ==
  ASSUME NEW p, Pool(p), NEW x \in p.allocated
  PROVE  Pool(free(p, x)) /\ free(p, x).allocated = p.allocated \ {x}
<1>1. /\ p.store \in 0 .. MaxObjects /\ p.available \in Seq(Objs) /\ p.allocated \in SUBSET Objs
      /\ IsInjective(p.available) /\ p.allocated \cap ToSet(p.available) = {}
      /\ \A n \in Objs : n <= p.store <=> n \in p.allocated \/ n \in ToSet(p.available)
      /\ p = [store |-> p.store, available |-> p.available, allocated |-> p.allocated]
  BY DEF Pool
<1>2. x \in Objs \ ToSet(p.available)
  BY <1>1
<1>3. /\ Append(p.available, x) \in Seq(Objs) /\ IsInjective(Append(p.available, x))
      /\ ToSet(Append(p.available, x)) = ToSet(p.available) \cup {x}
  BY <1>1, <1>2, OneMore
<1>4. free(p, x) = [store |-> p.store, available |-> Append(p.available, x), allocated |-> p.allocated \ {x}]
  BY DEF free
<1>5. QED
  BY <1>1, <1>2, <1>3, <1>4 DEF Pool
-----------------------------------------------------------------------------
(* What the calls between frames leave alone: images, framebuffers,        *)
(* descriptors and everything about frames.                                *)
Same ==
  /\ \A o \in Objs : obj'[o].images = obj[o].images
  /\ \A t \in Objs : tgt'[t].fb = tgt[t].fb /\ tgt'[t].set = tgt[t].set /\ src'[t].set = src[t].set
Between ==
  /\ Same /\ UNCHANGED <<frame, phase, done, collectors, work, recorded>>
  /\ phase = "idle" \/ UNCHANGED pools
  /\ \A o \in Objs :
       /\ \/ obj'[o].win = obj[o].win /\ obj'[o].winFrame = obj[o].winFrame
          \/ obj'[o].winFrame = frame /\ phase = "idle"
       /\ \/ obj'[o].ext = obj[o].ext /\ obj'[o].extFrame = obj[o].extFrame
          \/ obj'[o].extFrame = frame /\ phase = "idle"

(* The pools stay in step, and the data keep their fields.                 *)
LEMMA LockstepKept ==
  ASSUME OneThread, Lockstep, Shaped, [Next]_vars
  PROVE  Lockstep'
<1>1. /\ Pool(objects) /\ Pool(targets) /\ sources = targets
      /\ \A t \in targets.allocated : t \in Objs
      /\ DOMAIN obj = Objs /\ DOMAIN tgt = Objs /\ DOMAIN src = Objs
      /\ \A o \in Objs :
           /\ DOMAIN obj[o] = {"created", "target", "source", "win", "winFrame", "ext", "extFrame", "images"}
           /\ DOMAIN tgt[o] = {"obj", "fb", "set"} /\ DOMAIN src[o] = {"obj", "set"}
  BY DEF Lockstep, Shaped, Pool
<1>2. \A t \in targets.allocated : tgt[t].obj = t /\ src[t].obj = t /\ obj[t].target = t /\ obj[t].source = t
  BY DEF Lockstep
<1>3. pending = {} => objects = targets
  BY DEF Lockstep
<1>4. ASSUME Create
      PROVE  Lockstep'
  <2>1. pending = {} /\ objects = targets /\ phase = "idle"
    BY <1>3, <1>4 DEF Create, Idle
  <2>2. /\ objects' = allocate(targets) /\ pending' = {NextOf(targets)} /\ phase' = "idle"
        /\ targets' = targets /\ sources' = sources /\ tgt' = tgt /\ src' = src
        /\ NextOf(targets) <= MaxObjects
    BY <1>4, <2>1 DEF Create, createObject, Call
  <2>3. NextOf(targets) \in Objs /\ Pool(allocate(targets))
    BY <1>1, <2>2, PoolAllocates
  <2>4. \A t \in Objs : obj'[t].target = obj[t].target /\ obj'[t].source = obj[t].source
    BY <1>1, <1>4, <2>1, <2>3 DEF Create
  <2>5. Pool(objects') /\ Pool(targets') /\ NextOf(targets') = NextOf(targets) /\ allocate(targets') = allocate(targets)
    BY <1>1, <2>2, <2>3
  <2>6. QED
    BY <1>1, <1>2, <2>2, <2>4, <2>5 DEF Lockstep, Pool
<1>5. ASSUME NEW o \in pending, Reinit(o)
      PROVE  Lockstep'
  <2>1. pending = {NextOf(targets)} /\ objects = allocate(targets) /\ phase = "idle" /\ o = NextOf(targets)
    BY <1>5 DEF Lockstep
  <2>2. /\ targets' = allocate(targets) /\ sources' = allocate(targets) /\ objects' = objects /\ pending' = {}
        /\ tgt' = [tgt EXCEPT ![o].obj = o] /\ src' = [src EXCEPT ![o].obj = o]
        /\ obj' = [obj EXCEPT ![o].target = o, ![o].source = o]
    BY <1>1, <1>5, <2>1 DEF Reinit, createAllTargets, createAllSources, createTarget, createSource
  <2>3. o \in Objs \ targets.allocated /\ allocate(targets).allocated = targets.allocated \cup {o}
    <3>1. NextOf(targets) \in allocate(targets).allocated
      BY DEF allocate
    <3>2. NextOf(targets) <= MaxObjects
      BY <1>1, <2>1, <3>1, FramesAssumption DEF Pool, Objs
    <3>3. QED
      BY <1>1, <2>1, <3>2, PoolAllocates
  <2>4. tgt'[o].obj = o /\ src'[o].obj = o /\ obj'[o].target = o /\ obj'[o].source = o
    <3>1. /\ tgt'[o] = [tgt[o] EXCEPT !.obj = o] /\ src'[o] = [src[o] EXCEPT !.obj = o]
          /\ obj'[o] = [obj[o] EXCEPT !.target = o, !.source = o]
      BY <1>1, <2>2, <2>3
    <3>2. QED
      BY <1>1, <2>3, <3>1
  <2>5. \A t \in targets.allocated : tgt'[t] = tgt[t] /\ src'[t] = src[t] /\ obj'[t] = obj[t]
    BY <1>1, <2>2, <2>3
  <2>6. QED
    BY <1>1, <1>2, <2>1, <2>2, <2>3, <2>4, <2>5 DEF Lockstep
<1>6. ASSUME NEW o \in objects.allocated, Destroy(o)
      PROVE  Lockstep'
  <2>1. pending = {} /\ objects = targets /\ o \in targets.allocated
    BY <1>3, <1>6 DEF Destroy, Idle
  <2>2. /\ targets' = free(targets, o) /\ sources' = targets' /\ objects' = targets' /\ pending' = {}
        /\ UNCHANGED <<obj, tgt, src>>
    BY <1>1, <1>2, <1>6, <2>1 DEF Destroy, freeObject, freeAllTargets, freeAllSources, freeTarget, freeSource
  <2>3. Pool(free(targets, o)) /\ free(targets, o).allocated = targets.allocated \ {o}
    BY <1>1, <2>1, PoolFrees
  <2>4. QED
    BY <1>1, <1>2, <2>2, <2>3 DEF Lockstep
<1>7. ASSUME UNCHANGED <<objects, targets, sources, pending, phase>>,
             \A t \in Objs : tgt'[t].obj = tgt[t].obj /\ src'[t].obj = src[t].obj
                             /\ obj'[t].target = obj[t].target /\ obj'[t].source = obj[t].source
      PROVE  Lockstep'
  BY <1>1, <1>7 DEF Lockstep, Pool
<1>8. ASSUME UNCHANGED <<objects, targets, sources, pending>>, pending = {},
             \A t \in Objs : tgt'[t].obj = tgt[t].obj /\ src'[t].obj = src[t].obj
                             /\ obj'[t].target = obj[t].target /\ obj'[t].source = obj[t].source
      PROVE  Lockstep'
  BY <1>1, <1>3, <1>8 DEF Lockstep, Pool
<1>9. ASSUME NEW o \in objects.allocated, NEW e \in Externals, Set(o, e)
      PROVE  Lockstep'
  BY <1>1, <1>7, <1>9 DEF Set, Call
<1>10. ASSUME NEW o \in objects.allocated, NEW size \in Sizes, ResizeWindow(o, size)
       PROVE  Lockstep'
  BY <1>1, <1>7, <1>10 DEF ResizeWindow, Call
<1>11. CASE Join \/ Finish \/ UNCHANGED vars \/ \E o \in objects.allocated : Write(o)
  BY <1>7, <1>11 DEF Join, Finish, Write, pools, vars
<1>12. CASE Begin \/ Close
  BY <1>8, <1>12 DEF Begin, Close, Idle, pools
<1>13. CASE PreRender
  <2>1. \A t \in Objs : obj'[t].target = obj[t].target /\ obj'[t].source = obj[t].source
    BY <1>1, <1>13 DEF PreRender
  <2>2. pending = {}
    BY <1>13 DEF PreRender, Lockstep
  <2>3. QED
    BY <1>8, <1>13, <2>1, <2>2 DEF PreRender
<1>14. CASE Record
  <2>1. \A t \in Objs : tgt'[t].obj = tgt[t].obj /\ src'[t].obj = src[t].obj
    BY <1>1, <1>14 DEF Record
  <2>2. pending = {}
    BY <1>14 DEF Record, Lockstep
  <2>3. QED
    BY <1>8, <1>14, <2>1, <2>2 DEF Record
<1>15. CASE Submit
  BY <1>8, <1>15 DEF Submit, Lockstep, pools
<1>16. QED
  BY <1>4, <1>5, <1>6, <1>9, <1>10, <1>11, <1>12, <1>13, <1>14, <1>15 DEF Next

(* Every call between frames is one of those.                              *)
LEMMA Calls ==
  ASSUME OneThread, Lockstep, Shaped, frame \in Nat \ {0},
         \/ Create
         \/ \E o \in pending : Reinit(o)
         \/ \E o \in objects.allocated : Destroy(o) \/ Write(o) \/ \E e \in Externals : Set(o, e)
         \/ \E o \in objects.allocated, size \in Sizes : ResizeWindow(o, size)
         \/ UNCHANGED vars
  PROVE  Between /\ Shaped'
<1>1. /\ DOMAIN obj = Objs /\ DOMAIN tgt = Objs /\ DOMAIN src = Objs
      /\ \A o \in Objs :
           /\ DOMAIN obj[o] = {"created", "target", "source", "win", "winFrame", "ext", "extFrame", "images"}
           /\ obj[o].extFrame \in 0 .. frame /\ obj[o].winFrame \in 0 .. frame /\ obj[o].created \in 0 .. frame
           /\ DOMAIN tgt[o] = {"obj", "fb", "set"} /\ DOMAIN src[o] = {"obj", "set"}
           /\ DOMAIN tgt[o].fb = Mods("target") /\ DOMAIN tgt[o].set = Mods("target")
           /\ DOMAIN src[o].set = Mods("source")
      /\ DOMAIN collectors = Cmds /\ DOMAIN work = Cmds /\ frame \in 0 .. frame
      /\ pending # {} => phase = "idle"
  BY DEF Lockstep, Shaped
<1>2. ASSUME UNCHANGED <<frame, phase, done, collectors, work, recorded>>, phase = "idle",
             DOMAIN obj' = Objs, DOMAIN tgt' = Objs, DOMAIN src' = Objs,
             \A t \in Objs :
               /\ DOMAIN tgt'[t] = DOMAIN tgt[t] /\ tgt'[t].fb = tgt[t].fb /\ tgt'[t].set = tgt[t].set
               /\ DOMAIN src'[t] = DOMAIN src[t] /\ src'[t].set = src[t].set,
             \A o \in Objs :
               /\ DOMAIN obj'[o] = DOMAIN obj[o] /\ obj'[o].images = obj[o].images
               /\ obj'[o].created = obj[o].created \/ obj'[o].created = frame
               /\ (obj'[o].win = obj[o].win /\ obj'[o].winFrame = obj[o].winFrame) \/ obj'[o].winFrame = frame
               /\ (obj'[o].ext = obj[o].ext /\ obj'[o].extFrame = obj[o].extFrame) \/ obj'[o].extFrame = frame
      PROVE  Between /\ Shaped'
  <2>1. Same
    BY <1>2 DEF Same
  <2>2. Between
    BY <1>2, <2>1 DEF Between
  <2>3. \A o \in Objs : obj'[o].extFrame \in 0 .. frame /\ obj'[o].winFrame \in 0 .. frame /\ obj'[o].created \in 0 .. frame
    BY <1>1, <1>2
  <2>4. \A o \in Objs :
          /\ DOMAIN obj'[o] = {"created", "target", "source", "win", "winFrame", "ext", "extFrame", "images"}
          /\ DOMAIN tgt'[o] = {"obj", "fb", "set"} /\ DOMAIN src'[o] = {"obj", "set"}
          /\ DOMAIN tgt'[o].fb = Mods("target") /\ DOMAIN tgt'[o].set = Mods("target")
          /\ DOMAIN src'[o].set = Mods("source")
    BY <1>1, <1>2
  <2>5. Shaped'
    BY <1>1, <1>2, <2>3, <2>4 DEF Shaped
  <2>6. QED
    BY <2>2, <2>5
<1>3. CASE UNCHANGED vars
  <2>1. UNCHANGED pools /\ UNCHANGED <<frame, phase, done, collectors, work, recorded, obj, tgt, src>>
    BY <1>3 DEF vars, pools
  <2>2. Between
    <3>1. Same
      BY <2>1 DEF Same
    <3>2. \A o \in Objs : /\ obj'[o].win = obj[o].win /\ obj'[o].winFrame = obj[o].winFrame
                          /\ obj'[o].ext = obj[o].ext /\ obj'[o].extFrame = obj[o].extFrame
      BY <2>1
    <3>3. UNCHANGED <<frame, phase, done, collectors, work, recorded>> /\ UNCHANGED pools
      BY <2>1
    <3>4. QED
      BY <3>1, <3>2, <3>3, Zenon DEF Between
  <2>3. Shaped'
    BY <2>1 DEF Shaped
  <2>4. QED
    BY <2>2, <2>3
<1>4. CASE \E o \in objects.allocated : Write(o)
  <2>1. UNCHANGED pools /\ UNCHANGED <<frame, phase, done, collectors, work, recorded, obj, tgt, src>>
    BY <1>4 DEF Write, pools
  <2>2. Between
    <3>1. Same
      BY <2>1 DEF Same
    <3>2. \A o \in Objs : /\ obj'[o].win = obj[o].win /\ obj'[o].winFrame = obj[o].winFrame
                          /\ obj'[o].ext = obj[o].ext /\ obj'[o].extFrame = obj[o].extFrame
      BY <2>1
    <3>3. UNCHANGED <<frame, phase, done, collectors, work, recorded>> /\ UNCHANGED pools
      BY <2>1
    <3>4. QED
      BY <3>1, <3>2, <3>3, Zenon DEF Between
  <2>3. Shaped'
    BY <2>1 DEF Shaped
  <2>4. QED
    BY <2>2, <2>3
<1>5. CASE Create
  <2>1. /\ NextOf(objects) \in Objs /\ obj' = [obj EXCEPT ![NextOf(objects)].created = frame]
        /\ UNCHANGED <<frame, phase, done, collectors, work, recorded>> /\ phase = "idle" /\ tgt' = tgt /\ src' = src
    BY <1>5, PoolAllocates DEF Create, Call, Lockstep, Idle
  <2>2. PICK n \in Objs : obj' = [obj EXCEPT ![n].created = frame]
    BY <2>1
  <2>3. \A o \in Objs : IF o = n THEN obj'[o] = [obj[o] EXCEPT !.created = frame] ELSE obj'[o] = obj[o]
    BY <1>1, <2>2
  <2>4. \A o \in Objs :
          /\ DOMAIN obj'[o] = DOMAIN obj[o] /\ obj'[o].images = obj[o].images
          /\ obj'[o].created = obj[o].created \/ obj'[o].created = frame
          /\ obj'[o].win = obj[o].win /\ obj'[o].winFrame = obj[o].winFrame
          /\ obj'[o].ext = obj[o].ext /\ obj'[o].extFrame = obj[o].extFrame
    BY <1>1, <2>3
  <2>6. DOMAIN obj' = Objs
    BY <1>1, <2>2
  <2>7. QED
    BY <1>1, <1>2, <2>1, <2>4, <2>6
<1>6. ASSUME NEW p \in pending, Reinit(p)
      PROVE  Between /\ Shaped'
  <2>1. PICK n, m : /\ obj' = [obj EXCEPT ![p].target = n, ![p].source = m]
                    /\ tgt' = [tgt EXCEPT ![n].obj = p] /\ src' = [src EXCEPT ![m].obj = p]
    BY <1>6 DEF Reinit, createAllTargets, createAllSources
  <2>2. UNCHANGED <<frame, phase, done, collectors, work, recorded>> /\ phase = "idle"
    BY <1>1, <1>6 DEF Reinit
  <2>3. DOMAIN obj' = Objs /\ DOMAIN tgt' = Objs /\ DOMAIN src' = Objs
    BY <1>1, <2>1
  <2>4. \A o \in Objs : obj'[o] = obj[o] \/ obj'[o] = [obj[o] EXCEPT !.target = n, !.source = m]
    BY <1>1, <2>1
  <2>5. \A o \in Objs :
          /\ DOMAIN obj'[o] = DOMAIN obj[o] /\ obj'[o].images = obj[o].images
          /\ obj'[o].created = obj[o].created
          /\ obj'[o].win = obj[o].win /\ obj'[o].winFrame = obj[o].winFrame
          /\ obj'[o].ext = obj[o].ext /\ obj'[o].extFrame = obj[o].extFrame
    <3>1. SUFFICES ASSUME NEW o \in Objs, obj'[o] = [obj[o] EXCEPT !.target = n, !.source = m]
                   PROVE  /\ DOMAIN obj'[o] = DOMAIN obj[o] /\ obj'[o].images = obj[o].images
                          /\ obj'[o].created = obj[o].created
                          /\ obj'[o].win = obj[o].win /\ obj'[o].winFrame = obj[o].winFrame
                          /\ obj'[o].ext = obj[o].ext /\ obj'[o].extFrame = obj[o].extFrame
      BY <2>4
    <3>2. QED
      BY <1>1, <3>1
  <2>6. \A t \in Objs :
          /\ DOMAIN tgt'[t] = DOMAIN tgt[t] /\ tgt'[t].fb = tgt[t].fb /\ tgt'[t].set = tgt[t].set
          /\ DOMAIN src'[t] = DOMAIN src[t] /\ src'[t].set = src[t].set
    <3>1. \A t \in Objs : tgt'[t] = tgt[t] \/ tgt'[t] = [tgt[t] EXCEPT !.obj = p]
      BY <1>1, <2>1
    <3>2. \A t \in Objs : src'[t] = src[t] \/ src'[t] = [src[t] EXCEPT !.obj = p]
      BY <1>1, <2>1
    <3>3. \A t \in Objs : DOMAIN tgt'[t] = DOMAIN tgt[t] /\ tgt'[t].fb = tgt[t].fb /\ tgt'[t].set = tgt[t].set
      BY <1>1, <3>1
    <3>4. \A t \in Objs : DOMAIN src'[t] = DOMAIN src[t] /\ src'[t].set = src[t].set
      BY <1>1, <3>2
    <3>5. QED
      BY <3>3, <3>4
  <2>7. QED
    BY <1>2, <2>2, <2>3, <2>5, <2>6
<1>7. ASSUME UNCHANGED <<frame, phase, done, collectors, work, recorded, tgt, src>>, phase = "idle",
             DOMAIN obj' = Objs,
             \A o \in Objs :
               /\ DOMAIN obj'[o] = DOMAIN obj[o] /\ obj'[o].images = obj[o].images
               /\ obj'[o].created = obj[o].created \/ obj'[o].created = frame
               /\ (obj'[o].win = obj[o].win /\ obj'[o].winFrame = obj[o].winFrame) \/ obj'[o].winFrame = frame
               /\ (obj'[o].ext = obj[o].ext /\ obj'[o].extFrame = obj[o].extFrame) \/ obj'[o].extFrame = frame
      PROVE  Between /\ Shaped'
  BY <1>1, <1>2, <1>7
<1>8. CASE \E o \in objects.allocated : Destroy(o)
  BY <1>1, <1>7, <1>8 DEF Destroy, Idle, Call
<1>9. ASSUME NEW p \in objects.allocated, NEW e \in Externals, Set(p, e)
      PROVE  Between /\ Shaped'
  <2>1. \A o \in Objs : IF o = p THEN obj'[o] = [obj[o] EXCEPT !.ext = e, !.extFrame = frame] ELSE obj'[o] = obj[o]
    BY <1>1, <1>9 DEF Set
  <2>2. \A o \in Objs :
          /\ DOMAIN obj'[o] = DOMAIN obj[o] /\ obj'[o].images = obj[o].images /\ obj'[o].created = obj[o].created
          /\ obj'[o].win = obj[o].win /\ obj'[o].winFrame = obj[o].winFrame
          /\ (obj'[o].ext = obj[o].ext /\ obj'[o].extFrame = obj[o].extFrame) \/ obj'[o].extFrame = frame
    BY <1>1, <2>1
  <2>3. QED
    BY <1>1, <1>7, <1>9, <2>2 DEF Set, Idle, Call
<1>10. ASSUME NEW p \in objects.allocated, NEW size \in Sizes, ResizeWindow(p, size)
       PROVE  Between /\ Shaped'
  <2>1. \A o \in Objs : IF o = p THEN obj'[o] = [obj[o] EXCEPT !.win = size, !.winFrame = frame] ELSE obj'[o] = obj[o]
    BY <1>1, <1>10 DEF ResizeWindow
  <2>2. \A o \in Objs :
          /\ DOMAIN obj'[o] = DOMAIN obj[o] /\ obj'[o].images = obj[o].images /\ obj'[o].created = obj[o].created
          /\ (obj'[o].win = obj[o].win /\ obj'[o].winFrame = obj[o].winFrame) \/ obj'[o].winFrame = frame
          /\ obj'[o].ext = obj[o].ext /\ obj'[o].extFrame = obj[o].extFrame
    BY <1>1, <2>1
  <2>3. QED
    BY <1>1, <1>7, <1>10, <2>2 DEF ResizeWindow, Call
<1>11. QED
  BY <1>3, <1>4, <1>5, <1>6, <1>8, <1>9, <1>10

(* Frames in flight, fields and copies, step by step.                      *)
LEMMA TimingKept ==
  ASSUME OneThread, Timing, Lockstep, Shaped, [Next]_vars
  PROVE  Timing'
<1>1. /\ frame \in Nat \ {0} /\ done \in Nat /\ done < frame
      /\ phase \in {"idle", "begun", "resized", "recorded", "closed"}
      /\ frame <= done + cmdFrameswapCount + (IF phase \in {"idle", "closed"} THEN 1 ELSE 0)
      /\ phase \in {"idle", "closed"} => recorded = {}
      /\ cmdFrameswapCount \in Nat
  BY Turns DEF Timing
<1>2. CASE UNCHANGED <<frame, phase, done, recorded>>
  BY <1>1, <1>2 DEF Timing
<1>3. CASE Begin
  <2>1. frame > cmdFrameswapCount => done >= frame - cmdFrameswapCount
    BY <1>1, <1>3 DEF Begin, Waited
  <2>2. QED
    BY <1>1, <1>3, <2>1 DEF Timing, Begin
<1>4. CASE PreRender
  BY <1>1, <1>4 DEF Timing, PreRender
<1>5. CASE Record
  BY <1>1, <1>5 DEF Timing, Record
<1>6. CASE Submit
  BY <1>1, <1>6 DEF Timing, Submit
<1>7. CASE Finish
  <2>1. done + 1 < frame
    BY <1>1, <1>7 DEF Finish, InFlight
  <2>2. QED
    BY <1>1, <1>7, <2>1 DEF Timing, Finish
<1>8. CASE Close
  BY <1>1, <1>8 DEF Timing, Close
<1>9. CASE Join
  BY <1>2, <1>9 DEF Join
<1>10. QED
  BY <1>1, <1>2, <1>3, <1>4, <1>5, <1>6, <1>7, <1>8, <1>9, Calls DEF Next, Between

(* The data keep their fields and copies.                                  *)
LEMMA ShapedKept ==
  ASSUME OneThread, Timing, Lockstep, Shaped, [Next]_vars
  PROVE  Shaped'
<1>1. /\ DOMAIN obj = Objs /\ DOMAIN tgt = Objs /\ DOMAIN src = Objs /\ frame \in Nat \ {0}
      /\ \A o \in Objs :
           /\ DOMAIN obj[o] = {"created", "target", "source", "win", "winFrame", "ext", "extFrame", "images"}
           /\ obj[o].extFrame \in 0 .. frame /\ obj[o].winFrame \in 0 .. frame /\ obj[o].created \in 0 .. frame
           /\ DOMAIN tgt[o] = {"obj", "fb", "set"} /\ DOMAIN src[o] = {"obj", "set"}
           /\ DOMAIN tgt[o].fb = Mods("target") /\ DOMAIN tgt[o].set = Mods("target")
           /\ DOMAIN src[o].set = Mods("source")
      /\ DOMAIN collectors = Cmds /\ DOMAIN work = Cmds
  BY DEF Timing, Shaped
<1>2. CASE Join \/ Close \/ Begin \/ Finish \/ Submit
  <2>1. UNCHANGED <<obj, tgt, src>> /\ (frame' = frame \/ frame' = frame + 1)
    BY <1>2 DEF Join, Close, Begin, Finish, Submit, pools
  <2>2. DOMAIN collectors' = Cmds /\ DOMAIN work' = Cmds
    BY <1>1, <1>2 DEF Join, Close, Begin, Finish, Submit, collect
  <2>3. \A o \in Objs : obj[o].extFrame \in 0 .. frame' /\ obj[o].winFrame \in 0 .. frame' /\ obj[o].created \in 0 .. frame'
    BY <1>1, <2>1
  <2>4. QED
    BY <1>1, <2>1, <2>2, <2>3 DEF Shaped
<1>3. CASE PreRender
  <2>1. /\ obj' = [o \in Objs |-> IF o \in DrawnObjects
                                  THEN [obj[o] EXCEPT !.images = [s \in Slots |-> applyPendingResize(o, s)]] ELSE obj[o]]
        /\ UNCHANGED <<frame, tgt, src, work>> /\ DOMAIN collectors' = Cmds
    BY <1>1, <1>3 DEF PreRender, push
  <2>2. \A o \in Objs :
          /\ DOMAIN obj'[o] = DOMAIN obj[o]
          /\ obj'[o].extFrame = obj[o].extFrame /\ obj'[o].winFrame = obj[o].winFrame /\ obj'[o].created = obj[o].created
    BY <1>1, <2>1
  <2>3. DOMAIN obj' = Objs
    BY <2>1
  <2>4. QED
    BY <1>1, <2>1, <2>2, <2>3 DEF Shaped
<1>4. CASE Record
  <2>1. /\ tgt' = [t \in Objs |-> IF t \in DrawnTargets
             THEN [tgt[t] EXCEPT !.fb[Mod("target")] = UpdatedFb(t), !.set[Mod("target")] = UpdatedSet(<<"target", t>>)]
             ELSE tgt[t]]
        /\ src' = [t \in Objs |-> IF t \in DrawnSources
             THEN [src[t] EXCEPT !.set[Mod("source")] = UpdatedSet(<<"source", t>>)] ELSE src[t]]
        /\ UNCHANGED <<frame, obj, work>> /\ DOMAIN collectors' = Cmds
    BY <1>1, <1>4 DEF Record, push
  <2>2. \A o \in Objs : /\ DOMAIN tgt'[o] = DOMAIN tgt[o] /\ DOMAIN tgt'[o].fb = DOMAIN tgt[o].fb
                        /\ DOMAIN tgt'[o].set = DOMAIN tgt[o].set
    BY <1>1, <2>1
  <2>3. \A o \in Objs : DOMAIN src'[o] = DOMAIN src[o] /\ DOMAIN src'[o].set = DOMAIN src[o].set
    BY <1>1, <2>1
  <2>4. DOMAIN tgt' = Objs /\ DOMAIN src' = Objs
    BY <2>1
  <2>5. QED
    BY <1>1, <2>1, <2>2, <2>3, <2>4 DEF Shaped
<1>5. QED
  BY <1>1, <1>2, <1>3, <1>4, Calls DEF Next

-----------------------------------------------------------------------------
(* A resized image is stamped with the next frame that uses it.            *)
LEMMA StampNext ==
  ASSUME frame \in Nat, NEW s \in Slots, NEW i \in Copies(s)
  PROVE  /\ Stamp(s, i) \in Nat /\ frame <= Stamp(s, i) /\ Stamp(s, i) <= frame + Swap[s] - 1
         /\ \A f \in Nat : f >= frame /\ f % Swap[s] = i => Stamp(s, i) <= f
<1>1. Swap[s] \in Nat \ {0} /\ i \in Int /\ i - frame \in Int
  BY Turns DEF Copies
<1>2. (i - frame) % Swap[s] \in 0 .. Swap[s] - 1
  BY <1>1, Division
<1>3. ASSUME NEW f \in Nat, f >= frame, f % Swap[s] = i
      PROVE  (i - frame) % Swap[s] <= f - frame
  <2>1. f \in Int /\ frame \in Int /\ frame <= f
    BY <1>3
  <2>2. ((f % Swap[s]) - frame) % Swap[s] <= f - frame
    BY <1>1, <2>1, NextTurn
  <2>3. QED
    BY <1>3, <2>2
<1>4. Stamp(s, i) = frame + ((i - frame) % Swap[s])
  BY DEF Stamp
<1>5. \A f \in Nat : f >= frame /\ f % Swap[s] = i => (i - frame) % Swap[s] <= f - frame
  BY <1>3
<1>6. PICK d \in 0 .. Swap[s] - 1 : d = (i - frame) % Swap[s]
  BY <1>2
<1>7. QED
  BY <1>1, <1>4, <1>5, <1>6

Size(o, s, i) == obj[o].images[s].size[i]
Asked(o, s) == obj[o].images[s].ci.frame

(* What preRender makes of an image: it stays, or it is older than the     *)
(* frame, and its place is taken by one of the window's size.              *)
LEMMA Resizing ==
  ASSUME Timing, Shaped, Stamped, PreRender, NEW o \in Objs, NEW s \in Slots, NEW i \in Copies(s)
  PROVE  /\ \/ /\ stamp(o, s, i)' = stamp(o, s, i) /\ Size(o, s, i)' = Size(o, s, i)
               /\ Asked(o, s)' = Asked(o, s) \/ (Asked(o, s)' = frame /\ frame <= stamp(o, s, i))
            \/ /\ o \in DrawnObjects /\ i \in Replaced(o, s) /\ stamp(o, s, i) < frame
               /\ stamp(o, s, i)' = Stamp(s, i) /\ Size(o, s, i)' = obj[o].win /\ Asked(o, s)' = frame
         /\ o \in DrawnObjects /\ i \in Replaced(o, s) => stamp(o, s, i) < frame
         /\ o \in DrawnObjects /\ i = frame % Swap[s] /\ Size(o, s, i)' # obj[o].win
              => stamp(o, s, i) = frame /\ Size(o, s, i)' = Size(o, s, i)
<1>1. /\ frame \in Nat /\ stamp(o, s, i) \in Nat /\ Asked(o, s) \in Nat
      /\ Asked(o, s) <= stamp(o, s, i) /\ DOMAIN obj = Objs
      /\ i = frame % Swap[s] => stamp(o, s, i) <= frame
  BY DEF Timing, Stamped, Shaped, Asked
<1>2. /\ \A j \in Copies(s) : j % Swap[s] = j
      /\ \A j \in Copies(s) : stamp(o, s, j) \in Nat /\ Asked(o, s) <= stamp(o, s, j)
  <2>1. 0 \in Nat
    OBVIOUS
  <2>2. QED
    BY <2>1, CopyOf DEF Stamped, Asked
<1>3. \A j \in Copies(s) : frameUpdated(o, s, j) = stamp(o, s, j) /\ getSize(o, s, j) = Size(o, s, j)
  BY <1>2 DEF frameUpdated, getSize, frameImageIdx, resources, stamp, Size
<1>4. /\ i \in Replaced(o, s) <=> Requested(o, s).frame > stamp(o, s, i)
      /\ applyPendingResize(o, s).ci = Requested(o, s)
      /\ applyPendingResize(o, s).size[i] = IF i \in Replaced(o, s) THEN Requested(o, s).size ELSE Size(o, s, i)
      /\ applyPendingResize(o, s).stamp[i] = IF i \in Replaced(o, s) THEN Stamp(s, i) ELSE stamp(o, s, i)
  BY <1>3 DEF Replaced, applyPendingResize, Copies
<1>5. /\ Outsized(o, s) => Requested(o, s).size = obj[o].win /\ Requested(o, s).frame = frame
      /\ ~Outsized(o, s) => Requested(o, s).frame = Asked(o, s)
  BY DEF Requested, Asked, resources
<1>6. i = frame % Swap[s] => (Outsized(o, s) <=> Size(o, s, i) # obj[o].win)
  BY DEF Outsized, getSize, frameImageIdx, resources, Size
<1>7. CASE o \notin DrawnObjects
  <2>1. obj'[o] = obj[o]
    BY <1>1, <1>7 DEF PreRender
  <2>2. QED
    BY <1>7, <2>1 DEF stamp, Size, Asked
<1>8. CASE o \in DrawnObjects
  <2>1. obj'[o].images[s] = applyPendingResize(o, s)
    <3>1. obj'[o] = [obj[o] EXCEPT !.images = [r \in Slots |-> applyPendingResize(o, r)]] /\ "images" \in DOMAIN obj[o]
      BY <1>1, <1>8 DEF PreRender, Shaped
    <3>2. QED
      BY <3>1
  <2>2. /\ stamp(o, s, i)' = applyPendingResize(o, s).stamp[i] /\ Size(o, s, i)' = applyPendingResize(o, s).size[i]
        /\ Asked(o, s)' = applyPendingResize(o, s).ci.frame
    BY <2>1 DEF stamp, Size, Asked
  <2>3. CASE Outsized(o, s)
    <3>1. i \in Replaced(o, s) <=> stamp(o, s, i) < frame
      BY <1>1, <1>4, <1>5, <2>3
    <3>2. CASE i \in Replaced(o, s)
      BY <1>4, <1>5, <1>8, <2>2, <2>3, <3>1, <3>2
    <3>3. CASE i \notin Replaced(o, s)
      BY <1>1, <1>4, <1>5, <2>2, <2>3, <3>1, <3>3
    <3>4. QED
      BY <3>2, <3>3
  <2>4. CASE ~Outsized(o, s)
    <3>1. i \notin Replaced(o, s)
      BY <1>1, <1>4, <1>5, <2>4
    <3>2. QED
      BY <1>4, <1>5, <1>6, <2>2, <2>4, <3>1
  <2>5. QED
    BY <2>3, <2>4
<1>9. QED
  BY <1>7, <1>8

(* When a frame's steps can be taken.                                      *)
LEMMA Guards ==
  /\ Begin => phase = "idle" /\ phase' = "begun"
  /\ PreRender => phase = "begun" /\ phase' = "resized"
  /\ Record => phase = "resized" /\ phase' = "recorded"
  /\ Submit => phase = "recorded" /\ phase' = "idle"
<1>1. Begin => phase = "idle" /\ phase' = "begun"
  BY DEF Begin, Idle
<1>2. PreRender => phase = "begun" /\ phase' = "resized"
  BY DEF PreRender
<1>3. Record => phase = "resized" /\ phase' = "recorded"
  BY DEF Record
<1>4. Submit => phase = "recorded" /\ phase' = "idle"
  BY DEF Submit
<1>5. QED
  BY <1>1, <1>2, <1>3, <1>4

(* How the phase of a frame goes on.                                       *)
LEMMA Phases ==
  ASSUME OneThread, Timing, Lockstep, Shaped, [Next]_vars
  PROVE  \/ phase' = phase /\ frame' = frame /\ ~PreRender /\ ~Record /\ ~Submit
         \/ phase = "idle" /\ phase' = "closed" /\ frame' = frame /\ Close
         \/ phase = "idle" /\ phase' = "begun" /\ frame' = frame /\ Begin
         \/ phase = "begun" /\ phase' = "resized" /\ frame' = frame /\ PreRender
         \/ phase = "resized" /\ phase' = "recorded" /\ frame' = frame /\ Record
         \/ phase = "recorded" /\ phase' = "idle" /\ frame' = frame + 1 /\ Submit
<1>1. CASE Between
  <2>1. phase' = phase
    BY <1>1 DEF Between
  <2>2. ~PreRender /\ ~Record /\ ~Submit
    BY <2>1, Guards
  <2>3. QED
    BY <1>1, <2>2 DEF Between
<1>2. CASE Join \/ Finish
  <2>1. phase' = phase /\ frame' = frame
    BY <1>2 DEF Join, Finish
  <2>2. ~PreRender /\ ~Record /\ ~Submit
    BY <2>1, Guards
  <2>3. QED
    BY <2>1, <2>2
<1>3. CASE Close
  BY <1>3 DEF Close
<1>4. CASE Begin
  BY <1>4 DEF Begin, Idle
<1>5. CASE PreRender
  BY <1>5 DEF PreRender
<1>6. CASE Record
  BY <1>6 DEF Record
<1>7. CASE Submit
  BY <1>7 DEF Submit
<1>8. QED
  BY <1>1, <1>2, <1>3, <1>4, <1>5, <1>6, <1>7, Calls DEF Next, Timing

(* Steps after which the images are what they were.                        *)
LEMMA ImagesStay ==
  ASSUME OneThread, Timing, Lockstep, Shaped, [Next]_vars, ~PreRender
  PROVE  /\ Same \/ (Record /\ obj' = obj)
         /\ \A o \in Objs, s \in Slots : \A i \in Copies(s) :
              stamp(o, s, i)' = stamp(o, s, i) /\ Size(o, s, i)' = Size(o, s, i) /\ Asked(o, s)' = Asked(o, s)
         /\ phase' \in {"resized", "recorded"} => UNCHANGED <<objects, obj>>
         /\ \A o \in Objs :
              \/ obj'[o].win = obj[o].win /\ obj'[o].winFrame = obj[o].winFrame
              \/ obj'[o].winFrame = frame /\ phase = "idle"
<1>1. CASE Between
  <2>1. UNCHANGED <<frame, phase>> /\ Same
    BY <1>1 DEF Between
  <2>2. phase' \in {"resized", "recorded"} => UNCHANGED <<objects, obj>>
    BY <1>1, <2>1 DEF Between, pools
  <2>3. \A o \in Objs :
              \/ obj'[o].win = obj[o].win /\ obj'[o].winFrame = obj[o].winFrame
              \/ obj'[o].winFrame = frame /\ phase = "idle"
    BY <1>1 DEF Between
  <2>4. \A o \in Objs, s \in Slots : \A i \in Copies(s) :
              stamp(o, s, i)' = stamp(o, s, i) /\ Size(o, s, i)' = Size(o, s, i) /\ Asked(o, s)' = Asked(o, s)
    BY <2>1 DEF Same, stamp, Size, Asked
  <2>5. QED
    BY <2>1, <2>2, <2>3, <2>4
<1>2. CASE Join \/ Close \/ Begin \/ Finish \/ Submit
  <2>1. UNCHANGED <<obj, tgt, src, objects>>
    BY <1>2 DEF Join, Close, Begin, Finish, Submit, pools
  <2>2. QED
    BY <2>1 DEF Same, stamp, Size, Asked
<1>3. CASE Record
  BY <1>3 DEF Record, stamp, Size, Asked
<1>4. QED
  BY <1>1, <1>2, <1>3, Calls DEF Next, Timing

(* Stamps and sizes, step by step.                                         *)
LEMMA StampedKept ==
  ASSUME OneThread, Timing, Lockstep, Shaped, Stamped, [Next]_vars
  PROVE  Stamped'
<1> SUFFICES ASSUME NEW o \in Objs, NEW s \in Slots, NEW i \in Copies(s)
             PROVE  /\ stamp(o, s, i)' \in Nat
                    /\ stamp(o, s, i)' <= frame' + Swap[s] - (IF phase' \in {"resized", "recorded"} THEN 1 ELSE 2)
                    /\ \A f \in Nat : f >= frame' /\ f % Swap[s] = i => stamp(o, s, i)' <= f
                    /\ Asked(o, s)' \in Nat /\ Asked(o, s)' <= stamp(o, s, i)'
  BY DEF Stamped, Asked
<1>1. /\ stamp(o, s, i) \in Nat
      /\ stamp(o, s, i) <= frame + Swap[s] - (IF phase \in {"resized", "recorded"} THEN 1 ELSE 2)
      /\ \A f \in Nat : f >= frame /\ f % Swap[s] = i => stamp(o, s, i) <= f
      /\ Asked(o, s) \in Nat /\ Asked(o, s) <= stamp(o, s, i)
  BY DEF Stamped, Asked
<1>2. frame \in Nat /\ Swap[s] \in Nat \ {0}
  BY Turns DEF Timing
<1>3. CASE PreRender
  <2>1. frame' = frame /\ phase = "begun" /\ phase' = "resized"
    BY <1>3 DEF PreRender
  <2>2. CASE /\ stamp(o, s, i)' = stamp(o, s, i)
             /\ Asked(o, s)' = Asked(o, s) \/ (Asked(o, s)' = frame /\ frame <= stamp(o, s, i))
    BY <1>1, <1>2, <2>1, <2>2
  <2>3. CASE stamp(o, s, i)' = Stamp(s, i) /\ Asked(o, s)' = frame
    BY <1>1, <1>2, <2>1, <2>3, StampNext
  <2>4. QED
    BY <1>3, <2>2, <2>3, Resizing
<1>4. CASE ~PreRender
  <2>1. stamp(o, s, i)' = stamp(o, s, i) /\ Asked(o, s)' = Asked(o, s)
    BY <1>4, ImagesStay
  <2>2. \/ frame' = frame /\ (phase \in {"resized", "recorded"} <=> phase' \in {"resized", "recorded"})
        \/ frame' = frame + 1 /\ phase = "recorded" /\ phase' = "idle"
    BY <1>4, Phases
  <2>3. QED
    BY <1>1, <1>2, <2>1, <2>2
<1>5. QED
  BY <1>3, <1>4

(* A copy that is made has the size the window has in that frame.          *)
LEMMA SizedKept ==
  ASSUME OneThread, Timing, Lockstep, Shaped, Stamped, Sized, SizedNow, [Next]_vars
  PROVE  Sized' /\ SizedNow'
<1>1. frame \in Nat /\ frame >= 1 /\ (\A s \in Slots : Swap[s] \in Nat \ {0}) /\ \A o \in Objs : obj[o].winFrame \in Nat
  BY Turns DEF Timing, Shaped
<1>2. \A o \in Objs, s \in Slots : \A i \in Copies(s) :
        /\ stamp(o, s, i) \in Nat
        /\ stamp(o, s, i) > 0 /\ stamp(o, s, i) >= obj[o].winFrame + Swap[s] - 1 => Size(o, s, i) = obj[o].win
        /\ phase = "idle" => stamp(o, s, i) <= frame + Swap[s] - 2
  BY <1>1 DEF Stamped, Sized, Size
<1>3. SUFFICES /\ \A o \in Objs, s \in Slots : \A i \in Copies(s) :
                    stamp(o, s, i)' > 0 /\ stamp(o, s, i)' >= obj'[o].winFrame + Swap[s] - 1
                      => Size(o, s, i)' = obj'[o].win
               /\ SizedNow'
  BY DEF Sized, Size
<1>4. CASE PreRender
  <2>1. \A o \in Objs : obj'[o].win = obj[o].win /\ obj'[o].winFrame = obj[o].winFrame /\ obj'[o].created = obj[o].created
    BY <1>4 DEF PreRender, Shaped
  <2>2. \A o \in Objs, s \in Slots : \A i \in Copies(s) :
          \/ stamp(o, s, i)' = stamp(o, s, i) /\ Size(o, s, i)' = Size(o, s, i)
          \/ Size(o, s, i)' = obj[o].win
    BY <1>4, Resizing
  <2>3. \A o \in Objs, s \in Slots : \A i \in Copies(s) :
          stamp(o, s, i)' > 0 /\ stamp(o, s, i)' >= obj'[o].winFrame + Swap[s] - 1
            => Size(o, s, i)' = obj'[o].win
    BY <1>2, <2>1, <2>2
  <2>4. ASSUME NEW o \in DrawnObjects, NEW s \in Slots, frame >= obj[o].winFrame + Swap[s],
               NEW i, i = frame % Swap[s], Size(o, s, i)' # obj[o].win
        PROVE  FALSE
    <3>1. i \in Copies(s) /\ o \in Objs
      BY <1>1, <2>4, CopyOf DEF DrawnObjects, Lockstep, Pool
    <3>2. stamp(o, s, i) = frame /\ Size(o, s, i)' = Size(o, s, i)
      BY <1>4, <2>4, <3>1, Resizing
    <3>3. frame > 0 /\ frame >= obj[o].winFrame + Swap[s] - 1
      BY <1>1, <2>4, <3>1
    <3>4. QED
      BY <1>2, <2>4, <3>1, <3>2, <3>3
  <2>5. \A o \in DrawnObjects, s \in Slots : frame >= obj[o].winFrame + Swap[s]
          => \A i : i = frame % Swap[s] => Size(o, s, i)' = obj[o].win
    BY <2>4
  <2>6. /\ UNCHANGED <<frame, objects>>
        /\ \A o \in DrawnObjects' : o \in DrawnObjects /\ o \in Objs
    BY <1>4, <2>1 DEF PreRender, DrawnObjects, Lockstep, Pool
  <2>7. SizedNow'
    BY <2>1, <2>5, <2>6 DEF SizedNow, getSize, frameImageIdx, resources, Size
  <2>8. QED
    BY <2>3, <2>7
<1>5. CASE ~PreRender
  <2>1. \A o \in Objs, s \in Slots : \A i \in Copies(s) :
          stamp(o, s, i)' = stamp(o, s, i) /\ Size(o, s, i)' = Size(o, s, i)
    BY <1>5, ImagesStay
  <2>2. \A o \in Objs :
              \/ obj'[o].win = obj[o].win /\ obj'[o].winFrame = obj[o].winFrame
              \/ obj'[o].winFrame = frame /\ phase = "idle"
    BY <1>5, ImagesStay
  <2>3. ASSUME NEW o \in Objs, NEW s \in Slots, NEW i \in Copies(s),
               stamp(o, s, i)' > 0, stamp(o, s, i)' >= obj'[o].winFrame + Swap[s] - 1
        PROVE  Size(o, s, i)' = obj'[o].win
    <3>1. stamp(o, s, i)' = stamp(o, s, i) /\ Size(o, s, i)' = Size(o, s, i) /\ stamp(o, s, i) \in Nat /\ Swap[s] \in Nat
      BY <1>1, <1>2, <2>1
    <3>2. CASE obj'[o].win = obj[o].win /\ obj'[o].winFrame = obj[o].winFrame
      BY <1>2, <2>3, <3>1, <3>2
    <3>3. CASE obj'[o].winFrame = frame /\ phase = "idle"
      BY <1>1, <1>2, <2>3, <3>1, <3>3
    <3>4. QED
      BY <2>2, <3>2, <3>3
  <2>4. SizedNow'
    <3>1. phase' \in {"resized", "recorded"} => phase \in {"resized", "recorded"} /\ frame' = frame /\ UNCHANGED <<objects, obj>>
      BY <1>5, ImagesStay, Phases
    <3>2. phase' \in {"resized", "recorded"} => DrawnObjects' = DrawnObjects
      BY <3>1 DEF DrawnObjects
    <3>3. QED
      BY <3>1, <3>2 DEF SizedNow, getSize, frameImageIdx, resources
  <2>5. QED
    BY <2>3, <2>4
<1>6. QED
  BY <1>4, <1>5

-----------------------------------------------------------------------------
(* The values of a function on a finite set.                               *)
LEMMA Values ==
  ASSUME NEW S, IsFiniteSet(S), NEW f, DOMAIN f = S
  PROVE  IsFiniteSet({f[x] : x \in S})
<1>1. PICK T : T = {f[x] : x \in S}
  OBVIOUS
<1> DEFINE g == [x \in S |-> f[x]]
<1>2. g \in Surjection(S, T)
  BY <1>1 DEF Surjection
<1>3. QED
  BY <1>1, <1>2, FS_Surjection

(* What an object's slots were last updated in is a bound of their stamps.  *)
LEMMA LastUpdated ==
  ASSUME Timing, Shaped, Stamped, NEW o \in Objs
  PROVE  /\ frameLastUpdated(o) \in Int /\ obj[o].extFrame <= frameLastUpdated(o)
         /\ \A s \in Slots : stamp(o, s, frame % Swap[s]) <= frameLastUpdated(o)
<1> DEFINE f == [s \in Slots |-> frameUpdated(o, s, frame)]
           all == {obj[o].extFrame} \cup {f[s] : s \in Slots}
<1>1. \A s \in Slots : frameUpdated(o, s, frame) = stamp(o, s, frame % Swap[s])
  BY DEF frameUpdated, frameImageIdx, resources, stamp
<1>2. \A s \in Slots : stamp(o, s, frame % Swap[s]) \in Nat
  BY CopyOf DEF Timing, Stamped
<1>3. IsFiniteSet({f[s] : s \in Slots})
  <2>1. DOMAIN f = Slots /\ IsFiniteSet(Slots)
    BY FramesAssumption
  <2> HIDE DEF f
  <2>2. QED
    BY <2>1, Values
<1>4. IsFiniteSet(all)
  BY <1>3, FS_AddElement
<1>5. obj[o].extFrame \in Int /\ all \in SUBSET Int /\ all # {}
  BY <1>1, <1>2 DEF Shaped, Timing
<1>6. frameLastUpdated(o) = Max(all)
  BY DEF frameLastUpdated
<1> HIDE DEF all
<1>7. Max(all) \in all /\ \A x \in all : x <= Max(all)
  BY <1>4, <1>5, MaxIs
<1>8. obj[o].extFrame \in all /\ \A s \in Slots : stamp(o, s, frame % Swap[s]) \in all
  BY <1>1 DEF all
<1>9. QED
  BY <1>5, <1>6, <1>7, <1>8

(* Which holders a frame visits, and whose data they show.                 *)
LEMMA DrawnAre ==
  ASSUME Lockstep
  PROVE  /\ DrawnSources = DrawnTargets /\ DrawnTargets \subseteq Objs
         /\ \A t \in DrawnTargets : tgt[t].obj = t /\ src[t].obj = t
         /\ DrawnHolders = {"target", "source"} \X DrawnTargets
         /\ \A x \in DrawnHolders : Held(x).obj = x[2] /\ x \in Holders
<1>1. /\ sources = targets /\ targets.allocated \in SUBSET Objs
      /\ \A t \in targets.allocated : tgt[t].obj = t /\ src[t].obj = t
  BY DEF Lockstep, Pool
<1>2. /\ DrawnSources = DrawnTargets /\ DrawnTargets \subseteq Objs
      /\ \A t \in DrawnTargets : tgt[t].obj = t /\ src[t].obj = t
  BY <1>1 DEF DrawnSources, DrawnTargets
<1>3. DrawnHolders = {"target", "source"} \X DrawnTargets
  BY <1>2 DEF DrawnHolders
<1>4. \A x \in DrawnHolders : Held(x).obj = x[2] /\ x \in Holders
  BY <1>2, <1>3 DEF Held, Holders
<1>5. QED
  BY <1>2, <1>3, <1>4

(* The frame that is waited for before descriptors are written: no frame   *)
(* in flight has used the same copy.                                       *)
LEMMA WaitLongEnough ==
  ASSUME Timing, Lockstep, Shaped, Stamped, frame >= cmdFrameswapCount,
         NEW x \in DrawnHolders, Rewritten(x), Waited(WaitFrame(x)),
         NEW f \in InFlight, f % maxFrameswap(x[1]) = Mod(x[1])
  PROVE  FALSE
<1>1. /\ frame \in Nat /\ done \in Nat /\ f \in Nat /\ f > done /\ f < frame /\ f >= 1
      /\ cmdFrameswapCount \in Nat
  BY Turns DEF Timing, InFlight
<1>2. x \in Holders /\ <<"set", x>> \in Keepers /\ x[1] \in {"target", "source"}
  BY DrawnAre DEF Holders, Keepers
<1>3. Viewed[x[1]] \subseteq Slots /\ maxFrameswap(x[1]) \in Nat \ {0} /\ \A s \in Viewed[x[1]] : Swap[s] <= maxFrameswap(x[1])
  BY <1>2, Turns
<1>4. f + maxFrameswap(x[1]) <= frame
  BY <1>1, <1>3, SameRemainder DEF Mod
<1> DEFINE g == [s \in ViewsToWrite(x) |-> frame - Swap[s]]
           ends == {g[s] : s \in ViewsToWrite(x)}
           all == {0} \cup ends \cup (IF WritesExternal(x) THEN {frame - 1} ELSE {})
<1>5. ViewsToWrite(x) \subseteq Slots /\ ViewsToWrite(x) \subseteq Viewed[x[1]]
  BY <1>3 DEF ViewsToWrite
<1>6. IsFiniteSet(ends)
  <2>1. DOMAIN g = ViewsToWrite(x) /\ IsFiniteSet(ViewsToWrite(x))
    BY <1>5, FS_Subset, FramesAssumption
  <2> HIDE DEF g
  <2>2. QED
    BY <2>1, Values
<1>7. IsFiniteSet({0} \cup ends) /\ IsFiniteSet({0} \cup ends \cup {frame - 1})
  BY <1>6, FS_AddElement
<1>8. IsFiniteSet(all) /\ all \in SUBSET Int /\ all # {}
  <2>1. IsFiniteSet(all)
    BY <1>7
  <2>2. \A s \in ViewsToWrite(x) : frame - Swap[s] \in Int
    BY <1>1, <1>5, Turns
  <2>3. QED
    BY <1>1, <2>1, <2>2
<1>9. WaitFrame(x) = Max(all)
  BY DEF WaitFrame
<1>10. /\ \A s \in ViewsToWrite(x) : frame - Swap[s] \in all
       /\ WritesExternal(x) => frame - 1 \in all
  OBVIOUS
<1> HIDE DEF all
<1>11. Max(all) \in Int /\ \A w \in all : w <= Max(all)
  BY <1>8, MaxIs
<1>12. WaitFrame(x) \in Int /\ WaitFrame(x) >= f /\ WaitFrame(x) >= frame - cmdFrameswapCount
  <2>1. CASE WritesExternal(x)
    BY <1>1, <1>9, <1>10, <1>11, <2>1, Turns
  <2>2. CASE \E s \in ViewsToWrite(x) : TRUE
    <3>1. PICK s \in ViewsToWrite(x) : TRUE
      BY <2>2
    <3>2. Swap[s] \in Nat /\ Swap[s] <= maxFrameswap(x[1]) /\ Swap[s] <= cmdFrameswapCount
      BY <1>3, <1>5, <3>1, Turns
    <3>3. frame - Swap[s] <= WaitFrame(x)
      BY <1>9, <1>10, <1>11
    <3>4. QED
      BY <1>1, <1>3, <1>4, <1>9, <1>11, <3>2, <3>3
  <2>3. QED
    BY <2>1, <2>2 DEF Rewritten
<1>13. QED
  BY <1>1, <1>12 DEF Waited

-----------------------------------------------------------------------------
(* What recording makes of the keeper's copy for the frame, and what it     *)
(* collects.                                                               *)
Updated(by) == IF by[1] = "fb" THEN UpdatedFb(by[2]) ELSE UpdatedSet(by[2])
Now(by) == frame % Period(by)
StampNow(by, s) == stamp(Owner(by), s, frame % Swap[s])
Discarded == (UNION {FbGarbage(t) : t \in DrawnTargets}) \cup (UNION {SetGarbage(x) : x \in DrawnHolders})

(* A copy that is not made again is as new as what it shows.               *)
LEMMA Updating ==
  ASSUME Timing, Lockstep, Shaped, Stamped, Current, NEW by \in Keepers, Owner(by) \in DrawnTargets
  PROVE  LET cell == Cell(by, Now(by))
             new == Updated(by)
         IN \/ /\ cell # None /\ new = cell
               /\ \A s \in Shown(by) : ~(cell.last < StampNow(by, s))
               /\ by[1] = "set" => ~(cell.last < obj[Owner(by)].extFrame)
            \/ /\ new.last = frame
               /\ \A s \in Shown(by) :
                    \/ new.views[s] = createView(by, Owner(by), s)
                    \/ cell # None /\ new.views[s] = cell.views[s] /\ ~(cell.last < StampNow(by, s))
               /\ by[1] = "set" =>
                    \/ new.ext = obj[Owner(by)].ext
                    \/ cell # None /\ new.ext = cell.ext /\ ~(cell.last < obj[Owner(by)].extFrame)
<1>1. \A o \in Objs, s \in Slots : /\ frameUpdated(o, s, frame) = stamp(o, s, frame % Swap[s])
                                   /\ stamp(o, s, frame % Swap[s]) \in Nat
  BY CopyOf DEF frameUpdated, frameImageIdx, resources, stamp, Timing, Stamped
<1>0. Cell(by, Now(by)) # None => Cell(by, Now(by)).last \in Nat
  BY CopyOf DEF Timing, Current, Now
<1>2. CASE \E t \in Objs : by = <<"fb", t>>
  <2>1. PICK t \in Objs : by = <<"fb", t>>
    BY <1>2
  <2>2. /\ Owner(by) = t /\ tgt[t].obj = t /\ Shown(by) = Slots /\ Updated(by) = UpdatedFb(t) /\ by[1] # "set"
        /\ Cell(by, Now(by)) = tgt[t].fb[Mod("target")]
    BY <2>1, DrawnAre DEF Owner, Shown, Updated, Cell, Now, Period, Mod
  <2>3. PICK fb : fb = tgt[t].fb[Mod("target")]
    OBVIOUS
  <2>4. CASE fb = None \/ anyOutdated(fb.last, t)
    <3>1. /\ UpdatedFb(t).last = frame
          /\ \A s \in Slots : UpdatedFb(t).views[s] =
               IF fb = None \/ frameUpdated(t, s, frame) > 0 THEN createView(<<"fb", t>>, t, s) ELSE fb.views[s]
      BY <2>2, <2>3, <2>4 DEF UpdatedFb
    <3>2. \A s \in Slots : fb # None /\ ~(frameUpdated(t, s, frame) > 0) => ~(fb.last < StampNow(by, s))
      <4>1. SUFFICES ASSUME NEW s \in Slots, fb # None, ~(frameUpdated(t, s, frame) > 0), fb.last < StampNow(by, s)
                     PROVE  FALSE
        OBVIOUS
      <4>2. StampNow(by, s) = 0
        BY <1>1, <2>2, <4>1 DEF StampNow
      <4>3. QED
        BY <1>0, <2>2, <2>3, <4>1, <4>2
    <3>3. QED
      BY <2>1, <2>2, <2>3, <3>1, <3>2
  <2>5. CASE ~(fb = None \/ anyOutdated(fb.last, t))
    <3>1. UpdatedFb(t) = fb
      BY <2>2, <2>3, <2>5 DEF UpdatedFb
    <3>2. \A s \in Slots : ~(fb.last < StampNow(by, s))
      BY <1>1, <2>2, <2>5 DEF StampNow, anyOutdated
    <3>3. QED
      BY <2>2, <2>3, <2>5, <3>1, <3>2
  <2>6. QED
    BY <2>4, <2>5
<1>3. CASE \E x \in Holders : by = <<"set", x>>
  <2>1. PICK x \in Holders : by = <<"set", x>>
    BY <1>3
  <2>2. /\ Owner(by) = x[2] /\ x[1] \in {"target", "source"} /\ x[2] \in Objs /\ x = <<x[1], x[2]>>
        /\ Shown(by) = Viewed[x[1]] /\ Updated(by) = UpdatedSet(x) /\ Cell(by, Now(by)) = SetOf(x)
    BY <2>1 DEF Owner, Shown, Updated, Cell, Now, Period, Mod, SetOf, Holders
  <2>3. x \in DrawnHolders /\ Held(x).obj = x[2] /\ Viewed[x[1]] \subseteq Slots
    BY <2>2, DrawnAre, Turns
  <2>4. PICK o \in Objs : o = Held(x).obj /\ o = x[2]
    BY <2>2, <2>3
  <2>5. PICK set : set = SetOf(x)
    OBVIOUS
  <2>6. /\ \A s \in Viewed[x[1]] : StampNow(by, s) = frameUpdated(o, s, frame)
        /\ \A s \in Viewed[x[1]] : s \in ViewsToWrite(x) <=> set.last < StampNow(by, s)
        /\ WritesExternal(x) <=> set.last < obj[o].extFrame
    BY <1>1, <2>2, <2>3, <2>4, <2>5 DEF ViewsToWrite, WritesExternal, StampNow
  <2>7. CASE set = None
    <3>1. UpdatedSet(x).last = frame /\ UpdatedSet(x).ext = obj[o].ext
          /\ \A s \in Viewed[x[1]] : UpdatedSet(x).views[s] = createView(<<"set", x>>, o, s)
      BY <2>4, <2>5, <2>7 DEF UpdatedSet
    <3>2. QED
      BY <2>1, <2>2, <2>4, <3>1
  <2>8. CASE set # None /\ set.last < frameLastUpdated(o)
    <3>1. /\ UpdatedSet(x).last = frame
          /\ UpdatedSet(x).ext = IF WritesExternal(x) THEN obj[o].ext ELSE set.ext
          /\ \A s \in Viewed[x[1]] : UpdatedSet(x).views[s] =
               IF s \in ViewsToWrite(x) THEN createView(<<"set", x>>, o, s) ELSE set.views[s]
      BY <2>4, <2>5, <2>8 DEF UpdatedSet
    <3>2. QED
      BY <2>1, <2>2, <2>4, <2>5, <2>6, <2>8, <3>1
  <2>9. CASE set # None /\ ~(set.last < frameLastUpdated(o))
    <3>1. UpdatedSet(x) = set
      BY <2>4, <2>5, <2>9 DEF UpdatedSet
    <3>2. /\ set.last \in Nat /\ frameLastUpdated(o) \in Int
          /\ obj[o].extFrame \in Int /\ obj[o].extFrame <= frameLastUpdated(o)
          /\ \A s \in Viewed[x[1]] : StampNow(by, s) \in Int /\ StampNow(by, s) <= frameLastUpdated(o)
      BY <1>0, <1>1, <2>2, <2>3, <2>4, <2>5, <2>9, LastUpdated DEF StampNow, Shaped, Timing
    <3>3. (\A s \in Viewed[x[1]] : ~(set.last < StampNow(by, s))) /\ ~(set.last < obj[o].extFrame)
      BY <2>9, <3>2
    <3>4. QED
      BY <2>2, <2>4, <2>5, <2>9, <3>1, <3>3
  <2>10. QED
    BY <2>7, <2>8, <2>9
<1>4. QED
  BY <1>2, <1>3 DEF Keepers

(* What is collected has been replaced by something the frame has made.    *)
LEMMA Discarding ==
  ASSUME Timing, Lockstep, Shaped, Stamped, Current
  PROVE  /\ \A by \in Keepers : Owner(by) \in DrawnTargets /\ Cell(by, Now(by)) # None =>
              \A s \in Shown(by) : \/ Updated(by).views[s] = Cell(by, Now(by)).views[s]
                                   \/ View(Cell(by, Now(by)).views[s]) \in Discarded
         /\ \A t \in DrawnTargets : tgt[t].fb[Mod("target")] # None =>
              UpdatedFb(t) = tgt[t].fb[Mod("target")] \/ Framebuffer(t, Mod("target")) \in Discarded
         /\ \A g \in Discarded :
              \/ \E t \in DrawnTargets : /\ g = Framebuffer(t, Mod("target")) /\ tgt[t].fb[Mod("target")] # None
                                         /\ UpdatedFb(t).last = frame
              \/ \E by \in Keepers : /\ Owner(by) \in DrawnTargets /\ Cell(by, Now(by)) # None
                                     /\ \E s \in Shown(by) : /\ g = View(Cell(by, Now(by)).views[s])
                                                             /\ Updated(by).views[s] = createView(by, Owner(by), s)
<1>1. \A o \in Objs, s \in Slots : /\ frameUpdated(o, s, frame) = stamp(o, s, frame % Swap[s])
                                   /\ stamp(o, s, frame % Swap[s]) \in Nat
  BY CopyOf DEF frameUpdated, frameImageIdx, resources, stamp, Timing, Stamped
<1>2. ASSUME NEW t \in DrawnTargets, tgt[t].fb[Mod("target")] # None
      PROVE  LET fb == tgt[t].fb[Mod("target")] IN
             \/ UpdatedFb(t) = fb /\ FbGarbage(t) = {}
             \/ /\ UpdatedFb(t).last = frame
                /\ FbGarbage(t) = {Framebuffer(t, Mod("target"))}
                     \cup {View(fb.views[s]) : s \in {s \in Slots : frameUpdated(t, s, frame) > 0}}
                /\ \A s \in Slots : UpdatedFb(t).views[s] =
                     IF frameUpdated(t, s, frame) > 0 THEN createView(<<"fb", t>>, t, s) ELSE fb.views[s]
  <2>1. tgt[t].obj = t
    BY DrawnAre
  <2>2. PICK fb : fb = tgt[t].fb[Mod("target")] /\ fb # None
    BY <1>2
  <2>3. CASE UpdatedFb(t) = fb
    BY <2>2, <2>3 DEF FbGarbage
  <2>4. CASE UpdatedFb(t) # fb
    <3>1. FbGarbage(t) = {Framebuffer(t, Mod("target"))}
                     \cup {View(fb.views[s]) : s \in {s \in Slots : frameUpdated(t, s, frame) > 0}}
      BY <2>1, <2>2, <2>4 DEF FbGarbage
    <3>2. UpdatedFb(t) = [last |-> frame,
             views |-> [s \in Slots |-> IF fb = None \/ frameUpdated(t, s, frame) > 0
                                        THEN createView(<<"fb", t>>, t, s) ELSE fb.views[s]]]
      BY <2>1, <2>2, <2>4 DEF UpdatedFb
    <3>3. QED
      BY <2>2, <3>1, <3>2
  <2>5. QED
    BY <2>3, <2>4
<1>3. ASSUME NEW x \in DrawnHolders, SetOf(x) # None
      PROVE  /\ \A s \in Viewed[x[1]] : \/ UpdatedSet(x).views[s] = SetOf(x).views[s]
                                        \/ View(SetOf(x).views[s]) \in SetGarbage(x)
             /\ \A g \in SetGarbage(x) : \E s \in Viewed[x[1]] :
                  g = View(SetOf(x).views[s]) /\ UpdatedSet(x).views[s] = createView(<<"set", x>>, x[2], s)
  <2>1. /\ x \in Holders /\ Held(x).obj = x[2] /\ x[2] \in Objs /\ x[1] \in {"target", "source"} /\ x = <<x[1], x[2]>>
        /\ Viewed[x[1]] \subseteq Slots
    BY DrawnAre, Turns DEF Holders
  <2>2. PICK o \in Objs : o = Held(x).obj /\ o = x[2]
    BY <2>1
  <2>3. PICK set : set = SetOf(x) /\ set # None
    BY <1>3
  <2>4. set.last \in Nat
    <3>1. <<"set", x>> \in Keepers /\ Period(<<"set", x>>) = maxFrameswap(x[1]) /\ Cell(<<"set", x>>, Mod(x[1])) = set
      BY <2>1, <2>3 DEF Keepers, Period, Cell, SetOf
    <3>2. Mod(x[1]) \in Rounds(<<"set", x>>)
      BY <2>1, <3>1, CopyOf DEF Mod, Timing, Rounds, Mods
    <3>3. QED
      BY <2>3, <3>1, <3>2 DEF Current, Timing
  <2>5. \A s \in ViewsToWrite(x) : s \in Viewed[x[1]] /\ set.last < frameUpdated(o, s, frame)
    BY <2>2, <2>3 DEF ViewsToWrite
  <2>6. (\E s \in ViewsToWrite(x) : TRUE) => set.last < frameLastUpdated(o)
    BY <1>1, <2>1, <2>4, <2>5, LastUpdated
  <2>7. CASE set.last < frameLastUpdated(o)
    <3>1. \A s \in Viewed[x[1]] : UpdatedSet(x).views[s] =
               IF s \in ViewsToWrite(x) THEN createView(<<"set", x>>, o, s) ELSE set.views[s]
      BY <2>2, <2>3, <2>7 DEF UpdatedSet
    <3>2. SetGarbage(x) = {View(SetOf(x).views[s]) : s \in ViewsToWrite(x)}
      BY <2>3 DEF SetGarbage, Rewritten
    <3>3. QED
      BY <2>2, <2>3, <2>5, <3>1, <3>2
  <2>8. CASE ~(set.last < frameLastUpdated(o))
    <3>1. UpdatedSet(x) = set
      BY <2>2, <2>3, <2>8 DEF UpdatedSet
    <3>2. SetGarbage(x) = {}
      BY <2>6, <2>8 DEF SetGarbage
    <3>3. QED
      BY <2>3, <3>1, <3>2
  <2>9. QED
    BY <2>7, <2>8
<1>4. \A t \in DrawnTargets : /\ <<"fb", t>> \in Keepers /\ Owner(<<"fb", t>>) = t /\ Shown(<<"fb", t>>) = Slots
                              /\ Cell(<<"fb", t>>, Now(<<"fb", t>>)) = tgt[t].fb[Mod("target")]
                              /\ Updated(<<"fb", t>>) = UpdatedFb(t)
  BY DrawnAre DEF Keepers, Owner, Shown, Cell, Now, Period, Mod, Updated
<1>5. \A x \in DrawnHolders : /\ <<"set", x>> \in Keepers /\ Owner(<<"set", x>>) = x[2] /\ Shown(<<"set", x>>) = Viewed[x[1]]
                              /\ Cell(<<"set", x>>, Now(<<"set", x>>)) = SetOf(x) /\ x[2] \in DrawnTargets
                              /\ Updated(<<"set", x>>) = UpdatedSet(x)
  BY DrawnAre DEF Keepers, Owner, Shown, Cell, Now, Period, Mod, Updated, SetOf
<1>6. \A by \in Keepers : Owner(by) \in DrawnTargets =>
        (\E t \in DrawnTargets : by = <<"fb", t>>) \/ (\E x \in DrawnHolders : by = <<"set", x>>)
  BY DrawnAre DEF Keepers, Owner, Holders
<1>7. ASSUME NEW by \in Keepers, Owner(by) \in DrawnTargets, Cell(by, Now(by)) # None, NEW s \in Shown(by)
      PROVE  \/ Updated(by).views[s] = Cell(by, Now(by)).views[s]
             \/ View(Cell(by, Now(by)).views[s]) \in Discarded
  <2>1. ASSUME NEW t \in DrawnTargets, by = <<"fb", t>>
        PROVE  \/ Updated(by).views[s] = Cell(by, Now(by)).views[s]
               \/ View(Cell(by, Now(by)).views[s]) \in FbGarbage(t)
    BY <1>2, <1>4, <1>7, <2>1
  <2>2. ASSUME NEW x \in DrawnHolders, by = <<"set", x>>
        PROVE  \/ Updated(by).views[s] = Cell(by, Now(by)).views[s]
               \/ View(Cell(by, Now(by)).views[s]) \in SetGarbage(x)
    BY <1>3, <1>5, <1>7, <2>2
  <2>3. /\ \A t \in DrawnTargets : FbGarbage(t) \subseteq Discarded
        /\ \A x \in DrawnHolders : SetGarbage(x) \subseteq Discarded
    BY DEF Discarded
  <2>4. CASE \E t \in DrawnTargets : by = <<"fb", t>>
    BY <2>1, <2>3, <2>4
  <2>5. CASE \E x \in DrawnHolders : by = <<"set", x>>
    BY <2>2, <2>3, <2>5
  <2>6. QED
    BY <1>6, <1>7, <2>4, <2>5
<1>8. ASSUME NEW t \in DrawnTargets, tgt[t].fb[Mod("target")] # None
      PROVE  UpdatedFb(t) = tgt[t].fb[Mod("target")] \/ Framebuffer(t, Mod("target")) \in Discarded
  BY <1>2, <1>8 DEF Discarded
<1>9. ASSUME NEW g \in Discarded
      PROVE  \/ \E t \in DrawnTargets : /\ g = Framebuffer(t, Mod("target")) /\ tgt[t].fb[Mod("target")] # None
                                        /\ UpdatedFb(t).last = frame
             \/ \E by \in Keepers : /\ Owner(by) \in DrawnTargets /\ Cell(by, Now(by)) # None
                                    /\ \E s \in Shown(by) : /\ g = View(Cell(by, Now(by)).views[s])
                                                            /\ Updated(by).views[s] = createView(by, Owner(by), s)
  <2>1. ASSUME NEW t \in DrawnTargets, g \in FbGarbage(t)
        PROVE  \/ /\ g = Framebuffer(t, Mod("target")) /\ tgt[t].fb[Mod("target")] # None
                  /\ UpdatedFb(t).last = frame
               \/ /\ Cell(<<"fb", t>>, Now(<<"fb", t>>)) # None
                  /\ \E s \in Slots : /\ g = View(Cell(<<"fb", t>>, Now(<<"fb", t>>)).views[s])
                                      /\ Updated(<<"fb", t>>).views[s] = createView(<<"fb", t>>, t, s)
    <3>1. tgt[t].fb[Mod("target")] # None
      BY <2>1 DEF FbGarbage
    <3>2. QED
      BY <1>2, <1>4, <2>1, <3>1
  <2>2. ASSUME NEW x \in DrawnHolders, g \in SetGarbage(x)
        PROVE  /\ Cell(<<"set", x>>, Now(<<"set", x>>)) # None
               /\ \E s \in Viewed[x[1]] : /\ g = View(Cell(<<"set", x>>, Now(<<"set", x>>)).views[s])
                                          /\ Updated(<<"set", x>>).views[s] = createView(<<"set", x>>, x[2], s)
    <3>1. SetOf(x) # None
      BY <2>2 DEF SetGarbage, Rewritten
    <3>2. QED
      BY <1>3, <1>5, <2>2, <3>1
  <2>3. CASE \E t \in DrawnTargets : g \in FbGarbage(t)
    <3>1. PICK t \in DrawnTargets : g \in FbGarbage(t)
      BY <2>3
    <3>2. CASE g = Framebuffer(t, Mod("target")) /\ tgt[t].fb[Mod("target")] # None /\ UpdatedFb(t).last = frame
      BY <3>2
    <3>3. PICK by : by = <<"fb", t>>
      OBVIOUS
    <3>4. by \in Keepers /\ Owner(by) = t /\ Shown(by) = Slots
      BY <1>4, <3>3
    <3>5. CASE /\ Cell(by, Now(by)) # None
               /\ \E s \in Slots : /\ g = View(Cell(by, Now(by)).views[s])
                                   /\ Updated(by).views[s] = createView(by, t, s)
      BY <3>4, <3>5
    <3>6. QED
      BY <2>1, <3>1, <3>2, <3>3, <3>5
  <2>4. CASE \E x \in DrawnHolders : g \in SetGarbage(x)
    <3>1. PICK x \in DrawnHolders : g \in SetGarbage(x)
      BY <2>4
    <3>2. PICK by : by = <<"set", x>>
      OBVIOUS
    <3>3. by \in Keepers /\ Owner(by) = x[2] /\ Shown(by) = Viewed[x[1]] /\ x[2] \in DrawnTargets
      BY <1>5, <3>2
    <3>4. /\ Cell(by, Now(by)) # None
          /\ \E s \in Viewed[x[1]] : /\ g = View(Cell(by, Now(by)).views[s])
                                    /\ Updated(by).views[s] = createView(by, x[2], s)
      BY <2>2, <3>1, <3>2
    <3>5. QED
      BY <3>3, <3>4
  <2>5. (\E t \in DrawnTargets : g \in FbGarbage(t)) \/ (\E x \in DrawnHolders : g \in SetGarbage(x))
    BY <1>9 DEF Discarded
  <2>6. QED
    BY <2>3, <2>4, <2>5
<1>10. QED
  BY <1>7, <1>8, <1>9

-----------------------------------------------------------------------------
(* What is alive: what images and keepers have, and what is collected.     *)
CurrentImage(u) == \E o \in Objs, s \in Slots : \E i \in Copies(s) : u = <<"image", o, s, i, stamp(o, s, i)>>
CachedFb(u) == \E t \in Objs, k \in Mods("target") : tgt[t].fb[k] # None /\ u = Framebuffer(t, k)
CachedView(u) == \E by \in Keepers : \E k \in Rounds(by), s \in Shown(by) : Cell(by, k) # None /\ u = View(Cell(by, k).views[s])
InCache(u) == CurrentImage(u) \/ CachedFb(u) \/ CachedView(u)

(* What is alive, in these terms.                                          *)
LEMMA AliveIs ==
  Shaped => \A u : u \in Alive <=> phase # "closed" /\ (InCache(u) \/ \E c \in Cmds : u \in collectors[c])
<1> SUFFICES ASSUME Shaped, NEW u
             PROVE  u \in Alive <=> phase # "closed" /\ (InCache(u) \/ \E c \in Cmds : u \in collectors[c])
  OBVIOUS
<1>1. /\ DOMAIN obj = Objs /\ DOMAIN tgt = Objs /\ DOMAIN src = Objs
      /\ \A t \in Objs : /\ DOMAIN tgt[t].fb = Mods("target") /\ DOMAIN tgt[t].set = Mods("target")
                         /\ DOMAIN src[t].set = Mods("source")
  BY DEF Shaped
<1>2. u \in Images <=> CurrentImage(u)
  <2>1. \A o \in Objs, s \in Slots : \A i \in Copies(s) : frameImage(o, s, i) = <<"image", o, s, i, stamp(o, s, i)>>
    <3>1. 0 \in Nat
      OBVIOUS
    <3>2. QED
      BY <3>1, CopyOf DEF frameImage, frameImageIdx, frameUpdated, resources, stamp
  <2>2. u \in Images <=> \E o \in Objs, s \in Slots : \E i \in Copies(s) : u = frameImage(o, s, i)
    BY <1>1 DEF Images, Copies
  <2>3. QED
    BY <2>1, <2>2 DEF CurrentImage
<1>3. /\ \A t \in Objs : /\ <<"fb", t>> \in Keepers /\ Shown(<<"fb", t>>) = Slots
                         /\ Rounds(<<"fb", t>>) = Mods("target")
                         /\ \A k \in Mods("target") : Cell(<<"fb", t>>, k) = tgt[t].fb[k]
      /\ \A t \in Objs : /\ <<"set", <<"target", t>>>> \in Keepers /\ Shown(<<"set", <<"target", t>>>>) = Viewed["target"]
                         /\ Rounds(<<"set", <<"target", t>>>>) = Mods("target")
                         /\ \A k \in Mods("target") : Cell(<<"set", <<"target", t>>>>, k) = tgt[t].set[k]
      /\ \A t \in Objs : /\ <<"set", <<"source", t>>>> \in Keepers /\ Shown(<<"set", <<"source", t>>>>) = Viewed["source"]
                         /\ Rounds(<<"set", <<"source", t>>>>) = Mods("source")
                         /\ \A k \in Mods("source") : Cell(<<"set", <<"source", t>>>>, k) = src[t].set[k]
  BY DEF Keepers, Holders, Shown, Rounds, Period, Mods, Cell, Held
<1>4. u \in CachedFbs <=> \/ CachedFb(u)
                         \/ \E t \in Objs, k \in Mods("target"), s \in Slots : tgt[t].fb[k] # None /\ u = View(tgt[t].fb[k].views[s])
  BY <1>1 DEF CachedFbs, CachedFb, Made
<1>5. u \in CachedSets("target", tgt) <=>
        \E t \in Objs, k \in Mods("target"), s \in Viewed["target"] : tgt[t].set[k] # None /\ u = View(tgt[t].set[k].views[s])
  BY <1>1 DEF CachedSets, Made
<1>6. u \in CachedSets("source", src) <=>
        \E t \in Objs, k \in Mods("source"), s \in Viewed["source"] : src[t].set[k] # None /\ u = View(src[t].set[k].views[s])
  BY <1>1 DEF CachedSets, Made
<1>7. CachedView(u) <=>
        \/ \E t \in Objs, k \in Mods("target"), s \in Slots : tgt[t].fb[k] # None /\ u = View(tgt[t].fb[k].views[s])
        \/ \E t \in Objs, k \in Mods("target"), s \in Viewed["target"] : tgt[t].set[k] # None /\ u = View(tgt[t].set[k].views[s])
        \/ \E t \in Objs, k \in Mods("source"), s \in Viewed["source"] : src[t].set[k] # None /\ u = View(src[t].set[k].views[s])
  <2>1. CachedView(u) <=> \E by \in Keepers : \E k \in Rounds(by), s \in Shown(by) : Cell(by, k) # None /\ u = View(Cell(by, k).views[s])
    BY DEF CachedView
  <2>2. \A by \in Keepers : \/ \E t \in Objs : by = <<"fb", t>>
                            \/ \E t \in Objs : by = <<"set", <<"target", t>>>>
                            \/ \E t \in Objs : by = <<"set", <<"source", t>>>>
    BY DEF Keepers, Holders
  <2>3. CachedView(u) <=>
          \/ \E t \in Objs : \E k \in Rounds(<<"fb", t>>), s \in Shown(<<"fb", t>>) :
               Cell(<<"fb", t>>, k) # None /\ u = View(Cell(<<"fb", t>>, k).views[s])
          \/ \E t \in Objs : \E k \in Rounds(<<"set", <<"target", t>>>>), s \in Shown(<<"set", <<"target", t>>>>) :
               Cell(<<"set", <<"target", t>>>>, k) # None /\ u = View(Cell(<<"set", <<"target", t>>>>, k).views[s])
          \/ \E t \in Objs : \E k \in Rounds(<<"set", <<"source", t>>>>), s \in Shown(<<"set", <<"source", t>>>>) :
               Cell(<<"set", <<"source", t>>>>, k) # None /\ u = View(Cell(<<"set", <<"source", t>>>>, k).views[s])
    <3>1. \A t \in Objs : /\ <<"fb", t>> \in Keepers /\ <<"set", <<"target", t>>>> \in Keepers
                          /\ <<"set", <<"source", t>>>> \in Keepers
      BY <1>3
    <3>2. ASSUME CachedView(u)
          PROVE  \/ \E t \in Objs : \E k \in Rounds(<<"fb", t>>), s \in Shown(<<"fb", t>>) :
                      Cell(<<"fb", t>>, k) # None /\ u = View(Cell(<<"fb", t>>, k).views[s])
                 \/ \E t \in Objs : \E k \in Rounds(<<"set", <<"target", t>>>>), s \in Shown(<<"set", <<"target", t>>>>) :
                      Cell(<<"set", <<"target", t>>>>, k) # None /\ u = View(Cell(<<"set", <<"target", t>>>>, k).views[s])
                 \/ \E t \in Objs : \E k \in Rounds(<<"set", <<"source", t>>>>), s \in Shown(<<"set", <<"source", t>>>>) :
                      Cell(<<"set", <<"source", t>>>>, k) # None /\ u = View(Cell(<<"set", <<"source", t>>>>, k).views[s])
      <4>1. PICK by \in Keepers : \E k \in Rounds(by), s \in Shown(by) : Cell(by, k) # None /\ u = View(Cell(by, k).views[s])
        BY <2>1, <3>2
      <4>2. CASE \E t \in Objs : by = <<"fb", t>>
        BY <4>1, <4>2, Zenon
      <4>3. CASE \E t \in Objs : by = <<"set", <<"target", t>>>>
        BY <4>1, <4>3, Zenon
      <4>4. CASE \E t \in Objs : by = <<"set", <<"source", t>>>>
        BY <4>1, <4>4, Zenon
      <4>5. QED
        BY <2>2, <4>2, <4>3, <4>4
    <3>3. QED
      BY <2>1, <3>1, <3>2, Zenon
  <2>4. ASSUME NEW by, NEW R, NEW S, NEW c, Rounds(by) = R, Shown(by) = S, \A k \in R : Cell(by, k) = c[k]
        PROVE  (\E k \in Rounds(by), s \in Shown(by) : Cell(by, k) # None /\ u = View(Cell(by, k).views[s]))
                 <=> \E k \in R, s \in S : c[k] # None /\ u = View(c[k].views[s])
    BY <2>4
  <2>5. ASSUME NEW t \in Objs
        PROVE  (\E k \in Rounds(<<"fb", t>>), s \in Shown(<<"fb", t>>) :
             Cell(<<"fb", t>>, k) # None /\ u = View(Cell(<<"fb", t>>, k).views[s]))
            <=> \E k \in Mods("target"), s \in Slots : tgt[t].fb[k] # None /\ u = View(tgt[t].fb[k].views[s])
    <3>1. /\ Rounds(<<"fb", t>>) = Mods("target") /\ Shown(<<"fb", t>>) = Slots
          /\ \A k \in Mods("target") : Cell(<<"fb", t>>, k) = tgt[t].fb[k]
      BY <1>3
    <3>2. QED
      BY <2>4, <3>1
  <2>6. ASSUME NEW t \in Objs
        PROVE  (\E k \in Rounds(<<"set", <<"target", t>>>>), s \in Shown(<<"set", <<"target", t>>>>) :
             Cell(<<"set", <<"target", t>>>>, k) # None /\ u = View(Cell(<<"set", <<"target", t>>>>, k).views[s]))
            <=> \E k \in Mods("target"), s \in Viewed["target"] : tgt[t].set[k] # None /\ u = View(tgt[t].set[k].views[s])
    <3>1. /\ Rounds(<<"set", <<"target", t>>>>) = Mods("target") /\ Shown(<<"set", <<"target", t>>>>) = Viewed["target"]
          /\ \A k \in Mods("target") : Cell(<<"set", <<"target", t>>>>, k) = tgt[t].set[k]
      BY <1>3
    <3>2. QED
      BY <2>4, <3>1
  <2>7. ASSUME NEW t \in Objs
        PROVE  (\E k \in Rounds(<<"set", <<"source", t>>>>), s \in Shown(<<"set", <<"source", t>>>>) :
             Cell(<<"set", <<"source", t>>>>, k) # None /\ u = View(Cell(<<"set", <<"source", t>>>>, k).views[s]))
            <=> \E k \in Mods("source"), s \in Viewed["source"] : src[t].set[k] # None /\ u = View(src[t].set[k].views[s])
    <3>1. /\ Rounds(<<"set", <<"source", t>>>>) = Mods("source") /\ Shown(<<"set", <<"source", t>>>>) = Viewed["source"]
          /\ \A k \in Mods("source") : Cell(<<"set", <<"source", t>>>>, k) = src[t].set[k]
      BY <1>3
    <3>2. QED
      BY <2>4, <3>1
  <2>8. QED
    BY <2>3, <2>5, <2>6, <2>7
<1>8. QED
  BY <1>2, <1>4, <1>5, <1>6, <1>7 DEF Alive, InCache

(* What recording does to every copy.                                      *)
LEMMA Recording ==
  ASSUME Timing, Lockstep, Shaped, Record
  PROVE  /\ \A by \in Keepers : \A k \in Rounds(by) :
              Cell(by, k)' = IF Owner(by) \in DrawnTargets /\ k = Now(by) THEN Updated(by) ELSE Cell(by, k)
         /\ UNCHANGED <<frame, obj, objects, targets, done, work>> /\ DrawnTargets' = DrawnTargets
         /\ phase = "resized" /\ phase' = "recorded"
         /\ collectors' = [collectors EXCEPT ![Active] = collectors[Active] \cup Discarded]
         /\ recorded' = recorded \cup Uses
<1>1. /\ tgt' = [t \in Objs |-> IF t \in DrawnTargets
             THEN [tgt[t] EXCEPT !.fb[Mod("target")] = UpdatedFb(t), !.set[Mod("target")] = UpdatedSet(<<"target", t>>)]
             ELSE tgt[t]]
      /\ src' = [t \in Objs |-> IF t \in DrawnSources
             THEN [src[t] EXCEPT !.set[Mod("source")] = UpdatedSet(<<"source", t>>)] ELSE src[t]]
  BY DEF Record, Shaped
<1>2. \A t \in Objs : /\ DOMAIN tgt[t] = {"obj", "fb", "set"} /\ DOMAIN src[t] = {"obj", "set"}
                      /\ DOMAIN tgt[t].fb = Mods("target") /\ DOMAIN tgt[t].set = Mods("target")
                      /\ DOMAIN src[t].set = Mods("source")
  BY DEF Shaped
<1>3. Mod("target") \in Mods("target") /\ Mod("source") \in Mods("source")
  BY CopyOf DEF Mod, Timing
<1>4. \A t \in Objs : /\ tgt'[t].obj = tgt[t].obj
        /\ \A k \in Mods("target") :
             tgt'[t].fb[k] = IF t \in DrawnTargets /\ k = Mod("target") THEN UpdatedFb(t) ELSE tgt[t].fb[k]
  BY <1>1, <1>2, <1>3
<1>5. \A t \in Objs :
        \A k \in Mods("target") :
             tgt'[t].set[k] = IF t \in DrawnTargets /\ k = Mod("target") THEN UpdatedSet(<<"target", t>>) ELSE tgt[t].set[k]
  BY <1>1, <1>2, <1>3
<1>6. \A t \in Objs :
        \A k \in Mods("source") :
             src'[t].set[k] = IF t \in DrawnTargets /\ k = Mod("source") THEN UpdatedSet(<<"source", t>>) ELSE src[t].set[k]
  BY <1>1, <1>2, <1>3, DrawnAre
<1>7. ASSUME NEW by \in Keepers, NEW k \in Rounds(by)
      PROVE  Cell(by, k)' = IF Owner(by) \in DrawnTargets /\ k = Now(by) THEN Updated(by) ELSE Cell(by, k)
  <2>1. ASSUME NEW t \in Objs, by = <<"fb", t>>
        PROVE  Cell(by, k)' = IF Owner(by) \in DrawnTargets /\ k = Now(by) THEN Updated(by) ELSE Cell(by, k)
    BY <1>4, <1>7, <2>1 DEF Cell, Owner, Updated, Now, Period, Mod, Rounds, Mods
  <2>2. ASSUME NEW t \in Objs, by = <<"set", <<"target", t>>>>
        PROVE  Cell(by, k)' = IF Owner(by) \in DrawnTargets /\ k = Now(by) THEN Updated(by) ELSE Cell(by, k)
    BY <1>5, <1>7, <2>2 DEF Cell, Held, Owner, Updated, Now, Period, Mod, Rounds, Mods
  <2>3. ASSUME NEW t \in Objs, by = <<"set", <<"source", t>>>>
        PROVE  Cell(by, k)' = IF Owner(by) \in DrawnTargets /\ k = Now(by) THEN Updated(by) ELSE Cell(by, k)
    BY <1>6, <1>7, <2>3 DEF Cell, Held, Owner, Updated, Now, Period, Mod, Rounds, Mods
  <2>4. QED
    BY <2>1, <2>2, <2>3 DEF Keepers, Holders
<1>8. DrawnTargets' = DrawnTargets
  <2>1. UNCHANGED <<targets, obj, frame>> /\ \A t \in targets.allocated : t \in Objs
    BY DEF Record, Lockstep, Pool
  <2>2. QED
    BY <1>4, <2>1 DEF DrawnTargets
<1>9. QED
  BY <1>7, <1>8 DEF Record, push, Discarded

-----------------------------------------------------------------------------
(* Steps that leave keepers alone.                                         *)
LEMMA CellsStay ==
  ASSUME OneThread, Timing, Lockstep, Shaped, [Next]_vars, ~Record, NEW by \in Keepers, NEW k \in Rounds(by)
  PROVE  Cell(by, k)' = Cell(by, k)
<1>1. Same \/ (tgt' = tgt /\ src' = src)
  BY ImagesStay DEF PreRender
<1>2. /\ \A t \in Objs : tgt'[t].fb = tgt[t].fb /\ tgt'[t].set = tgt[t].set
      /\ \A t \in Objs : src'[t].set = src[t].set
  BY <1>1 DEF Same
<1>3. by[1] = "fb" => by[2] \in Objs
  BY DEF Keepers
<1>4. by[1] # "fb" => by[2][2] \in Objs
  BY DEF Keepers, Holders
<1>5. QED
  BY <1>2, <1>3, <1>4 DEF Cell, Held

(* What is kept is new enough, step by step.                               *)
LEMMA CurrentKept ==
  ASSUME OneThread, Timing, Lockstep, Shaped, Stamped, Current, [Next]_vars
  PROVE  Current'
<1> SUFFICES ASSUME NEW by \in Keepers, NEW k \in Rounds(by), Cell(by, k)' # None
             PROVE  /\ Cell(by, k)'.last \in 1 .. (IF phase' = "recorded" THEN frame' ELSE frame' - 1)
                    /\ \A s \in Shown(by) : Kept(Cell(by, k).views[s], by, k, s, Cell(by, k).last)'
  BY DEF Current
<1>1. /\ frame \in Nat \ {0} /\ Owner(by) \in Objs /\ Shown(by) \subseteq Slots
      /\ \A s \in Shown(by) : k % Swap[s] \in Copies(s)
      /\ \A s \in Shown(by) : stamp(Owner(by), s, k % Swap[s]) \in Nat
  <2>1. k \in Nat
    BY DEF Rounds
  <2>2. QED
    BY <2>1, KeeperTurns, CopyOf DEF Timing, Stamped
<1>2. Cell(by, k) # None =>
        /\ Cell(by, k).last \in 1 .. (IF phase = "recorded" THEN frame ELSE frame - 1)
        /\ \A s \in Shown(by) : Kept(Cell(by, k).views[s], by, k, s, Cell(by, k).last)
  BY DEF Current
<1>3. CASE ~PreRender /\ ~Record
  <2>1. Cell(by, k)' = Cell(by, k)
    BY <1>3, CellsStay
  <2>2. \/ frame' = frame /\ (phase' = "recorded" <=> phase = "recorded")
        \/ frame' = frame + 1 /\ phase = "recorded" /\ phase' = "idle"
    BY <1>3, Phases
  <2>3. \A s \in Shown(by) : stamp(Owner(by), s, k % Swap[s])' = stamp(Owner(by), s, k % Swap[s])
    BY <1>1, <1>3, ImagesStay
  <2>4. PICK cell : cell = Cell(by, k) /\ cell = Cell(by, k)' /\ cell # None
    BY <2>1
  <2>5. cell.last \in 1 .. (IF phase' = "recorded" THEN frame' ELSE frame' - 1)
    BY <1>1, <1>2, <2>2, <2>4
  <2>6. \A s \in Shown(by) : Kept(cell.views[s], by, k, s, cell.last)'
    BY <1>2, <2>3, <2>4 DEF Kept
  <2>7. QED
    BY <2>4, <2>5, <2>6
<1>4. CASE PreRender
  <2>1. frame' = frame /\ phase = "begun" /\ phase' = "resized" /\ ~Record
    BY <1>4 DEF PreRender, Record
  <2>2. Cell(by, k)' = Cell(by, k)
    BY <2>1, CellsStay
  <2>3. PICK cell : cell = Cell(by, k) /\ cell = Cell(by, k)' /\ cell # None
    BY <2>2
  <2>4. cell.last \in 1 .. frame - 1 /\ \A s \in Shown(by) : Kept(cell.views[s], by, k, s, cell.last)
    BY <1>2, <2>1, <2>3
  <2>5. ASSUME NEW s \in Shown(by)
        PROVE  Kept(cell.views[s], by, k, s, cell.last)'
    <3>1. PICK i \in Copies(s) : i = k % Swap[s]
      BY <1>1
    <3>2. \/ stamp(Owner(by), s, i)' = stamp(Owner(by), s, i)
          \/ stamp(Owner(by), s, i)' \in Nat /\ frame <= stamp(Owner(by), s, i)'
      BY <1>1, <1>4, Resizing, StampNext
    <3>3. Kept(cell.views[s], by, k, s, cell.last)
      BY <2>4
    <3>4. cell.last < stamp(Owner(by), s, i)' \/ stamp(Owner(by), s, i)' = stamp(Owner(by), s, i)
      BY <1>1, <2>4, <3>2
    <3>5. QED
      BY <3>1, <3>3, <3>4 DEF Kept
  <2>6. QED
    BY <1>1, <2>1, <2>3, <2>4, <2>5
<1>5. CASE Record
  <2>1. frame' = frame /\ phase = "resized" /\ phase' = "recorded" /\ obj' = obj
        /\ Cell(by, k)' = IF Owner(by) \in DrawnTargets /\ k = Now(by) THEN Updated(by) ELSE Cell(by, k)
    BY <1>5, Recording
  <2>2. \A o, s, i : stamp(o, s, i)' = stamp(o, s, i)
    BY <2>1 DEF stamp
  <2>3. ASSUME Cell(by, k)' = Cell(by, k)
        PROVE  /\ Cell(by, k)'.last \in 1 .. frame
               /\ \A s \in Shown(by) : Kept(Cell(by, k).views[s], by, k, s, Cell(by, k).last)'
    <3>1. PICK cell : cell = Cell(by, k) /\ cell = Cell(by, k)' /\ cell # None
      BY <2>3
    <3>2. cell.last \in 1 .. frame - 1 /\ \A s \in Shown(by) : Kept(cell.views[s], by, k, s, cell.last)
      BY <1>2, <2>1, <3>1
    <3>3. \A s \in Shown(by) : Kept(cell.views[s], by, k, s, cell.last)'
      BY <2>2, <3>2 DEF Kept
    <3>4. QED
      BY <1>1, <3>1, <3>2, <3>3
  <2>4. CASE Owner(by) \in DrawnTargets /\ k = Now(by)
    <3>1. PICK cell : cell = Cell(by, k)
      OBVIOUS
    <3>2. PICK new : new = Updated(by) /\ new = Cell(by, k)'
      BY <2>1, <2>4
    <3>3. CASE cell # None /\ new = cell
      BY <2>1, <2>3, <3>1, <3>2, <3>3
    <3>4. CASE /\ new.last = frame
               /\ \A s \in Shown(by) :
                    \/ new.views[s] = createView(by, Owner(by), s)
                    \/ cell # None /\ new.views[s] = cell.views[s] /\ ~(cell.last < StampNow(by, s))
      <4>1. ASSUME NEW s \in Shown(by)
            PROVE  Kept(new.views[s], by, k, s, new.last)'
        <5>1. PICK i \in Copies(s) : i = k % Swap[s] /\ i = frame % Swap[s]
          BY <1>1, <2>4, CopyOf DEF Now
        <5>2. /\ frame \in 1 .. frame /\ frame % Period(by) = k
              /\ \A f \in Nat : f = frame => f \in Nat
          BY <1>1, <2>4 DEF Now
        <5>3. CASE new.views[s] = createView(by, Owner(by), s)
          <6>1. createView(by, Owner(by), s) = [image |-> <<"image", Owner(by), s, i, stamp(Owner(by), s, i)>>, made |-> frame, by |-> by]
            BY <5>1 DEF createView, frameImage, frameImageIdx, frameUpdated, resources, stamp
          <6>2. PICK v : v = new.views[s] /\ v = createView(by, Owner(by), s)
            BY <5>3
          <6>3. /\ v.image = <<"image", Owner(by), s, i, stamp(Owner(by), s, i)>> /\ v.made = frame /\ v.by = by
            BY <6>1, <6>2
          <6>4. \E f \in Nat : v.image = <<"image", Owner(by), s, i, f>>
            BY <1>1, <5>1, <6>3
          <6>5. QED
            BY <2>2, <3>4, <5>1, <5>2, <6>2, <6>3, <6>4 DEF Kept
        <5>4. CASE cell # None /\ new.views[s] = cell.views[s] /\ ~(cell.last < StampNow(by, s))
          <6>1. Kept(cell.views[s], by, k, s, cell.last) /\ cell.last \in 1 .. frame - 1
            BY <1>2, <2>1, <3>1, <5>4
          <6>2. StampNow(by, s) = stamp(Owner(by), s, i)
            BY <5>1 DEF StampNow
          <6>3. PICK v : v = new.views[s] /\ v = cell.views[s]
            BY <5>4
          <6>4. /\ v.by = by /\ v.made \in 1 .. cell.last /\ v.made % Period(by) = k
                /\ \E f \in Nat : v.image = <<"image", Owner(by), s, i, f>>
                /\ v.image = <<"image", Owner(by), s, i, stamp(Owner(by), s, i)>>
            BY <5>1, <5>4, <6>1, <6>2, <6>3 DEF Kept
          <6>5. v.made \in 1 .. frame
            BY <1>1, <6>1, <6>4
          <6>6. QED
            BY <2>2, <3>4, <5>1, <6>3, <6>4, <6>5 DEF Kept
        <5>5. QED
          BY <3>4, <5>3, <5>4
      <4>2. QED
        BY <1>1, <2>1, <3>2, <3>4, <4>1
    <3>5. QED
      BY <2>4, <3>1, <3>2, <3>3, <3>4, Updating
  <2>5. QED
    BY <2>1, <2>3, <2>4
<1>6. QED
  BY <1>3, <1>4, <1>5

(* Descriptors are written again when the external resource is set.        *)
LEMMA ExternalKept ==
  ASSUME OneThread, Timing, Lockstep, Shaped, Stamped, Current, ExternalCurrent, [Next]_vars
  PROVE  ExternalCurrent'
<1> SUFFICES ASSUME NEW x \in Holders, NEW k \in Mods(x[1]), Held(x)'.set[k] # None
             PROVE  Held(x)'.set[k].ext = obj'[x[2]].ext \/ Held(x)'.set[k].last < obj'[x[2]].extFrame
  BY DEF ExternalCurrent
<1>1. PICK by \in Keepers : by = <<"set", x>>
  BY DEF Keepers
<1>2. /\ Owner(by) = x[2] /\ x[2] \in Objs /\ k \in Rounds(by) /\ Period(by) = maxFrameswap(x[1]) /\ by[1] = "set"
      /\ Cell(by, k) = Held(x).set[k] /\ Cell(by, k)' = Held(x)'.set[k]
  BY <1>1 DEF Owner, Holders, Rounds, Period, Mods, Cell
<1>3. Cell(by, k) # None => /\ Cell(by, k).last \in 1 .. (IF phase = "recorded" THEN frame ELSE frame - 1)
                            /\ Cell(by, k).ext = obj[x[2]].ext \/ Cell(by, k).last < obj[x[2]].extFrame
  BY <1>2 DEF Current, ExternalCurrent
<1>4. frame \in Nat /\ obj[x[2]].extFrame \in Nat /\ obj[x[2]].extFrame <= frame
  BY <1>2 DEF Timing, Shaped
<1>5. SUFFICES Cell(by, k)'.ext = obj'[x[2]].ext \/ Cell(by, k)'.last < obj'[x[2]].extFrame
  BY <1>2
<1>6. CASE ~Record
  <2>1. Cell(by, k)' = Cell(by, k)
    BY <1>2, <1>6, CellsStay
  <2>2. \/ obj'[x[2]].ext = obj[x[2]].ext /\ obj'[x[2]].extFrame = obj[x[2]].extFrame
        \/ obj'[x[2]].extFrame = frame /\ phase = "idle"
    <3>1. CASE Between
      BY <1>2, <3>1 DEF Between
    <3>2. CASE Join \/ Close \/ Begin \/ Submit \/ Finish
      BY <3>2 DEF Join, Close, Begin, Submit, Finish, pools
    <3>3. CASE PreRender
      BY <1>2, <3>3 DEF PreRender, Shaped
    <3>4. QED
      BY <1>6, <3>1, <3>2, <3>3, Calls DEF Next, Timing
  <2>3. QED
    BY <1>2, <1>3, <1>4, <2>1, <2>2
<1>7. CASE Record
  <2>1. obj' = obj /\ phase = "resized"
        /\ Cell(by, k)' = IF Owner(by) \in DrawnTargets /\ k = Now(by) THEN Updated(by) ELSE Cell(by, k)
    BY <1>2, <1>7, Recording
  <2>2. CASE Owner(by) \in DrawnTargets /\ k = Now(by)
    <3>1. PICK cell : cell = Cell(by, k)
      OBVIOUS
    <3>2. PICK new : new = Updated(by) /\ new = Cell(by, k)'
      BY <2>1, <2>2
    <3>3. \/ cell # None /\ new.ext = cell.ext /\ ~(cell.last < obj[x[2]].extFrame)
          \/ new.ext = obj[x[2]].ext
      BY <1>2, <2>2, <3>1, <3>2, Updating
    <3>4. QED
      BY <1>2, <1>3, <2>1, <2>2, <3>1, <3>2, <3>3
  <2>3. QED
    BY <1>2, <1>3, <2>1, <2>2
<1>8. QED
  BY <1>6, <1>7

(* Recording looks at everything that the frame draws with.                *)
LEMMA LookedKept ==
  ASSUME OneThread, Timing, Lockstep, Shaped, Stamped, Current, Looked, [Next]_vars
  PROVE  Looked'
<1> SUFFICES ASSUME phase' = "recorded", NEW by \in Keepers, Owner(by) \in DrawnTargets'
             PROVE  /\ frame' = frame /\ obj' = obj
                    /\ Cell(by, Now(by))' # None
                    /\ \A s \in Shown(by) : Cell(by, Now(by))'.last >= StampNow(by, s)
                    /\ by[1] = "set" => Cell(by, Now(by))'.last >= obj[Owner(by)].extFrame
  BY DEF Looked, Now, StampNow, stamp
<1>1. frame \in Nat /\ frame > 0 /\ Owner(by) \in Objs /\ Shown(by) \subseteq Slots
  BY KeeperTurns DEF Timing
<1>2. PICK k \in Rounds(by) : k = Now(by)
  BY <1>1, CopyOf DEF Now
<1>3. /\ \A s \in Shown(by) : StampNow(by, s) \in Nat /\ StampNow(by, s) <= frame
      /\ obj[Owner(by)].extFrame \in Nat /\ obj[Owner(by)].extFrame <= frame
  <2>1. \A s \in Slots : frame % Swap[s] \in Copies(s)
    BY <1>1, CopyOf
  <2>2. QED
    BY <1>1, <2>1 DEF Stamped, Shaped, StampNow
<1>4. CASE ~Record
  <2>1. frame' = frame /\ phase = "recorded" /\ ~PreRender /\ ~Close /\ ~Begin /\ ~Submit
    BY <1>4, Phases DEF Close, Begin, PreRender, Submit
  <2>2. UNCHANGED <<obj, tgt, targets>>
    <3>1. CASE Between
      BY <2>1, <3>1 DEF Between, pools
    <3>2. CASE Join \/ Finish
      BY <3>2 DEF Join, Finish, pools
    <3>3. QED
      BY <1>1, <1>4, <2>1, <3>1, <3>2, Calls DEF Next
  <2>3. Owner(by) \in DrawnTargets
    BY <2>1, <2>2 DEF DrawnTargets
  <2>4. Cell(by, k)' = Cell(by, k) /\ Now(by)' = k
    BY <1>2, <1>4, <2>1, CellsStay DEF Now
  <2>5. /\ Cell(by, k) # None
        /\ \A s \in Shown(by) : Cell(by, k).last >= StampNow(by, s)
        /\ by[1] = "set" => Cell(by, k).last >= obj[Owner(by)].extFrame
    BY <1>2, <2>1, <2>3 DEF Looked, Now, StampNow
  <2>6. Cell(by, Now(by))' = Cell(by, k)
    BY <2>4 DEF Cell
  <2>7. QED
    BY <2>1, <2>2, <2>5, <2>6
<1>5. CASE Record
  <2>1. /\ frame' = frame /\ obj' = obj /\ DrawnTargets' = DrawnTargets /\ phase = "resized"
        /\ Cell(by, k)' = IF Owner(by) \in DrawnTargets /\ k = Now(by) THEN Updated(by) ELSE Cell(by, k)
    BY <1>5, Recording
  <2>2. Cell(by, Now(by))' = Cell(by, k)' /\ Cell(by, k)' = Updated(by)
    BY <1>2, <2>1 DEF Cell, Now
  <2>3. Cell(by, k) # None => Cell(by, k).last \in 1 .. frame - 1
    BY <2>1 DEF Current
  <2>4. PICK cell : cell = Cell(by, k)
    OBVIOUS
  <2>5. PICK new : new = Updated(by)
    OBVIOUS
  <2>6. CASE /\ cell # None /\ new = cell
             /\ \A s \in Shown(by) : ~(cell.last < StampNow(by, s))
             /\ by[1] = "set" => ~(cell.last < obj[Owner(by)].extFrame)
    <3>1. cell.last \in Int
      BY <1>1, <2>3, <2>4, <2>6
    <3>2. \A s \in Shown(by) : cell.last >= StampNow(by, s)
      BY <1>3, <2>6, <3>1
    <3>3. by[1] = "set" => cell.last >= obj[Owner(by)].extFrame
      BY <1>3, <2>6, <3>1
    <3>4. QED
      BY <2>1, <2>2, <2>5, <2>6, <3>2, <3>3
  <2>7. CASE new.last = frame
    <3>1. new # None
      BY <1>1, <2>7 DEF None
    <3>2. QED
      BY <1>1, <1>3, <2>1, <2>2, <2>5, <2>7, <3>1
  <2>8. QED
    BY <1>2, <2>1, <2>4, <2>5, <2>6, <2>7, Updating
<1>6. QED
  BY <1>4, <1>5

(* So a recorded frame draws the objects' own images.                      *)
LEMMA DrawsThem ==
  Timing /\ Lockstep /\ Shaped /\ Stamped /\ Current /\ ExternalCurrent /\ Looked => DrawsOwnImages
<1> SUFFICES ASSUME Timing, Lockstep, Shaped, Stamped, Current, ExternalCurrent, Looked, phase = "recorded"
             PROVE  DrawsOwnImages
  BY DEF DrawsOwnImages
<1>1. ASSUME NEW by \in Keepers, Owner(by) \in DrawnTargets
      PROVE  /\ \A s \in Shown(by) : Cell(by, Now(by)).views[s].image = frameImage(Owner(by), s, frame)
             /\ by[1] = "set" => Cell(by, Now(by)).ext = obj[Owner(by)].ext
  <2>1. frame \in Nat /\ Owner(by) \in Objs /\ Shown(by) \subseteq Slots
    BY KeeperTurns DEF Timing
  <2>2. PICK k \in Rounds(by) : k = Now(by)
    BY <2>1, CopyOf DEF Now
  <2>3. PICK cell : cell = Cell(by, k)
    OBVIOUS
  <2>4. /\ cell # None /\ \A s \in Shown(by) : cell.last >= StampNow(by, s)
        /\ by[1] = "set" => cell.last >= obj[Owner(by)].extFrame
    BY <1>1, <2>2, <2>3 DEF Looked, Now, StampNow
  <2>5. cell.last \in Nat /\ \A s \in Shown(by) : Kept(cell.views[s], by, k, s, cell.last)
    BY <2>1, <2>3, <2>4 DEF Current
  <2>6. ASSUME NEW s \in Shown(by)
        PROVE  cell.views[s].image = frameImage(Owner(by), s, frame)
    <3>1. k % Swap[s] = frame % Swap[s] /\ frame % Swap[s] \in Copies(s)
      BY <2>1, <2>2, CopyOf DEF Now
    <3>2. StampNow(by, s) \in Nat
      BY <2>1, <3>1 DEF Stamped, StampNow
    <3>3. cell.views[s].image = <<"image", Owner(by), s, frame % Swap[s], StampNow(by, s)>> \/ cell.last < StampNow(by, s)
      BY <2>5, <3>1 DEF Kept, StampNow
    <3>4. cell.last >= StampNow(by, s)
      BY <2>4
    <3>5. cell.views[s].image = <<"image", Owner(by), s, frame % Swap[s], StampNow(by, s)>>
      BY <2>5, <3>2, <3>3, <3>4
    <3>6. QED
      BY <3>5 DEF frameImage, frameImageIdx, frameUpdated, resources, StampNow, stamp
  <2>7. by[1] = "set" => cell.ext = obj[Owner(by)].ext
    <3>1. SUFFICES ASSUME NEW x \in Holders, by = <<"set", x>>
                   PROVE  cell.ext = obj[Owner(by)].ext
      BY DEF Keepers
    <3>2. /\ Owner(by) = x[2] /\ k \in Mods(x[1]) /\ cell = Held(x).set[k] /\ by[1] = "set"
      BY <2>3, <3>1 DEF Owner, Rounds, Period, Mods, Cell
    <3>3. obj[Owner(by)].extFrame \in Nat
      BY <2>1 DEF Shaped, Timing
    <3>4. cell.ext = obj[Owner(by)].ext \/ cell.last < obj[Owner(by)].extFrame
      BY <2>4, <3>2 DEF ExternalCurrent
    <3>5. QED
      BY <2>4, <2>5, <3>2, <3>3, <3>4
  <2>8. QED
    BY <2>2, <2>3, <2>6, <2>7
<1>2. ASSUME NEW t \in DrawnTargets, NEW s \in Slots
      PROVE  tgt[t].fb[Mod("target")].views[s].image = frameImage(tgt[t].obj, s, frame)
  <2>1. PICK by : by = <<"fb", t>>
    OBVIOUS
  <2>2. /\ by \in Keepers /\ Owner(by) = t /\ Shown(by) = Slots /\ tgt[t].obj = t
        /\ Cell(by, Now(by)) = tgt[t].fb[Mod("target")]
    BY <2>1, DrawnAre DEF Keepers, Owner, Shown, Cell, Now, Period, Mod
  <2>3. QED
    BY <1>1, <2>2
<1>3. ASSUME NEW x \in DrawnHolders
      PROVE  /\ SetOf(x).ext = obj[Held(x).obj].ext
             /\ \A s \in Viewed[x[1]] : SetOf(x).views[s].image = frameImage(Held(x).obj, s, frame)
  <2>1. PICK by : by = <<"set", x>>
    OBVIOUS
  <2>2. x \in Holders /\ Held(x).obj = x[2] /\ x[2] \in DrawnTargets
    BY DrawnAre
  <2>3. /\ by \in Keepers /\ Owner(by) = x[2] /\ Shown(by) = Viewed[x[1]] /\ by[1] = "set"
        /\ Cell(by, Now(by)) = SetOf(x)
    BY <2>1, <2>2 DEF Keepers, Owner, Shown, Cell, Now, Period, Mod, SetOf
  <2>4. QED
    BY <1>1, <2>2, <2>3
<1>4. QED
  BY <1>2, <1>3 DEF DrawsOwnImages

-----------------------------------------------------------------------------
(* Nothing that is collected is still an object's or a keeper's.           *)
LEMMA GarbageApart ==
  Timing /\ Stamped /\ Current /\ GarbageOld => \A c \in Cmds : \A g \in collectors[c] : ~InCache(g)
<1> SUFFICES ASSUME Timing, Stamped, Current, NEW g, InCache(g), OldImage(g) \/ OldFramebuffer(g) \/ OldView(g)
             PROVE  FALSE
  BY DEF GarbageOld
<1>1. CASE CurrentImage(g)
  <2>1. PICK o \in Objs, s \in Slots : \E i \in Copies(s) : g = <<"image", o, s, i, stamp(o, s, i)>>
    BY <1>1 DEF CurrentImage
  <2>2. PICK i \in Copies(s) : g = <<"image", o, s, i, stamp(o, s, i)>>
    BY <2>1
  <2>3. stamp(o, s, i) \in Nat
    BY DEF Stamped
  <2>4. ~OldFramebuffer(g) /\ ~OldView(g)
    BY <2>2 DEF OldFramebuffer, OldView
  <2>5. OldImage(g)
    BY <2>4
  <2>6. QED
    BY <2>2, <2>3, <2>5 DEF OldImage
<1>2. CASE CachedFb(g)
  <2>1. PICK t \in Objs, k \in Mods("target") : tgt[t].fb[k] # None /\ g = <<"fb", t, k, tgt[t].fb[k].last>>
    BY <1>2 DEF CachedFb, Framebuffer
  <2>2. tgt[t].fb[k].last \in Nat
    <3>1. PICK by \in Keepers : by = <<"fb", t>>
      BY DEF Keepers
    <3>2. k \in Rounds(by) /\ Cell(by, k) = tgt[t].fb[k]
      BY <3>1 DEF Rounds, Mods, Period, Cell
    <3>3. QED
      BY <2>1, <3>2 DEF Current, Timing
  <2>3. ~OldImage(g) /\ ~OldView(g)
    BY <2>1 DEF OldImage, OldView
  <2>4. OldFramebuffer(g)
    BY <2>3
  <2>5. QED
    BY <2>1, <2>2, <2>4 DEF OldFramebuffer
<1>3. CASE CachedView(g)
  <2>1. PICK by \in Keepers : \E k \in Rounds(by), s \in Shown(by) : Cell(by, k) # None /\ g = View(Cell(by, k).views[s])
    BY <1>3 DEF CachedView
  <2>2. PICK k \in Rounds(by), s \in Shown(by) : Cell(by, k) # None /\ g = View(Cell(by, k).views[s])
    BY <2>1
  <2>3. PICK v : v = Cell(by, k).views[s]
    OBVIOUS
  <2>4. /\ v.by = by /\ v.made \in 1 .. Cell(by, k).last /\ v.made % Period(by) = k
        /\ \E f \in Nat : v.image = <<"image", Owner(by), s, k % Swap[s], f>>
    BY <2>2, <2>3 DEF Current, Kept
  <2>5. g = <<"view", v.image, v.made, by>>
    BY <2>2, <2>3, <2>4 DEF View
  <2>6. PICK f \in Nat : v.image = <<"image", Owner(by), s, k % Swap[s], f>>
    BY <2>4
  <2>7. ~OldImage(g) /\ ~OldFramebuffer(g)
    BY <2>5 DEF OldImage, OldFramebuffer
  <2>8. OldView(g)
    BY <2>7
  <2>9. PICK by2 \in Keepers : \E s2 \in Shown(by2), k2 \in Rounds(by2), m \in Nat : \E i2 \in Copies(s2), f2 \in Nat :
          /\ g = <<"view", <<"image", Owner(by2), s2, i2, f2>>, m, by2>>
          /\ m % Period(by2) = k2 /\ Cell(by2, k2) # None /\ m < Cell(by2, k2).views[s2].made
    BY <2>8 DEF OldView
  <2>10. PICK s2 \in Shown(by2), k2 \in Rounds(by2), m \in Nat : \E i2 \in Copies(s2), f2 \in Nat :
          /\ g = <<"view", <<"image", Owner(by2), s2, i2, f2>>, m, by2>>
          /\ m % Period(by2) = k2 /\ Cell(by2, k2) # None /\ m < Cell(by2, k2).views[s2].made
    BY <2>9
  <2>11. by2 = by /\ m = v.made /\ s2 = s
    BY <2>5, <2>6, <2>10
  <2>12. k2 = k /\ m < v.made
    BY <2>3, <2>4, <2>10, <2>11
  <2>13. QED
    BY <2>11, <2>12
<1>4. QED
  BY <1>1, <1>2, <1>3 DEF InCache

(* What leaves an object or a keeper is collected.                         *)
LEMMA Leaves ==
  ASSUME OneThread, Timing, Lockstep, Shaped, Stamped, Current, [Next]_vars, NEW u, InCache(u)
  PROVE  InCache(u)' \/ ((PreRender \/ Record) /\ u \in collectors[Active]')
<1>1. frame \in Nat /\ Active \in Cmds /\ DOMAIN collectors = Cmds
  BY CopyOf DEF Timing, Active, Shaped
<1>2. CASE CurrentImage(u)
  <2>1. PICK o \in Objs, s \in Slots : \E i \in Copies(s) : u = <<"image", o, s, i, stamp(o, s, i)>>
    BY <1>2 DEF CurrentImage
  <2>2. PICK i \in Copies(s) : u = <<"image", o, s, i, stamp(o, s, i)>>
    BY <2>1
  <2>3. CASE stamp(o, s, i)' = stamp(o, s, i)
    <3>1. u = <<"image", o, s, i, stamp(o, s, i)'>>
      BY <2>2, <2>3
    <3>2. CurrentImage(u)'
      BY <3>1 DEF CurrentImage
    <3>3. QED
      BY <3>2 DEF InCache
  <2>4. CASE PreRender /\ o \in DrawnObjects /\ i \in Replaced(o, s)
    <3>1. frameImage(o, s, i) = u
      BY <1>1, <2>2, CopyOf DEF frameImage, frameImageIdx, frameUpdated, resources, stamp
    <3>2. u \in UNION {UNION {{frameImage(p, r, j) : j \in Replaced(p, r)} : r \in Slots} : p \in DrawnObjects}
      BY <2>4, <3>1
    <3>3. u \in collectors'[Active] /\ Active' = Active
      BY <1>1, <2>4, <3>2 DEF PreRender, push, Active
    <3>4. QED
      BY <2>4, <3>3
  <2>5. QED
    BY <2>3, <2>4, Resizing, ImagesStay
<1>3. CASE CachedFb(u)
  <2>1. PICK t \in Objs, k \in Mods("target") : tgt[t].fb[k] # None /\ u = <<"fb", t, k, tgt[t].fb[k].last>>
    BY <1>3 DEF CachedFb, Framebuffer
  <2>2. PICK by \in Keepers : by = <<"fb", t>>
    BY DEF Keepers
  <2>3. /\ k \in Rounds(by) /\ Cell(by, k) = tgt[t].fb[k] /\ Cell(by, k)' = tgt'[t].fb[k] /\ Owner(by) = t
        /\ Now(by) = Mod("target") /\ Updated(by) = UpdatedFb(t)
    BY <2>2 DEF Rounds, Mods, Period, Cell, Owner, Now, Mod, Updated
  <2>4. CASE Cell(by, k)' = Cell(by, k)
    <3>1. tgt'[t].fb[k] # None /\ u = <<"fb", t, k, tgt'[t].fb[k].last>>
      BY <2>1, <2>3, <2>4
    <3>2. CachedFb(u)'
      BY <3>1 DEF CachedFb, Framebuffer
    <3>3. QED
      BY <3>2 DEF InCache
  <2>5. CASE Record /\ t \in DrawnTargets /\ k = Mod("target") /\ UpdatedFb(t) # tgt[t].fb[k]
    <3>1. u \in Discarded
      BY <2>1, <2>5, Discarding DEF Framebuffer
    <3>2. collectors' = [collectors EXCEPT ![Active] = collectors[Active] \cup Discarded] /\ frame' = frame
      BY <2>5, Recording
    <3>3. QED
      BY <1>1, <2>5, <3>1, <3>2 DEF Active
  <2>6. Record => Cell(by, k)' = IF Owner(by) \in DrawnTargets /\ k = Now(by) THEN Updated(by) ELSE Cell(by, k)
    BY <2>3, Recording
  <2>7. ~Record => Cell(by, k)' = Cell(by, k)
    BY <2>3, CellsStay
  <2>8. QED
    BY <2>3, <2>4, <2>5, <2>6, <2>7
<1>4. CASE CachedView(u)
  <2>1. PICK by \in Keepers : \E k \in Rounds(by), s \in Shown(by) : Cell(by, k) # None /\ u = View(Cell(by, k).views[s])
    BY <1>4 DEF CachedView
  <2>2. PICK k \in Rounds(by), s \in Shown(by) : Cell(by, k) # None /\ u = View(Cell(by, k).views[s])
    BY <2>1
  <2>3. ASSUME NEW new, new = Cell(by, k)', new # None, new.views[s] = Cell(by, k).views[s]
        PROVE  InCache(u)'
    <3>1. new # None /\ u = View(new.views[s])
      BY <2>2, <2>3
    <3>2. CachedView(u)'
      BY <2>3, <3>1 DEF CachedView, View
    <3>3. QED
      BY <3>2 DEF InCache
  <2>4. CASE ~Record
    BY <2>2, <2>3, <2>4, CellsStay
  <2>5. CASE Record
    <3>1. /\ Cell(by, k)' = IF Owner(by) \in DrawnTargets /\ k = Now(by) THEN Updated(by) ELSE Cell(by, k)
          /\ collectors' = [collectors EXCEPT ![Active] = collectors[Active] \cup Discarded] /\ frame' = frame
      BY <2>5, Recording
    <3>2. CASE Owner(by) \in DrawnTargets /\ k = Now(by)
      <4>1. PICK new : new = Updated(by) /\ new = Cell(by, k)'
        BY <3>1, <3>2
      <4>2. new # None
        <5>1. new = Cell(by, k) \/ new.last = frame
          BY <3>2, <4>1, Updating
        <5>2. QED
          BY <2>2, <5>1 DEF None, Timing
      <4>3. new.views[s] = Cell(by, k).views[s] \/ u \in Discarded
        BY <2>2, <3>2, <4>1, Discarding
      <4>4. QED
        BY <1>1, <2>3, <2>5, <3>1, <4>1, <4>2, <4>3 DEF Active
    <3>3. CASE ~(Owner(by) \in DrawnTargets /\ k = Now(by))
      BY <2>2, <2>3, <3>1, <3>3
    <3>4. QED
      BY <3>2, <3>3
  <2>6. QED
    BY <2>4, <2>5
<1>5. QED
  BY <1>2, <1>3, <1>4 DEF InCache

(* What a step makes is no older than what it replaces.                    *)
LEMMA NewerCells ==
  ASSUME OneThread, Timing, Lockstep, Shaped, Stamped, Current, [Next]_vars,
         NEW by \in Keepers, NEW k \in Rounds(by), Cell(by, k) # None
  PROVE  /\ Cell(by, k)' # None /\ Cell(by, k).last \in Nat
         /\ Cell(by, k)'.last = Cell(by, k).last \/ (Cell(by, k)'.last = frame /\ Cell(by, k).last < frame)
         /\ \A s \in Shown(by) :
              /\ Cell(by, k).views[s].made \in Nat
              /\ \/ Cell(by, k)'.views[s] = Cell(by, k).views[s]
                 \/ Cell(by, k)'.views[s].made = frame /\ Cell(by, k).views[s].made < frame
<1>1. frame \in Nat \ {0} /\ Cell(by, k).last \in 1 .. (IF phase = "recorded" THEN frame ELSE frame - 1)
      /\ \A s \in Shown(by) : Cell(by, k).views[s].made \in 1 .. Cell(by, k).last
  BY DEF Timing, Current, Kept
<1>2. CASE Cell(by, k)' = Cell(by, k)
  <2>1. PICK cell : cell = Cell(by, k) /\ cell = Cell(by, k)'
    BY <1>2
  <2>2. QED
    BY <1>1, <2>1
<1>3. CASE Record /\ Owner(by) \in DrawnTargets /\ k = Now(by)
  <2>1. phase = "resized" /\ Cell(by, k)' = Updated(by)
    BY <1>3, Recording
  <2>2. PICK new : new = Updated(by) /\ new = Cell(by, k)'
    BY <2>1
  <2>3. PICK cell : cell = Cell(by, k)
    OBVIOUS
  <2>4. \/ new = cell
        \/ /\ new.last = frame
           /\ \A s \in Shown(by) : new.views[s] = createView(by, Owner(by), s) \/ new.views[s] = cell.views[s]
    BY <1>3, <2>2, <2>3, Updating
  <2>5. \A s \in Shown(by) : createView(by, Owner(by), s).made = frame
    BY DEF createView
  <2>6. cell.last \in 1 .. frame - 1 /\ \A s \in Shown(by) : cell.views[s].made \in 1 .. frame - 1
    BY <1>1, <2>1, <2>3
  <2>7. new # None
    BY <1>1, <2>3, <2>4 DEF None
  <2>8. QED
    BY <1>1, <2>2, <2>3, <2>4, <2>5, <2>6, <2>7
<1>4. QED
  BY <1>2, <1>3, CellsStay, Recording

(* An image that replaces another has a later stamp.                       *)
LEMMA NewerImages ==
  ASSUME OneThread, Timing, Lockstep, Shaped, Stamped, [Next]_vars, NEW o \in Objs, NEW s \in Slots, NEW i \in Copies(s)
  PROVE  stamp(o, s, i) \in Nat /\ stamp(o, s, i)' \in Nat /\ stamp(o, s, i) <= stamp(o, s, i)'
<1>1. stamp(o, s, i) \in Nat /\ frame \in Nat
  BY DEF Stamped, Timing
<1>2. \/ stamp(o, s, i)' = stamp(o, s, i)
      \/ stamp(o, s, i) < frame /\ stamp(o, s, i)' = Stamp(s, i)
  BY Resizing, ImagesStay
<1>3. Stamp(s, i) \in Nat /\ frame <= Stamp(s, i)
  BY <1>1, StampNext
<1>4. QED
  BY <1>1, <1>2, <1>3

(* Collectors, step by step.                                               *)
LEMMA Collected ==
  ASSUME OneThread, Timing, Lockstep, Shaped, [Next]_vars, NEW c \in Cmds
  PROVE  \/ collectors'[c] = collectors[c] /\ (PreRender \/ Record => c # Active)
         \/ collectors'[c] = {} /\ (Join \/ Close \/ (Begin /\ c = Active))
         \/ PreRender /\ c = Active /\ collectors'[c] = collectors[c]
              \cup UNION {UNION {{frameImage(o, s, i) : i \in Replaced(o, s)} : s \in Slots} : o \in DrawnObjects}
         \/ Record /\ c = Active /\ collectors'[c] = collectors[c] \cup Discarded
<1>1. DOMAIN collectors = Cmds
  BY DEF Shaped
<1>2. CASE Between \/ Submit \/ Finish
  <2>1. collectors' = collectors
    BY <1>2 DEF Between, Submit, Finish
  <2>2. ~PreRender /\ ~Record
    BY <1>2, Guards DEF Between, Submit, Finish
  <2>3. QED
    BY <2>1, <2>2
<1>3. CASE Join \/ Close
  <2>1. collectors'[c] = {}
    BY <1>3 DEF Join, Close, collect
  <2>2. QED
    BY <1>3, <2>1
<1>4. CASE Begin
  <2>1. ~PreRender /\ ~Record
    BY <1>4 DEF Begin, PreRender, Record, Idle
  <2>2. IF c = Active THEN collectors'[c] = {} ELSE collectors'[c] = collectors[c]
    BY <1>4 DEF Begin, collect
  <2>3. QED
    BY <1>4, <2>1, <2>2
<1>5. CASE PreRender
  <2>1. ~Record
    BY <1>5 DEF PreRender, Record
  <2>2. IF c = Active THEN collectors'[c] = collectors[c]
              \cup UNION {UNION {{frameImage(o, s, i) : i \in Replaced(o, s)} : s \in Slots} : o \in DrawnObjects}
        ELSE collectors'[c] = collectors[c]
    BY <1>1, <1>5 DEF PreRender, push
  <2>3. QED
    BY <1>5, <2>1, <2>2
<1>6. CASE Record
  <2>1. ~PreRender
    BY <1>6 DEF PreRender, Record
  <2>2. collectors' = [collectors EXCEPT ![Active] = collectors[Active] \cup Discarded]
    BY <1>6, Recording
  <2>3. QED
    BY <1>1, <1>6, <2>1, <2>2
<1>7. QED
  BY <1>2, <1>3, <1>4, <1>5, <1>6, Calls DEF Next, Timing

(* What is collected has been replaced by something newer.                 *)
LEMMA GarbageOldKept ==
  ASSUME OneThread, Timing, Lockstep, Shaped, Stamped, Current, GarbageOld, [Next]_vars
  PROVE  GarbageOld'
<1>1. ASSUME NEW g, OldImage(g)
      PROVE  OldImage(g)'
  <2>1. PICK o \in Objs, s \in Slots : \E i \in Copies(s), f \in Nat : g = <<"image", o, s, i, f>> /\ f < stamp(o, s, i)
    BY <1>1 DEF OldImage
  <2>2. PICK i \in Copies(s), f \in Nat : g = <<"image", o, s, i, f>> /\ f < stamp(o, s, i)
    BY <2>1
  <2>3. f < stamp(o, s, i)'
    BY <2>2, NewerImages
  <2>4. QED
    BY <2>2, <2>3 DEF OldImage
<1>2. ASSUME NEW g, OldFramebuffer(g)
      PROVE  OldFramebuffer(g)'
  <2>1. PICK t \in Objs, k \in Mods("target"), f \in Nat :
          g = <<"fb", t, k, f>> /\ tgt[t].fb[k] # None /\ f < tgt[t].fb[k].last
    BY <1>2 DEF OldFramebuffer
  <2>2. PICK by \in Keepers : by = <<"fb", t>>
    BY DEF Keepers
  <2>3. k \in Rounds(by) /\ Cell(by, k) = tgt[t].fb[k] /\ Cell(by, k)' = tgt'[t].fb[k]
    BY <2>2 DEF Rounds, Mods, Period, Cell
  <2>4. tgt'[t].fb[k] # None /\ f < tgt'[t].fb[k].last
    BY <2>1, <2>3, NewerCells DEF Timing
  <2>5. QED
    BY <2>1, <2>4 DEF OldFramebuffer
<1>3. ASSUME NEW g, OldView(g)
      PROVE  OldView(g)'
  <2>1. PICK by \in Keepers : \E s \in Shown(by), k \in Rounds(by), f \in Nat : \E i \in Copies(s), f2 \in Nat :
          /\ g = <<"view", <<"image", Owner(by), s, i, f2>>, f, by>>
          /\ f % Period(by) = k /\ Cell(by, k) # None /\ f < Cell(by, k).views[s].made
    BY <1>3 DEF OldView
  <2>2. PICK s \in Shown(by), k \in Rounds(by), f \in Nat : \E i \in Copies(s), f2 \in Nat :
          /\ g = <<"view", <<"image", Owner(by), s, i, f2>>, f, by>>
          /\ f % Period(by) = k /\ Cell(by, k) # None /\ f < Cell(by, k).views[s].made
    BY <2>1
  <2>3. PICK new : new = Cell(by, k)'
    OBVIOUS
  <2>4. PICK cell : cell = Cell(by, k)
    OBVIOUS
  <2>5. /\ new # None /\ cell.views[s].made \in Nat
        /\ new.views[s] = cell.views[s] \/ (new.views[s].made = frame /\ cell.views[s].made < frame)
    BY <2>2, <2>3, <2>4, NewerCells
  <2>6. f < new.views[s].made
    BY <2>2, <2>4, <2>5 DEF Timing
  <2>7. QED
    BY <2>2, <2>3, <2>5, <2>6 DEF OldView
<1>4. \A g : OldImage(g) \/ OldFramebuffer(g) \/ OldView(g) => (OldImage(g) \/ OldFramebuffer(g) \/ OldView(g))'
  BY <1>1, <1>2, <1>3
<1>5. ASSUME NEW o \in DrawnObjects, NEW s \in Slots, NEW i \in Replaced(o, s), PreRender,
             NEW g, g = frameImage(o, s, i)
      PROVE  OldImage(g)'
  <2>1. o \in Objs /\ i \in Copies(s) /\ frame \in Nat
    BY <1>5 DEF DrawnObjects, Lockstep, Pool, Replaced, Copies, Timing
  <2>2. frameImage(o, s, i) = <<"image", o, s, i, stamp(o, s, i)>>
    BY <2>1, CopyOf DEF frameImage, frameImageIdx, frameUpdated, resources, stamp
  <2>3. PICK f \in Nat : f = stamp(o, s, i)
    BY <2>1 DEF Stamped
  <2>4. f < stamp(o, s, i)'
    <3>1. \/ stamp(o, s, i)' = Stamp(s, i) /\ stamp(o, s, i) < frame
          \/ stamp(o, s, i)' = stamp(o, s, i)
      BY <1>5, <2>1, Resizing
    <3>2. stamp(o, s, i) < frame
      BY <1>5, <2>1, Resizing
    <3>3. stamp(o, s, i)' = applyPendingResize(o, s).stamp[i]
      <4>1. obj'[o] = [obj[o] EXCEPT !.images = [r \in Slots |-> applyPendingResize(o, r)]] /\ "images" \in DOMAIN obj[o]
        BY <1>5, <2>1 DEF PreRender, Shaped
      <4>2. QED
        BY <4>1 DEF stamp
    <3>4. applyPendingResize(o, s).stamp[i] = Stamp(s, i)
      BY <1>5, <2>1 DEF applyPendingResize, Copies
    <3>5. Stamp(s, i) \in Nat /\ frame <= Stamp(s, i)
      BY <2>1, StampNext
    <3>6. QED
      BY <2>1, <2>3, <3>2, <3>3, <3>4, <3>5
  <2>5. g = <<"image", o, s, i, f>>
    BY <1>5, <2>2, <2>3
  <2>6. QED
    BY <2>1, <2>4, <2>5 DEF OldImage
<1>6. ASSUME Record, NEW t \in DrawnTargets, NEW g, g = Framebuffer(t, Mod("target")), tgt[t].fb[Mod("target")] # None,
             UpdatedFb(t).last = frame
      PROVE  OldFramebuffer(g)'
  <2>1. PICK by \in Keepers : by = <<"fb", t>>
    BY DrawnAre DEF Keepers
  <2>2. PICK k \in Mods("target") : k = Mod("target")
    BY CopyOf DEF Timing, Mod
  <2>3. /\ t \in Objs /\ k \in Rounds(by) /\ Cell(by, k) = tgt[t].fb[k] /\ Cell(by, k)' = tgt'[t].fb[k]
        /\ Owner(by) = t /\ k = Now(by) /\ Updated(by) = UpdatedFb(t)
    BY <2>1, <2>2, DrawnAre DEF Rounds, Mods, Period, Cell, Owner, Now, Mod, Updated
  <2>4. tgt'[t].fb[k] = UpdatedFb(t) /\ phase = "resized"
    BY <1>6, <2>3, Recording
  <2>5. tgt[t].fb[k].last \in 1 .. frame - 1 /\ frame \in Nat
    BY <1>6, <2>2, <2>3, <2>4 DEF Current, Timing
  <2>6. tgt'[t].fb[k] # None /\ tgt[t].fb[k].last < tgt'[t].fb[k].last
    BY <1>6, <2>4, <2>5 DEF None
  <2>7. PICK f \in Nat : f = tgt[t].fb[k].last
    BY <2>5
  <2>8. g = <<"fb", t, k, f>>
    BY <1>6, <2>2, <2>7 DEF Framebuffer
  <2>9. QED
    BY <2>3, <2>6, <2>7, <2>8 DEF OldFramebuffer
<1>7. ASSUME Record, NEW by \in Keepers, Owner(by) \in DrawnTargets, Cell(by, Now(by)) # None, NEW s \in Shown(by),
             NEW g, g = View(Cell(by, Now(by)).views[s]), Updated(by).views[s] = createView(by, Owner(by), s)
      PROVE  OldView(g)'
  <2>1. PICK k \in Rounds(by) : k = Now(by)
    BY CopyOf DEF Timing, Now
  <2>2. Cell(by, k)' = Updated(by) /\ phase = "resized"
    BY <1>7, <2>1, Recording
  <2>3. PICK new : new = Cell(by, k)' /\ new = Updated(by)
    BY <2>2
  <2>4. PICK v : v = Cell(by, k).views[s]
    OBVIOUS
  <2>5. /\ v.by = by /\ v.made \in 1 .. Cell(by, k).last /\ v.made % Period(by) = k
        /\ \E f \in Nat : v.image = <<"image", Owner(by), s, k % Swap[s], f>>
        /\ Cell(by, k).last \in 1 .. frame - 1 /\ frame \in Nat
    BY <1>7, <2>1, <2>2, <2>4 DEF Current, Kept, Timing
  <2>6. PICK f2 \in Nat : v.image = <<"image", Owner(by), s, k % Swap[s], f2>>
    BY <2>5
  <2>7. PICK i \in Copies(s) : i = k % Swap[s]
    <3>1. k \in Nat /\ s \in Slots
      BY KeeperTurns DEF Rounds
    <3>2. QED
      BY <3>1, CopyOf
  <2>8. PICK f \in Nat : f = v.made
    BY <2>5
  <2>9. g = <<"view", <<"image", Owner(by), s, i, f2>>, f, by>>
    BY <1>7, <2>1, <2>4, <2>5, <2>6, <2>7, <2>8 DEF View
  <2>10. new.views[s].made = frame
    BY <1>7, <2>3 DEF createView
  <2>11. f < new.views[s].made /\ f % Period(by) = k
    BY <2>5, <2>8, <2>10
  <2>12. new # None
    <3>1. Cell(by, k)' # None
      BY <1>7, <2>1, NewerCells
    <3>2. QED
      BY <2>3, <3>1
  <2>13. QED
    BY <2>3, <2>9, <2>11, <2>12 DEF OldView
<1>8. ASSUME NEW c \in Cmds, NEW g \in collectors'[c]
      PROVE  (OldImage(g) \/ OldFramebuffer(g) \/ OldView(g))'
  <2>1. CASE g \in collectors[c]
    BY <1>4, <2>1 DEF GarbageOld
  <2>2. CASE PreRender /\ g \in UNION {UNION {{frameImage(o, s, i) : i \in Replaced(o, s)} : s \in Slots} : o \in DrawnObjects}
    BY <1>5, <2>2
  <2>3. CASE Record /\ g \in Discarded
    <3>1. CASE \E t \in DrawnTargets : /\ g = Framebuffer(t, Mod("target")) /\ tgt[t].fb[Mod("target")] # None
                                        /\ UpdatedFb(t).last = frame
      BY <1>6, <2>3, <3>1
    <3>2. CASE \E by \in Keepers : /\ Owner(by) \in DrawnTargets /\ Cell(by, Now(by)) # None
                                    /\ \E s \in Shown(by) : /\ g = View(Cell(by, Now(by)).views[s])
                                                            /\ Updated(by).views[s] = createView(by, Owner(by), s)
      BY <1>7, <2>3, <3>2
    <3>3. QED
      BY <2>3, <3>1, <3>2, Discarding
  <2>4. QED
    BY <1>8, <2>1, <2>2, <2>3, Collected
<1>9. QED
  BY <1>8 DEF GarbageOld

-----------------------------------------------------------------------------
(* What a frame draws with, once it is recorded, is what its keepers and    *)
(* the objects have.                                                       *)
LEMMA UsesAre ==
  ASSUME OneThread, Timing, Lockstep, Shaped, Stamped, Current, Looked, [Next]_vars, Record, NEW u \in Uses
  PROVE  \/ u[1] \in Destroyable /\ InCache(u)'
         \/ u[1] = "host"
         \/ \E x \in DrawnHolders : u = DescriptorSet(x)
<1>1. /\ phase' = "recorded" /\ frame' = frame /\ DrawnTargets' = DrawnTargets /\ obj' = obj
      /\ Current' /\ Looked'
  BY Recording, CurrentKept, LookedKept
<1>2. ASSUME NEW by \in Keepers, Owner(by) \in DrawnTargets
      PROVE  /\ Updated(by) # None
             /\ \A s \in Shown(by) : \A v : v = Updated(by).views[s] => CachedView(View(v))' /\ CurrentImage(v.image)'
  <2>1. frame \in Nat /\ Owner(by) \in Objs /\ Shown(by) \subseteq Slots
    BY KeeperTurns DEF Timing
  <2>2. PICK k \in Rounds(by) : k = Now(by)
    BY <2>1, CopyOf DEF Now
  <2>3. PICK new : new = Updated(by) /\ new = Cell(by, k)'
    BY <1>2, <2>2, Recording
  <2>4. Cell(by, frame % Period(by))' = Cell(by, k)'
    BY <1>1, <2>2 DEF Now, Cell
  <2>5. /\ new # None /\ \A s \in Shown(by) : new.last >= StampNow(by, s)
    BY <1>1, <1>2, <2>3, <2>4 DEF Looked, StampNow, stamp
  <2>6. ASSUME NEW s \in Shown(by)
        PROVE  CachedView(View(new.views[s]))' /\ CurrentImage(new.views[s].image)'
    <3>1. PICK v : v = new.views[s]
      OBVIOUS
    <3>2. new.last \in Nat /\ Kept(v, by, k, s, new.last)'
      BY <1>1, <2>1, <2>3, <2>5, <3>1 DEF Current
    <3>3. CachedView(View(v))'
      BY <2>3, <2>5, <3>1 DEF CachedView, View
    <3>4. PICK i \in Copies(s) : i = k % Swap[s] /\ i = frame % Swap[s]
      BY <2>1, <2>2, CopyOf DEF Now
    <3>5. stamp(Owner(by), s, i)' = StampNow(by, s) /\ StampNow(by, s) \in Nat
      BY <1>1, <2>1, <3>4 DEF StampNow, stamp, Stamped
    <3>6. v.image = <<"image", Owner(by), s, i, stamp(Owner(by), s, i)'>>
      BY <2>5, <3>2, <3>4, <3>5 DEF Kept
    <3>7. CurrentImage(v.image)'
      BY <2>1, <3>6 DEF CurrentImage
    <3>8. QED
      BY <3>1, <3>3, <3>7
  <2>7. QED
    BY <2>3, <2>5, <2>6
<1>3. ASSUME NEW t \in DrawnTargets, NEW id, id = <<"fb", t, Mod("target"), UpdatedFb(t).last>>
      PROVE  CachedFb(id)'
  <2>1. PICK by \in Keepers : by = <<"fb", t>>
    BY DrawnAre DEF Keepers
  <2>2. PICK k \in Mods("target") : k = Mod("target")
    BY CopyOf DEF Timing, Mod
  <2>3. /\ t \in Objs /\ k \in Rounds(by) /\ Cell(by, k)' = tgt'[t].fb[k]
        /\ Owner(by) = t /\ k = Now(by) /\ Updated(by) = UpdatedFb(t)
    BY <2>1, <2>2, DrawnAre DEF Rounds, Mods, Period, Cell, Owner, Now, Mod, Updated
  <2>4. PICK new : new = UpdatedFb(t) /\ new = tgt'[t].fb[k]
    BY <2>3, Recording
  <2>5. new # None
    BY <1>2, <2>3, <2>4
  <2>6. id = <<"fb", t, k, new.last>>
    BY <1>3, <2>2, <2>4
  <2>7. QED
    BY <2>3, <2>4, <2>5, <2>6 DEF CachedFb, Framebuffer
<1>4. /\ \A t \in DrawnTargets : /\ <<"fb", t>> \in Keepers /\ Owner(<<"fb", t>>) = t /\ Shown(<<"fb", t>>) = Slots
                                 /\ Updated(<<"fb", t>>) = UpdatedFb(t)
      /\ \A x \in DrawnHolders : /\ <<"set", x>> \in Keepers /\ Owner(<<"set", x>>) \in DrawnTargets
                                 /\ Shown(<<"set", x>>) = Viewed[x[1]] /\ Updated(<<"set", x>>) = UpdatedSet(x)
  BY DrawnAre DEF Keepers, Owner, Shown, Updated
<1>5. ASSUME NEW v, \/ \E t \in DrawnTargets, s \in Slots : v = UpdatedFb(t).views[s]
                    \/ \E x \in DrawnHolders : \E s \in Viewed[x[1]] : v = UpdatedSet(x).views[s]
      PROVE  CachedView(View(v))' /\ CurrentImage(v.image)'
  <2>1. PICK by \in Keepers : Owner(by) \in DrawnTargets /\ \E s \in Shown(by) : v = Updated(by).views[s]
    <3>1. CASE \E t \in DrawnTargets, s \in Slots : v = UpdatedFb(t).views[s]
      <4>1. PICK t \in DrawnTargets : \E s \in Slots : v = UpdatedFb(t).views[s]
        BY <3>1
      <4>2. PICK by : by = <<"fb", t>>
        OBVIOUS
      <4>3. by \in Keepers /\ Owner(by) = t /\ Shown(by) = Slots /\ Updated(by) = UpdatedFb(t)
        BY <1>4, <4>2
      <4>4. QED
        BY <4>1, <4>3
    <3>2. CASE \E x \in DrawnHolders : \E s \in Viewed[x[1]] : v = UpdatedSet(x).views[s]
      <4>1. PICK x \in DrawnHolders : \E s \in Viewed[x[1]] : v = UpdatedSet(x).views[s]
        BY <3>2
      <4>2. PICK by : by = <<"set", x>>
        OBVIOUS
      <4>3. by \in Keepers /\ Owner(by) \in DrawnTargets /\ Shown(by) = Viewed[x[1]] /\ Updated(by) = UpdatedSet(x)
        BY <1>4, <4>2
      <4>4. QED
        BY <4>1, <4>3
    <3>3. QED
      BY <1>5, <3>1, <3>2
  <2>2. QED
    BY <1>2, <2>1
<1>6. PICK views : /\ views = (UNION {{UpdatedFb(t).views[s] : s \in Slots} : t \in DrawnTargets})
                              \cup (UNION {{UpdatedSet(x).views[s] : s \in Viewed[x[1]]} : x \in DrawnHolders})
                   /\ Uses = {<<"fb", t, Mod("target"), UpdatedFb(t).last>> : t \in DrawnTargets}
                              \cup {DescriptorSet(x) : x \in DrawnHolders}
                              \cup {HostBuffer(Held(x).obj) : x \in DrawnHolders} \cup {View(v) : v \in views} \cup {v.image : v \in views}
  BY DEF Uses
<1>7. \A v \in views : \/ \E t \in DrawnTargets, s \in Slots : v = UpdatedFb(t).views[s]
                       \/ \E x \in DrawnHolders : \E s \in Viewed[x[1]] : v = UpdatedSet(x).views[s]
  BY <1>6
<1>8. CASE \E v \in views : u = View(v) \/ u = v.image
  <2>1. PICK v \in views : u = View(v) \/ u = v.image
    BY <1>8
  <2>2. CachedView(View(v))' /\ CurrentImage(v.image)'
    BY <1>5, <1>7
  <2>3. View(v)' = View(v) /\ View(v)[1] = "view"
    BY DEF View
  <2>4. CASE u = View(v)
    BY <2>2, <2>3, <2>4 DEF InCache, Destroyable
  <2>5. CASE u = v.image
    <3>1. CurrentImage(u)'
      BY <2>2, <2>5
    <3>2. u[1] = "image"
      BY <3>1 DEF CurrentImage
    <3>3. QED
      BY <3>1, <3>2 DEF InCache, Destroyable
  <2>6. QED
    BY <2>1, <2>4, <2>5
<1>9. CASE \E t \in DrawnTargets : u = <<"fb", t, Mod("target"), UpdatedFb(t).last>>
  BY <1>3, <1>9 DEF InCache, Destroyable
<1>10. CASE \E x \in DrawnHolders : u = HostBuffer(Held(x).obj)
  BY <1>10 DEF HostBuffer
<1>11. QED
  BY <1>6, <1>8, <1>9, <1>10

-----------------------------------------------------------------------------
(* What is in flight and what has been recorded, step by step.             *)
LEMMA Flight ==
  ASSUME OneThread, Timing, Lockstep, Shaped, [Next]_vars
  PROVE  /\ \A f \in InFlight' : \/ f \in InFlight /\ UsedBy(f)' = UsedBy(f)
                                 \/ Submit /\ f = frame /\ UsedBy(f)' = recorded
         /\ ~Submit => InFlight' \subseteq InFlight /\ \A f : UsedBy(f)' = UsedBy(f)
         /\ \/ recorded' = recorded /\ ~Submit /\ ~Begin /\ ~PreRender /\ ~Record
            \/ recorded' = {} /\ Submit
            \/ recorded' = {<<"cmd", Active>>} /\ Begin
            \/ PreRender /\ recorded' = recorded
                 \cup UNION {UNION {{frameImage(o, s, i) : i \in Replaced(o, s)} : s \in Slots} : o \in DrawnObjects}
            \/ Record /\ recorded' = recorded \cup Uses
<1>1. frame \in Nat \ {0} /\ done \in Nat /\ done < frame /\ cmdFrameswapCount \in Nat \ {0} /\ DOMAIN work = Cmds
      /\ frame <= done + cmdFrameswapCount + (IF phase \in {"idle", "closed"} THEN 1 ELSE 0)
  BY Turns DEF Timing, Shaped
<1>2. CASE ~Submit
  <2>1. frame' = frame /\ work' = work /\ (done' = done \/ done' = done + 1)
    BY <1>1, <1>2, Calls DEF Next, Between, Join, Close, Begin, PreRender, Record, Finish
  <2>2. InFlight' \subseteq InFlight
    BY <1>1, <2>1 DEF InFlight
  <2>3. \A f : UsedBy(f)' = UsedBy(f)
    BY <2>1 DEF UsedBy
  <2>4. \/ recorded' = recorded /\ ~Begin /\ ~PreRender /\ ~Record
        \/ recorded' = {<<"cmd", Active>>} /\ Begin
        \/ PreRender /\ recorded' = recorded
                 \cup UNION {UNION {{frameImage(o, s, i) : i \in Replaced(o, s)} : s \in Slots} : o \in DrawnObjects}
        \/ Record /\ recorded' = recorded \cup Uses
    <3>1. CASE Between \/ Finish \/ Join
      <4>1. recorded' = recorded /\ phase' = phase
        BY <3>1 DEF Between, Finish, Join
      <4>2. QED
        BY <4>1, Guards
    <3>2. CASE Close
      <4>1. recorded' = recorded /\ phase = "idle" /\ phase' = "closed"
        BY <3>2 DEF Close
      <4>2. QED
        BY <4>1, Guards
    <3>3. CASE Begin
      BY <3>3 DEF Begin
    <3>4. CASE PreRender
      BY <3>4 DEF PreRender
    <3>5. CASE Record
      BY <3>5 DEF Record
    <3>6. QED
      BY <1>1, <1>2, <3>1, <3>2, <3>3, <3>4, <3>5, Calls DEF Next
  <2>5. QED
    BY <1>2, <2>2, <2>3, <2>4
<1>3. CASE Submit
  <2>1. frame' = frame + 1 /\ done' = done /\ work' = [work EXCEPT ![Active] = recorded] /\ recorded' = {} /\ phase = "recorded"
    BY <1>3 DEF Submit
  <2>2. Active \in Cmds /\ Active = frame % cmdFrameswapCount
    BY <1>1, CopyOf DEF Active
  <2>3. ASSUME NEW f \in InFlight'
        PROVE  \/ f \in InFlight /\ UsedBy(f)' = UsedBy(f)
               \/ f = frame /\ UsedBy(f)' = recorded
    <3>1. f \in 1 .. frame /\ f > done
      BY <1>1, <2>1, <2>3 DEF InFlight
    <3>2. UsedBy(f)' = work'[f % cmdFrameswapCount]
      BY DEF UsedBy
    <3>3. CASE f = frame
      BY <1>1, <2>1, <2>2, <3>2, <3>3
    <3>4. CASE f < frame
      <4>1. f \in InFlight
        BY <1>1, <3>1, <3>4 DEF InFlight
      <4>2. f % cmdFrameswapCount # frame % cmdFrameswapCount
        <5>1. SUFFICES ASSUME frame % cmdFrameswapCount = f % cmdFrameswapCount
              PROVE  FALSE
          OBVIOUS
        <5>2. f \in Int /\ frame \in Int /\ f < frame /\ frame < f + cmdFrameswapCount
          BY <1>1, <2>1, <3>1, <3>4
        <5>3. f + cmdFrameswapCount <= frame
          BY <1>1, <5>1, <5>2, SameRemainder
        <5>4. QED
          BY <1>1, <5>2, <5>3
      <4>3. work'[f % cmdFrameswapCount] = work[f % cmdFrameswapCount]
        <5>1. f % cmdFrameswapCount \in Cmds
          BY <1>1, <3>1, CopyOf
        <5>2. QED
          BY <1>1, <2>1, <2>2, <4>2, <5>1
      <4>4. QED
        BY <3>2, <4>1, <4>3 DEF UsedBy
    <3>5. QED
      BY <1>1, <3>1, <3>3, <3>4
  <2>4. QED
    BY <1>3, <2>1, <2>3
<1>4. QED
  BY <1>2, <1>3

(* A frame is given its own command buffer, and its own copies of sets.    *)
LEMMA OwnNamesKept ==
  ASSUME OneThread, Timing, Lockstep, Shaped, Stamped, Current, Looked, OwnNames, [Next]_vars
  PROVE  OwnNames'
<1>1. ASSUME NEW f \in InFlight', NEW u \in UsedBy(f)'
      PROVE  Named(u, f)
  <2>1. CASE f \in InFlight /\ UsedBy(f)' = UsedBy(f)
    BY <1>1, <2>1 DEF OwnNames
  <2>2. CASE f = frame /\ UsedBy(f)' = recorded
    BY <1>1, <2>2 DEF OwnNames
  <2>3. QED
    BY <2>1, <2>2, Flight
<1>2. ASSUME NEW u \in recorded'
      PROVE  Named(u, frame')
  <2>1. frame' = frame
    BY <1>2, Flight, Phases DEF Submit
  <2>2. CASE u \in recorded
    BY <2>1, <2>2 DEF OwnNames
  <2>3. CASE u = <<"cmd", Active>>
    BY <2>1, <2>3 DEF Named, Active
  <2>4. CASE u \in UNION {UNION {{frameImage(o, s, i) : i \in Replaced(o, s)} : s \in Slots} : o \in DrawnObjects}
    <3>1. u[1] = "image"
      BY <2>4 DEF frameImage
    <3>2. QED
      BY <3>1 DEF Named
  <2>5. CASE Record /\ u \in Uses
    <3>1. CASE u[1] \in Destroyable \/ u[1] = "host"
      BY <3>1 DEF Named, Destroyable
    <3>2. CASE \E x \in DrawnHolders : u = DescriptorSet(x)
      <4>1. PICK x \in DrawnHolders : u = <<"set", x, frame % maxFrameswap(x[1])>>
        BY <3>2 DEF DescriptorSet, Mod
      <4>2. x \in Holders
        BY DrawnAre
      <4>3. QED
        BY <2>1, <4>1, <4>2 DEF Named
    <3>3. QED
      BY <2>5, <3>1, <3>2, UsesAre
  <2>6. QED
    BY <1>2, <2>2, <2>3, <2>4, <2>5, Flight
<1>3. QED
  BY <1>1, <1>2 DEF OwnNames, Named

(* Waiting: no frame in flight uses what the CPU is writing.               *)
LEMMA CpuWaitsKept ==
  ASSUME OneThread, Timing, Lockstep, Shaped, Stamped, OwnNames, CpuWaits, [Next]_vars
  PROVE  CpuWaits'
<1>1. /\ frame \in Nat \ {0} /\ done \in Nat /\ done < frame /\ cmdFrameswapCount \in Nat \ {0}
      /\ \A f \in InFlight : f \in Nat /\ f >= 1 /\ f > done /\ f < frame
  BY Turns DEF Timing, InFlight
<1>2. ASSUME ~Submit, touched' = touched, phase' = phase
      PROVE  CpuWaits'
  <2>1. frame' = frame /\ InFlight' \subseteq InFlight /\ \A f : UsedBy(f)' = UsedBy(f)
    BY <1>2, Phases, Flight
  <2>2. GivenToGpu' \subseteq GivenToGpu
    BY <2>1 DEF GivenToGpu
  <2>3. QED
    BY <1>2, <2>1, <2>2 DEF CpuWaits
<1>3. ASSUME touched' = {}, phase' # "closed"
      PROVE  CpuWaits'
  BY <1>3 DEF CpuWaits
<1>4. ASSUME NEW o \in objects.allocated, Write(o)
      PROVE  CpuWaits'
  <2>1. touched' = {<<"host", o, frame % HostSwap>>} /\ phase' = "idle"
    BY <1>4 DEF Write, Idle, HostBuffer
  <2>2. touched' # {<<"join">>}
    <3>1. <<"host", o, frame % HostSwap>> # <<"join">>
      OBVIOUS
    <3>2. QED
      BY <2>1, <3>1
  <2>3. \A u \in touched' : u[1] # "cmd" /\ u[1] # "set"
    BY <2>1
  <2>4. QED
    BY <2>1, <2>2, <2>3 DEF CpuWaits
<1>5. CASE Join
  <2>1. frame < cmdFrameswapCount \/ InFlight = {}
    BY <1>1, <1>5 DEF Join, Waited, InFlight
  <2>2. UNCHANGED <<frame, done>> /\ touched' = {<<"join">>}
    BY <1>5 DEF Join
  <2>3. InFlight' = InFlight
    BY <2>2 DEF InFlight
  <2>4. <<"join">>[1] = "join"
    OBVIOUS
  <2>5. QED
    BY <2>1, <2>2, <2>3, <2>4 DEF CpuWaits
<1>6. CASE Close
  <2>1. frame < cmdFrameswapCount \/ InFlight = {}
    BY <1>1, <1>6 DEF Close, Waited, InFlight
  <2>2. UNCHANGED <<frame, done>> /\ touched' = {<<"cmd", c>> : c \in Cmds} /\ phase' = "closed"
    BY <1>6 DEF Close
  <2>3. InFlight' = InFlight
    BY <2>2 DEF InFlight
  <2>4. \A u \in touched' : u[1] # "set"
    BY <2>2
  <2>5. QED
    BY <2>1, <2>2, <2>3, <2>4 DEF CpuWaits
<1>7. CASE Begin
  <2>1. touched' = {<<"cmd", Active>>} /\ UNCHANGED <<frame, done, work>> /\ phase' = "begun"
    BY <1>7 DEF Begin
  <2>2. ASSUME NEW f \in InFlight, <<"cmd", Active>> \in UsedBy(f)
        PROVE  FALSE
    <3>1. f % cmdFrameswapCount = frame % cmdFrameswapCount
      <4>1. <<"cmd", Active>> = <<"cmd", f % cmdFrameswapCount>>
        BY <2>2 DEF OwnNames, Named
      <4>2. QED
        BY <4>1 DEF Active
    <3>2. f + cmdFrameswapCount <= frame
      BY <1>1, <3>1, SameRemainder
    <3>3. done >= frame - cmdFrameswapCount
      BY <1>1, <1>7, <3>2 DEF Begin, Waited
    <3>4. QED
      BY <1>1, <3>2, <3>3
  <2>3. GivenToGpu' = GivenToGpu
    BY <2>1 DEF GivenToGpu, InFlight, UsedBy
  <2>4. <<"cmd", Active>> \notin GivenToGpu
    BY <2>2 DEF GivenToGpu
  <2>5. <<"cmd", Active>>[1] = "cmd" /\ <<"cmd", Active>> # <<"join">>
    OBVIOUS
  <2>6. QED
    BY <2>1, <2>3, <2>4, <2>5 DEF CpuWaits
<1>8. CASE Record
  <2>1. touched' = {DescriptorSet(x) : x \in {x \in DrawnHolders : Rewritten(x)}} /\ phase' = "recorded"
        /\ UNCHANGED <<frame, done, work>> /\ \A x \in DrawnHolders : Rewritten(x) => Waited(WaitFrame(x))
    BY <1>8 DEF Record
  <2>2. ASSUME NEW x \in DrawnHolders, Rewritten(x), NEW f \in InFlight, DescriptorSet(x) \in UsedBy(f), frame >= cmdFrameswapCount
        PROVE  FALSE
    <3>1. PICK u : u = DescriptorSet(x)
      OBVIOUS
    <3>2. u[1] = "set" /\ u[2] = x /\ u[3] = Mod(x[1])
      BY <3>1 DEF DescriptorSet
    <3>3. u[3] = f % maxFrameswap(u[2][1])
      BY <2>2, <3>1, <3>2 DEF OwnNames, Named
    <3>4. QED
      BY <2>1, <2>2, <3>2, <3>3, WaitLongEnough
  <2>3. \A x \in DrawnHolders : Rewritten(x) /\ frame >= cmdFrameswapCount => DescriptorSet(x) \notin GivenToGpu
    BY <2>2 DEF GivenToGpu
  <2>4. GivenToGpu' = GivenToGpu
    BY <2>1 DEF GivenToGpu, InFlight, UsedBy
  <2>5. \A u \in touched' : u[1] = "set"
    BY <2>1 DEF DescriptorSet
  <2>6. touched' # {<<"join">>}
    <3>1. <<"join">>[1] = "join"
      OBVIOUS
    <3>2. QED
      BY <2>5, <3>1
  <2>7. \A u \in touched' : frame >= cmdFrameswapCount => u \notin GivenToGpu
    BY <2>1, <2>3
  <2>8. QED
    BY <2>1, <2>4, <2>5, <2>6, <2>7 DEF CpuWaits
<1>9. CASE Finish \/ UNCHANGED vars
  <2>1. ~Submit /\ touched' = touched /\ phase' = phase
    BY <1>9, Guards DEF Finish, vars
  <2>2. QED
    BY <1>2, <2>1
<1>10. CASE \/ Create \/ Submit \/ PreRender
            \/ \E o \in pending : Reinit(o)
            \/ \E o \in objects.allocated : Destroy(o) \/ \E e \in Externals : Set(o, e)
            \/ \E o \in objects.allocated, size \in Sizes : ResizeWindow(o, size)
  <2>1. touched' = {}
    BY <1>10 DEF Create, Submit, PreRender, Reinit, Destroy, Set, ResizeWindow
  <2>2. phase' # "closed"
    <3>1. CASE Submit \/ PreRender
      BY <3>1, Guards
    <3>2. CASE \E o \in pending : Reinit(o)
      BY <3>2 DEF Reinit, Lockstep
    <3>3. CASE \/ Create
               \/ \E o \in objects.allocated : Destroy(o) \/ \E e \in Externals : Set(o, e)
               \/ \E o \in objects.allocated, size \in Sizes : ResizeWindow(o, size)
      BY <3>3 DEF Create, Destroy, Set, ResizeWindow, Idle, Call
    <3>4. QED
      BY <1>10, <3>1, <3>2, <3>3
  <2>3. QED
    BY <1>3, <2>1, <2>2
<1>11. QED
  BY <1>4, <1>5, <1>6, <1>7, <1>8, <1>9, <1>10 DEF Next

-----------------------------------------------------------------------------
(* What is collected can be destroyed.                                     *)
LEMMA GarbageNames ==
  \A g : OldImage(g) \/ OldFramebuffer(g) \/ OldView(g) => g[1] \in Destroyable
<1> SUFFICES ASSUME NEW g, OldImage(g) \/ OldFramebuffer(g) \/ OldView(g)
             PROVE  g[1] \in {"image", "fb", "view"}
  BY DEF Destroyable
<1>1. CASE OldImage(g)
  BY <1>1 DEF OldImage
<1>2. CASE OldFramebuffer(g)
  BY <1>2 DEF OldFramebuffer
<1>3. CASE OldView(g)
  BY <1>3 DEF OldView
<1>4. QED
  BY <1>1, <1>2, <1>3

(* The latest frame that garbage can be from.                              *)
Latest == IF phase \in {"resized", "recorded"} THEN frame ELSE frame - 1

(* It never gets earlier, and is this frame once garbage has been pushed.   *)
LEMMA LatestGrows ==
  ASSUME OneThread, Timing, Lockstep, Shaped, [Next]_vars
  PROVE  /\ Latest \in Int /\ Latest' \in Int /\ Latest <= Latest'
         /\ Submit => Latest' = frame
         /\ PreRender \/ Record => Latest' = frame
<1>1. frame \in Nat \ {0}
  BY DEF Timing
<1>2. QED
  BY <1>1, Phases, Guards DEF Latest

(* Garbage stays idle: what a frame in flight uses is collected by a later  *)
(* frame only, and what is being recorded is no other collector's.         *)
LEMMA GarbageIdleKept ==
  ASSUME OneThread, Timing, Lockstep, Shaped, Stamped, Current, Looked, GarbageOld, GarbageIdle, [Next]_vars,
         Timing', Stamped', Current', GarbageOld'
  PROVE  GarbageIdle'
<1>1. /\ frame \in Nat \ {0} /\ cmdFrameswapCount \in Nat \ {0} /\ Active \in Cmds /\ Active = frame % cmdFrameswapCount
      /\ \A f \in InFlight : f \in Nat /\ f >= 1 /\ f < frame
  <2>1. frame \in Nat \ {0} /\ done \in Nat
    BY DEF Timing
  <2>2. cmdFrameswapCount \in Nat \ {0}
    BY Turns
  <2>3. Active \in Cmds /\ Active = frame % cmdFrameswapCount
    BY <2>1, CopyOf DEF Active
  <2>4. QED
    BY <2>1, <2>2, <2>3 DEF InFlight
<1>2. \A c \in Cmds : \A g \in collectors[c] : \A f \in InFlight : g \in UsedBy(f) => \E h \in f .. Latest : h % cmdFrameswapCount = c
  BY DEF GarbageIdle, Latest
<1>3. ASSUME NEW c \in Cmds, NEW g \in collectors'[c], NEW f \in InFlight', g \in UsedBy(f)'
      PROVE  \E h \in f .. Latest' : h % cmdFrameswapCount = c
  <2>1. CASE collectors'[c] = collectors[c]
    <3>1. CASE f \in InFlight /\ UsedBy(f)' = UsedBy(f)
      <4>1. PICK h \in f .. Latest : h % cmdFrameswapCount = c
        BY <1>2, <1>3, <2>1, <3>1
      <4>2. h \in f .. Latest'
        BY <1>1, <3>1, <4>1, LatestGrows
      <4>3. QED
        BY <4>1, <4>2
    <3>2. CASE Submit /\ f = frame /\ UsedBy(f)' = recorded
      <4>1. c = Active
        BY <1>3, <2>1, <3>2 DEF GarbageIdle
      <4>2. frame \in f .. Latest'
        BY <1>1, <3>2, LatestGrows
      <4>3. QED
        BY <1>1, <4>1, <4>2
    <3>3. QED
      BY <1>3, <3>1, <3>2, Flight
  <2>2. CASE (PreRender \/ Record) /\ c = Active
    <3>1. f \in InFlight
      BY <1>3, <2>2, Flight, Guards
    <3>2. frame \in f .. Latest'
      BY <1>1, <2>2, <3>1, LatestGrows
    <3>3. QED
      BY <1>1, <2>2, <3>2
  <2>3. QED
    BY <1>3, <2>1, <2>2, Collected
<1>4. ASSUME NEW d \in Cmds, NEW u \in collectors'[d], u \in recorded', d # Active'
      PROVE  FALSE
  <2>1. Active' = Active /\ ~Submit
    <3>1. ~Submit
      BY <1>4 DEF Submit
    <3>2. frame' = frame
      BY <3>1, Phases
    <3>3. QED
      BY <3>1, <3>2 DEF Active
  <2>2. u \in collectors[d]
    BY <1>4, <2>1, Collected
  <2>3. u \notin recorded
    BY <1>4, <2>1, <2>2 DEF GarbageIdle
  <2>4. ~InCache(u) /\ u[1] \in Destroyable
    BY <2>2, GarbageApart, GarbageNames DEF GarbageOld
  <2>5. ~InCache(u)'
    <3>1. (Timing /\ Stamped /\ Current /\ GarbageOld => \A c \in Cmds : \A g \in collectors[c] : ~InCache(g))'
      BY GarbageApart, PTL
    <3>2. QED
      BY <1>4, <3>1
  <2>6. CASE u = <<"cmd", Active>>
    BY <2>4, <2>6 DEF Destroyable
  <2>7. CASE u \in UNION {UNION {{frameImage(o, s, i) : i \in Replaced(o, s)} : s \in Slots} : o \in DrawnObjects}
    <3>1. PICK o \in DrawnObjects : u \in UNION {{frameImage(o, s, i) : i \in Replaced(o, s)} : s \in Slots}
      BY <2>7
    <3>2. PICK s \in Slots : u \in {frameImage(o, s, i) : i \in Replaced(o, s)}
      BY <3>1
    <3>3. PICK i \in Replaced(o, s) : u = frameImage(o, s, i)
      BY <3>2
    <3>4. o \in Objs /\ i \in Copies(s)
      <4>1. DrawnObjects \subseteq Objs
        BY DEF DrawnObjects, Lockstep, Pool
      <4>2. QED
        BY <3>3, <4>1 DEF Replaced, Copies
    <3>5. u = <<"image", o, s, i, stamp(o, s, i)>>
      BY <3>3, <3>4, CopyOf DEF frameImage, frameImageIdx, frameUpdated, resources, stamp, Copies
    <3>6. QED
      BY <2>4, <3>4, <3>5 DEF InCache, CurrentImage
  <2>8. CASE Record /\ u \in Uses
    <3>1. CASE u[1] = "host"
      BY <2>4, <3>1 DEF Destroyable
    <3>2. CASE \E x \in DrawnHolders : u = DescriptorSet(x)
      BY <2>4, <3>2 DEF Destroyable, DescriptorSet
    <3>3. QED
      BY <2>5, <2>8, <3>1, <3>2, UsesAre
  <2>9. QED
    BY <1>4, <2>1, <2>3, <2>6, <2>7, <2>8, Flight
<1>5. QED
  BY <1>3, <1>4 DEF GarbageIdle, Latest

(* Nothing in use is dropped: the collector of a frame is emptied when the  *)
(* frame before it of the same turn has ended, and the others' garbage stays. *)
LEMMA InUseAliveKept ==
  ASSUME OneThread, Timing, Lockstep, Shaped, Stamped, Current, Looked, GarbageIdle, InUseAlive, [Next]_vars,
         Timing', Shaped'
  PROVE  InUseAlive'
<1>1. /\ frame \in Nat \ {0} /\ cmdFrameswapCount \in Nat \ {0} /\ Active \in Cmds /\ Active = frame % cmdFrameswapCount
      /\ \A f \in InFlight : f \in Nat /\ f >= 1 /\ f < frame /\ f > done
      /\ done \in Nat
  <2>1. frame \in Nat \ {0} /\ done \in Nat
    BY DEF Timing
  <2>2. cmdFrameswapCount \in Nat \ {0}
    BY Turns
  <2>3. Active \in Cmds /\ Active = frame % cmdFrameswapCount
    BY <2>1, CopyOf DEF Active
  <2>4. QED
    BY <2>1, <2>2, <2>3 DEF InFlight
<1>2. \A u : u \in Alive <=> phase # "closed" /\ (InCache(u) \/ \E c \in Cmds : u \in collectors[c])
  BY AliveIs
<1>3. \A u : u \in Alive' <=> phase' # "closed" /\ (InCache(u)' \/ \E c \in Cmds : u \in collectors'[c])
  <2>1. (Shaped => \A u : u \in Alive <=> phase # "closed" /\ (InCache(u) \/ \E c \in Cmds : u \in collectors[c]))'
    BY AliveIs, PTL
  <2>2. QED
    BY <2>1
<1>4. ASSUME NEW f \in InFlight, f >= cmdFrameswapCount - 1
      PROVE  ~Join /\ ~Close
  <2>1. frame >= cmdFrameswapCount /\ done < frame - 1
    BY <1>1, <1>4
  <2>2. ~Waited(frame - 1)
    BY <1>1, <2>1 DEF Waited
  <2>3. QED
    BY <2>2 DEF Join, Close
<1>5. ASSUME NEW u, u \in Alive, phase' # "closed", ~Join, ~Close,
             \A c \in Cmds : Begin /\ c = Active => u \notin collectors[c]
      PROVE  u \in Alive'
  <2>1. CASE InCache(u)
    <3>1. CASE InCache(u)'
      BY <1>3, <1>5, <3>1
    <3>2. CASE (PreRender \/ Record) /\ u \in collectors[Active]'
      <4>1. Active' = Active
        <5>1. frame' = frame
          BY <3>2, Phases, Guards
        <5>2. QED
          BY <5>1 DEF Active
      <4>2. QED
        BY <1>1, <1>3, <1>5, <3>2, <4>1
    <3>3. QED
      BY <2>1, <3>1, <3>2, Leaves
  <2>2. CASE \E c \in Cmds : u \in collectors[c]
    <3>1. PICK c \in Cmds : u \in collectors[c]
      BY <2>2
    <3>2. u \in collectors'[c]
      BY <1>5, <3>1, Collected
    <3>3. QED
      BY <1>3, <1>5, <3>2
  <2>3. QED
    BY <1>2, <1>5, <2>1, <2>2
<1>6. ASSUME NEW f \in InFlight', f >= cmdFrameswapCount - 1
      PROVE  phase' # "closed" /\ \A u \in UsedBy(f)' : u[1] \in Destroyable => u \in Alive'
  <2>1. CASE f \in InFlight /\ UsedBy(f)' = UsedBy(f)
    <3>1. ~Join /\ ~Close
      BY <1>4, <1>6, <2>1
    <3>2. phase # "closed" /\ \A u \in UsedBy(f) : u[1] \in Destroyable => u \in Alive
      BY <1>6, <2>1 DEF InUseAlive
    <3>3. phase' # "closed"
      BY <3>1, <3>2, Phases
    <3>4. ASSUME NEW u \in UsedBy(f), Begin, u \in collectors[Active]
          PROVE  FALSE
      <4>1. phase = "idle" /\ Latest = frame - 1
        BY <3>4, Guards DEF Latest
      <4>2. PICK h \in f .. frame - 1 : h % cmdFrameswapCount = Active
        BY <1>1, <2>1, <3>4, <4>1 DEF GarbageIdle
      <4>3. h \in Int /\ frame \in Int /\ h < frame /\ f <= h
        BY <1>1, <2>1, <4>2
      <4>4. h + cmdFrameswapCount <= frame
        BY <1>1, <4>2, <4>3, SameRemainder
      <4>5. frame > cmdFrameswapCount /\ done < frame - cmdFrameswapCount
        BY <1>1, <2>1, <4>3, <4>4
      <4>6. Waited(frame - cmdFrameswapCount)
        BY <3>4, <4>5 DEF Begin
      <4>7. QED
        BY <1>1, <4>5, <4>6 DEF Waited
    <3>5. QED
      BY <1>5, <2>1, <3>1, <3>2, <3>3, <3>4
  <2>2. CASE Submit /\ f = frame /\ UsedBy(f)' = recorded
    <3>1. phase' # "closed" /\ ~Join /\ ~Close /\ ~Begin
      BY <2>2, Guards DEF Join, Close, Idle
    <3>2. \A u \in recorded : u[1] \in Destroyable => u \in Alive
      BY DEF InUseAlive
    <3>3. QED
      BY <1>5, <2>2, <3>1, <3>2
  <2>3. QED
    BY <1>6, <2>1, <2>2, Flight
<1>7. ASSUME NEW u \in recorded', u[1] \in Destroyable
      PROVE  u \in Alive'
  <2>1. CASE u \in recorded
    <3>1. phase \notin {"idle", "closed"}
      BY <2>1 DEF Timing
    <3>2. ~Join /\ ~Close /\ ~Begin
      BY <3>1, Guards DEF Join, Close, Idle
    <3>3. phase' # "closed"
      BY <3>1, <3>2, Phases
    <3>4. u \in Alive
      BY <1>7, <2>1 DEF InUseAlive
    <3>5. QED
      BY <1>5, <3>2, <3>3, <3>4
  <2>2. CASE u = <<"cmd", Active>>
    BY <1>7, <2>2 DEF Destroyable
  <2>3. CASE PreRender /\ u \in UNION {UNION {{frameImage(o, s, i) : i \in Replaced(o, s)} : s \in Slots} : o \in DrawnObjects}
    <3>1. ~Join /\ ~Close /\ ~Begin /\ ~Record /\ phase' # "closed"
      BY <2>3, Guards DEF Join, Close, Idle
    <3>2. u \in collectors'[Active]
      BY <1>1, <2>3, <3>1, Collected
    <3>3. QED
      BY <1>1, <1>3, <3>1, <3>2
  <2>4. CASE Record /\ u \in Uses
    <3>1. phase' # "closed"
      BY <2>4, Guards
    <3>2. u[1] # "host" /\ \A x \in DrawnHolders : u # DescriptorSet(x)
      BY <1>7 DEF Destroyable, DescriptorSet
    <3>3. InCache(u)'
      BY <2>4, <3>2, UsesAre
    <3>4. QED
      BY <1>3, <3>1, <3>3
  <2>5. QED
    BY <1>7, <2>1, <2>2, <2>3, <2>4, Flight
<1>8. QED
  BY <1>6, <1>7 DEF InUseAlive

-----------------------------------------------------------------------------
(* The invariant, and what the runs check of it.                           *)
IInv ==
  /\ Timing /\ Lockstep /\ Shaped
  /\ Stamped /\ Sized /\ SizedNow
  /\ Current /\ ExternalCurrent /\ Looked
  /\ GarbageOld /\ OwnNames /\ InUseAlive /\ GarbageIdle /\ CpuWaits

(* The invariant holds when the onion is made.                             *)
LEMMA Begins ==
  ASSUME Init
  PROVE  IInv
<1>1. /\ frame = 1 /\ phase = "idle" /\ done = 0 /\ pending = {} /\ recorded = {} /\ touched = {}
      /\ objects = EmptyPool /\ targets = EmptyPool /\ sources = EmptyPool
      /\ \A o \in Objs : \E size \in Sizes : obj[o] = FreshObject(size)
      /\ tgt = [t \in Objs |-> FreshTarget] /\ src = [t \in Objs |-> FreshSource]
      /\ DOMAIN obj = Objs
      /\ collectors = [c \in Cmds |-> {}] /\ work = [c \in Cmds |-> {}]
  BY DEF Init, Objs
<1>2. /\ cmdFrameswapCount \in Nat /\ cmdFrameswapCount >= 3 /\ (\A s \in Slots : Swap[s] \in Nat \ {0})
      /\ MaxObjects \in Nat \ {0}
  BY Turns, FramesAssumption
<1>3. InFlight = {}
  BY <1>1 DEF InFlight
<1>4. \A o \in Objs :
        /\ DOMAIN obj[o] = {"created", "target", "source", "win", "winFrame", "ext", "extFrame", "images"}
        /\ obj[o].extFrame = 0 /\ obj[o].winFrame = 0 /\ obj[o].created = 0
        /\ \A s \in Slots : obj[o].images[s].ci.frame = 0 /\ \A i \in Copies(s) : stamp(o, s, i) = 0
  <2>1. ASSUME NEW o \in Objs
        PROVE  /\ DOMAIN obj[o] = {"created", "target", "source", "win", "winFrame", "ext", "extFrame", "images"}
               /\ obj[o].extFrame = 0 /\ obj[o].winFrame = 0 /\ obj[o].created = 0
               /\ obj[o].images = [s \in Slots |-> FreshImages(s)]
    <3>1. PICK size \in Sizes : obj[o] = FreshObject(size)
      BY <1>1
    <3>2. QED
      BY <3>1 DEF FreshObject
  <2>2. \A s \in Slots : /\ FreshImages(s).ci.frame = 0 /\ FreshImages(s).stamp = [i \in Copies(s) |-> 0]
    BY DEF FreshImages, Copies
  <2>3. ASSUME NEW o \in Objs, NEW s \in Slots
        PROVE  obj[o].images[s].ci.frame = 0 /\ obj[o].images[s].stamp = [i \in Copies(s) |-> 0]
    <3>1. obj[o].images[s] = FreshImages(s)
      BY <2>1
    <3>2. QED
      BY <2>2, <3>1
  <2>4. ASSUME NEW o \in Objs, NEW s \in Slots, NEW i \in Copies(s)
        PROVE  stamp(o, s, i) = 0
    <3>1. [j \in Copies(s) |-> 0][i] = 0
      OBVIOUS
    <3>2. QED
      BY <2>3, <3>1 DEF stamp
  <2>5. QED
    BY <2>1, <2>3, <2>4
<1>5. \A by \in Keepers : \A k \in Rounds(by) : Cell(by, k) = None
  <2>1. \A t \in Objs : (\A k \in Mods("target") : tgt[t].fb[k] = None /\ tgt[t].set[k] = None)
                        /\ \A k \in Mods("source") : src[t].set[k] = None
    BY <1>1 DEF FreshTarget, FreshSource
  <2>2. ASSUME NEW by \in Keepers, NEW k \in Rounds(by)
        PROVE  Cell(by, k) = None
    <3>1. CASE \E t \in Objs : by = <<"fb", t>>
      BY <2>1, <2>2, <3>1 DEF Cell, Rounds, Period, Mods
    <3>2. CASE \E t \in Objs : by = <<"set", <<"target", t>>>>
      BY <2>1, <2>2, <3>2 DEF Cell, Rounds, Period, Mods, Held
    <3>3. CASE \E t \in Objs : by = <<"set", <<"source", t>>>>
      BY <2>1, <2>2, <3>3 DEF Cell, Rounds, Period, Mods, Held
    <3>4. QED
      BY <2>2, <3>1, <3>2, <3>3 DEF Keepers, Holders
  <2>3. QED
    BY <2>2
<1>6. Timing
  BY <1>1, <1>2 DEF Timing
<1>7. Lockstep
  <2>1. ToSet(<< >>) = {} /\ IsInjective(<< >>)
    BY DEF ToSet, IsInjective
  <2>2. Pool(EmptyPool)
    BY <1>2, <2>1 DEF Pool, EmptyPool, Objs
  <2>3. EmptyPool.allocated = {}
    BY DEF EmptyPool
  <2>4. QED
    BY <1>1, <2>2, <2>3 DEF Lockstep
<1>8. Shaped
  <2>1. \A t \in Objs : /\ DOMAIN tgt[t] = {"obj", "fb", "set"} /\ DOMAIN src[t] = {"obj", "set"}
                        /\ DOMAIN tgt[t].fb = Mods("target") /\ DOMAIN tgt[t].set = Mods("target")
                        /\ DOMAIN src[t].set = Mods("source")
    BY <1>1 DEF FreshTarget, FreshSource
  <2>2. \A o \in Objs : obj[o].extFrame \in 0 .. frame /\ obj[o].winFrame \in 0 .. frame /\ obj[o].created \in 0 .. frame
    BY <1>1, <1>4
  <2>3. QED
    BY <1>1, <1>4, <2>1, <2>2 DEF Shaped
<1>9. Stamped /\ Sized
  BY <1>1, <1>2, <1>4 DEF Stamped, Sized
<1>10. SizedNow /\ Looked
  BY <1>1 DEF SizedNow, Looked
<1>11. Current
  BY <1>5 DEF Current
<1>12. ExternalCurrent
  <2>1. ASSUME NEW x \in Holders, NEW k \in Mods(x[1])
        PROVE  Held(x).set[k] = None
    <3>1. PICK by \in Keepers : by = <<"set", x>>
      BY DEF Keepers
    <3>2. k \in Rounds(by) /\ Cell(by, k) = Held(x).set[k]
      BY <2>1, <3>1 DEF Rounds, Period, Mods, Cell
    <3>3. QED
      BY <1>5, <3>2
  <2>2. QED
    BY <2>1 DEF ExternalCurrent
<1>13. GarbageOld /\ GarbageIdle
  BY <1>1 DEF GarbageOld, GarbageIdle
<1>14. OwnNames /\ InUseAlive /\ CpuWaits
  <2>1. touched # {<<"join">>}
    BY <1>1
  <2>2. QED
    BY <1>1, <1>3, <2>1 DEF OwnNames, InUseAlive, CpuWaits
<1>15. QED
  BY <1>6, <1>7, <1>8, <1>9, <1>10, <1>11, <1>12, <1>13, <1>14 DEF IInv

(* Every step keeps it.                                                    *)
LEMMA Continues ==
  ASSUME OneThread, IInv, [Next]_vars
  PROVE  IInv'
<1>1. Timing /\ Lockstep /\ Shaped /\ Stamped /\ Sized /\ SizedNow /\ Current /\ ExternalCurrent /\ Looked
      /\ GarbageOld /\ OwnNames /\ InUseAlive /\ GarbageIdle /\ CpuWaits
  BY DEF IInv
<1>2. Timing' /\ Lockstep' /\ Shaped' /\ Stamped'
  BY <1>1, TimingKept, LockstepKept, ShapedKept, StampedKept
<1>3. Sized' /\ SizedNow' /\ Current' /\ ExternalCurrent' /\ Looked'
  BY <1>1, SizedKept, CurrentKept, ExternalKept, LookedKept
<1>4. GarbageOld' /\ OwnNames' /\ CpuWaits'
  BY <1>1, GarbageOldKept, OwnNamesKept, CpuWaitsKept
<1>5. InUseAlive'
  BY <1>1, <1>2, InUseAliveKept
<1>6. GarbageIdle'
  BY <1>1, <1>2, <1>3, <1>4, GarbageIdleKept
<1>7. QED
  BY <1>2, <1>3, <1>4, <1>5, <1>6 DEF IInv

(* The type invariant follows: as many frames are in flight as there are    *)
(* command buffers, and pools are as full as one another.                  *)
LEMMA Typed ==
  Timing /\ Lockstep => TypeOK
<1> SUFFICES ASSUME Timing, Lockstep
             PROVE  TypeOK
  OBVIOUS
<1>1. Cardinality(InFlight) <= cmdFrameswapCount
  <2>1. /\ frame \in Nat /\ done \in Nat /\ done < frame /\ cmdFrameswapCount \in Nat
        /\ frame <= done + cmdFrameswapCount + 1
    BY Turns DEF Timing
  <2>2. InFlight \in SUBSET (done + 1 .. frame - 1)
    BY <2>1 DEF InFlight
  <2>3. IsFiniteSet(done + 1 .. frame - 1) /\ Cardinality(done + 1 .. frame - 1) = frame - 1 - done
    <3>1. done + 1 \in Int /\ frame - 1 \in Int
      BY <2>1
    <3>2. IsFiniteSet(done + 1 .. frame - 1)
          /\ Cardinality(done + 1 .. frame - 1) = IF done + 1 > frame - 1 THEN 0 ELSE (frame - 1) - (done + 1) + 1
      BY <3>1, FS_Interval
    <3>3. QED
      BY <2>1, <3>2
  <2>4. Cardinality(InFlight) <= frame - 1 - done /\ IsFiniteSet(InFlight)
    BY <2>2, <2>3, FS_Subset
  <2>5. Cardinality(InFlight) \in Nat
    BY <2>4, FS_CardinalityType
  <2>6. QED
    BY <2>1, <2>4, <2>5
<1>2. \A p \in {objects, targets, sources} : p.allocated \cap ToSet(p.available) = {} /\ p.store <= MaxObjects
  BY FramesAssumption DEF Lockstep, Pool
<1>3. \A p \in {targets, sources} : Cardinality(objects.allocated) = Cardinality(p.allocated) + Cardinality(pending)
  <2>1. IsFiniteSet(targets.allocated) /\ Cardinality(targets.allocated) \in Nat
    <3>1. IsFiniteSet(Objs)
      BY FramesAssumption, FS_Interval DEF Objs
    <3>2. targets.allocated \in SUBSET Objs
      BY DEF Lockstep, Pool
    <3>3. QED
      BY <3>1, <3>2, FS_Subset, FS_CardinalityType
  <2>2. CASE pending = {} /\ objects = targets
    BY <2>1, <2>2, FS_EmptySet DEF Lockstep
  <2>3. CASE pending = {NextOf(targets)} /\ objects = allocate(targets)
    <3>1. NextOf(targets) \in objects.allocated /\ objects.allocated = targets.allocated \cup {NextOf(targets)}
      BY <2>3 DEF allocate
    <3>2. NextOf(targets) \in Objs /\ Pool(targets)
      BY <3>1 DEF Lockstep, Pool
    <3>3. NextOf(targets) \notin targets.allocated
      BY <3>2, FramesAssumption, PoolAllocates DEF Objs
    <3>4. Cardinality(objects.allocated) = Cardinality(targets.allocated) + 1
      BY <2>1, <3>1, <3>3, FS_AddElement
    <3>5. Cardinality(pending) = 1
      BY <2>3, FS_Singleton
    <3>6. QED
      BY <3>4, <3>5 DEF Lockstep
  <2>4. QED
    BY <2>2, <2>3 DEF Lockstep
<1>4. QED
  BY <1>1, <1>2, <1>3 DEF TypeOK, Timing

(* All of the invariant, always: for every number of copies of every slot,  *)
(* of objects, and of frames.                                              *)
THEOREM PipelineHolds ==
  ASSUME OneThread
  PROVE  Spec => []IInv
<1>1. Init => IInv
  BY Begins
<1>2. IInv /\ [Next]_vars => IInv'
  BY Continues
<1>3. QED
  BY <1>1, <1>2, PTL DEF Spec

(* Nothing in use is dropped (garbageCollector, applyPendingResize,         *)
(* updateIfNeeded, fillWrites, join, ~onion): no frame that the GPU may be  *)
(* working on, from the first cmdFrameswapCount on, and not the one that is *)
(* being recorded, uses an image, a view or a framebuffer that is gone.    *)
THEOREM InUseStays ==
  ASSUME OneThread
  PROVE  Spec => []NothingInUseDropped
<1>1. IInv => NothingInUseDropped
  BY Typed DEF IInv, NothingInUseDropped, InUseAlive
<1>2. QED
  BY <1>1, PipelineHolds, PTL

(* The CPU waits long enough (waitForFrame in render, fillWrites and join): *)
(* it rewrites no command buffer and no descriptor set that a frame in     *)
(* flight uses, and join and ~onion return with nothing in flight.         *)
THEOREM CpuWaitsAlways ==
  ASSUME OneThread
  PROVE  Spec => []CpuWaits
<1>1. IInv => CpuWaits
  BY DEF IInv
<1>2. QED
  BY <1>1, PipelineHolds, PTL

(* Draws use the object's own current images (recordRenders_l3,             *)
(* prepareDescriptors), although copies are looked at only every Period    *)
(* frames and objects, targets and sources are recycled.                   *)
THEOREM OwnImagesDrawn ==
  ASSUME OneThread
  PROVE  Spec => []DrawsOwnImages
<1>1. IInv => DrawsOwnImages
  BY DrawsThem DEF IInv
<1>2. QED
  BY <1>1, PipelineHolds, PTL

(* A window's new size reaches every image drawn to within Swap frames      *)
(* (trackWindowSize, applyPendingResize), whatever sizes come in between.  *)
THEOREM SizesGetThrough ==
  ASSUME OneThread
  PROVE  Spec => []SizesFollow
<1>1. IInv => SizesFollow
  BY DEF IInv, SizedNow, SizesFollow
<1>2. QED
  BY <1>1, PipelineHolds, PTL
=============================================================================
