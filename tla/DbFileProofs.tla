---------------------------- MODULE DbFileProofs ----------------------------
(***************************************************************************)
(* The row file for every unit size, every bound on its growth and every   *)
(* set of iterators: the stack and the links partition the rows and        *)
(* implement RowFile's ordered set, and passes are sound.                  *)
(*                                                                         *)
(* The links are reasoned about through the sequence they describe: Path   *)
(* says that a sequence is spelled by first, last and links from both      *)
(* ends, and such a sequence is what the walk of Listed meets (PathMet).   *)
(* Each operation is then one on sequences: Append, RemoveAt or none.      *)
(***************************************************************************)
EXTENDS DbFile, TLAPS, WellFoundedInduction

RowCount == AU * MaxBlocks

(* The rows of s are linked in its order, from both ends.                  *)
Path(s) ==
  /\ s \in Seq(Ids) /\ IsInjective(s)
  /\ allocatedFirst = IF s = <<>> THEN NONE ELSE s[1]
  /\ allocatedLast = IF s = <<>> THEN NONE ELSE s[Len(s)]
  /\ \A k \in DOMAIN s :
       /\ link[s[k]].next = IF k = Len(s) THEN NONE ELSE s[k + 1]
       /\ link[s[k]].previous = IF k = 1 THEN NONE ELSE s[k - 1]

(* The stack has the rows that s has not, each once.                       *)
Rest(s) ==
  /\ freeSpace \in Seq(Ids) /\ IsInjective(freeSpace)
  /\ Len(freeSpace) + Len(s) = Capacity
  /\ \A r \in Ids : r \in ToSet(freeSpace) <=> r < Capacity /\ r \notin ToSet(s)
  /\ \A r \in ToSet(s) : r < Capacity

Linked ==
  /\ blocks \in 1 .. MaxBlocks
  /\ link \in [Ids -> [previous : IdOrNone, next : IdOrNone]]
  /\ Path(Listed) /\ Rest(Listed)

(* What an iterator remembers is listed, unless it was overtaken by free.  *)
Remembered ==
  /\ target \in [Iterators -> IdOrNone]
  /\ seen \in [Iterators -> SUBSET Ids] /\ unseen \in [Iterators -> SUBSET Ids]
  /\ spoiled \in [Iterators -> BOOLEAN]
  /\ \A i \in Iterators : ~spoiled[i] =>
       seen[i] \subseteq Allocated /\ unseen[i] \subseteq Allocated

-----------------------------------------------------------------------------
(* The rows are numbers, and the units the file has are among them.        *)
LEMMA Room ==
  /\ RowCount \in Nat \ {0}
  /\ Ids = 0 .. RowCount - 1 /\ Ids \subseteq Nat /\ NONE \notin Ids /\ 0 \in Ids
  /\ \A b \in 1 .. MaxBlocks : AU * b \in Nat /\ AU <= AU * b /\ AU * b <= RowCount
  /\ \A b \in 1 .. MaxBlocks : b < MaxBlocks => AU * (b + 1) = AU * b + AU /\ AU * b + AU <= RowCount
<1>1. AU \in Nat \ {0} /\ MaxBlocks \in Nat \ {0} /\ NONE \notin Nat
  BY DbFileAssumption
<1>2. \A a, b, c \in Nat : a >= 1 /\ b <= c => a * b <= a * c
  OBVIOUS
<1>3. \A a, b \in Nat : a * b \in Nat /\ a * (b + 1) = a * b + a /\ a * 1 = a
  OBVIOUS
<1>4. RowCount \in Nat /\ AU <= RowCount
  BY <1>1, <1>2, <1>3 DEF RowCount
<1>5. ASSUME NEW b \in 1 .. MaxBlocks
      PROVE  AU * b \in Nat /\ AU <= AU * b /\ AU * b <= RowCount
  BY <1>1, <1>2, <1>3 DEF RowCount
<1>6. ASSUME NEW b \in 1 .. MaxBlocks, b < MaxBlocks
      PROVE  AU * (b + 1) = AU * b + AU /\ AU * b + AU <= RowCount
  <2>1. b + 1 \in 1 .. MaxBlocks /\ b \in Nat
    BY <1>1, <1>6
  <2>2. AU * (b + 1) = AU * b + AU
    BY <1>1, <1>3, <2>1
  <2>3. QED
    BY <1>5, <2>1, <2>2
<1>7. QED
  BY <1>1, <1>4, <1>5, <1>6 DEF Ids, RowCount

(* A walk from first to last meets the rows of the path and then none.     *)
LEMMA PathMet ==
  \A path \in Seq(Ids) : Path(path) /\ Len(path) <= RowCount => Listed = path
<1> SUFFICES ASSUME NEW s \in Seq(Ids), Path(s), Len(s) <= RowCount
             PROVE  Listed = s
  OBVIOUS
<1> DEFINE N == RowCount
           g == [n \in 1 .. N |-> IF n <= Len(s) THEN s[n] ELSE NONE]
<1>1. N \in Nat \ {0} /\ Len(s) \in Nat /\ NONE \notin Ids
  BY Room
<1>2. ASSUME NEW n \in 1 .. N
      PROVE  g[n] = IF n = 1 THEN allocatedFirst ELSE After[g[n - 1]]
  <2>1. CASE n = 1
    BY <1>1, <2>1 DEF Path
  <2>2. CASE n # 1 /\ n - 1 <= Len(s)
    <3>1. n - 1 \in DOMAIN s /\ g[n - 1] = s[n - 1] /\ s[n - 1] \in Ids
      BY <1>1, <2>2
    <3>2. After[s[n - 1]] = link[s[n - 1]].next
      BY <1>1, <3>1 DEF After
    <3>3. link[s[n - 1]].next = IF n - 1 = Len(s) THEN NONE ELSE s[n]
      BY <1>1, <3>1 DEF Path
    <3>4. QED
      BY <1>1, <2>2, <3>1, <3>2, <3>3
  <2>3. CASE n # 1 /\ ~(n - 1 <= Len(s))
    BY <1>1, <2>3 DEF After
  <2>4. QED
    BY <2>1, <2>2, <2>3
<1>3. Met = [n \in 1 .. N |-> IF n = 1 THEN allocatedFirst ELSE After[Met[n - 1]]]
  <2>1. g = [n \in 1 .. N |-> IF n = 1 THEN allocatedFirst ELSE After[g[n - 1]]]
    BY <1>2
  <2>2. \E m : m = [n \in 1 .. N |-> IF n = 1 THEN allocatedFirst ELSE After[m[n - 1]]]
    BY <2>1
  <2>3. Met = CHOOSE m : m = [n \in 1 .. N |-> IF n = 1 THEN allocatedFirst ELSE After[m[n - 1]]]
    BY DEF Met, RowCount
  <2>4. QED
    BY <2>2, <2>3
<1> HIDE DEF g
<1>4. ASSUME NEW n \in 1 .. N
      PROVE  Met[n] = g[n]
  <2> DEFINE Off == {k \in 1 .. N : Met[k] # g[k]}
  <2> SUFFICES ASSUME Off # {}
               PROVE  FALSE
    BY <1>4
  <2>6. Off \subseteq Nat /\ Off # {}
    BY <1>1
  <2>1. PICK k \in Off : \A j \in Off : ~(<<j, k>> \in OpToRel(<, Nat))
    <3> HIDE DEF Off
    <3>1. QED
      BY <2>6, WFMin, NatLessThanWellFounded
  <2>2. \A j \in Off : ~(j < k)
    BY <2>1, <2>6 DEF OpToRel
  <2>3. k # 1
    BY <1>2, <1>3
  <2>4. k - 1 \in 1 .. N /\ k - 1 \notin Off
    BY <1>1, <2>2, <2>3
  <2>5. QED
    BY <1>2, <1>3, <2>3, <2>4
<1>5. {n \in 1 .. N : Met[n] # NONE} = 1 .. Len(s)
  BY <1>1, <1>4 DEF g
<1>6. Listed = [n \in 1 .. Len(s) |-> s[n]]
  BY <1>1, <1>4, <1>5 DEF g, Listed, RowCount
<1>7. QED
  BY <1>6

-----------------------------------------------------------------------------
(* Taking an element out moves those behind it one place forward.          *)
LEMMA RemoveAtShifts ==
  ASSUME NEW S, NEW s \in Seq(S), NEW k \in DOMAIN s
  PROVE  /\ RemoveAt(s, k) \in Seq(S) /\ Len(RemoveAt(s, k)) = Len(s) - 1
         /\ DOMAIN RemoveAt(s, k) = 1 .. Len(s) - 1
         /\ \A i \in 1 .. Len(s) - 1 : RemoveAt(s, k)[i] = IF i < k THEN s[i] ELSE s[i + 1]
<1> k \in Nat /\ 1 <= k /\ k <= Len(s) /\ Len(s) \in Nat
  OBVIOUS
<1> DEFINE p == SubSeq(s, 1, k - 1)
           q == SubSeq(s, k + 1, Len(s))
<1>1. p \in Seq(S) /\ Len(p) = k - 1 /\ \A i \in 1 .. k - 1 : p[i] = s[i]
  OBVIOUS
<1>2. q \in Seq(S) /\ Len(q) = Len(s) - k /\ \A i \in 1 .. Len(s) - k : q[i] = s[k + i]
  OBVIOUS
<1>3. RemoveAt(s, k) = p \o q
  BY DEF RemoveAt
<1> HIDE DEF p, q
<1>4. Len(p \o q) = Len(s) - 1 /\ p \o q \in Seq(S)
  BY <1>1, <1>2
<1>5. ASSUME NEW i \in 1 .. Len(s) - 1
      PROVE  (p \o q)[i] = IF i < k THEN s[i] ELSE s[i + 1]
  <2>1. CASE i < k
    BY <1>1, <1>2, <2>1
  <2>2. CASE ~(i < k)
    <3>1. i - (k - 1) \in 1 .. Len(s) - k /\ k + (i - (k - 1)) = i + 1
      BY <2>2
    <3>2. (p \o q)[i] = q[i - (k - 1)]
      BY <1>1, <1>2, <2>2
    <3>3. QED
      BY <1>2, <2>2, <3>1, <3>2
  <2>3. QED
    BY <2>1, <2>2
<1>6. QED
  BY <1>3, <1>4, <1>5

(* Without one of its elements a sequence holds all the others.            *)
LEMMA OneLess ==
  ASSUME NEW S, NEW s \in Seq(S), IsInjective(s), NEW j \in DOMAIN s
  PROVE  /\ RemoveAt(s, j) \in Seq(S) /\ IsInjective(RemoveAt(s, j))
         /\ DOMAIN RemoveAt(s, j) = 1 .. Len(s) - 1 /\ Len(RemoveAt(s, j)) = Len(s) - 1
         /\ \A i \in 1 .. Len(s) - 1 : RemoveAt(s, j)[i] = IF i < j THEN s[i] ELSE s[i + 1]
         /\ ToSet(RemoveAt(s, j)) = ToSet(s) \ {s[j]}
<1> DEFINE u == RemoveAt(s, j)
<1>1. /\ u \in Seq(S) /\ Len(u) = Len(s) - 1 /\ DOMAIN u = 1 .. Len(s) - 1
      /\ \A i \in 1 .. Len(s) - 1 : u[i] = IF i < j THEN s[i] ELSE s[i + 1]
  BY RemoveAtShifts
<1> HIDE DEF u
<1>2. Len(s) \in Nat /\ DOMAIN s = 1 .. Len(s) /\ j \in 1 .. Len(s)
  OBVIOUS
<1>3. \A i \in 1 .. Len(s) - 1 : \E x \in DOMAIN s : x # j /\ u[i] = s[x] /\ x = IF i < j THEN i ELSE i + 1
  BY <1>1, <1>2
<1>4. IsInjective(u)
  <2>1. SUFFICES ASSUME NEW a \in 1 .. Len(s) - 1, NEW b \in 1 .. Len(s) - 1, u[a] = u[b]
                 PROVE  a = b
    BY <1>1 DEF IsInjective
  <2>2. PICK x \in DOMAIN s : u[a] = s[x] /\ x = IF a < j THEN a ELSE a + 1
    BY <1>3
  <2>3. PICK y \in DOMAIN s : u[b] = s[y] /\ y = IF b < j THEN b ELSE b + 1
    BY <1>3
  <2>4. x = y
    BY <2>1, <2>2, <2>3 DEF IsInjective
  <2>5. QED
    BY <1>2, <2>2, <2>3, <2>4
<1>5. ToSet(u) \subseteq ToSet(s) \ {s[j]}
  BY <1>1, <1>3 DEF ToSet, IsInjective
<1>6. ASSUME NEW x \in 1 .. Len(s), x # j
      PROVE  \E i \in DOMAIN u : u[i] = s[x]
  <2>1. CASE x < j
    BY <1>1, <1>2, <2>1
  <2>2. CASE x > j
    <3>1. x - 1 \in DOMAIN u /\ u[x - 1] = s[x]
      BY <1>1, <1>2, <2>2
    <3>2. QED
      BY <3>1
  <2>3. QED
    BY <1>2, <1>6, <2>1, <2>2
<1>7. ToSet(s) \ {s[j]} \subseteq ToSet(u)
  BY <1>2, <1>6 DEF ToSet
<1>8. QED
  BY <1>1, <1>4, <1>5, <1>7 DEF u

(* With one more element at its end.                                       *)
LEMMA OneMore ==
  ASSUME NEW S, NEW s \in Seq(S), IsInjective(s), NEW r \in S \ ToSet(s)
  PROVE  /\ Append(s, r) \in Seq(S) /\ IsInjective(Append(s, r))
         /\ Len(Append(s, r)) = Len(s) + 1 /\ DOMAIN Append(s, r) = 1 .. Len(s) + 1
         /\ \A i \in 1 .. Len(s) + 1 : Append(s, r)[i] = IF i <= Len(s) THEN s[i] ELSE r
         /\ ToSet(Append(s, r)) = ToSet(s) \union {r}
<1>1. /\ Append(s, r) \in Seq(S) /\ Len(Append(s, r)) = Len(s) + 1 /\ DOMAIN Append(s, r) = 1 .. Len(s) + 1
      /\ \A i \in 1 .. Len(s) + 1 : Append(s, r)[i] = IF i <= Len(s) THEN s[i] ELSE r
      /\ Len(s) \in Nat /\ DOMAIN s = 1 .. Len(s)
  OBVIOUS
<1>2. ToSet(Append(s, r)) = ToSet(s) \union {r}
  <2>1. \A i \in 1 .. Len(s) : i \in 1 .. Len(s) + 1 /\ Append(s, r)[i] = s[i]
    BY <1>1
  <2>2. Len(s) + 1 \in 1 .. Len(s) + 1 /\ Append(s, r)[Len(s) + 1] = r
    BY <1>1
  <2>3. \A i \in 1 .. Len(s) + 1 : i \in 1 .. Len(s) \/ i = Len(s) + 1
    BY <1>1
  <2>4. QED
    BY <1>1, <2>1, <2>2, <2>3 DEF ToSet
<1>3. \A i \in 1 .. Len(s) : s[i] # r
  BY <1>1 DEF ToSet
<1>4. IsInjective(Append(s, r))
  BY <1>1, <1>3 DEF IsInjective
<1>5. QED
  BY <1>1, <1>2, <1>4

(* Without its last.                                                       *)
LEMMA LastOff ==
  ASSUME NEW S, NEW s \in Seq(S), IsInjective(s), s # <<>>
  PROVE  /\ Front(s) \in Seq(S) /\ IsInjective(Front(s)) /\ Len(Front(s)) = Len(s) - 1
         /\ Last(s) \in ToSet(s) /\ ToSet(Front(s)) = ToSet(s) \ {Last(s)}
<1>1. /\ Front(s) \in Seq(S) /\ Len(Front(s)) = Len(s) - 1 /\ DOMAIN Front(s) = 1 .. Len(s) - 1
      /\ \A i \in 1 .. Len(s) - 1 : Front(s)[i] = s[i]
      /\ Len(s) \in Nat \ {0} /\ DOMAIN s = 1 .. Len(s) /\ Last(s) = s[Len(s)]
  <2>1. Len(s) \in Nat /\ Len(s) # 0 /\ DOMAIN s = 1 .. Len(s)
    OBVIOUS
  <2>2. Front(s) = SubSeq(s, 1, Len(s) - 1) /\ Last(s) = s[Len(s)]
    BY DEF Front, Last
  <2>3. /\ SubSeq(s, 1, Len(s) - 1) \in Seq(S) /\ Len(SubSeq(s, 1, Len(s) - 1)) = Len(s) - 1
        /\ \A i \in 1 .. Len(s) - 1 : SubSeq(s, 1, Len(s) - 1)[i] = s[i]
    BY <2>1
  <2>4. QED
    BY <2>1, <2>2, <2>3
<1>2. IsInjective(Front(s))
  BY <1>1 DEF IsInjective
<1>3. Last(s) \in ToSet(s)
  BY <1>1 DEF ToSet
<1>4. ToSet(Front(s)) = ToSet(s) \ {Last(s)}
  <2>1. \A i \in 1 .. Len(s) - 1 : s[i] # s[Len(s)]
    BY <1>1 DEF IsInjective
  <2>2. \A i \in 1 .. Len(s) : i # Len(s) => i \in 1 .. Len(s) - 1
    BY <1>1
  <2>3. QED
    BY <1>1, <2>1, <2>2 DEF ToSet
<1>5. QED
  BY <1>1, <1>2, <1>3, <1>4

-----------------------------------------------------------------------------
(* A unit's rows are its own.                                              *)
LEMMA UnitRows ==
  ASSUME NEW b \in Nat, b + 1 \in 1 .. MaxBlocks
  PROVE  /\ Unit(b) \in Seq(Ids) /\ IsInjective(Unit(b)) /\ Len(Unit(b)) = AU
         /\ \A r \in Ids : r \in ToSet(Unit(b)) <=> AU * b <= r /\ r < AU * (b + 1)
<1>1. AU \in Nat \ {0} /\ Ids = 0 .. RowCount - 1 /\ RowCount \in Nat
  BY Room, DbFileAssumption
<1>2. AU * b \in Nat /\ AU * (b + 1) = AU * b + AU /\ AU * b + AU <= RowCount
  <2>1. CASE b = 0
    <3>1. AU * b = 0 /\ AU * (b + 1) = AU
      BY <1>1, <2>1
    <3>2. 1 \in 1 .. MaxBlocks
      BY DbFileAssumption
    <3>3. AU <= RowCount
      BY <1>1, <3>2, Room
    <3>4. QED
      BY <1>1, <3>1, <3>3
  <2>2. CASE b # 0
    <3>1. b \in 1 .. MaxBlocks /\ b < MaxBlocks
      BY <2>2, DbFileAssumption
    <3>2. QED
      BY <3>1, Room
  <2>3. QED
    BY <2>1, <2>2
<1>3. Unit(b) = [i \in 1 .. AU |-> AU * b + i - 1]
  <2>1. b * AU = AU * b
    BY <1>1
  <2>2. QED
    BY <2>1 DEF Unit
<1> DEFINE base == AU * b
<1> HIDE DEF base
<1>4. base \in Nat /\ base + AU <= RowCount /\ Unit(b) = [i \in 1 .. AU |-> base + i - 1] /\ AU * (b + 1) = base + AU
  BY <1>2, <1>3 DEF base
<1>5. Unit(b) \in Seq(Ids) /\ Len(Unit(b)) = AU
  BY <1>1, <1>4
<1>6. IsInjective(Unit(b))
  BY <1>1, <1>4 DEF IsInjective
<1>7. ASSUME NEW r \in Ids
      PROVE  r \in ToSet(Unit(b)) <=> base <= r /\ r < base + AU
  <2>1. ASSUME base <= r, r < base + AU
        PROVE  r \in ToSet(Unit(b))
    <3>1. r - base + 1 \in 1 .. AU /\ Unit(b)[r - base + 1] = r
      BY <1>1, <1>4, <2>1
    <3>2. QED
      BY <1>4, <3>1 DEF ToSet
  <2>2. ASSUME r \in ToSet(Unit(b))
        PROVE  base <= r /\ r < base + AU
    BY <1>1, <1>4, <2>2 DEF ToSet
  <2>3. QED
    BY <2>1, <2>2
<1>8. QED
  BY <1>4, <1>5, <1>6, <1>7 DEF base

(* Whatever leaves the file as it is leaves the list.                      *)
LEMMA FileKept ==
  ASSUME Linked, UNCHANGED file
  PROVE  Linked' /\ Listed' = Listed
<1> PICK s : s = Listed
  OBVIOUS
<1>1. Listed' = Listed
  BY DEF Listed, Met, After, file
<1>2. Path(s)' /\ Rest(s)'
  BY DEF Linked, Path, Rest, file, Capacity
<1>3. QED
  BY <1>1, <1>2 DEF Linked, file

(* A new file has no list and every row in its stack.                      *)
LEMMA FreshFile ==
  blocks = 1 /\ freeSpace = Unit(0) /\ allocatedFirst = NONE /\ allocatedLast = NONE /\ link = ZeroLinks
    => Linked /\ Listed = <<>>
<1> SUFFICES ASSUME blocks = 1, freeSpace = Unit(0), allocatedFirst = NONE, allocatedLast = NONE,
                    link = ZeroLinks
             PROVE  Linked /\ Listed = <<>>
  OBVIOUS
<1>1. 0 \in Ids /\ 1 \in 1 .. MaxBlocks /\ RowCount \in Nat /\ AU \in Nat \ {0} /\ AU * 1 = AU /\ AU * 0 = 0
  BY Room, DbFileAssumption
<1>2. Path(<<>>)
  BY DEF Path, IsInjective
<1>3. Listed = <<>>
  <2>1. <<>> \in Seq(Ids) /\ Len(<<>>) <= RowCount
    BY <1>1
  <2>2. QED
    BY <1>2, <2>1, PathMet
<1>4. Rest(<<>>)
  <2>1. /\ Unit(0) \in Seq(Ids) /\ IsInjective(Unit(0)) /\ Len(Unit(0)) = AU
        /\ \A r \in Ids : r \in ToSet(Unit(0)) <=> AU * 0 <= r /\ r < AU * (0 + 1)
    BY <1>1, UnitRows
  <2>2. \A r \in Ids : r \in Nat
    BY Room
  <2>3. ToSet(<<>>) = {} /\ Len(<<>>) = 0
    BY DEF ToSet
  <2>4. QED
    BY <1>1, <2>1, <2>2, <2>3 DEF Rest, Capacity
<1>5. link \in [Ids -> [previous : IdOrNone, next : IdOrNone]]
  BY <1>1 DEF ZeroLinks, IdOrNone
<1>6. QED
  BY <1>1, <1>2, <1>3, <1>4, <1>5 DEF Linked

(* allocate hands out a row that was free and puts it last.                *)
LEMMA AllocateAppends ==
  ASSUME Linked, Allocate
  PROVE  /\ Popped \in Ids \ Allocated
         /\ Linked' /\ Listed' = Append(Listed, Popped)
<1> PICK s : s = Listed
  OBVIOUS
<1> PICK r : r = Popped
  OBVIOUS
<1> DEFINE F == IF freeSpace = <<>> THEN Unit(blocks) ELSE freeSpace
           l == Append(s, r)
<1>1. /\ Path(s) /\ Rest(s) /\ s \in Seq(Ids) /\ IsInjective(s)
      /\ blocks \in 1 .. MaxBlocks /\ link \in [Ids -> [previous : IdOrNone, next : IdOrNone]]
  BY DEF Linked, Path
<1>2. /\ r = Last(F) /\ freeSpace' = Front(F)
      /\ blocks' = (IF freeSpace = <<>> THEN blocks + 1 ELSE blocks) /\ blocks' \in 1 .. MaxBlocks
  BY <1>1, DbFileAssumption DEF Allocate, Pop, Popped
<1>3. /\ F \in Seq(Ids) /\ IsInjective(F) /\ F # <<>>
      /\ Len(F) + Len(s) = AU * blocks'
      /\ \A q \in Ids : q \in ToSet(F) <=> q < AU * blocks' /\ q \notin ToSet(s)
      /\ \A q \in ToSet(s) : q < AU * blocks'
  <2>1. CASE freeSpace # <<>>
    BY <1>1, <1>2, <2>1 DEF Rest, Capacity
  <2>2. CASE freeSpace = <<>>
    <3>1. /\ AU \in Nat \ {0} /\ AU * blocks \in Nat /\ AU * (blocks + 1) = AU * blocks + AU
          /\ blocks + 1 \in 1 .. MaxBlocks /\ blocks \in Nat
      BY <1>1, <1>2, <2>2, Room, DbFileAssumption
    <3>2. /\ Unit(blocks) \in Seq(Ids) /\ IsInjective(Unit(blocks)) /\ Len(Unit(blocks)) = AU
          /\ \A q \in Ids : q \in ToSet(Unit(blocks)) <=> AU * blocks <= q /\ q < AU * (blocks + 1)
      BY <3>1, UnitRows
    <3>3. /\ Len(s) = AU * blocks
          /\ \A q \in Ids : q \in ToSet(s) <=> q < AU * blocks
      BY <1>1, <2>2 DEF Rest, Capacity, ToSet
    <3>4. \A q \in Ids : q \in Nat
      BY Room
    <3>5. F = Unit(blocks) /\ blocks' = blocks + 1 /\ ToSet(s) \subseteq Ids
      BY <1>1, <1>2, <2>2 DEF ToSet
    <3>6. Unit(blocks) # <<>>
      BY <3>1, <3>2
    <3>7. \A q \in Ids : q \in ToSet(Unit(blocks)) <=> q < AU * blocks + AU /\ q \notin ToSet(s)
      BY <3>1, <3>2, <3>3, <3>4
    <3>8. \A q \in ToSet(s) : q < AU * blocks + AU
      BY <3>1, <3>3, <3>4, <3>5
    <3>9. Len(F) + Len(s) = AU * blocks'
      <4>1. Len(F) + Len(s) = AU + AU * blocks
        BY <3>2, <3>3, <3>5
      <4>2. AU * blocks' = AU * blocks + AU
        BY <3>1, <3>5
      <4>3. QED
        BY <3>1, <4>1, <4>2
    <3>10. QED
      BY <3>1, <3>2, <3>5, <3>6, <3>7, <3>8, <3>9
  <2>3. QED
    BY <2>1, <2>2
<1> HIDE DEF F
<1>4. /\ freeSpace' \in Seq(Ids) /\ IsInjective(freeSpace') /\ Len(freeSpace') = Len(F) - 1
      /\ r \in ToSet(F) /\ ToSet(freeSpace') = ToSet(F) \ {r}
  BY <1>2, <1>3, LastOff
<1>5. r \in Ids \ ToSet(s)
  <2>1. ToSet(F) \subseteq Ids
    BY <1>3 DEF ToSet
  <2>2. QED
    BY <1>3, <1>4, <2>1
<1>6. /\ l \in Seq(Ids) /\ IsInjective(l) /\ Len(l) = Len(s) + 1 /\ DOMAIN l = 1 .. Len(s) + 1
      /\ \A i \in 1 .. Len(s) + 1 : l[i] = IF i <= Len(s) THEN s[i] ELSE r
      /\ ToSet(l) = ToSet(s) \union {r} /\ Len(s) \in Nat
  BY <1>1, <1>5, OneMore
<1> HIDE DEF l
<1>7. Rest(l)'
  <2>1. Len(freeSpace') + Len(l) = AU * blocks'
    BY <1>3, <1>4, <1>6
  <2>2. \A q \in Ids : q \in ToSet(freeSpace') <=> q < AU * blocks' /\ q \notin ToSet(l)
    BY <1>3, <1>4, <1>6
  <2>3. \A q \in ToSet(l) : q < AU * blocks'
    BY <1>3, <1>4, <1>5, <1>6
  <2>4. QED
    BY <1>4, <2>1, <2>2, <2>3 DEF Rest, Capacity
<1>8. /\ link' = [x \in Ids |->
           IF x = r THEN [previous |-> allocatedLast, next |-> NONE]
           ELSE IF x = allocatedLast THEN [link[x] EXCEPT !.next = r] ELSE link[x]]
      /\ allocatedFirst' = IF allocatedFirst = NONE THEN r ELSE allocatedFirst
      /\ allocatedLast' = r
  <2>1. /\ link' = [x \in Ids |->
             CASE x = r -> [previous |-> allocatedLast, next |-> NONE]
               [] x = allocatedLast /\ allocatedFirst # NONE -> [link[x] EXCEPT !.next = r]
               [] OTHER -> link[x]]
        /\ allocatedFirst' = IF allocatedFirst = NONE THEN r ELSE allocatedFirst
        /\ allocatedLast' = r
    BY DEF Allocate, LinkLast
  <2>2. r # allocatedLast /\ (allocatedFirst = NONE <=> allocatedLast = NONE)
    <3>1. s # <<>> => s[1] \in ToSet(s) /\ s[Len(s)] \in ToSet(s) /\ ToSet(s) \subseteq Ids
      BY <1>1 DEF ToSet
    <3>2. QED
      BY <1>1, <1>5, <3>1, Room DEF Path
  <2>3. \A x \in Ids : x # NONE
    BY Room
  <2>4. QED
    BY <2>1, <2>2, <2>3
<1>9. link' \in [Ids -> [previous : IdOrNone, next : IdOrNone]]
  <2>1. allocatedLast \in IdOrNone
    BY <1>1 DEF Path, IdOrNone
  <2>2. r \in IdOrNone /\ NONE \in IdOrNone
    BY <1>5 DEF IdOrNone
  <2>3. QED
    BY <1>1, <1>5, <1>8, <2>1, <2>2
<1>10. Path(l)'
  <2>1. NONE \notin Ids
    BY Room
  <2>2. \A k \in 1 .. Len(s) : s[k] \in Ids /\ s[k] # r
    BY <1>1, <1>5 DEF ToSet
  <2>3. allocatedFirst' = (IF l = <<>> THEN NONE ELSE l[1]) /\ allocatedLast' = (IF l = <<>> THEN NONE ELSE l[Len(l)])
    BY <1>1, <1>6, <1>8, <2>1, <2>2 DEF Path
  <2>4. ASSUME NEW k \in 1 .. Len(s) + 1
        PROVE  /\ link'[l[k]].next = IF k = Len(l) THEN NONE ELSE l[k + 1]
               /\ link'[l[k]].previous = IF k = 1 THEN NONE ELSE l[k - 1]
    <3>1. CASE k = Len(s) + 1
      <4>1. l[k] = r /\ link'[r] = [previous |-> allocatedLast, next |-> NONE]
        <5>1. l[k] = r
          BY <1>6, <3>1
        <5>2. QED
          BY <1>5, <1>8, <5>1
      <4>2. allocatedLast = IF k = 1 THEN NONE ELSE l[k - 1]
        BY <1>1, <1>6, <3>1 DEF Path
      <4>3. QED
        BY <1>6, <3>1, <4>1, <4>2
    <3>2. CASE k = Len(s)
      <4>1. l[k] = s[k] /\ l[k + 1] = r /\ s[k] # r /\ (k # 1 => l[k - 1] = s[k - 1])
        BY <1>6, <2>2, <3>2
      <4>6. s[k] = allocatedLast
        <5>1. s # <<>>
          BY <1>6, <3>2
        <5>2. QED
          BY <1>1, <3>2, <5>1 DEF Path
      <4>2. link'[s[k]] = [link[s[k]] EXCEPT !.next = r]
        BY <1>8, <2>2, <3>2, <4>1, <4>6
      <4>3. link'[s[k]].next = r /\ link'[s[k]].previous = link[s[k]].previous
        BY <1>1, <2>2, <3>2, <4>2
      <4>4. link[s[k]].previous = IF k = 1 THEN NONE ELSE s[k - 1]
        BY <1>1, <1>6, <3>2 DEF Path
      <4>5. QED
        BY <1>6, <3>2, <4>1, <4>3, <4>4
    <3>3. CASE k < Len(s)
      <4>1. l[k] = s[k] /\ l[k + 1] = s[k + 1] /\ s[k] # r /\ (k # 1 => l[k - 1] = s[k - 1])
        BY <1>6, <2>2, <3>3
      <4>2. s[k] # allocatedLast
        BY <1>1, <1>6, <3>3 DEF Path, IsInjective
      <4>3. link'[s[k]] = link[s[k]]
        BY <1>8, <2>2, <3>3, <4>1, <4>2
      <4>4. /\ link[s[k]].next = s[k + 1]
            /\ link[s[k]].previous = IF k = 1 THEN NONE ELSE s[k - 1]
        BY <1>1, <1>6, <3>3 DEF Path
      <4>5. QED
        BY <1>6, <3>3, <4>1, <4>3, <4>4
    <3>4. QED
      BY <1>6, <3>1, <3>2, <3>3
  <2>5. QED
    BY <1>6, <2>3, <2>4 DEF Path
<1>11. Listed' = l
  <2>1. (\A path \in Seq(Ids) : Path(path) /\ Len(path) <= RowCount => Listed = path)'
    BY PathMet, PTL
  <2>2. Ids' = Ids /\ RowCount' = RowCount
    BY DEF Ids, RowCount
  <2>3. Len(l) <= RowCount
    <3>1. AU * blocks' <= RowCount /\ AU * blocks' \in Nat /\ Len(freeSpace') \in Nat
      BY <1>2, <1>4, Room
    <3>2. Len(freeSpace') + Len(l) = AU * blocks'
      BY <1>7 DEF Rest, Capacity
    <3>3. QED
      BY <1>6, <3>1, <3>2, Room
  <2>4. QED
    BY <1>6, <1>10, <2>1, <2>2, <2>3
<1>12. QED
  BY <1>2, <1>5, <1>7, <1>9, <1>10, <1>11 DEF Linked, Allocated, l

(* free takes its row out of the list, wherever it stands.                 *)
LEMMA FreeRemoves ==
  ASSUME Linked, NEW r \in Allocated, Free(r)
  PROVE  /\ Linked'
         /\ \E j \in DOMAIN Listed : Listed[j] = r /\ Listed' = RemoveAt(Listed, j)
         /\ Allocated' = Allocated \ {r}
<1> PICK s : s = Listed
  OBVIOUS
<1>1. /\ Path(s) /\ Rest(s) /\ s \in Seq(Ids) /\ IsInjective(s) /\ Len(s) \in Nat /\ DOMAIN s = 1 .. Len(s)
      /\ blocks \in 1 .. MaxBlocks /\ link \in [Ids -> [previous : IdOrNone, next : IdOrNone]]
  BY DEF Linked, Path
<1>2. PICK j \in DOMAIN s : s[j] = r
  BY DEF Allocated, ToSet
<1> DEFINE u == RemoveAt(s, j)
<1>3. /\ u \in Seq(Ids) /\ IsInjective(u)
      /\ DOMAIN u = 1 .. Len(s) - 1 /\ Len(u) = Len(s) - 1
      /\ \A i \in 1 .. Len(s) - 1 : u[i] = IF i < j THEN s[i] ELSE s[i + 1]
      /\ ToSet(u) = ToSet(s) \ {r}
  <2>1. s \in Seq(Ids) /\ IsInjective(s) /\ j \in DOMAIN s
    BY <1>1
  <2>2. ToSet(u) = ToSet(s) \ {s[j]}
    BY <2>1, OneLess
  <2>3. QED
    BY <1>2, <2>1, <2>2, OneLess
<1> HIDE DEF u
<1>12. j \in Int /\ 1 <= j /\ j <= Len(s) /\ Len(s) \in Int
  BY <1>1, <1>2
<1>4. r \in Ids /\ NONE \notin Ids /\ r \in ToSet(s) /\ \A k \in DOMAIN s : s[k] \in Ids
  BY <1>1, <1>2, Room DEF ToSet
<1>5. Rest(u)'
  <2>1. freeSpace' = Append(freeSpace, r) /\ blocks' = blocks
    BY DEF Free, Push
  <2>2. r \notin ToSet(freeSpace) /\ r < Capacity
    BY <1>1, <1>4 DEF Rest
  <2>3. /\ freeSpace' \in Seq(Ids) /\ IsInjective(freeSpace') /\ Len(freeSpace') = Len(freeSpace) + 1
        /\ ToSet(freeSpace') = ToSet(freeSpace) \union {r} /\ Len(freeSpace) \in Nat
    BY <1>1, <1>4, <2>1, <2>2, OneMore DEF Rest
  <2>4. Capacity' = Capacity
    BY <2>1 DEF Capacity
  <2>5. Len(freeSpace') + Len(u) = Capacity
    BY <1>1, <1>3, <2>3 DEF Rest
  <2>6. QED
    BY <1>1, <1>3, <1>4, <2>2, <2>3, <2>4, <2>5 DEF Rest
<1> DEFINE before == IF j = 1 THEN NONE ELSE s[j - 1]
           behind == IF j = Len(s) THEN NONE ELSE s[j + 1]
<1>6. /\ link' = [x \in Ids |->
           IF x = r THEN Nowhere
           ELSE [previous |-> IF x = behind THEN before ELSE link[x].previous,
                 next     |-> IF x = before THEN behind ELSE link[x].next]]
      /\ allocatedFirst' = IF before = NONE THEN behind ELSE allocatedFirst
      /\ allocatedLast' = IF behind = NONE THEN before ELSE allocatedLast
  <2>1. link[r].next = behind /\ link[r].previous = before
    BY <1>1, <1>2 DEF Path
  <2>2. QED
    BY <2>1 DEF Free, Unlink
<1>7. before \in IdOrNone /\ behind \in IdOrNone
  BY <1>1, <1>2, <1>4 DEF IdOrNone
<1>8. link' \in [Ids -> [previous : IdOrNone, next : IdOrNone]]
  <2>1. Nowhere \in [previous : IdOrNone, next : IdOrNone]
    BY DEF Nowhere, IdOrNone
  <2>2. QED
    BY <1>1, <1>6, <1>7, <2>1
<1>9. Path(u)'
  <2>1. allocatedFirst' = IF u = <<>> THEN NONE ELSE u[1]
    <3>1. CASE j = 1
      <4>1. before = NONE /\ behind = IF Len(s) = 1 THEN NONE ELSE s[2]
        BY <3>1
      <4>2. u # <<>> => Len(s) # 1 /\ u[1] = s[2]
        BY <1>1, <1>3, <3>1
      <4>3. u = <<>> => Len(s) = 1
        <5>1. u = <<>> => Len(u) = 0
          OBVIOUS
        <5>2. QED
          BY <1>3, <1>12, <5>1
      <4>4. QED
        BY <1>6, <4>1, <4>2, <4>3
    <3>2. CASE j # 1
      <4>1. before # NONE /\ s # <<>> /\ u # <<>> /\ u[1] = s[1]
        BY <1>1, <1>2, <1>3, <1>4, <3>2
      <4>2. QED
        BY <1>1, <1>6, <4>1 DEF Path
    <3>3. QED
      BY <3>1, <3>2
  <2>2. allocatedLast' = IF u = <<>> THEN NONE ELSE u[Len(u)]
    <3>1. CASE j = Len(s)
      <4>1. behind = NONE /\ before = IF Len(s) = 1 THEN NONE ELSE s[Len(s) - 1]
        BY <3>1
      <4>2. u # <<>> => Len(s) # 1 /\ u[Len(u)] = s[Len(s) - 1]
        BY <1>1, <1>3, <3>1
      <4>3. u = <<>> => Len(s) = 1
        <5>1. u = <<>> => Len(u) = 0
          OBVIOUS
        <5>2. QED
          BY <1>3, <1>12, <5>1
      <4>4. QED
        BY <1>6, <4>1, <4>2, <4>3
    <3>2. CASE j # Len(s)
      <4>1. behind # NONE /\ s # <<>> /\ u # <<>> /\ u[Len(u)] = s[Len(s)]
        BY <1>1, <1>2, <1>3, <1>4, <3>2
      <4>2. QED
        BY <1>1, <1>6, <4>1 DEF Path
    <3>3. QED
      BY <3>1, <3>2
  <2>3. ASSUME NEW k \in 1 .. Len(s), k # j
        PROVE  /\ link'[s[k]].next = IF k = j - 1 THEN behind ELSE IF k = Len(s) THEN NONE ELSE s[k + 1]
               /\ link'[s[k]].previous = IF k = j + 1 THEN before ELSE IF k = 1 THEN NONE ELSE s[k - 1]
    <3>1. s[k] # r /\ s[k] \in Ids
      BY <1>1, <1>2, <1>4, <2>3 DEF IsInjective
    <3>2. s[k] = before <=> k = j - 1
      BY <1>1, <1>2, <1>4, <2>3 DEF IsInjective
    <3>3. s[k] = behind <=> k = j + 1
      BY <1>1, <1>2, <1>4, <2>3 DEF IsInjective
    <3>4. /\ link[s[k]].next = IF k = Len(s) THEN NONE ELSE s[k + 1]
          /\ link[s[k]].previous = IF k = 1 THEN NONE ELSE s[k - 1]
      BY <1>1, <2>3 DEF Path
    <3>5. link'[s[k]] = [previous |-> IF s[k] = behind THEN before ELSE link[s[k]].previous,
                         next     |-> IF s[k] = before THEN behind ELSE link[s[k]].next]
      BY <1>6, <3>1
    <3>6. QED
      BY <3>2, <3>3, <3>4, <3>5
  <2>4. ASSUME NEW k \in 1 .. Len(s) - 1
        PROVE  /\ link'[u[k]].next = IF k = Len(u) THEN NONE ELSE u[k + 1]
               /\ link'[u[k]].previous = IF k = 1 THEN NONE ELSE u[k - 1]
    <3>1. CASE k < j
      <4>1. k \in 1 .. Len(s) /\ k # j /\ u[k] = s[k] /\ k # j + 1 /\ k # Len(s)
        <5>1. u[k] = s[k]
          BY <1>3, <3>1
        <5>2. QED
          BY <1>12, <3>1, <5>1
      <4>2. /\ link'[s[k]].next = IF k = j - 1 THEN behind ELSE s[k + 1]
            /\ link'[s[k]].previous = IF k = 1 THEN NONE ELSE s[k - 1]
        BY <2>3, <4>1
      <4>3. k # 1 => u[k - 1] = s[k - 1]
        BY <1>1, <1>2, <1>3, <3>1
      <4>4. k = j - 1 => behind = IF k = Len(u) THEN NONE ELSE u[k + 1]
        BY <1>1, <1>2, <1>3, <3>1
      <4>5. k # j - 1 => k # Len(u) /\ u[k + 1] = s[k + 1]
        <5>1. k # j - 1 => k + 1 < j /\ k + 1 \in 1 .. Len(s) - 1 /\ k # Len(s) - 1
          BY <1>12, <3>1
        <5>2. QED
          BY <1>3, <5>1
      <4>6. QED
        BY <4>1, <4>2, <4>3, <4>4, <4>5
    <3>2. CASE k >= j
      <4>1. k + 1 \in 1 .. Len(s) /\ k + 1 # j /\ u[k] = s[k + 1] /\ k + 1 # j - 1 /\ k + 1 # 1
        BY <1>1, <1>2, <1>3, <3>2
      <4>2. /\ link'[s[k + 1]].next = IF k + 1 = Len(s) THEN NONE ELSE s[(k + 1) + 1]
            /\ link'[s[k + 1]].previous = IF k + 1 = j + 1 THEN before ELSE s[(k + 1) - 1]
        BY <2>3, <4>1
      <4>3. IF k + 1 = Len(s) THEN k = Len(u) ELSE k # Len(u) /\ u[k + 1] = s[(k + 1) + 1]
        <5>1. k + 1 = Len(s) <=> k = Len(s) - 1
          BY <1>12
        <5>2. k + 1 # Len(s) => k + 1 \in 1 .. Len(s) - 1 /\ ~(k + 1 < j)
          BY <1>12, <3>2
        <5>3. QED
          BY <1>3, <5>1, <5>2
      <4>4. k = j => before = IF k = 1 THEN NONE ELSE u[k - 1]
        BY <1>1, <1>2, <1>3
      <4>5. k # j => k # 1 /\ u[k - 1] = s[(k + 1) - 1]
        BY <1>1, <1>2, <1>3, <3>2
      <4>6. k + 1 = j + 1 <=> k = j
        BY <1>1, <1>2
      <4>7. QED
        BY <4>1, <4>2, <4>3, <4>4, <4>5, <4>6
    <3>3. QED
      BY <1>1, <1>2, <3>1, <3>2
  <2>5. QED
    BY <1>3, <2>1, <2>2, <2>4 DEF Path
<1>10. Listed' = u
  <2>1. (\A path \in Seq(Ids) : Path(path) /\ Len(path) <= RowCount => Listed = path)'
    BY PathMet, PTL
  <2>2. Ids' = Ids /\ RowCount' = RowCount
    BY DEF Ids, RowCount
  <2>3. Len(u) <= RowCount
    <3>1. Capacity <= RowCount /\ Capacity \in Nat /\ Len(freeSpace) \in Nat /\ Len(freeSpace) + Len(s) = Capacity
      BY <1>1, Room DEF Capacity, Rest
    <3>2. QED
      BY <1>1, <1>3, <3>1, Room
  <2>4. QED
    BY <1>3, <1>9, <2>1, <2>2, <2>3
<1>11. blocks' = blocks
  BY DEF Free, Push
<1>13. QED
  BY <1>1, <1>2, <1>3, <1>5, <1>8, <1>9, <1>10, <1>11 DEF Linked, Allocated, u

-----------------------------------------------------------------------------
(* What a step does to the list.                                           *)
LEMMA ListStep ==
  ASSUME Linked, [Next]_vars
  PROVE  /\ Linked'
         /\ Allocate => Popped \in Ids \ Allocated /\ Listed' = Append(Listed, Popped)
         /\ \A r \in Allocated : Free(r) =>
              \E j \in DOMAIN Listed : Listed[j] = r /\ Listed' = RemoveAt(Listed, j)
         /\ Clobber => Listed' = <<>>
         /\ UNCHANGED file => Listed' = Listed
<1>1. Allocate => Linked' /\ Popped \in Ids \ Allocated /\ Listed' = Append(Listed, Popped)
  BY AllocateAppends
<1>2. \A r \in Allocated : Free(r) =>
        Linked' /\ \E j \in DOMAIN Listed : Listed[j] = r /\ Listed' = RemoveAt(Listed, j)
  BY FreeRemoves
<1>3. Clobber => Linked' /\ Listed' = <<>>
  <2>1. (blocks = 1 /\ freeSpace = Unit(0) /\ allocatedFirst = NONE /\ allocatedLast = NONE /\ link = ZeroLinks
           => Linked /\ Listed = <<>>)'
    BY FreshFile, PTL
  <2>2. Unit(0)' = Unit(0) /\ ZeroLinks' = ZeroLinks
    BY DEF Unit, ZeroLinks, Ids
  <2>3. QED
    BY <2>1, <2>2 DEF Clobber
<1>4. UNCHANGED file => Linked' /\ Listed' = Listed
  BY FileKept
<1>5. Allocate \/ (\E r \in Allocated : Free(r)) \/ Clobber \/ UNCHANGED file
  BY DEF Next, Begin, Advance, Reopen, vars, file
<1>6. QED
  BY <1>1, <1>2, <1>3, <1>4, <1>5

(* Every step keeps the links a path through the rows in use.              *)
LEMMA LinkedHolds == Spec => []Linked
<1>1. Init => Linked
  BY FreshFile DEF Init
<1>2. Linked /\ [Next]_vars => Linked'
  BY ListStep
<1>3. QED
  BY <1>1, <1>2, PTL DEF Spec

(* The stack and the links implement the ordered set of rows: whatever     *)
(* number of rows a unit has and however often the file grows, is freed    *)
(* from, closed or clobbered.                                              *)
THEOREM Refinement == Spec => ImplementsRowFile
<1>1. Init => OrderedRows!Init
  BY FreshFile DEF Init, OrderedRows!Init
<1>2. ASSUME Linked, [Next]_vars
      PROVE  [OrderedRows!Next]_Listed
  <2> PICK s : s = Listed
    OBVIOUS
  <2>1. s \in Seq(Ids) /\ IsInjective(s)
    BY <1>2 DEF Linked, Path
  <2>2. CASE Allocate
    <3>1. PICK r \in Ids : r \notin ToSet(s) /\ Listed' = Append(s, r)
      BY <1>2, <2>2, ListStep DEF Allocated
    <3>2. Len(Append(s, r)) > Len(s) /\ Last(Append(s, r)) = r
      BY <2>1, <3>1, OneMore DEF Last
    <3>3. r \in Nat
      BY Room
    <3>4. QED
      BY <3>1, <3>2, <3>3
         DEF OrderedRows!Next, OrderedRows!Allocate, OrderedRows!Last, Last, OrderedRows!ToSet, ToSet
  <2>3. CASE \E r \in Allocated : Free(r)
    <3>1. \E j \in DOMAIN Listed : Listed' = RemoveAt(Listed, j)
      BY <1>2, <2>3, ListStep
    <3>2. QED
      BY <3>1 DEF OrderedRows!Next, OrderedRows!Free, OrderedRows!RemoveAt, RemoveAt
  <2>4. CASE Clobber
    BY <1>2, <2>4, ListStep DEF OrderedRows!Next, OrderedRows!Clobber
  <2>5. CASE UNCHANGED file
    BY <1>2, <2>5, ListStep
  <2>6. QED
    BY <1>2, <2>2, <2>3, <2>4, <2>5 DEF Next, Begin, Advance, Reopen, vars, file
<1>3. QED
  BY <1>1, <1>2, LinkedHolds, PTL DEF Spec, ImplementsRowFile, OrderedRows!Spec

-----------------------------------------------------------------------------
(* The rows of s from r on.                                                *)
From(s, r) == {s[k] : k \in {k \in DOMAIN s : \E j \in 1 .. k : s[j] = r}}

(* From a row that s has not, nothing.                                     *)
LEMMA FromNowhere ==
  ASSUME NEW s \in Seq(Ids), NEW r, r \notin ToSet(s)
  PROVE  From(s, r) = {}
BY DEF From, ToSet

(* From its first row, everything.                                         *)
LEMMA FromFirst ==
  ASSUME NEW s \in Seq(Ids), s # <<>>
  PROVE  From(s, s[1]) = ToSet(s)
BY DEF From, ToSet

(* A row is met first; then comes what comes after it.                     *)
LEMMA FromNext ==
  ASSUME NEW s \in Seq(Ids), IsInjective(s), NEW k \in 1 .. Len(s)
  PROVE  /\ s[k] \in From(s, s[k]) /\ From(s, s[k]) \subseteq ToSet(s)
         /\ k < Len(s) => From(s, s[k + 1]) = From(s, s[k]) \ {s[k]}
         /\ k = Len(s) => From(s, s[k]) = {s[k]}
<1>1. DOMAIN s = 1 .. Len(s) /\ Len(s) \in Nat
  OBVIOUS
<1>2. \A n \in 1 .. Len(s) : From(s, s[n]) = {s[i] : i \in n .. Len(s)}
  BY <1>1 DEF From, IsInjective
<1>3. s[k] \in From(s, s[k]) /\ From(s, s[k]) \subseteq ToSet(s)
  BY <1>1, <1>2 DEF ToSet
<1>4. ASSUME k < Len(s)
      PROVE  From(s, s[k + 1]) = From(s, s[k]) \ {s[k]}
  <2>1. k + 1 \in 1 .. Len(s)
    BY <1>1, <1>4
  <2>2. \A i \in k .. Len(s) : i # k => i \in k + 1 .. Len(s)
    OBVIOUS
  <2>3. \A i \in k + 1 .. Len(s) : i \in k .. Len(s) /\ i \in 1 .. Len(s) /\ i # k
    BY <1>1
  <2>4. \A i \in k + 1 .. Len(s) : s[i] # s[k]
    BY <1>1, <2>3 DEF IsInjective
  <2>5. {s[i] : i \in k + 1 .. Len(s)} = {s[i] : i \in k .. Len(s)} \ {s[k]}
    BY <2>2, <2>3, <2>4
  <2>6. QED
    BY <1>2, <2>1, <2>5
<1>5. k = Len(s) => From(s, s[k]) = {s[k]}
  BY <1>1, <1>2
<1>6. QED
  BY <1>3, <1>4, <1>5

(* A row that joins the list is ahead of all in it.                        *)
LEMMA FromAppended ==
  ASSUME NEW s \in Seq(Ids), IsInjective(s), NEW q \in Ids \ ToSet(s), NEW r \in ToSet(s)
  PROVE  From(Append(s, q), r) = From(s, r) \union {q}
<1> DEFINE l == Append(s, q)
<1>1. /\ Len(s) \in Nat /\ DOMAIN s = 1 .. Len(s) /\ DOMAIN l = 1 .. Len(s) + 1
      /\ \A i \in 1 .. Len(s) + 1 : l[i] = IF i <= Len(s) THEN s[i] ELSE q
  BY OneMore
<1> HIDE DEF l
<1>2. PICK n \in 1 .. Len(s) : s[n] = r
  BY <1>1 DEF ToSet
<1>3. \A k \in 1 .. Len(s) : (\E j \in 1 .. k : s[j] = r) <=> (\E j \in 1 .. k : l[j] = r)
  BY <1>1
<1>4. \E j \in 1 .. Len(s) + 1 : l[j] = r
  BY <1>1, <1>2
<1>5. \A k \in 1 .. Len(s) + 1 : k \in 1 .. Len(s) \/ k = Len(s) + 1
  BY <1>1
<1>6. l[Len(s) + 1] = q /\ Len(s) + 1 \in 1 .. Len(s) + 1 /\ \A k \in 1 .. Len(s) : l[k] = s[k] /\ k \in 1 .. Len(s) + 1
  BY <1>1
<1>7. From(l, r) = From(s, r) \union {q}
  BY <1>1, <1>3, <1>4, <1>5, <1>6 DEF From
<1>8. QED
  BY <1>7 DEF l

(* A row that leaves the list is ahead of none; nothing else changes.      *)
LEMMA FromRemoved ==
  ASSUME NEW s \in Seq(Ids), IsInjective(s), NEW j \in DOMAIN s, NEW r, r # s[j]
  PROVE  From(RemoveAt(s, j), r) = From(s, r) \ {s[j]}
<1> DEFINE u == RemoveAt(s, j)
<1>1. /\ Len(s) \in Nat /\ DOMAIN s = 1 .. Len(s) /\ j \in 1 .. Len(s) /\ DOMAIN u = 1 .. Len(s) - 1
      /\ \A i \in 1 .. Len(s) - 1 : u[i] = IF i < j THEN s[i] ELSE s[i + 1]
  BY OneLess
<1> HIDE DEF u
<1>2. ASSUME NEW k \in 1 .. Len(s) - 1, NEW i \in 1 .. k, u[i] = r
      PROVE  \E m \in 1 .. Len(s) : m # j /\ s[m] = u[k] /\ \E n \in 1 .. m : s[n] = r
  <2>1. PICK m \in 1 .. Len(s) : m = IF k < j THEN k ELSE k + 1
    BY <1>1
  <2>2. PICK n \in 1 .. m : n = IF i < j THEN i ELSE i + 1
    BY <1>1, <2>1
  <2>3. i \in 1 .. Len(s) - 1 /\ m # j
    BY <1>1, <2>1
  <2>4. s[m] = u[k] /\ s[n] = u[i]
    BY <1>1, <2>1, <2>2, <2>3
  <2>5. QED
    BY <1>2, <2>3, <2>4
<1>3. ASSUME NEW m \in 1 .. Len(s), NEW n \in 1 .. m, s[n] = r, m # j
      PROVE  \E k \in 1 .. Len(s) - 1 : u[k] = s[m] /\ \E i \in 1 .. k : u[i] = r
  <2>1. n # j /\ n \in 1 .. Len(s)
    BY <1>1, <1>3
  <2>2. PICK k \in 1 .. Len(s) - 1 : k = IF m < j THEN m ELSE m - 1
    BY <1>1, <1>3
  <2>3. PICK i \in 1 .. k : i = IF n < j THEN n ELSE n - 1
    BY <1>1, <1>3, <2>1, <2>2
  <2>4. u[k] = s[m]
    BY <1>1, <1>3, <2>2
  <2>5. u[i] = s[n]
    <3>1. i \in 1 .. Len(s) - 1
      BY <1>1, <2>3
    <3>2. u[i] = IF i < j THEN s[i] ELSE s[i + 1]
      BY <1>1, <3>1
    <3>3. (IF i < j THEN i ELSE i + 1) = n
      BY <1>1, <2>1, <2>3
    <3>4. QED
      BY <3>2, <3>3
  <2>6. QED
    BY <1>3, <2>4, <2>5
<1>4. \A m \in 1 .. Len(s) : s[m] = s[j] => m = j
  BY <1>1 DEF IsInjective
<1>5. From(u, r) \subseteq From(s, r) \ {s[j]}
  <2>1. SUFFICES ASSUME NEW x \in From(u, r)
                 PROVE  x \in From(s, r) \ {s[j]}
    OBVIOUS
  <2>2. PICK k \in 1 .. Len(s) - 1 : u[k] = x /\ \E i \in 1 .. k : u[i] = r
    BY <1>1, <2>1 DEF From
  <2>3. PICK m \in 1 .. Len(s) : m # j /\ s[m] = x /\ \E n \in 1 .. m : s[n] = r
    BY <1>2, <2>2
  <2>4. QED
    BY <1>1, <1>4, <2>3 DEF From
<1>6. From(s, r) \ {s[j]} \subseteq From(u, r)
  <2>1. SUFFICES ASSUME NEW x \in From(s, r), x # s[j]
                 PROVE  x \in From(u, r)
    OBVIOUS
  <2>2. PICK m \in 1 .. Len(s) : s[m] = x /\ \E n \in 1 .. m : s[n] = r
    BY <1>1, <2>1 DEF From
  <2>3. PICK k \in 1 .. Len(s) - 1 : u[k] = x /\ \E i \in 1 .. k : u[i] = r
    BY <1>3, <2>1, <2>2
  <2>4. QED
    BY <1>1, <2>3 DEF From
<1>7. QED
  BY <1>5, <1>6 DEF u

-----------------------------------------------------------------------------
(* A pass that stands at row t, has met the rows old and owes the rows new. *)
OnCourse(s, t, old, new) ==
  /\ t = NONE \/ t \in From(s, t)
  /\ new \subseteq From(s, t)
  /\ old \intersect From(s, t) = {}

(* The property, said of the list as a value.                              *)
LEMMA Courses ==
  PassesSound <=> \A i \in Iterators : ~spoiled[i] => OnCourse(Listed, target[i], seen[i], unseen[i])
BY DEF PassesSound, Ahead, From, OnCourse, AtEnd

(* A pass that has not met a row stays on course when the row joins.       *)
LEMMA CourseAppended ==
  ASSUME NEW s \in Seq(Ids), IsInjective(s), NEW q \in Ids \ ToSet(s),
         NEW t, NEW old \in SUBSET ToSet(s), NEW new, OnCourse(s, t, old, new)
  PROVE  OnCourse(Append(s, q), t, old, new)
<1> DEFINE l == Append(s, q)
<1>1. l \in Seq(Ids) /\ ToSet(l) = ToSet(s) \union {q} /\ ToSet(l) \subseteq Ids
  BY OneMore DEF ToSet
<1> HIDE DEF l
<1>2. CASE t = NONE
  <2>1. t \notin ToSet(l) /\ t \notin ToSet(s)
    BY <1>1, <1>2, Room
  <2>2. From(l, t) = {} /\ From(s, t) = {}
    BY <1>1, <2>1, FromNowhere
  <2>3. QED
    BY <1>2, <2>2 DEF OnCourse, l
<1>3. CASE t # NONE
  <2>1. t \in ToSet(s)
    BY <1>3, FromNowhere DEF OnCourse
  <2>2. From(l, t) = From(s, t) \union {q}
    BY <2>1, FromAppended DEF l
  <2>3. QED
    BY <2>2 DEF OnCourse, l
<1>4. QED
  BY <1>2, <1>3

(* ... and when a row leaves that it does not stand at.                    *)
LEMMA CourseRemoved ==
  ASSUME NEW s \in Seq(Ids), IsInjective(s), NEW j \in DOMAIN s,
         NEW t, t # s[j], NEW old, NEW new, OnCourse(s, t, old, new)
  PROVE  OnCourse(RemoveAt(s, j), t, old \ {s[j]}, new \ {s[j]})
BY FromRemoved DEF OnCourse

(* The next row is the one the links name.                                 *)
LEMMA CourseAdvanced ==
  ASSUME Linked, NEW t \in Ids, NEW old, NEW new, OnCourse(Listed, t, old, new)
  PROVE  /\ t \in Allocated
         /\ OnCourse(Listed, link[t].next, old \union {t}, new \ {t})
<1> PICK s : s = Listed
  OBVIOUS
<1>1. s \in Seq(Ids) /\ IsInjective(s) /\ DOMAIN s = 1 .. Len(s) /\ Path(s) /\ NONE \notin Ids
  BY Room DEF Linked, Path
<1>2. t \in From(s, t) /\ t \in ToSet(s)
  BY <1>1, FromNowhere DEF OnCourse
<1>3. PICK k \in 1 .. Len(s) : s[k] = t
  BY <1>1, <1>2 DEF ToSet
<1>4. CASE k = Len(s)
  <2>1. link[t].next = NONE
    BY <1>1, <1>3, <1>4 DEF Path
  <2>2. NONE \notin ToSet(s)
    BY <1>1 DEF ToSet
  <2>3. From(s, NONE) = {} /\ From(s, t) = {t}
    BY <1>1, <1>3, <1>4, <2>2, FromNowhere, FromNext
  <2>4. QED
    BY <1>2, <2>1, <2>3 DEF OnCourse, Allocated
<1>5. CASE k # Len(s)
  <2>1. k \in Int /\ 1 <= k /\ k <= Len(s) /\ Len(s) \in Int
    BY <1>1, <1>3
  <2>2. k + 1 \in 1 .. Len(s) /\ k < Len(s)
    BY <1>5, <2>1
  <2>3. link[t].next = s[k + 1]
    BY <1>1, <1>3, <1>5 DEF Path
  <2>4. From(s, s[k + 1]) = From(s, t) \ {t} /\ s[k + 1] \in From(s, s[k + 1])
    BY <1>1, <1>3, <2>2, FromNext
  <2>5. QED
    BY <1>2, <2>3, <2>4 DEF OnCourse, Allocated
<1>6. QED
  BY <1>4, <1>5

(* A pass starts on course.                                                *)
LEMMA CourseBegun ==
  ASSUME Linked
  PROVE  OnCourse(Listed, allocatedFirst, {}, Allocated)
<1> PICK s : s = Listed
  OBVIOUS
<1>1. s \in Seq(Ids) /\ IsInjective(s) /\ Path(s) /\ NONE \notin Ids
  BY Room DEF Linked, Path
<1>2. CASE s = <<>>
  <2>1. allocatedFirst = NONE /\ ToSet(s) = {}
    BY <1>1, <1>2 DEF Path, ToSet
  <2>2. QED
    BY <2>1 DEF OnCourse, Allocated
<1>3. CASE s # <<>>
  <2>1. allocatedFirst = s[1]
    BY <1>1, <1>3 DEF Path
  <2>2. s[1] \in ToSet(s)
    BY <1>1, <1>3 DEF ToSet
  <2>3. From(s, s[1]) = ToSet(s)
    BY <1>1, <1>3, FromFirst
  <2>4. QED
    BY <2>1, <2>2, <2>3 DEF OnCourse, Allocated
<1>4. QED
  BY <1>2, <1>3

(* No pass is under way.                                                   *)
LEMMA CoursesClosed ==
  ASSUME target = Untargeted, seen = NoRows, unseen = NoRows, spoiled = Unspoiled
  PROVE  Remembered /\ \A i \in Iterators : OnCourse(Listed, target[i], seen[i], unseen[i])
BY DEF Untargeted, NoRows, Unspoiled, Remembered, IdOrNone, OnCourse

(* The passes through one step.                                            *)
LEMMA CourseStep ==
  ASSUME Linked, Remembered, PassesSound, [Next]_vars
  PROVE  Remembered' /\ PassesSound'
<1> PICK s : s = Listed
  OBVIOUS
<1>1. s \in Seq(Ids) /\ IsInjective(s) /\ Allocated = ToSet(s) /\ ToSet(s) \subseteq Ids
  BY DEF Linked, Path, Allocated, ToSet
<1>2. \A i \in Iterators : ~spoiled[i] =>
        /\ OnCourse(s, target[i], seen[i], unseen[i])
        /\ seen[i] \subseteq ToSet(s) /\ unseen[i] \subseteq ToSet(s)
  BY <1>1, Courses DEF Remembered
<1>3. PassesSound' <=>
        \A i \in Iterators : ~spoiled'[i] => OnCourse(Listed', target'[i], seen'[i], unseen'[i])
  <2>1. (PassesSound <=> \A i \in Iterators : ~spoiled[i] => OnCourse(Listed, target[i], seen[i], unseen[i]))'
    BY Courses, PTL
  <2>2. QED
    BY <2>1 DEF OnCourse, From
<1>4. CASE Allocate
  <2>1. PICK q \in Ids \ ToSet(s) : Listed' = Append(s, q)
    BY <1>1, <1>4, ListStep
  <2>2. UNCHANGED pass
    BY <1>4 DEF Allocate
  <2>3. Allocated' = ToSet(s) \union {q}
    BY <1>1, <2>1, OneMore DEF Allocated
  <2>4. Remembered'
    BY <1>1, <2>2, <2>3 DEF Remembered, pass, IdOrNone, Ids
  <2>5. \A i \in Iterators : ~spoiled[i] => OnCourse(Append(s, q), target[i], seen[i], unseen[i])
    BY <1>1, <1>2, CourseAppended
  <2>6. QED
    BY <1>3, <2>1, <2>2, <2>4, <2>5 DEF pass
<1>5. CASE \E r \in Allocated : Free(r)
  <2>1. PICK r \in Allocated : Free(r)
    BY <1>5
  <2>2. PICK j \in DOMAIN s : s[j] = r /\ Listed' = RemoveAt(s, j)
    BY <2>1, ListStep
  <2>3. Allocated' = ToSet(s) \ {r}
    BY <1>1, <2>2, OneLess DEF Allocated
  <2>4. /\ target' = target
        /\ seen' = [i \in Iterators |-> seen[i] \ {r}]
        /\ unseen' = [i \in Iterators |-> unseen[i] \ {r}]
        /\ spoiled' = [i \in Iterators |-> spoiled[i] \/ target[i] = r]
    BY <2>1 DEF Free
  <2>5. Remembered'
    <3>1. /\ target' \in [Iterators -> IdOrNone]
          /\ seen' \in [Iterators -> SUBSET Ids] /\ unseen' \in [Iterators -> SUBSET Ids]
      BY <2>4 DEF Remembered
    <3>2. spoiled' \in [Iterators -> BOOLEAN]
      BY <2>4 DEF Remembered
    <3>3. \A i \in Iterators : ~spoiled'[i] => ~spoiled[i]
      BY <2>4
    <3>4. \A i \in Iterators : ~spoiled'[i] => seen'[i] \subseteq Allocated' /\ unseen'[i] \subseteq Allocated'
      BY <1>2, <2>3, <2>4, <3>3
    <3>5. QED
      BY <3>1, <3>2, <3>4 DEF Remembered, IdOrNone, Ids
  <2>6. ASSUME NEW i \in Iterators, ~spoiled'[i]
        PROVE  OnCourse(Listed', target'[i], seen'[i], unseen'[i])
    <3>1. ~spoiled[i] /\ target[i] # r
      BY <2>4, <2>6
    <3>2. OnCourse(RemoveAt(s, j), target[i], seen[i] \ {s[j]}, unseen[i] \ {s[j]})
      BY <1>1, <1>2, <2>2, <3>1, CourseRemoved
    <3>3. QED
      BY <2>2, <2>4, <3>2
  <2>7. QED
    BY <1>3, <2>5, <2>6
<1>6. ASSUME NEW i \in Iterators, Begin(i)
      PROVE  Remembered' /\ PassesSound'
  <2>1. Listed' = s /\ Allocated' = Allocated
    BY <1>6, FileKept DEF Begin, Allocated
  <2>2. OnCourse(s, allocatedFirst, {}, ToSet(s)) /\ allocatedFirst \in IdOrNone
    BY <1>1, CourseBegun DEF Linked, Path, IdOrNone
  <2>3. /\ target' = [target EXCEPT ![i] = allocatedFirst] /\ seen' = [seen EXCEPT ![i] = {}]
        /\ unseen' = [unseen EXCEPT ![i] = ToSet(s)] /\ spoiled' = [spoiled EXCEPT ![i] = FALSE]
    BY <1>1, <1>6 DEF Begin
  <2>4. Remembered'
    BY <1>1, <1>2, <2>1, <2>2, <2>3 DEF Remembered, IdOrNone, Ids
  <2>5. \A x \in Iterators : ~spoiled'[x] => OnCourse(s, target'[x], seen'[x], unseen'[x])
    BY <1>2, <2>2, <2>3 DEF Remembered
  <2>6. QED
    BY <1>3, <2>1, <2>4, <2>5
<1>7. ASSUME NEW i \in Iterators, Advance(i)
      PROVE  Remembered' /\ PassesSound'
  <2>1. Listed' = s /\ Allocated' = Allocated
    BY <1>7, FileKept DEF Advance, Allocated
  <2>2. target[i] \in Ids
    BY <1>7 DEF Advance, AtEnd, Remembered, IdOrNone
  <2>3. ~spoiled[i] =>
          /\ target[i] \in ToSet(s)
          /\ OnCourse(s, link[target[i]].next, seen[i] \union {target[i]}, unseen[i] \ {target[i]})
    BY <1>1, <1>2, <2>2, CourseAdvanced
  <2>4. link[target[i]].next \in IdOrNone
    BY <2>2 DEF Linked
  <2>5. /\ target' = [target EXCEPT ![i] = link[target[i]].next]
        /\ seen' = [seen EXCEPT ![i] = seen[i] \union {target[i]}]
        /\ unseen' = [unseen EXCEPT ![i] = unseen[i] \ {target[i]}] /\ spoiled' = spoiled
    BY <1>7 DEF Advance, Remembered
  <2>6. Remembered'
    <3>1. /\ target' \in [Iterators -> IdOrNone] /\ spoiled' \in [Iterators -> BOOLEAN]
          /\ seen' \in [Iterators -> SUBSET Ids] /\ unseen' \in [Iterators -> SUBSET Ids]
      BY <2>2, <2>4, <2>5 DEF Remembered
    <3>2. \A x \in Iterators : ~spoiled[x] => seen'[x] \subseteq ToSet(s) /\ unseen'[x] \subseteq ToSet(s)
      BY <1>2, <2>3, <2>5 DEF Remembered
    <3>3. QED
      BY <1>1, <2>1, <2>5, <3>1, <3>2 DEF Remembered, IdOrNone, Ids
  <2>7. \A x \in Iterators : ~spoiled[x] => OnCourse(s, target'[x], seen'[x], unseen'[x])
    BY <1>2, <2>3, <2>5 DEF Remembered
  <2>8. QED
    BY <1>3, <2>1, <2>5, <2>6, <2>7
<1>8. CASE Reopen \/ Clobber
  <2>1. target' = Untargeted /\ seen' = NoRows /\ unseen' = NoRows /\ spoiled' = Unspoiled
    BY <1>8 DEF Reopen, Clobber, close
  <2>2. Remembered'
    BY <2>1 DEF Untargeted, NoRows, Unspoiled, Remembered, IdOrNone, Ids
  <2>3. \A i \in Iterators : target'[i] = NONE /\ seen'[i] = {} /\ unseen'[i] = {}
    BY <2>1 DEF Untargeted, NoRows
  <2>4. QED
    BY <1>3, <2>2, <2>3 DEF OnCourse
<1>9. CASE UNCHANGED vars
  <2>1. Listed' = s /\ Allocated' = Allocated /\ UNCHANGED pass
    BY <1>9, FileKept DEF vars, file, pass, Allocated
  <2>2. QED
    BY <1>2, <1>3, <2>1 DEF Remembered, pass, IdOrNone, Ids
<1>10. QED
  BY <1>4, <1>5, <1>6, <1>7, <1>8, <1>9 DEF Next

(* Every step keeps the passes on course.                                  *)
LEMMA CoursesHold == Spec => [](Linked /\ Remembered /\ PassesSound)
<1>1. Init => Linked /\ Remembered /\ PassesSound
  BY FreshFile, CoursesClosed, Courses DEF Init
<1>2. Linked /\ Remembered /\ PassesSound /\ [Next]_vars => (Linked /\ Remembered /\ PassesSound)'
  BY ListStep, CourseStep
<1>3. QED
  BY <1>1, <1>2, PTL DEF Spec

(* An iterator whose row is not freed still has before it every row that   *)
(* was there when it started, and meets none twice, whatever the others    *)
(* allocate and free meanwhile (dbFile.hpp:236).                           *)
THEOREM PassesStaySound == Spec => []PassesSound
BY CoursesHold, PTL

(* Every row of the file is either free or listed, never both and never    *)
(* twice, and the list reads the same from both ends.                      *)
THEOREM RowsStayPartitioned == Spec => []RowsPartitioned
<1>1. ASSUME Linked, Remembered
      PROVE  RowsPartitioned
  <2> PICK s : s = Listed
    OBVIOUS
  <2>1. /\ Path(s) /\ Rest(s) /\ s \in Seq(Ids) /\ DOMAIN s = 1 .. Len(s) /\ Len(s) \in Nat
        /\ NONE \notin Ids /\ Ids \subseteq Nat /\ Len(freeSpace) \in Nat
    BY <1>1, Room DEF Linked, Path, Rest
  <2>2. Capacity \in Nat /\ 0 .. Capacity - 1 \subseteq Ids
    BY <1>1, Room DEF Linked, Capacity
  <2>3. ToSet(freeSpace) \subseteq Ids /\ ToSet(s) \subseteq Ids
    BY <2>1 DEF Rest, ToSet
  <2>4. \A r \in Ids : r \in ToSet(freeSpace) <=> r \in 0 .. Capacity - 1 /\ r \notin ToSet(s)
    BY <2>1, <2>2 DEF Rest
  <2>5. ToSet(s) \subseteq 0 .. Capacity - 1
    <3>1. \A r \in ToSet(s) : r < Capacity
      BY <2>1 DEF Rest
    <3>2. \A r \in Ids : r \in Nat
      BY <2>1
    <3>3. QED
      BY <2>2, <2>3, <3>1, <3>2
  <2>6. /\ ToSet(freeSpace) \intersect ToSet(s) = {}
        /\ ToSet(freeSpace) \union ToSet(s) = 0 .. Capacity - 1
    BY <2>2, <2>3, <2>4, <2>5
  <2>7. size = Len(s)
    BY <2>1, <2>2 DEF size, Rest
  <2>8. TypeOK
    <3>1. Len(freeSpace) <= Capacity
      BY <2>1, <2>2 DEF Rest
    <3>2. allocatedFirst \in IdOrNone /\ allocatedLast \in IdOrNone
      BY <2>1 DEF Path, IdOrNone
    <3>3. QED
      BY <1>1, <2>6, <3>1, <3>2 DEF TypeOK, Linked, Remembered
  <2>9. /\ IsInjective(freeSpace) /\ IsInjective(s)
        /\ allocatedLast = IF s = <<>> THEN NONE ELSE Last(s)
        /\ \A k \in DOMAIN s : link[s[k]].previous = IF k = 1 THEN NONE ELSE s[k - 1]
    BY <2>1 DEF Path, Rest, Last
  <2>10. QED
    BY <2>6, <2>7, <2>8, <2>9 DEF RowsPartitioned
<1>2. QED
  BY <1>1, CoursesHold, PTL
=============================================================================
