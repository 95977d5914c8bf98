------------------------------ MODULE DbFile ------------------------------
(***************************************************************************)
(* The memory-mapped row file of WITE/dbFile.hpp: a stack of free row      *)
(* numbers and a doubly linked list through the allocated rows, grown by   *)
(* AU rows at a time, and the iterators that walk the list while others    *)
(* allocate and free.                                                      *)
(*                                                                         *)
(* allocate and free hold allocationMutex for writing and first and after  *)
(* for reading, so each is one step (ConcurrentReadSyncLockProofs).        *)
(***************************************************************************)
EXTENDS Naturals, SequencesExt

CONSTANTS
  AU,         \* rows per allocation unit, a template parameter of the class
  MaxBlocks,  \* bound: allocation units the file may grow to
  Iterators,  \* the iterators in use
  NONE        \* the null row number, ~0 in the code

ASSUME DbFileAssumption ==
  /\ AU \in Nat \ {0}
  /\ MaxBlocks \in Nat \ {0}
  /\ NONE \notin Nat

VARIABLES
  blocks,          \* how many allocation units the file has
  freeSpace,       \* the stack of free rows: its length is header.freeSpaceLen
  allocatedFirst, allocatedLast,
  link,            \* the links of every row: previous and next
  target,          \* the row each iterator points at
  \* history of the current pass of each iterator, for the properties:
  seen,            \* rows it passed and that were not freed since
  unseen,          \* rows allocated since its start, neither passed nor freed
  spoiled          \* the row it pointed at was freed

file == <<blocks, freeSpace, allocatedFirst, allocatedLast, link>>
pass == <<target, seen, unseen, spoiled>>
vars == <<blocks, freeSpace, allocatedFirst, allocatedLast, link,
          target, seen, unseen, spoiled>>

Ids == 0 .. AU * MaxBlocks - 1
Capacity == AU * blocks
size == Capacity - Len(freeSpace)
Nowhere == [previous |-> NONE, next |-> NONE]

(* The list as a walk from allocatedFirst sees it; the walk gives up after *)
(* as many steps as there are rows, so a cycle shows as a repetition.      *)
After == [r \in Ids \union {NONE} |-> IF r = NONE THEN NONE ELSE link[r].next]

Met[n \in 1 .. AU * MaxBlocks] == IF n = 1 THEN allocatedFirst ELSE After[Met[n - 1]]

Listed == [n \in {n \in 1 .. AU * MaxBlocks : Met[n] # NONE} |-> Met[n]]

Allocated == ToSet(Listed)

(* The rows a walk meets from row r on.                                    *)
Ahead(r) ==
  LET list == Listed
  IN {list[k] : k \in {k \in DOMAIN list : \E j \in 1 .. k : list[j] = r}}

(* initialize(auId): the rows of a new unit, pushed in ascending order.    *)
Unit(auId) == [i \in 1 .. AU |-> auId * AU + i - 1]

(* A new unit is written as zeros: its rows link to row 0 until allocated. *)
ZeroLinks == [r \in Ids |-> [previous |-> 0, next |-> 0]]

Untargeted == [i \in Iterators |-> NONE]
NoRows == [i \in Iterators |-> {}]
Unspoiled == [i \in Iterators |-> FALSE]

(* The constructor, on a file that does not exist.                         *)
Init ==
  /\ blocks = 1
  /\ freeSpace = Unit(0)
  /\ allocatedFirst = NONE /\ allocatedLast = NONE
  /\ link = ZeroLinks
  /\ target = Untargeted
  /\ seen = NoRows /\ unseen = NoRows /\ spoiled = Unspoiled

Pop_SameUnit ==
  IF freeSpace = <<>>
  THEN /\ blocks < MaxBlocks
       /\ blocks' = blocks + 1
       /\ freeSpace' = Front(Unit(blocks - 1))
  ELSE UNCHANGED blocks /\ freeSpace' = Front(freeSpace)

(* allocate() pops the stack, after adding a unit if it is empty.          *)
Pop ==
  IF freeSpace = <<>>
  THEN /\ blocks < MaxBlocks
       /\ blocks' = blocks + 1
       /\ freeSpace' = Front(Unit(blocks))
  ELSE UNCHANGED blocks /\ freeSpace' = Front(freeSpace)

Popped == Last(IF freeSpace = <<>> THEN Unit(blocks) ELSE freeSpace)

LinkLast_AtFront(r) ==
  /\ link' = [x \in Ids |->
       CASE x = r -> [previous |-> NONE, next |-> allocatedFirst]
         [] x = allocatedFirst -> [link[x] EXCEPT !.previous = r]
         [] OTHER -> link[x]]
  /\ allocatedFirst' = r
  /\ allocatedLast' = IF allocatedLast = NONE THEN r ELSE allocatedLast

(* The new row becomes the last of the list.                               *)
LinkLast(r) ==
  /\ link' = [x \in Ids |->
       CASE x = r -> [previous |-> allocatedLast, next |-> NONE]
         [] x = allocatedLast /\ allocatedFirst # NONE -> [link[x] EXCEPT !.next = r]
         [] OTHER -> link[x]]
  /\ allocatedFirst' = IF allocatedFirst = NONE THEN r ELSE allocatedFirst
  /\ allocatedLast' = r

Allocate ==
  /\ Pop
  /\ LinkLast(Popped)
  /\ UNCHANGED pass

Push(r) == freeSpace' = Append(freeSpace, r) /\ UNCHANGED blocks

Unlink_ClearedFirst(r) ==
  LET d == link[r] IN
  /\ link' = [x \in Ids |->
       IF x = r THEN Nowhere
       ELSE [previous |-> IF x = d.next THEN d.previous ELSE link[x].previous,
             next     |-> IF x = d.previous THEN NONE ELSE link[x].next]]
  /\ allocatedFirst' = IF d.previous = NONE THEN d.next ELSE allocatedFirst
  /\ allocatedLast' = IF d.next = NONE THEN d.previous ELSE allocatedLast

(* The row's neighbours are joined, and its own links cleared.             *)
Unlink(r) ==
  LET d == link[r] IN
  /\ link' = [x \in Ids |->
       IF x = r THEN Nowhere
       ELSE [previous |-> IF x = d.next THEN d.previous ELSE link[x].previous,
             next     |-> IF x = d.previous THEN d.next ELSE link[x].next]]
  /\ allocatedFirst' = IF d.previous = NONE THEN d.next ELSE allocatedFirst
  /\ allocatedLast' = IF d.next = NONE THEN d.previous ELSE allocatedLast

(* free(r), once for each allocate (dbTable.hpp:171).                      *)
Free(r) ==
  /\ r \in Allocated
  /\ Push(r)
  /\ Unlink(r)
  /\ seen' = [i \in Iterators |-> seen[i] \ {r}]
  /\ unseen' = [i \in Iterators |-> unseen[i] \ {r}]
  /\ spoiled' = [i \in Iterators |-> spoiled[i] \/ target[i] = r]
  /\ UNCHANGED target

(* close(), with the object and so every iterator on it gone.              *)
close ==
  /\ target' = Untargeted
  /\ seen' = NoRows /\ unseen' = NoRows /\ spoiled' = Unspoiled

(* The constructor, on a file that was closed: the rows stay ...           *)
Reopen == close /\ UNCHANGED file

(* ... unless it is told to clobber them.                                  *)
Clobber ==
  /\ blocks' = 1
  /\ freeSpace' = Unit(0)
  /\ allocatedFirst' = NONE /\ allocatedLast' = NONE
  /\ link' = ZeroLinks
  /\ close

(* begin()                                                                 *)
Begin(i) ==
  /\ target' = [target EXCEPT ![i] = allocatedFirst]
  /\ seen' = [seen EXCEPT ![i] = {}]
  /\ unseen' = [unseen EXCEPT ![i] = Allocated]
  /\ spoiled' = [spoiled EXCEPT ![i] = FALSE]
  /\ UNCHANGED file

(* i == end(): two iterators without a target are equal.                   *)
AtEnd(i) == target[i] = NONE

(* *(i++): hand out the row and move to the one after it.                  *)
Advance(i) ==
  /\ ~AtEnd(i)
  /\ target' = [target EXCEPT ![i] = link[target[i]].next]
  /\ seen' = [seen EXCEPT ![i] = @ \union {target[i]}]
  /\ unseen' = [unseen EXCEPT ![i] = @ \ {target[i]}]
  /\ UNCHANGED <<file, spoiled>>

Next ==
  \/ Allocate
  \/ \E r \in Allocated : Free(r)
  \/ \E i \in Iterators : Begin(i) \/ Advance(i)
  \/ Reopen
  \/ Clobber

Spec == Init /\ [][Next]_vars

---------------------------------------------------------------------------

IdOrNone == Ids \union {NONE}

(* Row numbers, links and iterators stay within the file.                  *)
TypeOK ==
  /\ blocks \in 1 .. MaxBlocks
  /\ Len(freeSpace) <= Capacity /\ ToSet(freeSpace) \subseteq 0 .. Capacity - 1
  /\ allocatedFirst \in IdOrNone /\ allocatedLast \in IdOrNone
  /\ DOMAIN link = Ids
  /\ \A r \in Ids : link[r].previous \in IdOrNone /\ link[r].next \in IdOrNone
  /\ target \in [Iterators -> IdOrNone]
  /\ seen \in [Iterators -> SUBSET Ids] /\ unseen \in [Iterators -> SUBSET Ids]
  /\ spoiled \in [Iterators -> BOOLEAN]

(* Every row of the file is either free or listed, never both and never    *)
(* twice: no row is handed out to two owners and none is lost, and size()  *)
(* is the number of rows a walk meets.                                     *)
(* The list reads the same from both ends.                                 *)
RowsPartitioned ==
  LET list == Listed IN
  /\ TypeOK
  /\ IsInjective(freeSpace) /\ IsInjective(list)
  /\ size = Len(list)
  /\ ToSet(freeSpace) \intersect ToSet(list) = {}
  /\ ToSet(freeSpace) \union ToSet(list) = 0 .. Capacity - 1
  /\ allocatedLast = IF list = <<>> THEN NONE ELSE Last(list)
  /\ \A k \in DOMAIN list :
       link[list[k]].previous = IF k = 1 THEN NONE ELSE list[k - 1]

(* "free might break an iterator (if the iteratee is freed)"               *)
(* (dbFile.hpp:236) and nothing else does: as long as the row it points at *)
(* is not freed, an iterator still has before it every row that was there  *)
(* when it started, and never meets a row again, whatever the others       *)
(* allocate and free meanwhile.                                            *)
PassesSound ==
  \A i \in Iterators : ~spoiled[i] =>
    LET ahead == Ahead(target[i]) IN
    /\ AtEnd(i) \/ target[i] \in ahead
    /\ unseen[i] \subseteq ahead
    /\ seen[i] \intersect ahead = {}

OrderedRows == INSTANCE RowFile WITH rows <- Listed

(* The stack and the links implement the ordered set of rows.              *)
ImplementsRowFile == OrderedRows!Spec

===========================================================================
