------------------------------- MODULE Input -------------------------------
(***************************************************************************)
(* WITE/winput: the events of a frame, drained from SDL's queue by         *)
(* pollInput and summed up per control, and the calls that read the sums.  *)
(*                                                                         *)
(* A control has one axis here: of a mouse or a wheel the code treats the  *)
(* two axes alike, and the third never gets a value.  Times are left out,  *)
(* and with them average, which nothing reads, and what getLatest picks.   *)
(***************************************************************************)
EXTENDS Integers, Sequences, FiniteSetsExt

CONSTANTS
  Readers,             \* threads that read the input
  Keys, Buttons, Wheels, Hats,
  Asked,               \* the controls the program asks for
  maxFrameKeyboardBuffer,
  MaxEvents,           \* bound: events that wait in SDL's queue and in a poll
  MaxArrivals          \* bound: events that arrive

Directions == {"up", "down", "left", "right"}
Controls == Keys \union Buttons \union Wheels \union (Hats \X Directions)

InputAssumption ==
  /\ {maxFrameKeyboardBuffer, MaxEvents, MaxArrivals} \subseteq Nat /\ "poll" \notin Readers
  /\ Keys \intersect (Buttons \union Wheels \union Hats \union (Hats \X Directions)) = {}
  /\ Wheels \intersect Hats = {} /\ "quit" \notin Keys \union Buttons \union Wheels \union Hats

VARIABLES
  sdlQueue,            \* the events SDL holds, oldest first
  arrived,             \* history: events that have arrived
  event,               \* what processEvent has yet to hand to handleEvent of the event it is at
  allInputData,        \* the controls seen so far and what is known of each
  keyboard,            \* frameKeyboardBuffer up to its end marker
  holder,              \* of allInputData_mutex: the threads that read, or {"poll"}
  reader,              \* per reader: what it is about to do, what it read, and when it began
  shutdown,
  before, handled      \* history: the values at the start of the frame, its events

vars == <<sdlQueue, arrived, event, allInputData, keyboard, holder, reader, shutdown, before, handled>>

(* What SDL may deliver: a key or button that goes down (again) or up, a   *)
(* turn of a wheel, the directions in which a hat is held, a request to    *)
(* quit.                                                                   *)
Events ==
  [on : Keys \union Buttons, value : {0, 1}] \union [on : Wheels, value : {-1, 1}]
    \union [on : Hats, value : {{}, {"up"}, {"down", "left"}}] \union {[on |-> "quit", value |-> 1]}

Blank == [numNegative |-> 0, numPositive |-> 0, numZero |-> 0,
          min |-> 0, max |-> 0, current |-> 0, delta |-> 0]

(* operator[] of the map: a control that is not there yet is put there.    *)
At(data, control) == IF control \in DOMAIN data THEN data[control] ELSE Blank

Put(data, control, axis) ==
  [c \in DOMAIN data \union {control} |-> IF c = control THEN axis ELSE data[c]]

Init ==
  /\ sdlQueue = <<>> /\ arrived = 0 /\ event = <<>>
  /\ allInputData = <<>>
  /\ keyboard = <<>>
  /\ holder = {} /\ reader = [r \in Readers |-> [pc |-> "idle"]]
  /\ shutdown = FALSE
  /\ before = <<>> /\ handled = <<>>

handleAxis_NoZero(a, x) ==
  [numNegative |-> a.numNegative + (IF x < 0 THEN 1 ELSE 0),
   numPositive |-> a.numPositive + (IF x > 0 THEN 1 ELSE 0), numZero |-> a.numZero,
   min |-> IF x < a.min THEN x ELSE a.min, max |-> IF x > a.max THEN x ELSE a.max,
   current |-> x, delta |-> a.delta + x]

handleAxis(a, x) ==
  [numNegative |-> a.numNegative + (IF x < 0 THEN 1 ELSE 0),
   numPositive |-> a.numPositive + (IF x > 0 THEN 1 ELSE 0),
   numZero |-> a.numZero + (IF x = 0 THEN 1 ELSE 0),
   min |-> IF x < a.min THEN x ELSE a.min, max |-> IF x > a.max THEN x ELSE a.max,
   current |-> x, delta |-> a.delta + x]

(* The values processEvent hands to handleEvent, control by control: the   *)
(* wheel is turned and released, a hat is four buttons.                    *)
Values(e) ==
  IF e.on \in Wheels THEN <<[of |-> e.on, x |-> e.value], [of |-> e.on, x |-> 0]>>
  ELSE IF e.on \in Hats
    THEN [i \in 1 .. 4 |-> LET d == <<"up", "down", "left", "right">>[i]
                           IN  [of |-> <<e.on, d>>, x |-> IF d \in e.value THEN 1 ELSE 0]]
  ELSE IF e.on = "quit" THEN <<>>
  ELSE <<[of |-> e.on, x |-> e.value]>>

(* What a program asks of an axis it has read; justClicked is justReleased. *)
justChanged(a) == a.numPositive + a.numNegative + a.numZero > 0
justPressed(a) == a.numPositive > 0
justReleased(a) == a.numZero > 0

(* An event reaches SDL's queue, whatever the program is doing.            *)
Arrive ==
  /\ arrived < MaxArrivals /\ Len(sdlQueue) < MaxEvents
  /\ \E e \in Events : sdlQueue' = Append(sdlQueue, e)
  /\ arrived' = arrived + 1
  /\ UNCHANGED <<event, allInputData, keyboard, holder, reader, shutdown, before, handled>>

ResetAxis(a) ==
  [numNegative |-> 0, numPositive |-> 0, numZero |-> 0,
   min |-> a.current, max |-> a.current, current |-> a.current, delta |-> 0]

(* pollInput takes the lock and clears the sums of the last frame ...      *)
BeginPoll ==
  /\ holder = {}
  /\ holder' = {"poll"}
  /\ allInputData' = [c \in DOMAIN allInputData |-> ResetAxis(allInputData[c])]
  /\ keyboard' = <<>>
  /\ before' = [c \in DOMAIN allInputData |-> allInputData[c].current]
  /\ handled' = <<>>
  /\ UNCHANGED <<sdlQueue, arrived, event, reader, shutdown>>

(* ... takes one event after the other, those included that arrive         *)
(* meanwhile ...                                                           *)
processEvent ==
  /\ holder = {"poll"} /\ event = <<>> /\ sdlQueue # <<>>
  /\ LET e == Head(sdlQueue) IN
       /\ event' = Values(e)
       /\ keyboard' = IF e.on \in Keys /\ e.value = 1 THEN Append(keyboard, e.on) ELSE keyboard
       /\ shutdown' = (shutdown \/ e.on = "quit")
  /\ sdlQueue' = Tail(sdlQueue)
  /\ UNCHANGED <<arrived, allInputData, holder, reader, before, handled>>

(* ... and adds what it says to the sums, control by control ...           *)
handleEvent ==
  /\ holder = {"poll"} /\ event # <<>>
  /\ LET v == Head(event) IN
       /\ allInputData' = Put(allInputData, v.of, handleAxis(At(allInputData, v.of), v.x))
       /\ handled' = Append(handled, v)
  /\ event' = Tail(event)
  /\ UNCHANGED <<sdlQueue, arrived, keyboard, holder, reader, shutdown, before>>

(* ... and returns when SDL has no more.                                   *)
EndPoll ==
  /\ holder = {"poll"} /\ event = <<>> /\ sdlQueue = <<>>
  /\ holder' = {}
  /\ UNCHANGED <<sdlQueue, arrived, event, allInputData, keyboard, reader, shutdown, before, handled>>

(* getInput and getLatest hold the lock for reading.                       *)
BeginRead(r) ==
  /\ reader[r].pc = "idle" /\ holder # {"poll"}
  /\ holder' = holder \union {r}
  /\ \E c \in Asked \union {"latest"} :
       reader' = [reader EXCEPT ![r] = IF c = "latest" THEN [pc |-> "latest"]
                                       ELSE IF c \in DOMAIN allInputData THEN [pc |-> "copy"]
                                       ELSE [pc |-> "insert", of |-> c]]
  /\ UNCHANGED <<sdlQueue, arrived, event, allInputData, keyboard, shutdown, before, handled>>

EndRead(r) ==
  /\ holder' = holder \ {r}
  /\ UNCHANGED <<sdlQueue, arrived, event, keyboard, shutdown, before, handled>>

(* The assignment through operator[], which inserts under the read lock.   *)
GetInput(r) ==
  /\ \/ reader[r].pc = "copy" /\ UNCHANGED allInputData
     \/ reader[r].pc = "insert" /\ allInputData' = Put(allInputData, reader[r].of, Blank)
  /\ reader' = [reader EXCEPT ![r] = [pc |-> "idle"]]
  /\ EndRead(r)

GetLatest(r) ==
  /\ reader[r].pc = "latest"
  /\ reader' = [reader EXCEPT ![r] = [pc |-> "idle"]]
  /\ EndRead(r)
  /\ UNCHANGED allInputData

Next ==
  \/ Arrive \/ BeginPoll \/ processEvent \/ handleEvent \/ EndPoll
  \/ \E r \in Readers : BeginRead(r) \/ GetInput(r) \/ GetLatest(r)

Spec == Init /\ [][Next]_vars

(***************************************************************************)
(* Properties                                                              *)
(***************************************************************************)
(* Where the events of the frame say something of a control, and where a   *)
(* key is pressed.                                                         *)
Said(c) == {i \in DOMAIN handled : handled[i].of = c}
Presses == {i \in DOMAIN handled : handled[i].of \in Keys /\ handled[i].x = 1}

(* The summary of a control is that of what the frame's events said of it: *)
(* a press and a release are both counted though the control looks         *)
(* untouched, and nothing of an earlier frame is left in the counts or the *)
(* range but the value the control had.                                    *)
Summed(c) ==
  LET a   == At(allInputData, c)
      xs  == {handled[i].x : i \in Said(c)}
      old == IF c \in DOMAIN before THEN before[c] ELSE 0
  IN  /\ a.numPositive = Cardinality({i \in Said(c) : handled[i].x > 0})
      /\ a.numNegative = Cardinality({i \in Said(c) : handled[i].x < 0})
      /\ a.numZero = Cardinality({i \in Said(c) : handled[i].x = 0})
      /\ justChanged(a) = (Said(c) # {})
      /\ justPressed(a) = (\E x \in xs : x > 0) /\ justReleased(a) = (0 \in xs)
      /\ a.current = IF Said(c) = {} THEN old ELSE handled[Max(Said(c))].x
      /\ {a.min, a.max} \subseteq xs \union {old}
      /\ \A x \in xs \union {old} : a.min <= x /\ x <= a.max

(* Between two polls a reader finds the summary of exactly the events of   *)
(* the frame, those that arrived while it polled included, and the keys in *)
(* the order they were pressed.                                            *)
FrameSummed ==
  holder # {"poll"} =>
    /\ \A c \in Controls : Summed(c)
    /\ Len(keyboard) = Cardinality(Presses)
    /\ \A i \in Presses : keyboard[Cardinality({j \in Presses : j <= i})] = handled[i].of

(* "this is the first frame after a change": justChanged is true of a      *)
(* control that had another value in the frame.  No run checks it: a key   *)
(* that repeats and the other directions of a hat break it.                *)
ChangedMeansChange ==
  holder # {"poll"} => \A c \in DOMAIN allInputData :
    LET a == allInputData[c] IN
    justChanged(a) => a.min # a.max

(* A reader that inserts is alone in the map.  No run checks it: two       *)
(* readers that ask for controls not seen yet break it.                    *)
InsertsAlone ==
  \A r \in Readers : reader[r].pc = "insert" => holder = {r}

(* The end marker of the keyboard buffer is inside it.  No run checks it:  *)
(* as many keys as it has places in one frame break it.                    *)
KeyboardFits == Len(keyboard) < maxFrameKeyboardBuffer
=============================================================================
