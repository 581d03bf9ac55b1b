-------------------------- MODULE LiveRunnerProofs --------------------------
(***************************************************************************)
(* Proofs about LiveRunner and the executor and switch below it, for any   *)
(* keys, any number of positions, any quantity and any set of faults.      *)
(***************************************************************************)
EXTENDS LiveRunner, TLAPS, WellFoundedInduction, FiniteSetTheorems

(* What the runner's task does with a position in hand.                     *)
InFlight == {"submit", "send", "record", "decide"}
Working == InFlight \cup {"prepare", "returned"}

Closing == {"close_a", "close_b"}
Unwinding == {"unwind_a", "unwind_b"}
Ending == Unwinding \cup Closing
Over == {"OPEN", "FAILED", "CLOSED", "MANUAL_INTERVENTION"}

(* The orders that do not exist while one is in hand.                       *)
Absent(l) ==
  IF l = "open_a" THEN {"open_b"} \cup Ending
  ELSE IF l = "open_b" THEN Ending
  ELSE IF l = "unwind_a" THEN {"unwind_b"} \cup Closing
  ELSE IF l = "unwind_b" THEN Closing
  ELSE IF l = "close_a" THEN {"close_b"} \cup Unwinding
  ELSE Unwinding

Unsent(p, labels) == \A l \in labels : rows[p][l] = "none"

(* A position is in hand exactly while the executor works.                  *)
Busy == pc \in Working <=> task # NoTask

Preparing ==
  pc = "prepare" =>
    /\ task.label = "open_a"
    /\ mem[task.pos].state = "OPENING"
    /\ ledger[task.pos] = mem[task.pos]
    /\ Unsent(task.pos, Label)

(* The order in hand comes in its place: none that excludes it exists.      *)
Flying ==
  pc \in InFlight =>
    /\ mem[task.pos].state = IF task.label \in Closing THEN "CLOSING" ELSE "OPENING"
    /\ ledger[task.pos].state = mem[task.pos].state
    /\ Unsent(task.pos, Absent(task.label))

Sending ==
  /\ pc = "submit" => rows[task.pos][task.label] = "none"
  /\ pc = "send" => rows[task.pos][task.label] = "PENDING" /\ fills[task.pos][task.label] = 0
  /\ pc = "record" => rows[task.pos][task.label] = "PENDING"

Returning ==
  pc = "returned" => mem[task.pos] = ledger[task.pos] /\ mem[task.pos].state \in Over

InHand == Busy /\ Preparing /\ Flying /\ Sending /\ Returning

(* A position without a row is nowhere.                                     *)
Blank(p) ==
  ledger[p] = NoPosition => mem[p] = NoPosition /\ task.pos # p /\ Unsent(p, Label)

(* Only the position in hand is being opened, but for what a restart loaded.*)
Rest(p) ==
  mem[p].state = "OPENING" => task.pos = p \/ pc \in {"down", "boot", "halted"}

Loaded(p) ==
  /\ pc = "down" => mem[p] = NoPosition
  /\ pc = "boot" => mem[p] = IF ledger[p].state \in Active THEN ledger[p] ELSE NoPosition

OpenUnsent(p) == ledger[p].state = "OPEN" => Unsent(p, Ending)

RecordedAt(p) ==
  /\ \A l \in Label : fills[p][l] > 0 => rows[p][l] # "none"
  /\ \A leg \in Leg : Exposure(p, leg) >= 0

HeldAt(p) == pc # "halted" /\ mem[p].state = "OPEN" => ledger[p] = mem[p]

Sound(p) ==
  Blank(p) /\ Rest(p) /\ Loaded(p) /\ OpenUnsent(p) /\ RecordedAt(p) /\ HeldAt(p)

(* The inductive invariant. *)
IInv ==
  /\ TypeOK
  /\ InHand
  /\ \A p \in Position : Sound(p)
-----------------------------------------------------------------------------
LEMMA SlotFacts ==
  ASSUME NEW x \in Slot
  PROVE  /\ x = NoPosition <=> x.state = "none"
         /\ x.state # "none" => x \in LivePosition
         /\ x \in LivePosition => x.state \in State
BY DEF Slot, LivePosition, NoPosition, State

LEMMA Restated ==
  ASSUME NEW x \in LivePosition, NEW s \in State, NEW y, y = [x EXCEPT !.state = s]
  PROVE  y \in LivePosition /\ y.state = s /\ y.a = x.a /\ y.b = x.b
BY DEF LivePosition

(* The least of a nonempty set of positions is one of them.                 *)
LEMMA LeastPosition ==
  ASSUME NEW S, S \subseteq Position, S # {}
  PROVE  Min(S) \in S
<1> DEFINE Less == {ss \in Nat \X Nat : ss[1] < ss[2]}
<1>1. IsWellFoundedOn(Less, Nat)
  BY NatLessThanWellFounded, Zenon DEF OpToRel
<1>2. S \subseteq Nat
  BY DEF Position
<1>3. \E x \in S : \A y \in S : ~(<<y, x>> \in Less)
  <2> HIDE DEF Less
  <2> QED BY <1>1, <1>2, WFMin
<1>4. PICK x \in S : \A y \in S : ~(<<y, x>> \in Less)
  BY <1>3
<1>5. \A y \in S : x =< y
  <2>1. ASSUME NEW y \in Nat, NEW z \in Nat, y < z PROVE <<y, z>> \in Less
    BY <2>1
  <2>2. ASSUME NEW y \in S PROVE ~(y < x)
    <3> HIDE DEF Less
    <3> QED BY <1>2, <1>4, <2>1
  <2>3. ASSUME NEW y \in Nat, NEW z \in Nat, ~(y < z) PROVE z =< y
    BY <2>3
  <2> QED BY <1>2, <2>2, <2>3
<1> QED BY <1>5 DEF Min

(* The executor's position is one of the ledger's, and its object is whole. *)
LEMMA HandFacts ==
  ASSUME IInv, pc \in Working
  PROVE  /\ task \in Task /\ task.pos \in Position /\ task.label \in Label
         /\ mem[task.pos] \in LivePosition
         /\ ledger[task.pos] # NoPosition
         /\ pc \in InFlight \cup {"prepare"} =>
              mem[task.pos].state \in {"OPENING", "CLOSING"}
              /\ ledger[task.pos].state = mem[task.pos].state
<1>1. task \in Task /\ task.pos \in Position /\ task.label \in Label
  BY DEF IInv, TypeOK, ExecutorTypeOK, InHand, Busy, Task
<1>2. mem[task.pos] \in Slot /\ ledger[task.pos] \in Slot
  BY <1>1 DEF IInv, TypeOK, ExecutorTypeOK
<1>3. pc \in InFlight \cup {"prepare"} =>
        mem[task.pos].state \in {"OPENING", "CLOSING"}
        /\ ledger[task.pos].state = mem[task.pos].state
  BY DEF IInv, InHand, Preparing, Flying, InFlight
<1>4. pc = "returned" => mem[task.pos].state \in Over
  BY DEF IInv, InHand, Returning
<1>5. mem[task.pos].state # "none" /\ (pc = "returned" => ledger[task.pos] = mem[task.pos])
  BY <1>3, <1>4 DEF Working, Over, IInv, InHand, Returning
<1>6. mem[task.pos] \in LivePosition
  BY <1>2, <1>5, SlotFacts
<1>7. ledger[task.pos].state # "none"
  BY <1>3, <1>5 DEF Working
<1>8. ledger[task.pos] # NoPosition
  BY <1>7 DEF NoPosition
<1> QED BY <1>1, <1>3, <1>6, <1>8

LEMMA InitHolds == Init => IInv
<1> SUFFICES ASSUME Init PROVE IInv
  OBVIOUS
<1>1. TypeOK
  <2>1. ledger \in [Position -> Slot] /\ mem \in [Position -> Slot]
    BY DEF Init, ExecutorInit, Slot
  <2>2. rows \in [Position -> [Label -> {"none", "PENDING", "DONE", "UNKNOWN"}]]
    BY DEF Init, ExecutorInit
  <2>3. fills \in [Position -> [Label -> 0..Quantity]]
        /\ outside \in [Position -> [Leg -> 0..Quantity]]
    BY ExecutorAssumption DEF Init, ExecutorInit
  <2>4. SwitchTypeOK /\ task \in Task \cup {NoTask}
    BY DEF Init, SwitchInit, ExecutorInit, SwitchTypeOK
  <2>5. pc \in Steps /\ indexed \subseteq Key /\ due \in BOOLEAN
        /\ todo \subseteq Position /\ offers \subseteq Key
    BY DEF Init, ExecutorInit, Steps
  <2> QED BY <2>1, <2>2, <2>3, <2>4, <2>5 DEF TypeOK, ExecutorTypeOK
<1>2. InHand
  BY DEF Init, ExecutorInit, InHand, Busy, Preparing, Flying, Sending, Returning,
         Working, InFlight
<1>3. ASSUME NEW p \in Position PROVE Sound(p)
  <2>1. mem[p] = NoPosition /\ ledger[p] = NoPosition /\ task.pos # p /\ pc = "down"
    BY <1>3 DEF Init, ExecutorInit, NoTask, Position
  <2>2. (\A l \in Label : rows[p][l] = "none" /\ fills[p][l] = 0)
        /\ (\A leg \in Leg : outside[p][leg] = 0)
    BY <1>3 DEF Init, ExecutorInit
  <2>3. RecordedAt(p)
    BY <2>2 DEF RecordedAt, Exposure, Opened, Reduced, Label, Leg
  <2> QED BY <2>1, <2>2, <2>3
    DEF Sound, Blank, Rest, Loaded, OpenUnsent, HeldAt, NoPosition, Unsent
<1> QED BY <1>1, <1>2, <1>3 DEF IInv

(* A step in one position leaves the others as they were.                   *)
LEMMA Elsewhere ==
  ASSUME IInv, NEW p \in Position, NEW q \in Position, q # p,
         pc \notin {"down", "boot", "halted"}, pc' \notin {"down", "boot", "halted"},
         task.pos \in {0, p}, task'.pos \in {0, p},
         ledger'[q] = ledger[q], mem'[q] = mem[q], rows'[q] = rows[q],
         fills'[q] = fills[q], outside'[q] = outside[q]
  PROVE  Sound(q)'
<1>1. Sound(q) /\ task.pos # q /\ task'.pos # q
  BY DEF IInv, Position
<1>2. Blank(q)' /\ Rest(q)' /\ Loaded(q)' /\ OpenUnsent(q)' /\ HeldAt(q)'
  BY <1>1 DEF Sound, Blank, Rest, Loaded, OpenUnsent, HeldAt, Unsent
<1>3. RecordedAt(q)'
  BY <1>1 DEF Sound, RecordedAt, Exposure, Opened, Reduced
<1> QED BY <1>2, <1>3 DEF Sound

(* Nothing is in hand afterwards.                                           *)
LEMMA HandEmpty ==
  ASSUME pc' \notin Working, task' = NoTask
  PROVE  InHand'
BY DEF InHand, Busy, Preparing, Flying, Sending, Returning, Working, InFlight
-----------------------------------------------------------------------------
(* What the steps of the executor have in common.                           *)

(* An exception leaves the executor; the ledger may or may not have the     *)
(* object's last state.                                                     *)
LEMMA EscapePreserves ==
  ASSUME IInv, TypeOK', NEW p \in Position, task.pos \in {0, p},
         pc \in InFlight \cup {"prepare", "close"},
         mem[p].state \in {"OPENING", "CLOSING", "OPEN"}, ledger[p].state = mem[p].state,
         NEW next \in {"idle", "open"}, NEW object \in LivePosition,
         mem[p].state = "OPENING" \/ object.state \notin {"OPENING", "OPEN"},
         UNCHANGED ledger
           \/ /\ Stored(p, object)
              /\ object.state = "OPEN" => Unsent(p, Ending),
         Escape(p, next, object), UNCHANGED <<rows, venue>>
  PROVE  IInv'
<1>1. InHand'
  BY HandEmpty DEF Escape, Working, InFlight
<1>2. ASSUME NEW q \in Position, q # p PROVE Sound(q)'
  <2>1. ledger'[q] = ledger[q] /\ mem'[q] = mem[q]
    BY <1>2 DEF Escape, Remembered, Stored, IInv, TypeOK, ExecutorTypeOK
  <2>2. task'.pos = 0 /\ pc' \in {"idle", "open"}
    BY DEF Escape, NoTask
  <2> QED BY <1>2, <2>1, <2>2, Elsewhere DEF venue, InFlight
<1>3. Sound(p)'
  <2>1. Sound(p)
    BY DEF IInv
  <2>2. mem'[p] = IF mem[p].state = "OPENING" THEN NoPosition ELSE object
    BY DEF Escape, Remembered, IInv, TypeOK, ExecutorTypeOK
  <2>3. ledger'[p] = ledger[p] \/ (ledger'[p] = object /\ (object.state = "OPEN" => Unsent(p, Ending)))
    BY DEF Stored, IInv, TypeOK, ExecutorTypeOK
  <2>4. ledger'[p] # NoPosition
    BY <2>3, SlotFacts DEF NoPosition, LivePosition, State
  <2>5. Blank(p)' /\ Rest(p)'
    BY <2>2, <2>4 DEF Blank, Rest, NoPosition
  <2>6. Loaded(p)' /\ HeldAt(p)'
    BY <2>2 DEF Loaded, HeldAt, Escape, NoPosition
  <2>7. OpenUnsent(p)'
    BY <2>1, <2>3 DEF OpenUnsent, Unsent, Sound
  <2>8. RecordedAt(p)'
    BY <2>1 DEF RecordedAt, Exposure, Opened, Reduced, venue, Sound
  <2> QED BY <2>5, <2>6, <2>7, <2>8 DEF Sound
<1> QED BY <1>1, <1>2, <1>3 DEF IInv

(* The end of a call.                                                       *)
LEMMA FinishPreserves ==
  ASSUME IInv, TypeOK', pc \in InFlight \cup {"prepare"},
         NEW object \in LivePosition, object.state \in Over,
         object.state = "OPEN" =>
           mem[task.pos].state = "OPENING" /\ Unsent(task.pos, Ending),
         Finish(task.pos, object), UNCHANGED <<rows, venue>>
  PROVE  IInv'
<1>0. PICK p \in Position :
        /\ p = task.pos /\ task \in Task
        /\ mem[p].state \in {"OPENING", "CLOSING"} /\ ledger[p].state = mem[p].state
  BY HandFacts DEF Working
<1>1. CASE (UNCHANGED ledger \/ Stored(p, object)) /\ Escape(p, "idle", object)
  <2>1. mem[p].state = "OPENING" \/ object.state \notin {"OPENING", "OPEN"}
    BY <1>0 DEF Over
  <2>2. (UNCHANGED ledger \/ Stored(p, object)) /\ Escape(p, "idle", object)
    BY <1>1
  <2>3. object.state = "OPEN" => Unsent(p, Ending)
    BY <1>0
  <2> QED BY <1>0, <2>1, <2>2, <2>3, EscapePreserves
<1>2. CASE Stored(p, object) /\ Remembered(p, object) /\ pc' = "returned" /\ UNCHANGED task
  <2>1. ledger'[p] = object /\ mem'[p] = object
    BY <1>0, <1>2 DEF Stored, Remembered, IInv, TypeOK, ExecutorTypeOK
  <2>2. InHand'
    <3>1. task # NoTask
      BY <1>0 DEF NoTask, Position
    <3> QED BY <1>0, <1>2, <2>1, <3>1
      DEF InHand, Busy, Preparing, Flying, Sending, Returning, Working, InFlight
  <2>3. ASSUME NEW q \in Position, q # p PROVE Sound(q)'
    <3>1. ledger'[q] = ledger[q] /\ mem'[q] = mem[q]
      BY <1>2, <2>3 DEF Remembered, Stored, IInv, TypeOK, ExecutorTypeOK
    <3> QED BY <1>0, <1>2, <2>3, <3>1, Elsewhere DEF venue, InFlight
  <2>4. Sound(p)'
    <3>1. Sound(p)
      BY <1>0 DEF IInv
    <3>2. object # NoPosition
      BY SlotFacts DEF NoPosition, Over
    <3>3. Blank(p)' /\ Rest(p)' /\ Loaded(p)' /\ HeldAt(p)'
      BY <1>0, <1>2, <2>1, <3>2 DEF Blank, Rest, Loaded, HeldAt, Over
    <3>4. OpenUnsent(p)'
      BY <1>0, <2>1 DEF OpenUnsent, Unsent, venue
    <3>5. RecordedAt(p)'
      BY <3>1 DEF RecordedAt, Exposure, Opened, Reduced, venue, Sound
    <3> QED BY <3>3, <3>4, <3>5 DEF Sound
  <2> QED BY <1>0, <2>2, <2>3, <2>4 DEF IInv
<1> QED BY <1>0, <1>1, <1>2 DEF Finish

(* The next order of a position.                                            *)
LEMMA SubmitPreserves ==
  ASSUME IInv, TypeOK', NEW p \in Position, task.pos \in {0, p},
         pc \in InFlight \cup {"prepare", "close"},
         NEW object \in LivePosition, NEW label \in Label, NEW want,
         object.state = IF label \in Closing THEN "CLOSING" ELSE "OPENING",
         (UNCHANGED ledger /\ ledger[p].state = object.state) \/ Stored(p, object),
         Remembered(p, object), Submit(p, label, want), UNCHANGED <<rows, venue>>,
         Unsent(p, {label}), Unsent(p, Absent(label))
  PROVE  IInv'
<1>1. /\ mem'[p] = object /\ ledger'[p].state = object.state
      /\ pc' = "submit" /\ task'.pos = p /\ task'.label = label
  BY DEF Remembered, Stored, Submit, IInv, TypeOK, ExecutorTypeOK
<1>2. task' # NoTask
  BY <1>1 DEF NoTask, Position
<1>3. InHand'
  <2>1. Busy' /\ Preparing' /\ Returning'
    BY <1>1, <1>2 DEF Busy, Preparing, Returning, Working, InFlight
  <2>2. Flying'
    BY <1>1 DEF Flying, InFlight, Unsent
  <2>3. Sending'
    BY <1>1 DEF Sending, Unsent
  <2> QED BY <2>1, <2>2, <2>3 DEF InHand
<1>4. ASSUME NEW q \in Position, q # p PROVE Sound(q)'
  <2>1. ledger'[q] = ledger[q] /\ mem'[q] = mem[q]
    BY <1>4 DEF Remembered, Stored, IInv, TypeOK, ExecutorTypeOK
  <2> QED BY <1>1, <1>4, <2>1, Elsewhere DEF venue, InFlight
<1>5. Sound(p)'
  <2>1. Sound(p)
    BY DEF IInv
  <2>2. ledger'[p] # NoPosition
    BY <1>1 DEF NoPosition
  <2>3. Blank(p)' /\ Rest(p)' /\ Loaded(p)' /\ HeldAt(p)' /\ OpenUnsent(p)'
    BY <1>1, <2>2 DEF Blank, Rest, Loaded, HeldAt, OpenUnsent
  <2>4. RecordedAt(p)'
    BY <2>1 DEF RecordedAt, Exposure, Opened, Reduced, venue, Sound
  <2> QED BY <2>3, <2>4 DEF Sound
<1> QED BY <1>3, <1>4, <1>5 DEF IInv
-----------------------------------------------------------------------------
(* Types, part by part.                                                     *)
HandTypes ==
  /\ ledger \in [Position -> Slot]
  /\ mem \in [Position -> Slot]
  /\ pc \in Steps
  /\ task \in Task \cup {NoTask}

VenueTypes ==
  /\ rows \in [Position -> [Label -> {"none", "PENDING", "DONE", "UNKNOWN"}]]
  /\ fills \in [Position -> [Label -> 0..Quantity]]
  /\ outside \in [Position -> [Leg -> 0..Quantity]]

LoopTypes ==
  indexed \subseteq Key /\ due \in BOOLEAN /\ todo \subseteq Position /\ offers \subseteq Key

LEMMA TypesSplit == TypeOK <=> HandTypes /\ VenueTypes /\ LoopTypes /\ SwitchTypeOK
BY DEF TypeOK, ExecutorTypeOK, HandTypes, VenueTypes, LoopTypes

LEMMA TypesSplitNext ==
  HandTypes' /\ VenueTypes' /\ LoopTypes' /\ SwitchTypeOK' => TypeOK'
BY DEF TypeOK, ExecutorTypeOK, HandTypes, VenueTypes, LoopTypes

LEMMA TripTypes ==
  ASSUME SwitchTypeOK, Trip \/ UNCHANGED switch
  PROVE  SwitchTypeOK'
BY DEF SwitchTypeOK, Trip, switch

LEMMA VenueTypesKept ==
  ASSUME VenueTypes, UNCHANGED <<rows, venue>>
  PROVE  VenueTypes'
BY DEF VenueTypes, venue

LEMMA EscapeTypes ==
  ASSUME HandTypes, NEW p \in Position, NEW object \in LivePosition, NEW next \in {"idle", "open"},
         Escape(p, next, object), UNCHANGED ledger \/ Stored(p, object)
  PROVE  HandTypes'
<1>1. ledger' \in [Position -> Slot]
  BY DEF HandTypes, Stored, Slot
<1>2. mem' \in [Position -> Slot]
  BY DEF HandTypes, Escape, Remembered, Slot
<1>3. pc' \in Steps /\ task' \in Task \cup {NoTask}
  BY DEF Escape, Steps
<1> QED BY <1>1, <1>2, <1>3 DEF HandTypes

LEMMA FinishTypes ==
  ASSUME HandTypes, NEW p \in Position, NEW object \in LivePosition, Finish(p, object)
  PROVE  HandTypes'
<1>1. CASE (UNCHANGED ledger \/ Stored(p, object)) /\ Escape(p, "idle", object)
  BY <1>1, EscapeTypes
<1>2. CASE Stored(p, object) /\ Remembered(p, object) /\ pc' = "returned" /\ UNCHANGED task
  <2>1. ledger' \in [Position -> Slot] /\ mem' \in [Position -> Slot]
    BY <1>2 DEF HandTypes, Stored, Remembered, Slot
  <2> QED BY <1>2, <2>1 DEF HandTypes, Steps
<1> QED BY <1>1, <1>2 DEF Finish

LEMMA SubmitTypes ==
  ASSUME HandTypes, NEW p \in Position, NEW object \in LivePosition,
         NEW label \in Label, NEW want \in 0..Quantity,
         UNCHANGED ledger \/ Stored(p, object), Remembered(p, object), Submit(p, label, want)
  PROVE  HandTypes'
<1>1. ledger' \in [Position -> Slot] /\ mem' \in [Position -> Slot]
  BY DEF HandTypes, Stored, Remembered, Slot
<1>2. pc' \in Steps /\ task' \in Task
  BY ExecutorAssumption DEF Submit, Steps, Task
<1> QED BY <1>1, <1>2 DEF HandTypes
-----------------------------------------------------------------------------
(* The steps of the executor.                                               *)

(* Calls end in FAILED, in MANUAL_INTERVENTION or in another final state.   *)
LEMMA FailPreserves ==
  ASSUME IInv, LoopTypes', pc \in InFlight \cup {"prepare"},
         NEW object \in LivePosition, NEW s \in Over \ {"OPEN"},
         Finish(task.pos, [object EXCEPT !.state = s]), Trip \/ UNCHANGED switch,
         UNCHANGED <<rows, venue>>
  PROVE  IInv'
<1>1. PICK final : final = [object EXCEPT !.state = s]
  OBVIOUS
<1>2. final \in LivePosition /\ final.state = s
  <2>1. s \in State
    BY DEF Over, State
  <2> QED BY <1>1, <2>1, Restated
<1>3. Finish(task.pos, final)
  BY <1>1
<1>4. task.pos \in Position
  BY HandFacts DEF Working
<1>5. TypeOK'
  BY <1>2, <1>3, <1>4, FinishTypes, TypesSplit, TypesSplitNext, TripTypes, VenueTypesKept DEF IInv
<1> QED BY <1>2, <1>3, <1>5, FinishPreserves

LEMMA NextOrder ==
  ASSUME IInv, LoopTypes', pc \in InFlight \cup {"prepare"},
         NEW object \in LivePosition, NEW label \in Label, NEW want \in 0..Quantity,
         object.state = IF label \in Closing THEN "CLOSING" ELSE "OPENING",
         (UNCHANGED ledger /\ mem[task.pos].state = object.state) \/ Stored(task.pos, object),
         Remembered(task.pos, object), Submit(task.pos, label, want),
         UNCHANGED <<rows, venue, switch>>,
         Unsent(task.pos, {label}), Unsent(task.pos, Absent(label))
  PROVE  IInv'
<1>1. PICK p \in Position :
        p = task.pos /\ task.pos \in {0, p} /\ ledger[p].state = mem[p].state
  BY HandFacts DEF Working
<1>2. (UNCHANGED ledger /\ ledger[p].state = object.state) \/ Stored(p, object)
  BY <1>1
<1>3. /\ Remembered(p, object) /\ Submit(p, label, want)
      /\ Unsent(p, {label}) /\ Unsent(p, Absent(label))
  BY <1>1
<1>4. HandTypes'
  BY <1>2, <1>3, SubmitTypes, TypesSplit DEF IInv
<1>5. VenueTypes' /\ SwitchTypeOK'
  BY VenueTypesKept, TripTypes, TypesSplit DEF IInv
<1>6. TypeOK'
  BY <1>4, <1>5, TypesSplitNext
<1> QED BY <1>1, <1>2, <1>3, <1>6, SubmitPreserves

LEMMA Raised ==
  ASSUME IInv, LoopTypes', pc \in InFlight \cup {"prepare"},
         NEW object \in LivePosition, NEW next \in {"idle", "open"},
         mem[task.pos].state = "OPENING" \/ object.state \notin {"OPENING", "OPEN"},
         Escape(task.pos, next, object), UNCHANGED <<ledger, rows, venue, switch>>
  PROVE  IInv'
<1>1. PICK p \in Position :
        /\ p = task.pos /\ task.pos \in {0, p}
        /\ ledger[p].state = mem[p].state /\ mem[p].state \in {"OPENING", "CLOSING", "OPEN"}
  BY HandFacts DEF Working
<1>2. Escape(p, next, object)
  BY <1>1
<1>3. HandTypes' /\ VenueTypes' /\ SwitchTypeOK'
  BY <1>2, EscapeTypes, VenueTypesKept, TripTypes, TypesSplit DEF IInv
<1>4. TypeOK'
  BY <1>3, TypesSplitNext
<1> QED BY <1>1, <1>2, <1>4, EscapePreserves

LEMMA PrepareStep ==
  ASSUME IInv, LoopTypes', Prepare
  PROVE  IInv'
<1>1. PICK object \in LivePosition : object = mem[task.pos]
  BY HandFacts DEF Prepare, Working
<1>2. /\ pc = "prepare" /\ object.state = "OPENING" /\ UNCHANGED <<rows, venue>>
      /\ Unsent(task.pos, Label)
  BY <1>1 DEF Prepare, IInv, InHand, Preparing
<1>3. CASE Fail(task.pos, mem[task.pos])
  BY <1>1, <1>2, <1>3, FailPreserves DEF Fail, Over
<1>4. CASE Submit(task.pos, "open_a", Quantity) /\ UNCHANGED <<ledger, mem, switch>>
  <2>1. Remembered(task.pos, object)
    BY <1>1, <1>4 DEF Remembered, IInv, TypeOK, ExecutorTypeOK
  <2>2. "open_a" \in Label \ Closing /\ Quantity \in 0..Quantity
    BY ExecutorAssumption DEF Label, Closing
  <2>3. Unsent(task.pos, {"open_a"}) /\ Unsent(task.pos, Absent("open_a"))
    BY <1>2 DEF Unsent, Absent, Label, Unwinding, Closing, Ending
  <2> QED BY <1>1, <1>2, <1>4, <2>1, <2>2, <2>3, NextOrder
<1>5. CASE Escape(task.pos, "idle", mem[task.pos]) /\ UNCHANGED <<ledger, switch>>
  BY <1>1, <1>2, <1>5, Raised
<1> QED BY <1>3, <1>4, <1>5 DEF Prepare

(* _compensate_open; nothing of a position is unwound twice.                *)
LEMMA CompensatePreserves ==
  ASSUME IInv, LoopTypes', pc \in InFlight, task.label = "open_b",
         NEW object \in LivePosition, object.state = "OPENING",
         Compensate(task.pos, object), UNCHANGED <<rows, venue>>
  PROVE  IInv'
<1>1. mem[task.pos].state = "OPENING" /\ Unsent(task.pos, Absent("open_b"))
  BY DEF IInv, InHand, Flying, Closing
<1>2. Unsent(task.pos, {"unwind_a"}) /\ Unsent(task.pos, Absent("unwind_a"))
  BY <1>1 DEF Unsent, Absent, Unwinding, Closing, Ending
<1>3. "unwind_a" \in Label \ Closing /\ object.a \in 0..Quantity
  BY DEF Label, Closing, LivePosition
<1>4. Remembered(task.pos, object) /\ Submit(task.pos, "unwind_a", object.a)
      /\ UNCHANGED <<ledger, switch>>
  BY DEF Compensate
<1> QED BY <1>1, <1>2, <1>3, <1>4, NextOrder

LEMMA RefuseStep ==
  ASSUME IInv, LoopTypes', Refuse
  PROVE  IInv'
<1>1. PICK object \in LivePosition : object = mem[task.pos]
  BY HandFacts DEF Refuse, Working, InFlight
<1>2. pc = "submit" /\ UNCHANGED <<rows, venue>>
  BY DEF Refuse
<1>3. CASE Fail(task.pos, mem[task.pos])
  BY <1>1, <1>2, <1>3, FailPreserves DEF Fail, Over, InFlight
<1>4. CASE task.label = "open_b" /\ Compensate(task.pos, mem[task.pos])
  <2>1. object.state = "OPENING"
    BY <1>1, <1>2, <1>4 DEF IInv, InHand, Flying, InFlight, Closing
  <2> QED BY <1>1, <1>2, <1>4, <2>1, CompensatePreserves DEF InFlight
<1>5. CASE Manual(task.pos, mem[task.pos])
  BY <1>1, <1>2, <1>5, FailPreserves DEF Manual, Over, InFlight
<1> QED BY <1>3, <1>4, <1>5 DEF Refuse

LEMMA AbandonStep ==
  ASSUME IInv, LoopTypes', Abandon
  PROVE  IInv'
<1>1. PICK object \in LivePosition : object = mem[task.pos]
  BY HandFacts DEF Abandon, Working, InFlight
<1>2. /\ pc = "submit" /\ UNCHANGED <<ledger, rows, venue, switch>>
      /\ task.label \in Opening \cup Unwinding
  BY DEF Abandon, durable, Opening, Unwinding
<1>3. mem[task.pos].state = "OPENING"
  BY <1>2 DEF IInv, InHand, Flying, InFlight, Closing, Opening, Unwinding
<1>4. Escape(task.pos, "idle", object) \/ Escape(task.pos, "open", object)
  BY <1>1 DEF Abandon
<1> QED BY <1>2, <1>3, <1>4, Raised DEF InFlight
(* An order goes out: what a step of it leaves as it is.                    *)
LEMMA OrderStep ==
  ASSUME IInv, TypeOK', pc \in InFlight, pc' \in InFlight,
         task'.pos = task.pos, task'.label = task.label, task' # NoTask,
         NEW p \in Position, p = task.pos,
         UNCHANGED <<ledger, mem, outside>>,
         \A q \in Position : q # p => rows'[q] = rows[q] /\ fills'[q] = fills[q],
         \A l \in Label : l # task.label => rows'[p][l] = rows[p][l],
         Sending', RecordedAt(p)'
  PROVE  IInv'
<1>1. ASSUME NEW q \in Position, q # p PROVE Sound(q)'
  BY <1>1, Elsewhere DEF InFlight
<1>2. task.label \in Label /\ mem[p].state \in {"OPENING", "CLOSING"}
      /\ ledger[p].state = mem[p].state /\ ledger[p] # NoPosition
  BY HandFacts DEF Working
<1>3. Blank(p)' /\ Rest(p)' /\ Loaded(p)' /\ HeldAt(p)' /\ OpenUnsent(p)'
  BY <1>2 DEF Blank, Rest, Loaded, HeldAt, OpenUnsent, InFlight
<1>4. Busy' /\ Preparing' /\ Returning'
  BY DEF Busy, Preparing, Returning, InFlight, Working
<1>5. Unsent(p, Absent(task.label))'
  <2>1. Unsent(p, Absent(task.label))
    BY DEF IInv, InHand, Flying
  <2>2. Absent(task.label) \subseteq Label \ {task.label}
    BY <1>2 DEF Absent, Label, Unwinding, Closing, Ending
  <2> QED BY <2>1, <2>2 DEF Unsent, Absent, Ending, Closing, Unwinding
<1>6. Flying'
  BY <1>2, <1>5 DEF Flying, IInv, InHand
<1> QED BY <1>1, <1>3, <1>4, <1>6 DEF IInv, InHand, Sound

LEMMA AcceptStep ==
  ASSUME IInv, LoopTypes', Accept
  PROVE  IInv'
<1>1. PICK p \in Position, l \in Label : p = task.pos /\ l = task.label /\ task # NoTask
  BY HandFacts DEF Accept, Working, InFlight, NoTask, Position
<1>2. /\ pc = "submit" /\ pc' = "send"
      /\ rows' = [rows EXCEPT ![p][l] = "PENDING"]
      /\ UNCHANGED <<ledger, mem, fills, outside, switch, task>>
  BY <1>1 DEF Accept, venue
<1>3. VenueTypes
  BY TypesSplit DEF IInv
<1>4. /\ rows'[p][l] = "PENDING"
      /\ \A m \in Label : m # l => rows'[p][m] = rows[p][m]
      /\ \A q \in Position : q # p => rows'[q] = rows[q]
  BY <1>2, <1>3 DEF VenueTypes
<1>5. TypeOK'
  <2>1. VenueTypes'
    BY <1>2, <1>3 DEF VenueTypes
  <2>2. HandTypes'
    BY <1>2, TypesSplit DEF HandTypes, IInv, Steps
  <2>3. SwitchTypeOK'
    BY <1>2, TripTypes, TypesSplit DEF IInv
  <2> QED BY <2>1, <2>2, <2>3, TypesSplitNext
<1>6. RecordedAt(p) /\ rows[p][l] = "none"
  BY <1>1, <1>2 DEF IInv, Sound, InHand, Sending
<1>7. Sending'
  BY <1>1, <1>2, <1>3, <1>4, <1>6 DEF Sending, RecordedAt, VenueTypes
<1>8. RecordedAt(p)'
  BY <1>2, <1>4, <1>6 DEF RecordedAt, Exposure, Opened, Reduced
<1>9. pc \in InFlight /\ pc' \in InFlight
  BY <1>2 DEF InFlight
<1> QED BY <1>1, <1>2, <1>4, <1>5, <1>7, <1>8, <1>9, OrderStep

(* What a venue may fill: never more than the order, nor, when it reduces,  *)
(* more than it holds.                                                      *)
LEMMA FillFacts ==
  ASSUME VenueTypes, NEW p \in Position, NEW l \in Label, NEW want \in 0..Quantity,
         RecordedAt(p), NEW f \in 0..Fillable(p, l, want)
  PROVE  /\ f \in 0..Quantity
         /\ l \notin Opening => f <= Exposure(p, LegOf(l))
<1>1. Exposure(p, LegOf(l)) \in Int /\ Exposure(p, LegOf(l)) >= 0 /\ Exposure(p, LegOf(l)) =< Quantity
  <2>1. LegOf(l) \in Leg
    BY DEF LegOf, Leg
  <2>2. \A m \in Label : fills[p][m] \in 0..Quantity
    BY DEF VenueTypes
  <2>3. \A g \in Leg : outside[p][g] \in 0..Quantity
    BY DEF VenueTypes
  <2>4. Exposure(p, LegOf(l)) >= 0
    BY <2>1 DEF RecordedAt
  <2>5. ASSUME NEW g \in Leg PROVE Exposure(p, g) \in Int /\ Exposure(p, g) =< Quantity
    BY <2>2, <2>3, <2>5, ExecutorAssumption DEF Exposure, Opened, Reduced, Leg, Label
  <2> QED BY <2>1, <2>4, <2>5
<1> QED BY <1>1, ExecutorAssumption DEF Fillable

LEMMA SendStep ==
  ASSUME IInv, LoopTypes', Send
  PROVE  IInv'
<1>1. PICK p \in Position, l \in Label : p = task.pos /\ l = task.label
  BY HandFacts DEF Send, Working, InFlight
<1>2. task \in Task /\ VenueTypes /\ HandTypes /\ RecordedAt(p)
  BY <1>1, HandFacts, TypesSplit DEF Send, Working, InFlight, IInv, Sound
<1>3. pc = "send" /\ pc' = "record" /\ UNCHANGED <<ledger, mem, outside, rows>>
  BY DEF Send, durable
<1>4. rows[p][l] = "PENDING" /\ fills[p][l] = 0
  BY <1>1, <1>3 DEF IInv, InHand, Sending
<1>5. PICK f \in 0..Fillable(p, l, task.want) :
        /\ fills' = [fills EXCEPT ![p][l] = f]
        /\ \E got \in 0..f, u \in BOOLEAN : Answered(got, u)
        /\ Trip \/ UNCHANGED switch
  <2>1. PICK f \in 0..Fillable(p, l, task.want) :
          /\ fills' = [fills EXCEPT ![p][l] = f]
          /\ \/ Answered(f, FALSE) /\ UNCHANGED switch
             \/ /\ "answer" \in Faults
                /\ Answered(0, TRUE)
                /\ UNCHANGED switch \/ Trip
             \/ /\ "open_answer" \in Faults
                /\ \E got \in 0..f : Answered(got, FALSE)
                /\ UNCHANGED switch
    BY <1>1 DEF Send
  <2>2. task.want \in 0..Quantity
    BY <1>2 DEF Task
  <2>3. f \in Nat
    BY <1>2, <2>2, FillFacts
  <2>4. f \in 0..f /\ 0 \in 0..f
    BY <2>3
  <2> QED BY <2>1, <2>4
<1>6. task.want \in 0..Quantity
  BY <1>2 DEF Task
<1>7. f \in 0..Quantity /\ (l \notin Opening => f <= Exposure(p, LegOf(l)))
  BY <1>2, <1>6, FillFacts
<1>8. PICK got \in 0..f, u \in BOOLEAN : task' = [task EXCEPT !.got = got, !.unknown = u]
  BY <1>5 DEF Answered
<1>9. task' \in Task /\ task'.pos = p /\ task'.label = l /\ task' # NoTask
  <2>0. f \in 0..Quantity
    BY <1>7
  <2>1. got \in 0..Quantity
    BY <2>0, ExecutorAssumption
  <2>2. task' \in Task /\ task'.pos = p /\ task'.label = l
    BY <1>1, <1>2, <1>8, <2>1 DEF Task
  <2> QED BY <2>2 DEF NoTask, Position
<1>10. /\ fills'[p][l] = f
       /\ \A m \in Label : m # l => fills'[p][m] = fills[p][m]
       /\ \A q \in Position : q # p => fills'[q] = fills[q]
  BY <1>2, <1>5 DEF VenueTypes
<1>11. TypeOK'
  <2>1. VenueTypes'
    BY <1>2, <1>3, <1>5, <1>7 DEF VenueTypes
  <2>2. HandTypes'
    BY <1>2, <1>3, <1>9 DEF HandTypes, Steps
  <2>3. SwitchTypeOK'
    BY <1>5, TripTypes, TypesSplit DEF IInv
  <2> QED BY <2>1, <2>2, <2>3, TypesSplitNext
<1>12. RecordedAt(p)'
  <2>1. \A m \in Label : fills'[p][m] > 0 => rows'[p][m] # "none"
    BY <1>2, <1>3, <1>4, <1>10 DEF RecordedAt
  <2>2. \A m \in Label : fills[p][m] \in 0..Quantity
    BY <1>2 DEF VenueTypes
  <2>3. \A g \in Leg : outside[p][g] \in 0..Quantity
    BY <1>2 DEF VenueTypes
  <2>4. \A g \in Leg : Exposure(p, g) >= 0
    BY <1>2 DEF RecordedAt
  <2>5. \A g \in Leg : Exposure(p, g)' >= 0
    BY <1>3, <1>4, <1>7, <1>10, <2>2, <2>3, <2>4, ExecutorAssumption
    DEF Exposure, Opened, Reduced, Leg, Label, Opening, LegOf
  <2> QED BY <2>1, <2>5 DEF RecordedAt
<1>13. Sending'
  BY <1>3, <1>4, <1>9 DEF Sending
<1> QED BY <1>1, <1>3, <1>9, <1>10, <1>11, <1>12, <1>13, OrderStep DEF InFlight

LEMMA RecordStep ==
  ASSUME IInv, LoopTypes', Record
  PROVE  IInv'
<1>1. PICK p \in Position, l \in Label : p = task.pos /\ l = task.label /\ task # NoTask
  BY HandFacts DEF Record, Working, InFlight, NoTask, Position
<1>2. task \in Task /\ VenueTypes /\ HandTypes /\ RecordedAt(p)
  BY <1>1, HandFacts, TypesSplit DEF Record, Working, InFlight, IInv, Sound
<1>3. pc = "record" /\ pc' = "decide" /\ UNCHANGED <<ledger, mem, fills, outside>>
  BY DEF Record, venue
<1>4. PICK s \in {"UNKNOWN", "DONE"} :
        \/ rows' = [rows EXCEPT ![p][l] = s] /\ UNCHANGED <<task, switch>>
        \/ UNCHANGED rows /\ Trip /\ task' = [task EXCEPT !.got = task.got, !.unknown = TRUE]
  BY <1>1 DEF Record, Answered
<1>5. task' \in Task /\ task'.pos = p /\ task'.label = l /\ task' # NoTask
  <2>1. task' \in Task /\ task'.pos = p /\ task'.label = l
    BY <1>1, <1>2, <1>4 DEF Task
  <2> QED BY <2>1 DEF NoTask, Position
<1>6. /\ rows'[p][l] \in {rows[p][l], "UNKNOWN", "DONE"}
      /\ \A m \in Label : m # l => rows'[p][m] = rows[p][m]
      /\ \A q \in Position : q # p => rows'[q] = rows[q]
  BY <1>2, <1>4 DEF VenueTypes
<1>7. TypeOK'
  <2>1. VenueTypes'
    <3>1. rows' \in [Position -> [Label -> {"none", "PENDING", "DONE", "UNKNOWN"}]]
      <4>0. rows \in [Position -> [Label -> {"none", "PENDING", "DONE", "UNKNOWN"}]]
        BY <1>2 DEF VenueTypes
      <4>1. CASE rows' = [rows EXCEPT ![p][l] = s]
        BY <4>0, <4>1
      <4> QED BY <1>4, <4>0, <4>1
    <3> QED BY <1>2, <1>3, <3>1 DEF VenueTypes
  <2>2. HandTypes'
    BY <1>2, <1>3, <1>5 DEF HandTypes, Steps
  <2>3. SwitchTypeOK'
    BY <1>4, TripTypes, TypesSplit DEF IInv
  <2> QED BY <2>1, <2>2, <2>3, TypesSplitNext
<1>8. RecordedAt(p)'
  BY <1>2, <1>3, <1>6 DEF RecordedAt, Exposure, Opened, Reduced
<1>9. Sending'
  BY <1>3 DEF Sending
<1> QED BY <1>1, <1>3, <1>5, <1>6, <1>7, <1>8, <1>9, OrderStep DEF InFlight

(* The unknown outcome of any order ends in MANUAL_INTERVENTION.            *)
LEMMA DecideUnknownStep ==
  ASSUME IInv, LoopTypes', DecideUnknown
  PROVE  IInv'
<1>1. mem[task.pos] \in LivePosition
  BY HandFacts DEF DecideUnknown, Working, InFlight
<1>2. pc = "decide" /\ UNCHANGED <<rows, venue>> /\ Trip
      /\ Finish(task.pos, [mem[task.pos] EXCEPT !.state = "MANUAL_INTERVENTION"])
  BY DEF DecideUnknown, Manual
<1> QED BY <1>1, <1>2, FailPreserves DEF InFlight, Over

(* What a step that decides over a leg finds.                               *)
LEMMA DecideFacts ==
  ASSUME IInv, pc = "decide"
  PROVE  /\ mem[task.pos] \in LivePosition
         /\ task.got \in 0..Quantity /\ task.want \in 0..Quantity
         /\ task.label \in Label
         /\ mem[task.pos].state = IF task.label \in Closing THEN "CLOSING" ELSE "OPENING"
         /\ Unsent(task.pos, Absent(task.label))
<1>1. mem[task.pos] \in LivePosition /\ task \in Task
  BY HandFacts DEF Working, InFlight
<1>2. mem[task.pos].state = IF task.label \in Closing THEN "CLOSING" ELSE "OPENING"
  BY DEF IInv, InHand, Flying, InFlight
<1>3. Unsent(task.pos, Absent(task.label))
  BY DEF IInv, InHand, Flying, InFlight
<1> QED BY <1>1, <1>2, <1>3 DEF Task

LEMMA DecideFirstLegStep ==
  ASSUME IInv, LoopTypes', DecideFirstLeg
  PROVE  IInv'
<1>1. /\ pc = "decide" /\ task.label = "open_a" /\ UNCHANGED <<rows, venue>>
  BY DEF DecideFirstLeg, Known
<1>2. PICK before \in LivePosition : before = mem[task.pos] /\ before.state = "OPENING"
  BY <1>1, DecideFacts DEF Closing
<1>3. PICK object : object = [before EXCEPT !.a = task.got]
  OBVIOUS
<1>4. object \in LivePosition /\ object.state = "OPENING"
  BY <1>1, <1>2, <1>3, DecideFacts DEF LivePosition
<1>5. CASE Fail(task.pos, mem[task.pos])
  BY <1>1, <1>2, <1>5, FailPreserves DEF Fail, Over, InFlight
<1>6. CASE Manual(task.pos, object)
  BY <1>1, <1>4, <1>6, FailPreserves DEF Manual, Over, InFlight
<1>7. CASE SaveThenSubmit(task.pos, object, "open_b", task.got) /\ UNCHANGED switch
  <2>1. CASE /\ Stored(task.pos, object)
             /\ Remembered(task.pos, object)
             /\ Submit(task.pos, "open_b", task.got)
    <3>1. Unsent(task.pos, {"open_b"}) /\ Unsent(task.pos, Absent("open_b"))
      BY <1>1, DecideFacts DEF Unsent, Absent, Unwinding, Closing, Ending
    <3>2. "open_b" \in Label \ Closing /\ task.got \in 0..Quantity
      BY <1>1, DecideFacts DEF Label, Closing
    <3> QED BY <1>1, <1>4, <1>7, <2>1, <3>1, <3>2, NextOrder DEF InFlight
  <2>2. CASE Escape(task.pos, "idle", object) /\ UNCHANGED ledger
    BY <1>1, <1>2, <1>4, <1>7, <2>2, Raised DEF InFlight
  <2> QED BY <1>7, <2>1, <2>2 DEF SaveThenSubmit
<1> QED BY <1>2, <1>3, <1>5, <1>6, <1>7 DEF DecideFirstLeg

LEMMA DecideSecondLegStep ==
  ASSUME IInv, LoopTypes', DecideSecondLeg
  PROVE  IInv'
<1>1. pc = "decide" /\ task.label = "open_b" /\ UNCHANGED <<rows, venue>>
  BY DEF DecideSecondLeg, Known
<1>2. PICK before \in LivePosition : before = mem[task.pos] /\ before.state = "OPENING"
  BY <1>1, DecideFacts DEF Closing
<1>3. PICK object : object = [before EXCEPT !.b = task.got]
  OBVIOUS
<1>4. object \in LivePosition /\ object.state = "OPENING"
  BY <1>1, <1>2, <1>3, DecideFacts DEF LivePosition
<1>5. CASE Compensate(task.pos, mem[task.pos])
  BY <1>1, <1>2, <1>5, CompensatePreserves DEF InFlight
<1>6. CASE Compensate(task.pos, object)
  BY <1>1, <1>4, <1>6, CompensatePreserves DEF InFlight
<1>7. CASE Finish(task.pos, [object EXCEPT !.state = "OPEN"]) /\ UNCHANGED switch
  <2>1. PICK open : open = [object EXCEPT !.state = "OPEN"]
    OBVIOUS
  <2>2. open \in LivePosition /\ open.state = "OPEN"
    <3>1. "OPEN" \in State
      BY DEF State
    <3> QED BY <1>4, <2>1, <3>1, Restated
  <2>3. mem[task.pos].state = "OPENING" /\ Unsent(task.pos, Ending)
    BY <1>1, <1>2, DecideFacts DEF Unsent, Absent, Ending, Closing, Unwinding
  <2>4. Finish(task.pos, open)
    BY <1>7, <2>1
  <2>5. TypeOK'
    <3>1. task.pos \in Position
      BY <1>1, HandFacts DEF Working, InFlight
    <3>2. HandTypes'
      BY <2>2, <2>4, <3>1, FinishTypes, TypesSplit DEF IInv
    <3>3. VenueTypes' /\ SwitchTypeOK'
      BY <1>1, <1>7, VenueTypesKept, TripTypes, TypesSplit DEF IInv
    <3> QED BY <3>2, <3>3, TypesSplitNext
  <2> QED BY <1>1, <2>2, <2>3, <2>4, <2>5, FinishPreserves DEF InFlight, Over
<1> QED BY <1>2, <1>3, <1>5, <1>6, <1>7 DEF DecideSecondLeg

LEMMA DecideUnwindStep ==
  ASSUME IInv, LoopTypes', DecideUnwind
  PROVE  IInv'
<1>1. pc = "decide" /\ task.label \in Unwinding /\ UNCHANGED <<rows, venue>>
  BY DEF DecideUnwind, Known, Unwinding
<1>2. PICK object \in LivePosition : object = mem[task.pos] /\ object.state = "OPENING"
  BY <1>1, DecideFacts DEF Closing, Unwinding
<1>3. CASE Manual(task.pos, mem[task.pos])
  BY <1>1, <1>2, <1>3, FailPreserves DEF Manual, Over, InFlight
<1>4. CASE Fail(task.pos, mem[task.pos])
  BY <1>1, <1>2, <1>4, FailPreserves DEF Fail, Over, InFlight
<1>5. CASE /\ task.label = "unwind_a"
           /\ Submit(task.pos, "unwind_b", object.b)
           /\ UNCHANGED <<ledger, mem, switch>>
  <2>1. Unsent(task.pos, {"unwind_b"}) /\ Unsent(task.pos, Absent("unwind_b"))
    BY <1>1, <1>5, DecideFacts DEF Unsent, Absent, Unwinding, Closing, Ending
  <2>2. "unwind_b" \in Label \ Closing /\ object.b \in 0..Quantity
    BY DEF Label, Closing, LivePosition
  <2>3. Remembered(task.pos, object)
    BY <1>2, <1>5 DEF Remembered, IInv, TypeOK, ExecutorTypeOK
  <2> QED BY <1>1, <1>2, <1>5, <2>1, <2>2, <2>3, NextOrder DEF InFlight
<1> QED BY <1>2, <1>3, <1>4, <1>5 DEF DecideUnwind

LEMMA DecideCloseStep ==
  ASSUME IInv, LoopTypes', DecideClose
  PROVE  IInv'
<1>1. pc = "decide" /\ task.label \in Closing /\ UNCHANGED <<rows, venue>>
  BY DEF DecideClose, Known, Closing
<1>2. PICK object \in LivePosition : object = mem[task.pos] /\ object.state = "CLOSING"
  BY <1>1, DecideFacts DEF Closing
<1>3. CASE Manual(task.pos, mem[task.pos])
  BY <1>1, <1>2, <1>3, FailPreserves DEF Manual, Over, InFlight
<1>4. CASE Finish(task.pos, [mem[task.pos] EXCEPT !.state = "CLOSED"]) /\ UNCHANGED switch
  BY <1>1, <1>2, <1>4, FailPreserves DEF Over, InFlight
<1>5. CASE /\ task.label = "close_a"
           /\ Submit(task.pos, "close_b", object.b)
           /\ UNCHANGED <<ledger, mem, switch>>
  <2>1. Unsent(task.pos, {"close_b"}) /\ Unsent(task.pos, Absent("close_b"))
    BY <1>1, <1>5, DecideFacts DEF Unsent, Absent, Unwinding, Closing, Ending
  <2>2. "close_b" \in Label \cap Closing /\ object.b \in 0..Quantity
    BY DEF Label, Closing, LivePosition
  <2>3. Remembered(task.pos, object)
    BY <1>2, <1>5 DEF Remembered, IInv, TypeOK, ExecutorTypeOK
  <2> QED BY <1>1, <1>2, <1>5, <2>1, <2>2, <2>3, NextOrder DEF InFlight
<1> QED BY <1>2, <1>3, <1>4, <1>5 DEF DecideClose

LEMMA ExecuteStep ==
  ASSUME IInv, Execute
  PROVE  IInv'
<1>1. LoopTypes'
  BY TypesSplit DEF IInv, Execute, LoopTypes
<1> QED BY <1>1, PrepareStep, AcceptStep, RefuseStep, AbandonStep, SendStep, RecordStep,
           DecideUnknownStep, DecideFirstLegStep, DecideSecondLegStep, DecideUnwindStep,
           DecideCloseStep
    DEF Execute, ExecutorStep, Decide
-----------------------------------------------------------------------------
(* The steps of the runner around the executor.                             *)

LEMMA AtEase ==
  ASSUME IInv, pc \in {"idle", "check", "equity", "close", "open"}
  PROVE  task = NoTask /\ \A p \in Position : mem[p].state # "OPENING"
<1>1. task = NoTask
  BY DEF IInv, InHand, Busy, Working, InFlight
<1>2. \A p \in Position : task.pos # p
  BY <1>1 DEF NoTask, Position
<1> QED BY <1>1, <1>2 DEF IInv, Sound, Rest

LEMMA BetweenPositions ==
  ASSUME IInv, LoopTypes', SwitchTypeOK', UNCHANGED <<durable, venue, mem>>, task' = NoTask,
         pc # "down", pc' \in {"idle", "check", "equity", "close", "open", "halted"},
         pc' = "halted" \/ (pc # "halted" /\ \A p \in Position : mem[p].state # "OPENING")
  PROVE  IInv'
<1>1. InHand'
  BY HandEmpty DEF Working, InFlight
<1>2. HandTypes' /\ VenueTypes'
  BY VenueTypesKept, TypesSplit DEF HandTypes, IInv, Steps, durable
<1>3. TypeOK'
  BY <1>2, TypesSplitNext
<1>4. ASSUME NEW p \in Position PROVE Sound(p)'
  <2>1. Sound(p) /\ task'.pos # p
    BY DEF IInv, NoTask, Position
  <2>2. Blank(p)' /\ Rest(p)' /\ Loaded(p)' /\ HeldAt(p)'
    BY <2>1 DEF Sound, Blank, Rest, Loaded, HeldAt, Unsent, durable
  <2>3. OpenUnsent(p)' /\ RecordedAt(p)'
    BY <2>1 DEF Sound, OpenUnsent, RecordedAt, Exposure, Opened, Reduced, Unsent, durable, venue
  <2> QED BY <2>2, <2>3 DEF Sound
<1> QED BY <1>1, <1>3, <1>4 DEF IInv

LEMMA StartupStep ==
  ASSUME IInv, Startup
  PROVE  IInv'
<1>1. LoopTypes' /\ SwitchTypeOK'
  <2>1. todo' \in {todo, {}} /\ offers' \in {offers, {}} /\ due' \in {due, FALSE}
        /\ UNCHANGED indexed
    BY DEF Startup, Idle, loops
  <2>2. LoopTypes'
    BY <2>1, TypesSplit DEF IInv, LoopTypes
  <2>3. Trip \/ UNCHANGED switch
    BY DEF Startup
  <2> QED BY <2>2, <2>3, TripTypes, TypesSplit DEF IInv
<1>2. task' = NoTask /\ pc = "boot" /\ UNCHANGED <<durable, venue, mem>>
  BY DEF Startup, IInv, InHand, Busy, Working, InFlight
<1>3. CASE pc' = "halted"
  BY <1>1, <1>2, <1>3, BetweenPositions
<1>4. CASE Reconciled /\ Idle
  <2>1. \A p \in Position : mem[p].state # "OPENING"
    BY <1>2, <1>4 DEF IInv, Sound, Loaded, Reconciled, Unsettled, NoPosition
  <2> QED BY <1>1, <1>2, <1>4, <2>1, BetweenPositions DEF Idle
<1> QED BY <1>3, <1>4 DEF Startup

LEMMA CycleSteps ==
  ASSUME IInv, BeginCycle \/ Check \/ RecordEquity \/ EnterOpen \/ EndCycle
  PROVE  IInv'
<1>1. Trip \/ UNCHANGED switch
  BY DEF BeginCycle, Check, RecordEquity, EnterOpen, EndCycle, ReconcileFails
<1>2. SwitchTypeOK'
  BY <1>1, TripTypes, TypesSplit DEF IInv
<1>3. LoopTypes'
  <2>1. todo' \in {todo, {}, Held} /\ offers' \in {offers, {}, Key} /\ UNCHANGED indexed
    BY DEF BeginCycle, Check, RecordEquity, EnterOpen, EndCycle, Idle, loops
  <2>2. due' \in BOOLEAN
    BY TypesSplit DEF IInv, LoopTypes, BeginCycle, Check, RecordEquity, EnterOpen, EndCycle
  <2> QED BY <2>1, <2>2, TypesSplit DEF IInv, LoopTypes, Held
<1>4. UNCHANGED <<durable, venue, mem, task>>
  BY DEF BeginCycle, Check, RecordEquity, EnterOpen, EndCycle
<1>5. pc \in {"idle", "check", "equity", "close", "open"}
  BY DEF BeginCycle, Check, RecordEquity, EnterOpen, EndCycle
<1>6. pc' \in {"idle", "check", "equity", "close", "open"}
  BY <1>5 DEF BeginCycle, Check, RecordEquity, EnterOpen, EndCycle, Idle
<1> QED BY <1>2, <1>3, <1>4, <1>5, <1>6, AtEase, BetweenPositions

LEMMA CloseNextStep ==
  ASSUME IInv, CloseNext
  PROVE  IInv'
<1>1. /\ pc = "close" /\ todo # {} /\ todo \subseteq Position
      /\ todo' = (IF pc' = "idle" THEN {} ELSE todo \ {Min(todo)})
      /\ UNCHANGED <<indexed, due, offers>>
  BY TypesSplit DEF CloseNext, IInv, LoopTypes
<1>2. LoopTypes'
  BY <1>1, TypesSplit DEF IInv, LoopTypes
<1>3. PICK p \in Position : p = Min(todo)
  BY <1>1, LeastPosition
<1>4. task = NoTask /\ task.pos \in {0, p}
  BY <1>1, AtEase DEF NoTask
<1>5. CASE UNCHANGED <<durable, venue, switch, mem, pc, task>>
  <2>1. SwitchTypeOK'
    BY <1>5, TripTypes, TypesSplit DEF IInv
  <2> QED BY <1>1, <1>2, <1>4, <1>5, <2>1, AtEase, BetweenPositions
<1>6. CASE StartClose(p)
  <2>1. PICK before \in LivePosition : before = mem[p] /\ before.state = "OPEN"
    BY <1>6, SlotFacts DEF StartClose, IInv, TypeOK, ExecutorTypeOK
  <2>2. PICK object : object = [before EXCEPT !.state = "CLOSING"]
    OBVIOUS
  <2>3. object \in LivePosition /\ object.state = "CLOSING" /\ object.a = before.a
    <3>1. "CLOSING" \in State
      BY DEF State
    <3> QED BY <2>1, <2>2, <3>1, Restated
  <2>4. ledger[p] = before /\ Unsent(p, Ending)
    BY <1>1, <2>1 DEF IInv, Sound, HeldAt, OpenUnsent
  <2>5. /\ SaveThenSubmit(p, object, "close_a", before.a)
        /\ UNCHANGED <<rows, venue, switch>>
    BY <1>6, <2>1, <2>2 DEF StartClose
  <2>6. before.a \in 0..Quantity /\ "close_a" \in Label \cap Closing
    BY DEF LivePosition, Label, Closing
  <2>7. VenueTypes' /\ SwitchTypeOK'
    BY <2>5, VenueTypesKept, TripTypes, TypesSplit DEF IInv
  <2>8. CASE Stored(p, object) /\ Remembered(p, object) /\ Submit(p, "close_a", before.a)
    <3>1. TypeOK'
      BY <1>2, <2>3, <2>6, <2>7, <2>8, SubmitTypes, TypesSplit, TypesSplitNext DEF IInv
    <3>2. Unsent(p, {"close_a"}) /\ Unsent(p, Absent("close_a"))
      BY <2>4 DEF Unsent, Absent, Ending, Closing, Unwinding
    <3> QED BY <1>1, <1>4, <2>3, <2>5, <2>6, <2>8, <3>1, <3>2, SubmitPreserves
  <2>9. CASE UNCHANGED ledger /\ Escape(p, "idle", object)
    <3>1. TypeOK'
      BY <1>2, <2>3, <2>7, <2>9, EscapeTypes, TypesSplit, TypesSplitNext DEF IInv
    <3>2. mem[p].state = "OPEN" /\ ledger[p].state = mem[p].state
      BY <2>1, <2>4
    <3> QED BY <1>1, <1>4, <2>3, <2>5, <2>9, <3>1, <3>2, EscapePreserves
  <2> QED BY <2>5, <2>8, <2>9 DEF SaveThenSubmit
<1> QED BY <1>3, <1>5, <1>6 DEF CloseNext

LEMMA OpenNextStep ==
  ASSUME IInv, OpenNext
  PROVE  IInv'
<1>1. PICK k \in Key :
        CreatePosition(NextPosition, k) /\ offers' = offers \ {k} /\ UNCHANGED <<indexed, due, todo>>
  BY TypesSplit DEF OpenNext, IInv, LoopTypes
<1>2. pc = "open" /\ task = NoTask
  BY AtEase DEF OpenNext
<1>3. PICK p \in Position : p = NextPosition /\ ledger[p] = NoPosition
  <2>1. {q \in Position : ledger[q] = NoPosition} # {}
    BY DEF OpenNext
  <2> QED BY <2>1, LeastPosition DEF NextPosition
<1>4. LoopTypes'
  BY <1>1, TypesSplit DEF IInv, LoopTypes
<1>5. VenueTypes' /\ SwitchTypeOK' /\ UNCHANGED <<rows, venue>>
  BY <1>1, VenueTypesKept, TripTypes, TypesSplit DEF IInv, CreatePosition
<1>6. CASE UNCHANGED <<ledger, mem, task>> /\ pc' = "idle"
  BY <1>2, <1>4, <1>5, <1>6, AtEase, BetweenPositions DEF durable
<1>7. ASSUME NEW object, object = [state |-> "OPENING", key |-> k, a |-> 0, b |-> 0],
             Stored(p, object), Remembered(p, object), pc' = "prepare",
             task' = [pos |-> p, label |-> "open_a", want |-> 0, got |-> 0, unknown |-> FALSE]
      PROVE  IInv'
  <2>1. object \in LivePosition /\ object.state = "OPENING"
    BY <1>7, ExecutorAssumption DEF LivePosition, State
  <2>2. ledger'[p] = object /\ mem'[p] = object
    BY <1>7 DEF Stored, Remembered, IInv, TypeOK, ExecutorTypeOK
  <2>3. \A q \in Position : q # p => ledger'[q] = ledger[q] /\ mem'[q] = mem[q]
    BY <1>7 DEF Stored, Remembered, IInv, TypeOK, ExecutorTypeOK
  <2>4. HandTypes'
    <3>1. ledger' \in [Position -> Slot] /\ mem' \in [Position -> Slot]
      BY <1>7, <2>1 DEF Stored, Remembered, IInv, TypeOK, ExecutorTypeOK, Slot
    <3>2. task' \in Task
      BY <1>7, ExecutorAssumption DEF Task, Label
    <3> QED BY <1>7, <3>1, <3>2 DEF HandTypes, Steps
  <2>5. TypeOK'
    BY <1>4, <1>5, <2>4, TypesSplitNext
  <2>6. task' # NoTask /\ task'.pos = p /\ task'.label = "open_a"
    BY <1>7 DEF NoTask, Position
  <2>7. Blank(p) /\ RecordedAt(p) /\ Unsent(p, Label)
    BY <1>3 DEF IInv, Sound, Blank
  <2>8. InHand'
    <3>1. Unsent(p, Label)'
      BY <1>5, <2>7 DEF Unsent
    <3> QED BY <1>7, <2>1, <2>2, <2>6, <3>1
      DEF InHand, Busy, Preparing, Flying, Sending, Returning, Working, InFlight
  <2>9. ASSUME NEW q \in Position, q # p PROVE Sound(q)'
    <3>1. task.pos \in {0, p}
      BY <1>2 DEF NoTask
    <3> QED BY <1>2, <1>5, <1>7, <2>3, <2>6, <2>9, <3>1, Elsewhere DEF venue
  <2>10. Sound(p)'
    <3>1. object # NoPosition
      BY <2>1 DEF NoPosition
    <3>2. Blank(p)' /\ Rest(p)' /\ Loaded(p)' /\ HeldAt(p)' /\ OpenUnsent(p)'
      BY <1>7, <2>1, <2>2, <2>6, <3>1 DEF Blank, Rest, Loaded, HeldAt, OpenUnsent
    <3>3. RecordedAt(p)'
      BY <1>5, <2>7 DEF RecordedAt, Exposure, Opened, Reduced, venue
    <3> QED BY <3>2, <3>3 DEF Sound
  <2> QED BY <2>5, <2>8, <2>9, <2>10 DEF IInv
<1> QED BY <1>1, <1>3, <1>6, <1>7 DEF CreatePosition

LEMMA ReturnedStep ==
  ASSUME IInv, Returned
  PROVE  IInv'
<1>1. /\ pc = "returned" /\ task' = NoTask /\ pc' \in {"open", "close", "idle"}
      /\ UNCHANGED <<durable, venue, switch, mem, due>>
  BY DEF Returned, Idle
<1>2. task.pos \in Position /\ mem[task.pos] \in LivePosition /\ mem[task.pos].state \in Over
  BY <1>1, HandFacts DEF Working, IInv, InHand, Returning
<1>3. LoopTypes'
  <2>1. mem[task.pos].key \in Key
    BY <1>2 DEF LivePosition
  <2>2. indexed' \in {indexed, indexed \cup {mem[task.pos].key}, indexed \ {mem[task.pos].key}}
    BY DEF Returned
  <2>3. todo' \in {todo, {}} /\ offers' \in {offers, {}}
    BY DEF Returned, loops, Idle
  <2> QED BY <1>1, <2>1, <2>2, <2>3, TypesSplit DEF IInv, LoopTypes
<1>4. \A p \in Position : mem[p].state # "OPENING"
  <2>1. \A p \in Position : p # task.pos => mem[p].state # "OPENING"
    BY <1>1 DEF IInv, Sound, Rest
  <2> QED BY <1>2, <2>1 DEF Over
<1>5. SwitchTypeOK'
  BY <1>1, TripTypes, TypesSplit DEF IInv
<1> QED BY <1>1, <1>3, <1>4, <1>5, BetweenPositions
-----------------------------------------------------------------------------
(* Restarts, crashes, the operator and the venue.                           *)

(* A process that is stopped or restarts has nothing in hand.               *)
LEMMA RestartStep ==
  ASSUME IInv, Restart
  PROVE  IInv'
<1>1. task = NoTask
  BY DEF Restart, Stopped, IInv, InHand, Busy, Working, InFlight
<1>2. /\ pc' = "boot" /\ task' = NoTask /\ UNCHANGED <<ledger, rows, fills, outside>>
      /\ mem' = [p \in Position |-> IF ledger[p].state \in Active THEN ledger[p] ELSE NoPosition]
  BY <1>1 DEF Restart, durable, venue
<1>3. InHand'
  BY <1>2, HandEmpty DEF Working, InFlight
<1>4. TypeOK'
  <2>1. mem' \in [Position -> Slot]
    BY <1>2 DEF IInv, TypeOK, ExecutorTypeOK, Slot
  <2>2. HandTypes'
    BY <1>2, <2>1, TypesSplit DEF HandTypes, IInv, Steps
  <2>3. VenueTypes' /\ SwitchTypeOK'
    BY TypesSplit, VenueTypesKept DEF Restart, IInv, durable, SwitchTypeOK
  <2>4. indexed' \subseteq Key
    <3>1. ASSUME NEW p \in Position, ledger[p].state = "OPEN" PROVE ledger[p].key \in Key
      <4>1. ledger[p] \in LivePosition
        BY <3>1, SlotFacts DEF IInv, TypeOK, ExecutorTypeOK
      <4> QED BY <4>1 DEF LivePosition
    <3> QED BY <3>1 DEF Restart
  <2>5. LoopTypes'
    BY <2>4, TypesSplit DEF LoopTypes, IInv, Restart, loops
  <2> QED BY <2>2, <2>3, <2>5, TypesSplitNext
<1>5. ASSUME NEW p \in Position PROVE Sound(p)'
  <2>1. Sound(p) /\ task'.pos # p
    BY <1>2 DEF IInv, NoTask, Position
  <2>2. mem'[p] = IF ledger[p].state \in Active THEN ledger[p] ELSE NoPosition
    BY <1>2
  <2>3. Blank(p)' /\ Rest(p)' /\ Loaded(p)' /\ HeldAt(p)'
    BY <1>2, <2>1, <2>2 DEF Sound, Blank, Rest, Loaded, HeldAt, NoPosition, Unsent, Active
  <2>4. OpenUnsent(p)' /\ RecordedAt(p)'
    BY <1>2, <2>1 DEF Sound, OpenUnsent, RecordedAt, Exposure, Opened, Reduced, Unsent
  <2> QED BY <2>3, <2>4 DEF Sound
<1> QED BY <1>3, <1>4, <1>5 DEF IInv

LEMMA CrashStep ==
  ASSUME IInv, Crash
  PROVE  IInv'
<1>1. /\ pc' = "down" /\ task' = NoTask /\ UNCHANGED <<ledger, rows, fills, outside>>
      /\ mem' = [p \in Position |-> NoPosition]
  BY DEF Crash, durable, venue
<1>2. InHand'
  BY <1>1, HandEmpty DEF Working, InFlight
<1>3. TypeOK'
  <2>1. HandTypes'
    BY <1>1, TypesSplit DEF HandTypes, IInv, Steps, Slot
  <2>2. VenueTypes' /\ SwitchTypeOK'
    BY TypesSplit, VenueTypesKept DEF Crash, IInv, durable, SwitchTypeOK
  <2>3. LoopTypes'
    BY DEF LoopTypes, Crash
  <2> QED BY <2>1, <2>2, <2>3, TypesSplitNext
<1>4. ASSUME NEW p \in Position PROVE Sound(p)'
  <2>1. Sound(p) /\ task'.pos # p /\ mem'[p] = NoPosition
    BY <1>1 DEF IInv, NoTask, Position
  <2>2. Blank(p)' /\ Rest(p)' /\ Loaded(p)' /\ HeldAt(p)'
    BY <1>1, <2>1 DEF Sound, Blank, Rest, Loaded, HeldAt, NoPosition, Unsent
  <2>3. OpenUnsent(p)' /\ RecordedAt(p)'
    BY <1>1, <2>1 DEF Sound, OpenUnsent, RecordedAt, Exposure, Opened, Reduced, Unsent
  <2> QED BY <2>2, <2>3 DEF Sound
<1> QED BY <1>2, <1>3, <1>4 DEF IInv

(* Somebody else takes the exposure of a leg over: nothing is left of it.   *)
LEMMA TakenOver ==
  ASSUME VenueTypes, NEW p \in Position, NEW g \in Leg, Exposure(p, g) >= 0
  PROVE  /\ outside[p][g] + Exposure(p, g) \in 0..Quantity
         /\ Exposure(p, g) \in Int
<1>1. \A m \in Label : fills[p][m] \in 0..Quantity
  BY DEF VenueTypes
<1>2. outside[p][g] \in 0..Quantity
  BY DEF VenueTypes
<1> QED BY <1>1, <1>2, ExecutorAssumption DEF Exposure, Opened, Reduced, Leg, Label

LEMMA OperatorResolveStep ==
  ASSUME IInv, NEW p \in Position, OperatorResolve(p)
  PROVE  IInv'
<1>1. /\ pc \in Stopped /\ task = NoTask /\ ledger[p].state \in Active
      /\ UNCHANGED <<rows, fills, tripped, killFile, mem, pc, task, indexed, due, todo, offers>>
  BY DEF OperatorResolve, Stopped, IInv, InHand, Busy, Working, InFlight, switch, runner, loops
<1>2. PICK object : object = [ledger[p] EXCEPT !.state = "FAILED"]
  OBVIOUS
<1>3. ledger' = [ledger EXCEPT ![p] = object]
  BY <1>2 DEF OperatorResolve
<1>4. object \in LivePosition /\ object.state = "FAILED"
  <2>1. ledger[p] \in LivePosition /\ "FAILED" \in State
    BY <1>1, SlotFacts DEF IInv, TypeOK, ExecutorTypeOK, Active, State
  <2> QED BY <1>2, <2>1, Restated
<1>5. /\ ledger'[p] = object
      /\ \A q \in Position : q # p => ledger'[q] = ledger[q]
  BY <1>3 DEF IInv, TypeOK, ExecutorTypeOK
<1>6. VenueTypes /\ RecordedAt(p)
  BY TypesSplit DEF IInv, Sound
<1>7. \A g \in Leg : /\ outside[p][g] + Exposure(p, g) \in 0..Quantity
                     /\ Exposure(p, g) \in Int
  BY <1>6, TakenOver DEF RecordedAt
<1>8. PICK taken \in [Leg -> 0..Quantity] :
        /\ outside' = [outside EXCEPT ![p] = taken]
        /\ \A g \in Leg : taken[g] = outside[p][g] + Exposure(p, g)
  <2>1. outside' = [outside EXCEPT ![p] = [leg \in Leg |-> outside[p][leg] + Exposure(p, leg)]]
    BY DEF OperatorResolve
  <2>2. [leg \in Leg |-> outside[p][leg] + Exposure(p, leg)] \in [Leg -> 0..Quantity]
    BY <1>7
  <2> QED BY <2>1, <2>2
<1>9. /\ outside'[p] = taken
      /\ \A q \in Position : q # p => outside'[q] = outside[q]
  BY <1>6, <1>8 DEF VenueTypes
<1>10. TypeOK'
  <2>1. HandTypes'
    BY <1>1, <1>3, <1>4, TypesSplit DEF HandTypes, IInv, Slot
  <2>2. VenueTypes'
    BY <1>1, <1>6, <1>8 DEF VenueTypes
  <2>3. LoopTypes' /\ SwitchTypeOK'
    BY <1>1, TypesSplit DEF IInv, LoopTypes, SwitchTypeOK
  <2> QED BY <2>1, <2>2, <2>3, TypesSplitNext
<1>11. InHand'
  BY <1>1, HandEmpty DEF Working, InFlight, Stopped
<1>12. ASSUME NEW q \in Position PROVE Sound(q)'
  <2>1. Sound(q) /\ task.pos # q
    BY <1>1 DEF IInv, NoTask, Position
  <2>2. ledger'[q] # NoPosition \/ ledger'[q] = ledger[q]
    BY <1>4, <1>5 DEF NoPosition
  <2>3. pc = "down" => mem[q] = NoPosition
    BY <2>1 DEF Sound, Loaded
  <2>4. Blank(q)' /\ Rest(q)' /\ Loaded(q)' /\ HeldAt(q)'
    BY <1>1, <2>1, <2>2, <2>3
    DEF Sound, Blank, Rest, Loaded, HeldAt, NoPosition, Unsent, Stopped
  <2>5. OpenUnsent(q)'
    BY <1>1, <1>4, <1>5, <2>1 DEF Sound, OpenUnsent, Unsent
  <2>6. RecordedAt(q)'
    <3>1. CASE q # p
      BY <1>1, <1>9, <2>1, <3>1 DEF Sound, RecordedAt, Exposure, Opened, Reduced
    <3>2. CASE q = p
      <4>1. \A m \in Label : fills[p][m] \in 0..Quantity
        BY <1>6 DEF VenueTypes
      <4>2. \A g \in Leg : outside[p][g] \in 0..Quantity
        BY <1>6 DEF VenueTypes
      <4>3. \A g \in Leg : Exposure(p, g)' = 0
        BY <1>1, <1>8, <1>9, <4>1, <4>2, ExecutorAssumption
        DEF Exposure, Opened, Reduced, Leg, Label
      <4> QED BY <1>1, <1>6, <3>2, <4>3 DEF RecordedAt
    <3> QED BY <3>1, <3>2
  <2> QED BY <2>4, <2>5, <2>6 DEF Sound
<1> QED BY <1>10, <1>11, <1>12 DEF IInv

LEMMA ForcedReductionStep ==
  ASSUME IInv, NEW p \in Position, NEW g \in Leg, ForcedReduction(p, g), UNCHANGED runner
  PROVE  IInv'
<1>1. UNCHANGED <<ledger, rows, fills, tripped, killFile, mem, pc, task, indexed, due, todo, offers>>
  BY DEF ForcedReduction, durable, switch, runner, loops
<1>2. VenueTypes /\ RecordedAt(p)
  BY TypesSplit DEF IInv, Sound
<1>3. PICK x \in 0..Quantity :
        x = outside[p][g] + Exposure(p, g) /\ outside' = [outside EXCEPT ![p][g] = x]
  BY <1>2, TakenOver DEF ForcedReduction, RecordedAt
<1>4. /\ outside'[p][g] = x
      /\ \A h \in Leg : h # g => outside'[p][h] = outside[p][h]
      /\ \A q \in Position : q # p => outside'[q] = outside[q]
  BY <1>2, <1>3 DEF VenueTypes
<1>5. TypeOK'
  <2>1. VenueTypes'
    BY <1>1, <1>2, <1>3 DEF VenueTypes
  <2> QED BY <1>1, <2>1, TypesSplit, TypesSplitNext DEF IInv, HandTypes, LoopTypes, SwitchTypeOK
<1>6. InHand'
  BY <1>1 DEF IInv, InHand, Busy, Preparing, Flying, Sending, Returning, Unsent
<1>7. ASSUME NEW q \in Position PROVE Sound(q)'
  <2>1. Sound(q)
    BY DEF IInv
  <2>2. Blank(q)' /\ Rest(q)' /\ Loaded(q)' /\ HeldAt(q)' /\ OpenUnsent(q)'
    BY <1>1, <2>1 DEF Sound, Blank, Rest, Loaded, HeldAt, OpenUnsent, Unsent
  <2>3. RecordedAt(q)'
    <3>1. \A m \in Label : fills[p][m] \in 0..Quantity
      BY <1>2 DEF VenueTypes
    <3>2. \A h \in Leg : outside[p][h] \in 0..Quantity
      BY <1>2 DEF VenueTypes
    <3>3. CASE q # p
      BY <1>1, <1>4, <2>1, <3>3 DEF Sound, RecordedAt, Exposure, Opened, Reduced
    <3>4. CASE q = p
      <4>1. Exposure(p, g)' = 0
        BY <1>1, <1>3, <1>4, <3>1, <3>2, ExecutorAssumption
        DEF Exposure, Opened, Reduced, Leg, Label
      <4>2. \A h \in Leg : h # g => Exposure(p, h)' = Exposure(p, h)
        BY <1>1, <1>4 DEF Exposure, Opened, Reduced, Leg
      <4> QED BY <1>1, <1>2, <3>4, <4>1, <4>2 DEF RecordedAt
    <3> QED BY <3>3, <3>4
  <2> QED BY <2>2, <2>3 DEF Sound
<1> QED BY <1>5, <1>6, <1>7 DEF IInv

(* The switch is nobody's business here: pausing, clearing and stuttering.  *)
LEMMA SwitchStep ==
  ASSUME IInv, SwitchTypeOK', UNCHANGED <<durable, venue, mem, pc, task, runner>>
  PROVE  IInv'
<1>1. UNCHANGED <<ledger, rows, fills, outside, mem, pc, task, indexed, due, todo, offers>>
  BY DEF durable, venue, runner, loops
<1>2. TypeOK'
  BY <1>1, TypesSplit, TypesSplitNext DEF IInv, HandTypes, VenueTypes, LoopTypes
<1>3. InHand'
  BY <1>1 DEF IInv, InHand, Busy, Preparing, Flying, Sending, Returning, Unsent
<1>4. ASSUME NEW q \in Position PROVE Sound(q)'
  <2>1. Sound(q)
    BY DEF IInv
  <2>2. Blank(q)' /\ Rest(q)' /\ Loaded(q)' /\ HeldAt(q)' /\ OpenUnsent(q)'
    BY <1>1, <2>1 DEF Sound, Blank, Rest, Loaded, HeldAt, OpenUnsent, Unsent
  <2>3. RecordedAt(q)'
    BY <1>1, <2>1 DEF Sound, RecordedAt, Exposure, Opened, Reduced
  <2> QED BY <2>2, <2>3 DEF Sound
<1> QED BY <1>2, <1>3, <1>4 DEF IInv

LEMMA NextPreserves == IInv /\ [Next]_vars => IInv'
<1> SUFFICES ASSUME IInv, [Next]_vars PROVE IInv'
  OBVIOUS
<1>1. SwitchTypeOK
  BY TypesSplit DEF IInv
<1>2. CASE RunnerStep
  BY <1>2, RestartStep, StartupStep, CycleSteps, CloseNextStep, OpenNextStep, ReturnedStep,
     ExecuteStep DEF RunnerStep
<1>3. CASE Environment
  <2>1. CASE Crash
    BY <2>1, CrashStep
  <2>2. CASE OperatorPause /\ UNCHANGED <<durable, venue, mem, pc, task, runner>>
    <3>1. SwitchTypeOK'
      BY <1>1, <2>2 DEF OperatorPause, SwitchTypeOK
    <3> QED BY <2>2, <3>1, SwitchStep
  <2>3. CASE OperatorClear
    <3>1. SwitchTypeOK'
      BY <1>1, <2>3 DEF OperatorClear, SwitchTypeOK
    <3> QED BY <2>3, <3>1, SwitchStep DEF OperatorClear
  <2>4. CASE \E p \in Position : OperatorResolve(p)
    BY <2>4, OperatorResolveStep
  <2>5. CASE \E p \in Position, leg \in Leg : ForcedReduction(p, leg) /\ UNCHANGED runner
    BY <2>5, ForcedReductionStep
  <2> QED BY <1>3, <2>1, <2>2, <2>3, <2>4, <2>5 DEF Environment
<1>4. CASE UNCHANGED vars
  <2>1. SwitchTypeOK'
    BY <1>1, <1>4 DEF vars, switch, SwitchTypeOK
  <2> QED BY <1>4, <2>1, SwitchStep DEF vars
<1> QED BY <1>2, <1>3, <1>4 DEF Next

LEMMA Invariance == Spec => []IInv
BY InitHolds, NextPreserves, PTL DEF Spec
-----------------------------------------------------------------------------
(* What the ledger says of a position is what the venues hold, as long as   *)
(* an answer that is not lost is right about the fill.                      *)

(* The object in hand has the fills of the orders before this one.          *)
Account(p, l, m) ==
  /\ l = "open_a" => m.a = 0 /\ m.b = 0
  /\ l = "open_b" => m.a = fills[p]["open_a"] /\ m.a > 0 /\ m.b = 0
  /\ l \in Ending => m.a = fills[p]["open_a"] /\ m.b = fills[p]["open_b"]
  /\ l = "unwind_b" => m.a = fills[p]["unwind_a"]
  /\ l = "close_b" => m.a = fills[p]["close_a"]

Wanted(l, want, m) ==
  /\ l = "open_b" => want = m.a
  /\ l \in {"unwind_a", "close_a"} => want = m.a
  /\ l \in {"unwind_b", "close_b"} => want = m.b

Tracked ==
  /\ pc = "prepare" => mem[task.pos].a = 0 /\ mem[task.pos].b = 0
  /\ pc \in InFlight => /\ Account(task.pos, task.label, mem[task.pos])
                        /\ Wanted(task.label, task.want, mem[task.pos])
  /\ pc \in {"record", "decide"} => task.unknown \/ task.got = fills[task.pos][task.label]

Whole(p) ==
  ledger[p].state = "OPEN" =>
    /\ ledger[p].a > 0
    /\ ledger[p].a = fills[p]["open_a"]
    /\ ledger[p].b = ledger[p].a
    /\ ledger[p].b = fills[p]["open_b"]

Gone(p) == ledger[p].state \notin Active => \A g \in Leg : Exposure(p, g) = 0

(* Inductive next to IInv. *)
Hedge == Tracked /\ \A p \in Position : Whole(p) /\ Gone(p)

LEMMA UnsentUnfilled ==
  ASSUME IInv, NEW p \in Position, NEW l \in Label, rows[p][l] = "none"
  PROVE  fills[p][l] = 0
<1>1. fills[p][l] \in 0..Quantity
  BY DEF IInv, TypeOK, ExecutorTypeOK
<1>2. ~(fills[p][l] > 0)
  BY DEF IInv, Sound, RecordedAt
<1> QED BY <1>1, <1>2, ExecutorAssumption

(* A leg whose reducing orders filled what its opening order did is over.   *)
LEMMA Flat ==
  ASSUME IInv, NEW p \in Position, NEW g \in Leg,
         Opened(p, g) =< IF g = "a" THEN fills[p]["unwind_a"] + fills[p]["close_a"]
                                    ELSE fills[p]["unwind_b"] + fills[p]["close_b"]
  PROVE  Exposure(p, g) = 0
<1>1. Exposure(p, g) >= 0
  BY DEF IInv, Sound, RecordedAt
<1>2. \A l \in Label : fills[p][l] \in 0..Quantity
  BY DEF IInv, TypeOK, ExecutorTypeOK
<1>3. outside[p][g] \in 0..Quantity
  BY DEF IInv, TypeOK, ExecutorTypeOK
<1> QED BY <1>1, <1>2, <1>3, ExecutorAssumption DEF Exposure, Opened, Reduced, Leg, Label

LEMMA HedgeInit == Init => Hedge
<1> SUFFICES ASSUME Init PROVE Hedge
  OBVIOUS
<1>1. Tracked
  BY DEF Init, ExecutorInit, Tracked, InFlight
<1>2. ASSUME NEW p \in Position PROVE Whole(p) /\ Gone(p)
  <2>1. ledger[p].state = "none"
    BY DEF Init, ExecutorInit, NoPosition
  <2>2. (\A l \in Label : fills[p][l] = 0) /\ (\A g \in Leg : outside[p][g] = 0)
    BY DEF Init, ExecutorInit
  <2>3. \A g \in Leg : Exposure(p, g) = 0
    BY <2>2 DEF Exposure, Opened, Reduced, Label, Leg
  <2> QED BY <2>1, <2>3 DEF Whole, Gone
<1> QED BY <1>1, <1>2 DEF Hedge

(* Nothing happens at the venues or in the ledger.                          *)
LEMMA HedgeRests ==
  ASSUME Hedge, UNCHANGED <<ledger, fills, outside>>, pc' \notin InFlight \cup {"prepare"}
  PROVE  Hedge'
<1>1. Tracked'
  BY DEF Tracked, InFlight
<1>2. ASSUME NEW p \in Position PROVE Whole(p)' /\ Gone(p)'
  <2>1. Whole(p) /\ Gone(p)
    BY DEF Hedge
  <2> QED BY <2>1 DEF Whole, Gone, Exposure, Opened, Reduced
<1> QED BY <1>1, <1>2 DEF Hedge

LEMMA FinishHedged ==
  ASSUME IInv, Hedge, NEW p \in Position, NEW object \in LivePosition,
         Finish(p, object), UNCHANGED venue,
         object.state = "OPEN" =>
           /\ object.a > 0
           /\ object.a = fills[p]["open_a"]
           /\ object.b = object.a
           /\ object.b = fills[p]["open_b"],
         object.state \notin Active => \A g \in Leg : Exposure(p, g) = 0,
         pc' \notin InFlight \cup {"prepare"}
  PROVE  Hedge'
<1>1. Tracked'
  BY DEF Tracked, InFlight
<1>2. ASSUME NEW q \in Position PROVE Whole(q)' /\ Gone(q)'
  <2>1. Whole(q) /\ Gone(q)
    BY DEF Hedge
  <2>2. ledger'[q] = ledger[q] \/ (q = p /\ ledger'[q] = object)
    BY DEF Finish, Stored, IInv, TypeOK, ExecutorTypeOK
  <2>3. Whole(q)'
    BY <2>1, <2>2 DEF Whole, venue
  <2>4. Gone(q)'
    BY <2>1, <2>2 DEF Gone, Exposure, Opened, Reduced, venue
  <2> QED BY <2>3, <2>4
<1> QED BY <1>1, <1>2 DEF Hedge

(* A call ends in a state that keeps the position active, or flat.          *)
LEMMA EndHedged ==
  ASSUME IInv, Hedge, pc \in InFlight \cup {"prepare"}, NEW object \in LivePosition,
         NEW s \in Over \ {"OPEN"}, Finish(task.pos, [object EXCEPT !.state = s]),
         UNCHANGED venue,
         s \in {"FAILED", "CLOSED"} => \A g \in Leg : Exposure(task.pos, g) = 0
  PROVE  Hedge'
<1>1. PICK p \in Position : p = task.pos
  BY HandFacts DEF Working
<1>2. PICK final : final = [object EXCEPT !.state = s]
  OBVIOUS
<1>3. s \in State
  BY DEF Over, State
<1>4. final \in LivePosition /\ final.state = s
  BY <1>2, <1>3, Restated
<1>5. Finish(p, final)
  BY <1>1, <1>2
<1>6. s \notin Active => \A g \in Leg : Exposure(p, g) = 0
  BY <1>1 DEF Over, Active
<1>7. pc' \notin InFlight \cup {"prepare"}
  BY <1>5 DEF Finish, Escape, InFlight
<1> QED BY <1>4, <1>5, <1>6, <1>7, FinishHedged

(* The next order of a position.                                            *)
LEMMA SubmitHedged ==
  ASSUME IInv, Hedge, NEW p \in Position, NEW object \in LivePosition,
         NEW label \in Label, NEW want,
         object.state \in {"OPENING", "CLOSING"},
         UNCHANGED ledger \/ Stored(p, object), Remembered(p, object), Submit(p, label, want),
         UNCHANGED venue,
         Account(p, label, object), Wanted(label, want, object)
  PROVE  Hedge'
<1>1. mem'[p] = object
  BY DEF Remembered, IInv, TypeOK, ExecutorTypeOK
<1>2. pc' = "submit" /\ task'.pos = p /\ task'.label = label /\ task'.want = want
  BY DEF Submit
<1>3. Account(p, label, object)'
  BY DEF Account, venue
<1>4. Tracked'
  BY <1>1, <1>2, <1>3 DEF Tracked, InFlight, Account, Wanted
<1>5. ASSUME NEW q \in Position PROVE Whole(q)' /\ Gone(q)'
  <2>1. Whole(q) /\ Gone(q)
    BY DEF Hedge
  <2>2. ledger'[q] = ledger[q] \/ (q = p /\ ledger'[q] = object)
    BY DEF Stored, IInv, TypeOK, ExecutorTypeOK
  <2>3. Whole(q)'
    BY <2>1, <2>2 DEF Whole, venue
  <2>4. Gone(q)'
    BY <2>1, <2>2 DEF Gone, Exposure, Opened, Reduced, venue, Active
  <2> QED BY <2>3, <2>4
<1> QED BY <1>4, <1>5 DEF Hedge

(* The same for the position in hand.                                       *)
LEMMA NextOrderHedged ==
  ASSUME IInv, Hedge, pc \in InFlight \cup {"prepare"}, NEW object \in LivePosition,
         NEW label \in Label, NEW want,
         object.state \in {"OPENING", "CLOSING"},
         UNCHANGED ledger \/ Stored(task.pos, object), Remembered(task.pos, object),
         Submit(task.pos, label, want), UNCHANGED venue,
         Account(task.pos, label, object), Wanted(label, want, object)
  PROVE  Hedge'
<1>1. PICK p \in Position : p = task.pos
  BY HandFacts DEF Working
<1>2. /\ UNCHANGED ledger \/ Stored(p, object)
      /\ Remembered(p, object) /\ Submit(p, label, want) /\ Account(p, label, object)
  BY <1>1
<1> QED BY <1>2, SubmitHedged

LEMMA PrepareHedged ==
  ASSUME IInv, Hedge, Prepare
  PROVE  Hedge'
<1>1. PICK object \in LivePosition : object = mem[task.pos]
  BY HandFacts DEF Prepare, Working
<1>2. /\ pc = "prepare" /\ object.state = "OPENING" /\ UNCHANGED venue
      /\ Unsent(task.pos, Label) /\ object.a = 0 /\ object.b = 0
  BY <1>1 DEF Prepare, IInv, InHand, Preparing, Hedge, Tracked
<1>3. CASE Fail(task.pos, mem[task.pos])
  <2>1. PICK p \in Position : p = task.pos
    BY <1>2, HandFacts DEF Working
  <2>2. \A l \in Label : fills[p][l] = 0
    BY <1>2, <2>1, UnsentUnfilled DEF Unsent
  <2>3. \A g \in Leg : Exposure(p, g) = 0
    BY <2>2, Flat DEF Opened, Label
  <2> QED BY <1>1, <1>2, <1>3, <2>1, <2>3, EndHedged DEF Fail, Over
<1>4. CASE Submit(task.pos, "open_a", Quantity) /\ UNCHANGED <<ledger, mem, switch>>
  <2>1. Remembered(task.pos, object)
    BY <1>1, <1>4 DEF Remembered, IInv, TypeOK, ExecutorTypeOK
  <2>2. "open_a" \in Label /\ Account(task.pos, "open_a", object) /\ Wanted("open_a", Quantity, object)
    BY <1>2 DEF Label, Account, Wanted, Ending, Unwinding, Closing
  <2> QED BY <1>1, <1>2, <1>4, <2>1, <2>2, NextOrderHedged
<1>5. CASE Escape(task.pos, "idle", mem[task.pos]) /\ UNCHANGED <<ledger, switch>>
  BY <1>2, <1>5, HedgeRests DEF Escape, InFlight, venue
<1> QED BY <1>3, <1>4, <1>5 DEF Prepare

(* What is known of the fills while an order is in hand.                    *)
LEMMA FlightFacts ==
  ASSUME IInv, Hedge, pc \in InFlight
  PROVE  /\ task.pos \in Position /\ mem[task.pos] \in LivePosition
         /\ task.label \in Label /\ task.want \in 0..Quantity /\ task.got \in 0..Quantity
         /\ mem[task.pos].state = IF task.label \in Closing THEN "CLOSING" ELSE "OPENING"
         /\ Account(task.pos, task.label, mem[task.pos])
         /\ Wanted(task.label, task.want, mem[task.pos])
         /\ \A l \in Absent(task.label) : fills[task.pos][l] = 0
<1>1. task \in Task /\ task.pos \in Position /\ mem[task.pos] \in LivePosition /\ task.label \in Label
  BY HandFacts DEF Working
<1>2. Account(task.pos, task.label, mem[task.pos]) /\ Wanted(task.label, task.want, mem[task.pos])
  BY DEF Hedge, Tracked
<1>3. mem[task.pos].state = IF task.label \in Closing THEN "CLOSING" ELSE "OPENING"
  BY DEF IInv, InHand, Flying
<1>4. Absent(task.label) \subseteq Label
  BY DEF Absent, Label, Ending, Unwinding, Closing
<1>5. \A l \in Absent(task.label) : fills[task.pos][l] = 0
  BY <1>1, <1>4, UnsentUnfilled DEF IInv, InHand, Flying, Unsent
<1> QED BY <1>1, <1>2, <1>3, <1>5 DEF Task

LEMMA CompensateHedged ==
  ASSUME IInv, Hedge, pc \in InFlight, NEW object \in LivePosition, object.state = "OPENING",
         Compensate(task.pos, object), UNCHANGED venue,
         object.a = fills[task.pos]["open_a"], object.b = fills[task.pos]["open_b"]
  PROVE  Hedge'
<1>1. "unwind_a" \in Label /\ Account(task.pos, "unwind_a", object)
      /\ Wanted("unwind_a", object.a, object)
  BY DEF Label, Account, Wanted
<1>2. Remembered(task.pos, object) /\ Submit(task.pos, "unwind_a", object.a) /\ UNCHANGED ledger
  BY DEF Compensate
<1> QED BY <1>1, <1>2, NextOrderHedged

LEMMA RefuseHedged ==
  ASSUME IInv, Hedge, Refuse
  PROVE  Hedge'
<1>1. pc = "submit" /\ pc \in InFlight /\ UNCHANGED venue
  BY DEF Refuse, InFlight
<1>2. PICK p \in Position, object \in LivePosition : p = task.pos /\ object = mem[task.pos]
  BY <1>1, FlightFacts
<1>3. rows[p][task.label] = "none"
  BY <1>1, <1>2 DEF IInv, InHand, Sending
<1>4. fills[p][task.label] = 0
  BY <1>1, <1>2, <1>3, FlightFacts, UnsentUnfilled
<1>5. CASE task.label = "open_a" /\ Fail(task.pos, mem[task.pos])
  <2>1. fills[p]["open_a"] = 0 /\ fills[p]["open_b"] = 0
    BY <1>1, <1>2, <1>4, <1>5, FlightFacts DEF Absent
  <2>2. \A l \in Ending : fills[p][l] = 0
    BY <1>1, <1>2, <1>5, FlightFacts DEF Absent
  <2>3. \A g \in Leg : Exposure(p, g) = 0
    BY <2>1, <2>2, Flat DEF Opened, Ending, Unwinding, Closing
  <2> QED BY <1>1, <1>2, <1>5, <2>3, EndHedged DEF Fail, Over
<1>6. CASE task.label = "open_b" /\ Compensate(task.pos, mem[task.pos])
  <2>1. /\ object.state = "OPENING"
        /\ object.a = fills[p]["open_a"] /\ object.b = fills[p]["open_b"]
    BY <1>1, <1>2, <1>4, <1>6, FlightFacts DEF Account, Closing
  <2> QED BY <1>1, <1>2, <1>6, <2>1, CompensateHedged
<1>7. CASE Manual(task.pos, mem[task.pos])
  BY <1>1, <1>2, <1>7, EndHedged DEF Manual, Over
<1> QED BY <1>5, <1>6, <1>7 DEF Refuse

LEMMA AcceptHedged ==
  ASSUME IInv, Hedge, Accept
  PROVE  Hedge'
<1>1. /\ pc = "submit" /\ pc' = "send"
      /\ UNCHANGED <<ledger, mem, fills, outside, task>>
  BY DEF Accept, venue
<1>2. Tracked'
  BY <1>1 DEF Hedge, Tracked, InFlight, Account
<1>3. ASSUME NEW q \in Position PROVE Whole(q)' /\ Gone(q)'
  BY <1>1 DEF Hedge, Whole, Gone, Exposure, Opened, Reduced
<1> QED BY <1>2, <1>3 DEF Hedge

LEMMA SendHedged ==
  ASSUME "open_answer" \notin Faults, IInv, Hedge, Send
  PROVE  Hedge'
<1>1. /\ pc = "send" /\ pc \in InFlight /\ pc' = "record" /\ UNCHANGED <<ledger, mem, outside>>
  BY DEF Send, InFlight, durable
<1>2. PICK p \in Position, l \in Label : p = task.pos /\ l = task.label
  BY <1>1, FlightFacts
<1>3. PICK f :
        /\ fills' = [fills EXCEPT ![p][l] = f]
        /\ Answered(f, FALSE) \/ Answered(0, TRUE)
  BY <1>2 DEF Send
<1>4. task \in Task
  BY <1>1, HandFacts DEF Working
<1>5. /\ task'.pos = p /\ task'.label = l /\ task'.want = task.want
      /\ task'.unknown \/ task'.got = f
  BY <1>2, <1>3, <1>4 DEF Answered, Task
<1>6. /\ fills'[p][l] = f
      /\ \A m \in Label : m # l => fills'[p][m] = fills[p][m]
      /\ \A q \in Position : q # p => fills'[q] = fills[q]
  BY <1>3 DEF IInv, TypeOK, ExecutorTypeOK
<1>7. Tracked'
  <2>1. Account(p, l, mem[p]) /\ Wanted(l, task.want, mem[p])
    BY <1>1, <1>2, FlightFacts
  <2>2. ~(l \in {"open_a", "open_b"} /\ l \in Ending)
    BY DEF Ending, Unwinding, Closing
  <2>3. Account(p, l, mem[p])'
    BY <1>1, <1>6, <2>1, <2>2 DEF Account, Label, Ending, Unwinding, Closing
  <2> QED BY <1>1, <1>5, <1>6, <2>1, <2>3 DEF Tracked, Wanted, Account
<1>8. ASSUME NEW q \in Position PROVE Whole(q)' /\ Gone(q)'
  <2>1. CASE q # p
    BY <1>1, <1>6, <2>1 DEF Hedge, Whole, Gone, Exposure, Opened, Reduced
  <2>2. CASE q = p
    <3>1. ledger[p].state \in {"OPENING", "CLOSING"}
      BY <1>1, <1>2, HandFacts DEF Working
    <3> QED BY <1>1, <2>2, <3>1 DEF Whole, Gone, Active
  <2> QED BY <2>1, <2>2
<1> QED BY <1>7, <1>8 DEF Hedge

LEMMA RecordHedged ==
  ASSUME IInv, Hedge, Record
  PROVE  Hedge'
<1>1. /\ pc = "record" /\ pc' = "decide" /\ UNCHANGED <<ledger, mem, fills, outside>>
  BY DEF Record, venue
<1>2. task \in Task
  BY <1>1, HandFacts DEF Working, InFlight
<1>3. /\ task'.pos = task.pos /\ task'.label = task.label /\ task'.want = task.want
      /\ task'.unknown \/ (task'.got = task.got /\ task'.unknown = task.unknown)
  BY <1>1, <1>2 DEF Record, Answered, Task
<1>4. Tracked'
  BY <1>1, <1>3 DEF Hedge, Tracked, InFlight, Account, Wanted
<1>5. ASSUME NEW q \in Position PROVE Whole(q)' /\ Gone(q)'
  BY <1>1 DEF Hedge, Whole, Gone, Exposure, Opened, Reduced
<1> QED BY <1>4, <1>5 DEF Hedge

LEMMA DecideUnknownHedged ==
  ASSUME IInv, Hedge, DecideUnknown
  PROVE  Hedge'
<1>1. pc \in InFlight /\ UNCHANGED venue
      /\ Finish(task.pos, [mem[task.pos] EXCEPT !.state = "MANUAL_INTERVENTION"])
  BY DEF DecideUnknown, Manual, InFlight
<1> QED BY <1>1, FlightFacts, EndHedged DEF Over

LEMMA DecideFirstLegHedged ==
  ASSUME IInv, Hedge, DecideFirstLeg
  PROVE  Hedge'
<1>1. /\ pc = "decide" /\ pc \in InFlight /\ task.label = "open_a" /\ ~task.unknown
      /\ UNCHANGED venue
  BY DEF DecideFirstLeg, Known, InFlight
<1>2. PICK p \in Position, before \in LivePosition :
        p = task.pos /\ before = mem[task.pos] /\ before.state = "OPENING"
  BY <1>1, FlightFacts DEF Closing
<1>3. /\ before.a = 0 /\ before.b = 0 /\ task.got = fills[p]["open_a"]
      /\ task.got \in 0..Quantity /\ fills[p]["open_b"] = 0
      /\ \A l \in Ending : fills[p][l] = 0
  BY <1>1, <1>2, FlightFacts DEF Account, Hedge, Tracked, Absent
<1>4. PICK object : object = [before EXCEPT !.a = task.got]
  OBVIOUS
<1>5. /\ object \in LivePosition /\ object.state = "OPENING"
      /\ object.a = task.got /\ object.b = 0
  BY <1>2, <1>3, <1>4 DEF LivePosition
<1>6. CASE task.got = 0 /\ Fail(task.pos, mem[task.pos])
  <2>1. /\ fills[p]["open_a"] = 0 /\ fills[p]["open_b"] = 0
        /\ \A l \in Ending : fills[p][l] = 0
    BY <1>3, <1>6
  <2>2. \A g \in Leg : Exposure(p, g) = 0
    BY <2>1, Flat DEF Opened, Ending, Unwinding, Closing
  <2> QED BY <1>1, <1>2, <1>6, <2>2, EndHedged DEF Fail, Over
<1>7. CASE Manual(task.pos, object)
  BY <1>1, <1>5, <1>7, EndHedged DEF Manual, Over
<1>8. CASE task.got > 0 /\ SaveThenSubmit(task.pos, object, "open_b", task.got)
  <2>1. CASE /\ Stored(task.pos, object)
             /\ Remembered(task.pos, object)
             /\ Submit(task.pos, "open_b", task.got)
    <3>1. "open_b" \in Label /\ Account(task.pos, "open_b", object)
          /\ Wanted("open_b", task.got, object)
      BY <1>2, <1>3, <1>5, <1>8 DEF Label, Account, Wanted, Ending, Unwinding, Closing
    <3> QED BY <1>1, <1>5, <2>1, <3>1, NextOrderHedged
  <2>2. CASE Escape(task.pos, "idle", object) /\ UNCHANGED ledger
    BY <1>1, <2>2, HedgeRests DEF Escape, InFlight, venue
  <2> QED BY <1>8, <2>1, <2>2 DEF SaveThenSubmit
<1> QED BY <1>2, <1>4, <1>6, <1>7, <1>8 DEF DecideFirstLeg

LEMMA DecideSecondLegHedged ==
  ASSUME IInv, Hedge, DecideSecondLeg
  PROVE  Hedge'
<1>1. /\ pc = "decide" /\ pc \in InFlight /\ task.label = "open_b" /\ ~task.unknown
      /\ UNCHANGED venue
  BY DEF DecideSecondLeg, Known, InFlight
<1>2. PICK p \in Position, before \in LivePosition :
        p = task.pos /\ before = mem[task.pos] /\ before.state = "OPENING"
  BY <1>1, FlightFacts DEF Closing
<1>3. /\ before.a = fills[p]["open_a"] /\ before.a > 0 /\ before.b = 0
      /\ task.got = fills[p]["open_b"] /\ task.got \in 0..Quantity
  BY <1>1, <1>2, FlightFacts DEF Account, Hedge, Tracked
<1>4. PICK object : object = [before EXCEPT !.b = task.got]
  OBVIOUS
<1>5. /\ object \in LivePosition /\ object.state = "OPENING"
      /\ object.a = before.a /\ object.b = task.got
  BY <1>2, <1>3, <1>4 DEF LivePosition
<1>6. CASE task.got = 0 /\ Compensate(task.pos, mem[task.pos])
  BY <1>1, <1>2, <1>3, <1>6, CompensateHedged
<1>7. CASE Compensate(task.pos, object)
  BY <1>1, <1>2, <1>3, <1>5, <1>7, CompensateHedged
<1>8. CASE task.got = before.a /\ Finish(task.pos, [object EXCEPT !.state = "OPEN"])
  <2>1. PICK open : open = [object EXCEPT !.state = "OPEN"]
    OBVIOUS
  <2>2. open \in LivePosition /\ open.state = "OPEN" /\ open.a = object.a /\ open.b = object.b
    <3>1. "OPEN" \in State
      BY DEF State
    <3> QED BY <1>5, <2>1, <3>1, Restated
  <2>3. Finish(p, open) /\ open.state \in Active
    BY <1>2, <1>8, <2>1, <2>2 DEF Active
  <2>4. pc' \notin InFlight \cup {"prepare"}
    BY <2>3 DEF Finish, Escape, InFlight
  <2> QED BY <1>1, <1>3, <1>5, <1>8, <2>2, <2>3, <2>4, FinishHedged
<1> QED BY <1>2, <1>4, <1>6, <1>7, <1>8 DEF DecideSecondLeg

LEMMA DecideUnwindHedged ==
  ASSUME IInv, Hedge, DecideUnwind
  PROVE  Hedge'
<1>1. /\ pc = "decide" /\ pc \in InFlight /\ task.label \in Unwinding /\ ~task.unknown
      /\ UNCHANGED venue
  BY DEF DecideUnwind, Known, InFlight, Unwinding
<1>2. PICK p \in Position, object \in LivePosition :
        p = task.pos /\ object = mem[task.pos] /\ object.state = "OPENING"
  BY <1>1, FlightFacts DEF Closing, Unwinding
<1>3. /\ object.a = fills[p]["open_a"] /\ object.b = fills[p]["open_b"]
      /\ task.label = "unwind_b" => object.a = fills[p]["unwind_a"]
      /\ task.got = fills[p][task.label]
      /\ task.want = IF task.label = "unwind_a" THEN object.a ELSE object.b
  BY <1>1, <1>2, FlightFacts
  DEF Account, Wanted, Hedge, Tracked, Ending, Unwinding, Closing
<1>4. \A l \in Closing : fills[p][l] = 0
  BY <1>1, <1>2, FlightFacts DEF Absent, Ending, Unwinding
<1>5. CASE Manual(task.pos, mem[task.pos])
  BY <1>1, <1>2, <1>5, EndHedged DEF Manual, Over
<1>6. CASE /\ task.got = task.want /\ task.label = "unwind_a"
           /\ Submit(task.pos, "unwind_b", object.b)
           /\ UNCHANGED <<ledger, mem, switch>>
  <2>1. "unwind_b" \in Label /\ Account(task.pos, "unwind_b", object)
        /\ Wanted("unwind_b", object.b, object)
    BY <1>2, <1>3, <1>6 DEF Label, Account, Wanted
  <2>2. Remembered(task.pos, object)
    BY <1>2, <1>6 DEF Remembered, IInv, TypeOK, ExecutorTypeOK
  <2> QED BY <1>1, <1>2, <1>6, <2>1, <2>2, NextOrderHedged
<1>7. CASE /\ task.got = task.want /\ ~(task.label = "unwind_a" /\ object.b > 0)
           /\ Fail(task.pos, mem[task.pos])
  <2>1. /\ fills[p]["open_a"] \in 0..Quantity /\ fills[p]["open_b"] \in 0..Quantity
        /\ fills[p]["unwind_a"] \in 0..Quantity /\ fills[p]["unwind_b"] \in 0..Quantity
    BY DEF IInv, TypeOK, ExecutorTypeOK, Label
  <2>2. /\ fills[p]["open_a"] =< fills[p]["unwind_a"]
        /\ fills[p]["open_b"] =< fills[p]["unwind_b"]
    <3>1. CASE task.label = "unwind_b"
      <4>1. fills[p]["unwind_b"] = fills[p]["open_b"] /\ fills[p]["unwind_a"] = fills[p]["open_a"]
        BY <1>3, <1>7, <3>1
      <4> QED BY <2>1, <4>1, ExecutorAssumption
    <3>2. CASE task.label = "unwind_a"
      <4>1. fills[p]["unwind_a"] = fills[p]["open_a"] /\ ~(fills[p]["open_b"] > 0)
        BY <1>3, <1>7, <3>2
      <4> QED BY <2>1, <4>1, ExecutorAssumption
    <3> QED BY <1>1, <3>1, <3>2 DEF Unwinding
  <2>3. \A g \in Leg : Exposure(p, g) = 0
    <3>1. fills[p]["close_a"] = 0 /\ fills[p]["close_b"] = 0
      BY <1>4 DEF Closing
    <3> QED BY <2>1, <2>2, <3>1, Flat, ExecutorAssumption DEF Opened
  <2> QED BY <1>1, <1>2, <1>7, <2>3, EndHedged DEF Fail, Over
<1> QED BY <1>2, <1>5, <1>6, <1>7 DEF DecideUnwind

LEMMA DecideCloseHedged ==
  ASSUME IInv, Hedge, DecideClose
  PROVE  Hedge'
<1>1. /\ pc = "decide" /\ pc \in InFlight /\ task.label \in Closing /\ ~task.unknown
      /\ UNCHANGED venue
  BY DEF DecideClose, Known, InFlight, Closing
<1>2. PICK p \in Position, object \in LivePosition :
        p = task.pos /\ object = mem[task.pos] /\ object.state = "CLOSING"
  BY <1>1, FlightFacts
<1>3. /\ object.a = fills[p]["open_a"] /\ object.b = fills[p]["open_b"]
      /\ task.label = "close_b" => object.a = fills[p]["close_a"]
      /\ task.got = fills[p][task.label]
      /\ task.want = IF task.label = "close_a" THEN object.a ELSE object.b
  BY <1>1, <1>2, FlightFacts
  DEF Account, Wanted, Hedge, Tracked, Ending, Unwinding, Closing
<1>4. \A l \in Unwinding : fills[p][l] = 0
  BY <1>1, <1>2, FlightFacts DEF Absent, Ending, Closing
<1>5. CASE Manual(task.pos, mem[task.pos])
  BY <1>1, <1>2, <1>5, EndHedged DEF Manual, Over
<1>6. CASE /\ task.got = task.want /\ task.label = "close_a"
           /\ Submit(task.pos, "close_b", object.b)
           /\ UNCHANGED <<ledger, mem, switch>>
  <2>1. "close_b" \in Label /\ Account(task.pos, "close_b", object)
        /\ Wanted("close_b", object.b, object)
    BY <1>2, <1>3, <1>6 DEF Label, Account, Wanted
  <2>2. Remembered(task.pos, object)
    BY <1>2, <1>6 DEF Remembered, IInv, TypeOK, ExecutorTypeOK
  <2> QED BY <1>1, <1>2, <1>6, <2>1, <2>2, NextOrderHedged
<1>7. CASE /\ task.got = task.want /\ task.label = "close_b"
           /\ Finish(task.pos, [mem[task.pos] EXCEPT !.state = "CLOSED"])
  <2>1. /\ fills[p]["open_a"] \in 0..Quantity /\ fills[p]["open_b"] \in 0..Quantity
    BY DEF IInv, TypeOK, ExecutorTypeOK, Label
  <2>2. fills[p]["close_a"] = fills[p]["open_a"] /\ fills[p]["close_b"] = fills[p]["open_b"]
    BY <1>3, <1>7
  <2>3. fills[p]["unwind_a"] = 0 /\ fills[p]["unwind_b"] = 0
    BY <1>4 DEF Unwinding
  <2>4. \A g \in Leg : Exposure(p, g) = 0
    BY <2>1, <2>2, <2>3, Flat, ExecutorAssumption DEF Opened
  <2> QED BY <1>1, <1>2, <1>7, <2>4, EndHedged DEF Over
<1> QED BY <1>2, <1>5, <1>6, <1>7 DEF DecideClose

LEMMA CloseNextHedged ==
  ASSUME IInv, Hedge, CloseNext
  PROVE  Hedge'
<1>1. pc = "close" /\ todo # {} /\ todo \subseteq Position
  BY TypesSplit DEF CloseNext, IInv, LoopTypes
<1>2. PICK p \in Position : p = Min(todo)
  BY <1>1, LeastPosition
<1>3. CASE UNCHANGED <<durable, venue, switch, mem, pc, task>>
  BY <1>1, <1>3, HedgeRests DEF durable, venue, InFlight
<1>4. CASE StartClose(p)
  <2>1. PICK before \in LivePosition : before = mem[p] /\ before.state = "OPEN"
    BY <1>4, SlotFacts DEF StartClose, IInv, TypeOK, ExecutorTypeOK
  <2>2. PICK object : object = [before EXCEPT !.state = "CLOSING"]
    OBVIOUS
  <2>3. /\ object \in LivePosition /\ object.state = "CLOSING"
        /\ object.a = before.a /\ object.b = before.b
    <3>1. "CLOSING" \in State
      BY DEF State
    <3> QED BY <2>1, <2>2, <3>1, Restated
  <2>4. ledger[p] = before
    BY <1>1, <2>1 DEF IInv, Sound, HeldAt
  <2>5. before.a = fills[p]["open_a"] /\ before.b = fills[p]["open_b"]
    BY <2>1, <2>4 DEF Hedge, Whole
  <2>6. SaveThenSubmit(p, object, "close_a", before.a) /\ UNCHANGED venue
    BY <1>4, <2>1, <2>2 DEF StartClose
  <2>7. CASE Stored(p, object) /\ Remembered(p, object) /\ Submit(p, "close_a", before.a)
    <3>1. "close_a" \in Label /\ Account(p, "close_a", object) /\ Wanted("close_a", before.a, object)
      BY <2>3, <2>5 DEF Label, Account, Wanted
    <3> QED BY <2>3, <2>6, <2>7, <3>1, SubmitHedged
  <2>8. CASE UNCHANGED ledger /\ Escape(p, "idle", object)
    BY <2>6, <2>8, HedgeRests DEF Escape, InFlight, venue
  <2> QED BY <2>6, <2>7, <2>8 DEF SaveThenSubmit
<1> QED BY <1>2, <1>3, <1>4 DEF CloseNext

LEMMA OpenNextHedged ==
  ASSUME IInv, Hedge, OpenNext
  PROVE  Hedge'
<1>1. PICK k \in Key : CreatePosition(NextPosition, k)
  BY TypesSplit DEF OpenNext, IInv, LoopTypes
<1>2. PICK p \in Position : p = NextPosition
  <2>1. {q \in Position : ledger[q] = NoPosition} # {}
    BY DEF OpenNext
  <2> QED BY <2>1, LeastPosition DEF NextPosition
<1>3. UNCHANGED venue
  BY <1>1 DEF CreatePosition
<1>4. CASE UNCHANGED <<ledger, mem, task>> /\ pc' = "idle"
  BY <1>3, <1>4, HedgeRests DEF InFlight, venue
<1>5. ASSUME NEW object, object = [state |-> "OPENING", key |-> k, a |-> 0, b |-> 0],
             Stored(p, object), Remembered(p, object), pc' = "prepare", task'.pos = p
      PROVE  Hedge'
  <2>1. mem'[p] = object
    BY <1>5 DEF Remembered, IInv, TypeOK, ExecutorTypeOK
  <2>2. Tracked'
    BY <1>5, <2>1 DEF Tracked, InFlight
  <2>3. ASSUME NEW q \in Position PROVE Whole(q)' /\ Gone(q)'
    <3>1. ledger'[q] = ledger[q] \/ ledger'[q].state = "OPENING"
      BY <1>5 DEF Stored, IInv, TypeOK, ExecutorTypeOK
    <3> QED BY <1>3, <3>1 DEF Hedge, Whole, Gone, Exposure, Opened, Reduced, Active, venue
  <2> QED BY <2>2, <2>3 DEF Hedge
<1> QED BY <1>1, <1>2, <1>4, <1>5 DEF CreatePosition

LEMMA OperatorResolveHedged ==
  ASSUME IInv, Hedge, NEW p \in Position, OperatorResolve(p)
  PROVE  Hedge'
<1>1. pc \in Stopped /\ UNCHANGED <<fills, pc>>
  BY DEF OperatorResolve
<1>2. Tracked'
  BY <1>1 DEF Tracked, InFlight, Stopped
<1>3. ASSUME NEW q \in Position, q # p PROVE Whole(q)' /\ Gone(q)'
  <2>1. ledger'[q] = ledger[q] /\ outside'[q] = outside[q]
    BY <1>3 DEF OperatorResolve, IInv, TypeOK, ExecutorTypeOK
  <2> QED BY <1>1, <2>1 DEF Hedge, Whole, Gone, Exposure, Opened, Reduced
<1>4. Whole(p)' /\ Gone(p)'
  <2>1. ledger'[p].state = "FAILED"
    <3>1. ledger[p] \in LivePosition
      BY SlotFacts DEF OperatorResolve, Active, IInv, TypeOK, ExecutorTypeOK
    <3> QED BY <3>1 DEF OperatorResolve, LivePosition, IInv, TypeOK, ExecutorTypeOK
  <2>2. VenueTypes /\ \A g \in Leg : Exposure(p, g) \in Int
    BY TypesSplit, TakenOver DEF IInv, Sound, RecordedAt
  <2>3. outside' = [outside EXCEPT ![p] = [leg \in Leg |-> outside[p][leg] + Exposure(p, leg)]]
    BY DEF OperatorResolve
  <2>4. \A g \in Leg : outside'[p][g] = outside[p][g] + Exposure(p, g)
    BY <2>2, <2>3 DEF VenueTypes
  <2>5. \A l \in Label : fills[p][l] \in 0..Quantity
    BY <2>2 DEF VenueTypes
  <2>6. \A g \in Leg : outside[p][g] \in 0..Quantity
    BY <2>2 DEF VenueTypes
  <2>7. \A g \in Leg : Exposure(p, g)' = 0
    BY <1>1, <2>4, <2>5, <2>6, ExecutorAssumption DEF Exposure, Opened, Reduced, Leg, Label
  <2> QED BY <2>1, <2>7 DEF Whole, Gone
<1> QED BY <1>2, <1>3, <1>4 DEF Hedge

LEMMA ForcedReductionHedged ==
  ASSUME IInv, Hedge, NEW p \in Position, NEW g \in Leg, ForcedReduction(p, g)
  PROVE  Hedge'
<1>1. UNCHANGED <<ledger, fills, mem, pc, task>> /\ Exposure(p, g) > 0
  BY DEF ForcedReduction, durable
<1>2. Tracked'
  BY <1>1 DEF Hedge, Tracked, InFlight, Account
<1>3. ASSUME NEW q \in Position PROVE Whole(q)' /\ Gone(q)'
  <2>1. q # p => outside'[q] = outside[q]
    BY DEF ForcedReduction, IInv, TypeOK, ExecutorTypeOK
  <2>2. q = p => ledger[q].state \in Active
    BY <1>1 DEF Hedge, Gone
  <2>3. Whole(q)'
    BY <1>1 DEF Hedge, Whole
  <2>4. Gone(q)'
    BY <1>1, <2>1, <2>2 DEF Hedge, Gone, Exposure, Opened, Reduced
  <2> QED BY <2>3, <2>4
<1> QED BY <1>2, <1>3 DEF Hedge

LEMMA HedgeKept ==
  ASSUME "open_answer" \notin Faults
  PROVE  IInv /\ Hedge /\ [Next]_vars => Hedge'
<1> SUFFICES ASSUME IInv, Hedge, [Next]_vars PROVE Hedge'
  OBVIOUS
<1>1. CASE Execute
  <2>1. CASE Abandon
    BY <2>1, HedgeRests DEF Abandon, Escape, InFlight, durable, venue
  <2> QED BY <1>1, <2>1, PrepareHedged, RefuseHedged, AcceptHedged, SendHedged, RecordHedged,
             DecideUnknownHedged, DecideFirstLegHedged, DecideSecondLegHedged,
             DecideUnwindHedged, DecideCloseHedged
      DEF Execute, ExecutorStep, Decide
<1>2. CASE \/ Restart \/ Startup \/ BeginCycle \/ Check \/ RecordEquity \/ EnterOpen
           \/ EndCycle \/ Returned \/ Crash
  <2>1. UNCHANGED <<ledger, fills, outside>>
    BY <1>2 DEF Restart, Startup, BeginCycle, Check, RecordEquity, EnterOpen, EndCycle,
                Returned, Crash, durable, venue
  <2>2. pc' \notin InFlight \cup {"prepare"}
    BY <1>2 DEF Restart, Startup, BeginCycle, Check, RecordEquity, EnterOpen, EndCycle,
                Returned, Crash, Idle, InFlight
  <2> QED BY <2>1, <2>2, HedgeRests
<1>3. CASE CloseNext \/ OpenNext
  BY <1>3, CloseNextHedged, OpenNextHedged
<1>4. CASE \/ OperatorPause /\ UNCHANGED <<durable, venue, mem, pc, task, runner>>
           \/ OperatorClear \/ UNCHANGED vars
  <2>1. UNCHANGED <<ledger, fills, outside, mem, pc, task>>
    BY <1>4 DEF OperatorClear, vars, durable, venue
  <2>2. Tracked'
    BY <2>1 DEF Hedge, Tracked, InFlight, Account
  <2>3. ASSUME NEW q \in Position PROVE Whole(q)' /\ Gone(q)'
    BY <2>1 DEF Hedge, Whole, Gone, Exposure, Opened, Reduced
  <2> QED BY <2>2, <2>3 DEF Hedge
<1>5. CASE \E p \in Position : OperatorResolve(p)
  BY <1>5, OperatorResolveHedged
<1>6. CASE \E p \in Position, leg \in Leg : ForcedReduction(p, leg) /\ UNCHANGED runner
  BY <1>6, ForcedReductionHedged
<1> QED BY <1>1, <1>2, <1>3, <1>4, <1>5, <1>6 DEF Next, RunnerStep, Environment

LEMMA HedgeInvariance ==
  ASSUME "open_answer" \notin Faults
  PROVE  Spec => []Hedge
<1>1. Init => Hedge
  BY HedgeInit
<1>2. IInv /\ Hedge /\ [Next]_vars => Hedge'
  BY HedgeKept
<1> QED BY <1>1, <1>2, Invariance, PTL DEF Spec
-----------------------------------------------------------------------------
(* Who writes an order's row, and who fills it.                             *)
LEMMA OrderActions ==
  ASSUME [Next]_vars
  PROVE  Accept \/ Send \/ Record \/ UNCHANGED <<rows, fills>>
<1>1. CASE Execute
  BY <1>1 DEF Execute, ExecutorStep, Prepare, Refuse, Abandon, Decide, DecideUnknown,
              DecideFirstLeg, DecideSecondLeg, DecideUnwind, DecideClose, durable, venue
<1>2. CASE CloseNext
  BY <1>2 DEF CloseNext, StartClose, durable, venue
<1>3. CASE OpenNext
  BY <1>3 DEF OpenNext, CreatePosition, venue
<1>4. CASE \/ Restart \/ Startup \/ BeginCycle \/ Check \/ RecordEquity \/ EnterOpen
           \/ EndCycle \/ Returned \/ Environment \/ UNCHANGED vars
  BY <1>4 DEF Restart, Startup, BeginCycle, Check, RecordEquity, EnterOpen, EndCycle,
              Returned, Environment, Crash, OperatorClear, OperatorResolve,
              ForcedReduction, durable, venue, vars
<1> QED BY <1>1, <1>2, <1>3, <1>4 DEF Next, RunnerStep

(* Runner, executor and switch keep to their types. *)
THEOREM TypeCorrect == Spec => []TypeOK
<1>1. IInv => TypeOK
  BY DEF IInv
<1> QED BY <1>1, Invariance, PTL

(* Whatever fails, no order has filled that the database does not know of,  *)
(* and no leg ends up on the other side (execution/live.py:_submit).        *)
THEOREM RecordsFirst == Spec => []RecordedBeforeSent
<1>1. IInv => RecordedBeforeSent
  BY DEF IInv, Sound, RecordedAt, RecordedBeforeSent
<1> QED BY <1>1, Invariance, PTL

(* What a trading runner believes open is what the ledger says is open.     *)
THEOREM MemoryIsLedger == Spec => []HeldIsLedger
<1>1. IInv => HeldIsLedger
  BY DEF IInv, Sound, HeldAt, HeldIsLedger, Held
<1> QED BY <1>1, Invariance, PTL

-----------------------------------------------------------------------------
(* Outcomes are recorded before anything is built on them.                  *)

(* A step that neither is an order's nor opens a position.                  *)
Quiet ==
  /\ UNCHANGED <<rows, fills>>
  /\ \A q \in Position : ledger'[q].state = "OPEN" => ledger[q].state = "OPEN"
  /\ \/ pc' \notin InFlight
     \/ pc' = "submit" /\ task'.label # "open_b"
     \/ pc' = pc /\ task' = task

LEMMA StoredOpens ==
  ASSUME ledger \in [Position -> Slot], NEW p \in Position, NEW object,
         UNCHANGED ledger \/ Stored(p, object), NEW q \in Position, ledger'[q].state = "OPEN"
  PROVE  ledger[q].state = "OPEN" \/ (q = p /\ object.state = "OPEN")
BY DEF Stored

(* The end of a call for the position in hand.                              *)
LEMMA FinishQuiet ==
  ASSUME ledger \in [Position -> Slot], NEW p \in Position, NEW object,
         Finish(p, object), object.state # "OPEN", UNCHANGED <<rows, fills>>
  PROVE  Quiet
<1>1. UNCHANGED ledger \/ Stored(p, object)
  BY DEF Finish
<1>2. pc' \in {"returned", "idle"}
  BY DEF Finish, Escape
<1> QED BY <1>1, <1>2, StoredOpens DEF Quiet, InFlight

LEMMA EndQuiet ==
  ASSUME IInv, pc \in Working, UNCHANGED <<rows, fills>>, NEW object \in LivePosition,
         Fail(task.pos, object) \/ Manual(task.pos, object)
  PROVE  Quiet
<1>1. \A s \in {"FAILED", "MANUAL_INTERVENTION"} : [object EXCEPT !.state = s].state # "OPEN"
  BY DEF LivePosition
<1>2. task.pos \in Position /\ ledger \in [Position -> Slot]
  BY HandFacts DEF IInv, TypeOK, ExecutorTypeOK
<1> QED BY <1>1, <1>2, FinishQuiet DEF Fail, Manual

(* What follows on an order.                                                *)
LEMMA SubmitQuiet ==
  ASSUME UNCHANGED <<ledger, rows, fills>>, NEW p, NEW label, NEW want,
         label # "open_b", Submit(p, label, want)
  PROVE  Quiet
BY DEF Quiet, Submit

LEMMA OrderKinds ==
  ASSUME IInv, Execute
  PROVE  \/ Accept \/ Send \/ Record \/ DecideFirstLeg \/ DecideSecondLeg \/ Quiet
<1> DEFINE p == task.pos
<1>1. CASE Prepare
  <2>1. mem[p] \in LivePosition /\ pc \in Working /\ UNCHANGED <<rows, fills>>
    BY <1>1, HandFacts DEF Prepare, Working, venue
  <2>2. CASE Fail(p, mem[p])
    BY <2>1, <2>2, EndQuiet
  <2>3. CASE Submit(p, "open_a", Quantity) /\ UNCHANGED <<ledger, mem, switch>>
    BY <2>1, <2>3, SubmitQuiet
  <2>4. CASE Escape(p, "idle", mem[p]) /\ UNCHANGED <<ledger, switch>>
    BY <2>1, <2>4 DEF Escape, Quiet, InFlight
  <2> QED BY <1>1, <2>2, <2>3, <2>4 DEF Prepare
<1>2. CASE Refuse
  <2>1. mem[p] \in LivePosition /\ pc \in Working /\ UNCHANGED <<rows, fills>>
    BY <1>2, HandFacts DEF Refuse, Working, InFlight, venue
  <2>2. CASE Fail(p, mem[p]) \/ Manual(p, mem[p])
    BY <2>1, <2>2, EndQuiet
  <2>3. CASE Compensate(p, mem[p])
    BY <2>1, <2>3, SubmitQuiet DEF Compensate
  <2> QED BY <1>2, <2>2, <2>3 DEF Refuse
<1>3. CASE Abandon
  BY <1>3 DEF Abandon, Escape, Quiet, InFlight, durable, venue
<1>4. CASE DecideUnknown
  <2>1. mem[p] \in LivePosition /\ pc \in Working /\ UNCHANGED <<rows, fills>>
    BY <1>4, HandFacts DEF DecideUnknown, Working, InFlight, venue
  <2> QED BY <1>4, <2>1, EndQuiet DEF DecideUnknown
<1>5. CASE DecideUnwind
  <2>1. mem[p] \in LivePosition /\ pc \in Working /\ UNCHANGED <<rows, fills>>
    BY <1>5, HandFacts DEF DecideUnwind, Known, Working, InFlight, venue
  <2>2. CASE Fail(p, mem[p]) \/ Manual(p, mem[p])
    BY <2>1, <2>2, EndQuiet
  <2>3. CASE Submit(p, "unwind_b", mem[p].b) /\ UNCHANGED <<ledger, mem, switch>>
    BY <2>1, <2>3, SubmitQuiet
  <2> QED BY <1>5, <2>2, <2>3 DEF DecideUnwind
<1>6. CASE DecideClose
  <2>1. mem[p] \in LivePosition /\ pc \in Working /\ UNCHANGED <<rows, fills>> /\ p \in Position
    BY <1>6, HandFacts DEF DecideClose, Known, Working, InFlight, venue
  <2>2. CASE Manual(p, mem[p])
    BY <2>1, <2>2, EndQuiet
  <2>3. CASE Submit(p, "close_b", mem[p].b) /\ UNCHANGED <<ledger, mem, switch>>
    BY <2>1, <2>3, SubmitQuiet
  <2>4. CASE Finish(p, [mem[p] EXCEPT !.state = "CLOSED"])
    <3>1. [mem[p] EXCEPT !.state = "CLOSED"].state # "OPEN"
      BY <2>1 DEF LivePosition
    <3> QED BY <2>1, <2>4, <3>1, FinishQuiet DEF IInv, TypeOK, ExecutorTypeOK
  <2> QED BY <1>6, <2>2, <2>3, <2>4 DEF DecideClose
<1> QED BY <1>1, <1>2, <1>3, <1>4, <1>5, <1>6 DEF Execute, ExecutorStep, Decide

LEMMA StepKinds ==
  ASSUME IInv, [Next]_vars
  PROVE  \/ Accept \/ Send \/ Record \/ DecideFirstLeg \/ DecideSecondLeg \/ Quiet
<1>0. ledger \in [Position -> Slot]
  BY DEF IInv, TypeOK, ExecutorTypeOK
<1>1. CASE CloseNext
  <2>1. CASE UNCHANGED <<durable, venue, switch, mem, pc, task>>
    BY <2>1 DEF Quiet, durable, venue
  <2>2. CASE todo # {} /\ StartClose(Min(todo))
    <3>1. PICK p \in Position : p = Min(todo)
      BY <2>2, LeastPosition, TypesSplit DEF IInv, LoopTypes
    <3>2. mem[p] \in LivePosition
      BY <2>2, <3>1, SlotFacts DEF StartClose, IInv, TypeOK, ExecutorTypeOK
    <3> DEFINE object == [mem[p] EXCEPT !.state = "CLOSING"]
    <3>3. object.state # "OPEN"
      BY <3>2 DEF LivePosition
    <3> HIDE DEF object
    <3>4. SaveThenSubmit(p, object, "close_a", mem[p].a) /\ UNCHANGED <<rows, fills>>
      BY <2>2, <3>1 DEF StartClose, object, venue
    <3>5. UNCHANGED ledger \/ Stored(p, object)
      BY <3>4 DEF SaveThenSubmit
    <3>6. pc' = "idle" \/ (pc' = "submit" /\ task'.label = "close_a")
      BY <3>4 DEF SaveThenSubmit, Escape, Submit
    <3> QED BY <1>0, <3>3, <3>4, <3>5, <3>6, StoredOpens DEF Quiet, InFlight
  <2> QED BY <1>1, <2>1, <2>2 DEF CloseNext
<1>2. CASE OpenNext
  <2>1. PICK p \in Position, k \in Key : CreatePosition(p, k)
    <3>1. NextPosition \in Position
      BY <1>2, LeastPosition DEF OpenNext, NextPosition
    <3>2. offers \subseteq Key
      BY TypesSplit DEF IInv, LoopTypes
    <3> QED BY <1>2, <3>1, <3>2 DEF OpenNext
  <2> DEFINE object == [state |-> "OPENING", key |-> k, a |-> 0, b |-> 0]
  <2>2. UNCHANGED ledger \/ Stored(p, object)
    BY <2>1 DEF CreatePosition
  <2>3. pc' \notin InFlight /\ UNCHANGED <<rows, fills>> /\ object.state # "OPEN"
    BY <2>1 DEF CreatePosition, venue, InFlight
  <2> HIDE DEF object
  <2> QED BY <1>0, <2>2, <2>3, StoredOpens DEF Quiet
<1>3. CASE \/ Restart \/ Startup \/ BeginCycle \/ Check \/ RecordEquity \/ EnterOpen
           \/ EndCycle \/ Returned \/ Crash
  BY <1>3 DEF Restart, Startup, BeginCycle, Check, RecordEquity, EnterOpen, EndCycle,
              Returned, Crash, Idle, durable, venue, Quiet, InFlight
<1>4. CASE \E p \in Position : OperatorResolve(p)
  <2>1. PICK p \in Position : OperatorResolve(p)
    BY <1>4
  <2>2. UNCHANGED <<rows, fills, pc, task>> /\ ledger' = [ledger EXCEPT ![p].state = "FAILED"]
        /\ ledger[p].state # "none"
    BY <2>1 DEF OperatorResolve, Active
  <2>3. ledger[p] \in LivePosition
    BY <1>0, <2>2, SlotFacts
  <2>4. ledger'[p].state = "FAILED" /\ \A q \in Position : q # p => ledger'[q] = ledger[q]
    BY <1>0, <2>2, <2>3 DEF LivePosition
  <2> QED BY <2>2, <2>4 DEF Quiet
<1>5. CASE \/ OperatorPause /\ UNCHANGED <<durable, venue, mem, pc, task, runner>>
           \/ OperatorClear \/ UNCHANGED vars
           \/ \E p \in Position, leg \in Leg : ForcedReduction(p, leg) /\ UNCHANGED runner
  BY <1>5 DEF OperatorClear, ForcedReduction, durable, venue, vars, Quiet
<1> QED BY <1>1, <1>2, <1>3, <1>4, <1>5, OrderKinds DEF Next, RunnerStep, Environment

(* Where an order that is decided over has its outcome on record, and a     *)
(* second leg comes after the outcome of the first.                         *)
OutcomeRecorded ==
  /\ pc = "decide" /\ ~task.unknown => rows[task.pos][task.label] = "DONE"
  /\ pc \in InFlight /\ task.label = "open_b" => rows[task.pos]["open_a"] = "DONE"

(* Inductive next to IInv.                                                  *)
Recorded ==
  /\ OutcomeRecorded
  /\ \A p \in Position :
       ledger[p].state = "OPEN" => rows[p]["open_a"] = "DONE" /\ rows[p]["open_b"] = "DONE"

(* The rows an order's steps write.                                         *)
LEMMA RowWrites ==
  ASSUME IInv, [Next]_vars, NEW p \in Position, NEW l \in Label
  PROVE  /\ rows[p][l] # "none" => rows'[p][l] # "none"
         /\ rows[p][l] \in {"DONE", "UNKNOWN"} => rows'[p][l] = rows[p][l]
<1>1. rows \in [Position -> [Label -> {"none", "PENDING", "DONE", "UNKNOWN"}]]
  BY DEF IInv, TypeOK, ExecutorTypeOK
<1>2. CASE Accept
  <2>1. rows' = [rows EXCEPT ![task.pos][task.label] = "PENDING"]
        /\ rows[task.pos][task.label] = "none"
    BY <1>2 DEF Accept, IInv, InHand, Sending
  <2> QED BY <1>1, <2>1
<1>3. CASE Record
  <2>1. rows[task.pos][task.label] = "PENDING"
    BY <1>3 DEF Record, IInv, InHand, Sending
  <2>2. PICK s \in {"UNKNOWN", "DONE"} :
          rows' = rows \/ rows' = [rows EXCEPT ![task.pos][task.label] = s]
    BY <1>3 DEF Record
  <2>3. CASE rows' = [rows EXCEPT ![task.pos][task.label] = s]
    BY <1>1, <2>1, <2>3
  <2> QED BY <1>1, <2>2, <2>3
<1>4. CASE UNCHANGED rows
  BY <1>1, <1>4
<1> QED BY <1>2, <1>3, <1>4, OrderActions DEF Send, durable

LEMMA DecideFirstRecorded ==
  ASSUME IInv, Recorded, [Next]_vars, DecideFirstLeg
  PROVE  Recorded'
<1> DEFINE p == task.pos
           object == [mem[p] EXCEPT !.a = task.got]
<1>1. /\ mem[p] \in LivePosition /\ pc \in Working /\ UNCHANGED <<rows, fills>>
      /\ p \in Position /\ task.got \in 0..Quantity /\ mem[p].state = "OPENING"
      /\ rows[p]["open_a"] = "DONE" /\ ledger \in [Position -> Slot]
  BY HandFacts, DecideFacts DEF DecideFirstLeg, Known, Working, InFlight, venue, Recorded,
     OutcomeRecorded, IInv, TypeOK, ExecutorTypeOK, Closing
<1>2. object \in LivePosition /\ object.state = "OPENING"
  BY <1>1 DEF LivePosition
<1> HIDE DEF object
<1>3. CASE Fail(p, mem[p]) \/ Manual(p, object)
  <2>1. Quiet
    BY <1>1, <1>2, <1>3, EndQuiet
  <2>2. pc' \in {"returned", "idle"}
    BY <1>3 DEF Fail, Manual, Finish, Escape
  <2> QED BY <2>1, <2>2 DEF Quiet, Recorded, OutcomeRecorded, InFlight
<1>4. CASE SaveThenSubmit(p, object, "open_b", task.got)
  <2>1. UNCHANGED ledger \/ Stored(p, object)
    BY <1>4 DEF SaveThenSubmit
  <2>2. pc' = "idle" \/ (pc' = "submit" /\ task'.label = "open_b" /\ task'.pos = p)
    BY <1>4 DEF SaveThenSubmit, Escape, Submit
  <2>3. \A q \in Position : ledger'[q].state = "OPEN" => ledger[q].state = "OPEN"
    BY <1>1, <1>2, <2>1, StoredOpens
  <2> QED BY <1>1, <2>2, <2>3 DEF Recorded, OutcomeRecorded, InFlight
<1> QED BY <1>3, <1>4 DEF DecideFirstLeg, object

LEMMA DecideSecondRecorded ==
  ASSUME IInv, Recorded, [Next]_vars, DecideSecondLeg
  PROVE  Recorded'
<1> DEFINE p == task.pos
           object == [mem[p] EXCEPT !.b = task.got]
           open == [object EXCEPT !.state = "OPEN"]
<1>1. /\ UNCHANGED <<rows, fills>> /\ p \in Position /\ ledger \in [Position -> Slot]
      /\ rows[p]["open_a"] = "DONE" /\ rows[p]["open_b"] = "DONE"
  BY HandFacts DEF DecideSecondLeg, Known, Working, InFlight, venue, Recorded,
     OutcomeRecorded, IInv, TypeOK, ExecutorTypeOK
<1>2. CASE Compensate(p, mem[p]) \/ Compensate(p, object)
  <2>1. UNCHANGED ledger /\ pc' = "submit" /\ task'.label # "open_b"
    BY <1>2 DEF Compensate, Submit
  <2> QED BY <1>1, <2>1 DEF Recorded, OutcomeRecorded
<1>3. CASE Finish(p, open)
  <2>1. UNCHANGED ledger \/ Stored(p, open)
    BY <1>3 DEF Finish
  <2>2. pc' \in {"returned", "idle"}
    BY <1>3 DEF Finish, Escape
  <2> HIDE DEF open
  <2>3. \A q \in Position : ledger'[q].state = "OPEN" => ledger[q].state = "OPEN" \/ q = p
    BY <1>1, <2>1, StoredOpens
  <2> QED BY <1>1, <2>2, <2>3 DEF Recorded, OutcomeRecorded, InFlight
<1> QED BY <1>2, <1>3 DEF DecideSecondLeg

LEMMA RecordedKept ==
  ASSUME IInv, Recorded, [Next]_vars
  PROVE  Recorded'
<1>1. \A p \in Position, l \in Label : rows[p][l] = "DONE" => rows'[p][l] = "DONE"
  BY RowWrites
<1>2. ASSUME UNCHANGED ledger PROVE \A p \in Position : ledger'[p].state = "OPEN" =>
                                    rows'[p]["open_a"] = "DONE" /\ rows'[p]["open_b"] = "DONE"
  BY <1>1, <1>2 DEF Recorded, Label
<1>3. ASSUME pc \in InFlight, pc' \in InFlight, task'.pos = task.pos, task'.label = task.label
      PROVE  task'.label = "open_b" => rows'[task'.pos]["open_a"] = "DONE"
  <2>1. task.pos \in Position
    BY <1>3, HandFacts DEF Working
  <2> QED BY <1>1, <1>3, <2>1 DEF Recorded, OutcomeRecorded, Label
<1>4. CASE Accept \/ Send
  <2>1. /\ UNCHANGED ledger /\ pc \in InFlight /\ pc' \in InFlight \ {"decide"}
    BY <1>4 DEF Accept, Send, durable, InFlight
  <2>2. task \in Task
    BY <2>1, HandFacts DEF Working
  <2>3. task'.pos = task.pos /\ task'.label = task.label
    <3>1. CASE Accept
      BY <3>1 DEF Accept
    <3>2. CASE Send
      <4>1. \E got, unknown : task' = [task EXCEPT !.got = got, !.unknown = unknown]
        BY <3>2 DEF Send, Answered
      <4> QED BY <2>2, <4>1 DEF Task
    <3> QED BY <1>4, <3>1, <3>2
  <2> QED BY <1>2, <1>3, <2>1, <2>3 DEF Recorded, OutcomeRecorded
<1>5. CASE Record
  <2>1. /\ UNCHANGED ledger /\ pc \in InFlight /\ pc' \in InFlight
    BY <1>5 DEF Record, InFlight
  <2>2. task \in Task /\ task.pos \in Position /\ task.label \in Label
    BY <2>1, HandFacts DEF Working
  <2>3. CASE /\ rows' = [rows EXCEPT ![task.pos][task.label] =
                            IF task.unknown THEN "UNKNOWN" ELSE "DONE"]
             /\ UNCHANGED task
    <3>1. ~task'.unknown => rows'[task'.pos][task'.label] = "DONE"
      BY <2>2, <2>3 DEF IInv, TypeOK, ExecutorTypeOK
    <3> QED BY <1>2, <1>3, <2>1, <2>3, <3>1 DEF Recorded, OutcomeRecorded
  <2>4. CASE Answered(task.got, TRUE)
    <3>1. task'.unknown /\ task'.pos = task.pos /\ task'.label = task.label
      BY <2>2, <2>4 DEF Answered, Task
    <3> QED BY <1>2, <1>3, <2>1, <3>1 DEF Recorded, OutcomeRecorded
  <2> QED BY <1>5, <2>3, <2>4 DEF Record
<1>6. CASE Quiet
  BY <1>6 DEF Quiet, Recorded, OutcomeRecorded, InFlight
<1> QED BY <1>4, <1>5, <1>6, StepKinds, DecideFirstRecorded, DecideSecondRecorded

LEMMA RecordedInvariance == Spec => []Recorded
<1>1. Init => Recorded
  BY DEF Init, ExecutorInit, Recorded, OutcomeRecorded, NoPosition, InFlight
<1>2. IInv /\ Recorded /\ [Next]_vars => Recorded'
  BY RecordedKept
<1> QED BY <1>1, <1>2, Invariance, PTL DEF Spec

(* A reconciliation passes, and a process trades, only when no transition   *)
(* was left unfinished and the outcome of every order of what is open is on *)
(* record (live_runner.py:_restore_positions, _reconcile).                  *)
THEOREM GateHolds == Spec => StartupGate
<1> DEFINE Passes == (pc = "boot" /\ pc' \notin Stopped \cup {"boot"}) \/ (due /\ ~due')
           Gate == Passes => \A p \in Position : ledger[p].state \in Active =>
                               Settled(p) /\ (pc = "boot" => mem'[p] = ledger[p])
<1>1. IInv /\ Recorded /\ [Next]_vars => [Gate]_vars
  <2> SUFFICES ASSUME IInv, Recorded, [Next]_vars, Passes, NEW p \in Position,
                      ledger[p].state \in Active
      PROVE  Settled(p) /\ (pc = "boot" => mem'[p] = ledger[p])
    OBVIOUS
  <2>1. Startup \/ Check
    <3>1. due' \in BOOLEAN /\ due \in BOOLEAN
      BY NextPreserves, TypesSplit DEF IInv, LoopTypes, TypeOK
    <3>2. CASE \/ Restart \/ BeginCycle \/ RecordEquity \/ CloseNext \/ EnterOpen \/ OpenNext
               \/ EndCycle \/ Returned \/ Crash
      BY <3>1, <3>2 DEF Restart, BeginCycle, RecordEquity, CloseNext, EnterOpen, OpenNext,
                        EndCycle, Returned, Crash, Stopped
    <3>3. CASE Execute
      BY <3>3 DEF Execute, ExecutorStep, Prepare, Accept, Refuse, Abandon, Send, Record, Decide,
                  DecideUnknown, DecideFirstLeg, DecideSecondLeg, DecideUnwind, DecideClose, Known
    <3>4. CASE UNCHANGED <<pc, due>>
      BY <3>4
    <3> QED BY <3>2, <3>3, <3>4 DEF Next, RunnerStep, Environment, OperatorClear,
                                    OperatorResolve, ForcedReduction, runner, vars
  <2>2. Reconciled
    BY <2>1 DEF Startup, Check, Stopped
  <2>3. ledger[p].state = "OPEN"
    BY <2>2 DEF Reconciled, Unsettled, Active
  <2>4. \A l \in Label : rows[p][l] \in {"none", "DONE"}
    BY <2>3 DEF Recorded, IInv, Sound, OpenUnsent, Unsent, Ending, Unwinding, Closing, Label
  <2>5. pc = "boot" => mem'[p] = ledger[p]
    BY <2>1 DEF Startup, Check, IInv, Sound, Loaded
  <2> QED BY <2>3, <2>4, <2>5 DEF Settled
<1> QED BY <1>1, Invariance, RecordedInvariance, PTL DEF Spec, StartupGate

(* An order goes to its venue at most once, over crashes, restarts and      *)
(* failed saves: it had no row before, and has one for good.                *)
THEOREM NeverSentTwice == Spec => SentOnce
<1> DEFINE Goes == pc' = "send" =>
             /\ task' = task
             /\ pc # "send" => /\ rows[task.pos][task.label] = "none"
                               /\ rows'[task.pos][task.label] = "PENDING"
           Lasts == \A p \in Position, l \in Label :
             /\ rows[p][l] # "none" => rows'[p][l] # "none"
             /\ rows[p][l] \in {"DONE", "UNKNOWN"} => rows'[p][l] = rows[p][l]
             /\ fills'[p][l] # fills[p][l] =>
                  pc = "send" /\ pc' = "record" /\ task.pos = p /\ task.label = l
<1>1. IInv /\ [Next]_vars => Goes
  <2> SUFFICES ASSUME IInv, [Next]_vars, pc' = "send"
      PROVE  task' = task /\ (pc # "send" => /\ rows[task.pos][task.label] = "none"
                                             /\ rows'[task.pos][task.label] = "PENDING")
    OBVIOUS
  <2>1. CASE Accept
    <3>1. task.pos \in Position /\ task.label \in Label
      BY <2>1, HandFacts DEF Accept, Working, InFlight
    <3>2. /\ task' = task /\ rows[task.pos][task.label] = "none"
          /\ rows' = [rows EXCEPT ![task.pos][task.label] = "PENDING"]
      BY <2>1 DEF Accept, IInv, InHand, Sending
    <3> QED BY <3>1, <3>2 DEF IInv, TypeOK, ExecutorTypeOK
  <2>2. CASE Send \/ Record
    BY <2>2 DEF Send, Record
  <2>3. CASE DecideFirstLeg \/ DecideSecondLeg
    BY <2>3 DEF DecideFirstLeg, DecideSecondLeg, Fail, Manual, Finish, SaveThenSubmit, Compensate,
                Escape, Submit
  <2>4. CASE Quiet
    BY <2>4 DEF Quiet, InFlight
  <2> QED BY <2>1, <2>2, <2>3, <2>4, StepKinds
<1>2. IInv /\ [Next]_vars => Lasts
  <2> SUFFICES ASSUME IInv, [Next]_vars, NEW p \in Position, NEW l \in Label,
                      fills'[p][l] # fills[p][l]
      PROVE  pc = "send" /\ pc' = "record" /\ task.pos = p /\ task.label = l
    BY RowWrites
  <2>1. Send
    BY OrderActions DEF Accept, Record, venue
  <2>2. \E f : fills' = [fills EXCEPT ![task.pos][task.label] = f]
    BY <2>1 DEF Send
  <2> QED BY <2>1, <2>2 DEF Send, IInv, TypeOK, ExecutorTypeOK
<1> QED BY <1>1, <1>2, Invariance, PTL DEF Spec, SentOnce

(* Where an answer that arrives is right about the fill, an OPEN row is a   *)
(* hedge at the venues, whatever else fails (execution/live.py).            *)
THEOREM OpenStaysHedged ==
  ASSUME "open_answer" \notin Faults
  PROVE  Spec => []OpenIsHedged
<1>1. IInv /\ Hedge => OpenIsHedged
  <2> SUFFICES ASSUME IInv, Hedge, NEW p \in Position, ledger[p].state = "OPEN"
      PROVE  /\ ledger[p].a > 0
             /\ \A leg \in Leg : Exposure(p, leg) + outside[p][leg] = ledger[p].a
                                 /\ Quantities(ledger[p], leg) = ledger[p].a
    BY DEF OpenIsHedged
  <2>1. /\ ledger[p].a > 0 /\ ledger[p].b = ledger[p].a
        /\ fills[p]["open_a"] = ledger[p].a /\ fills[p]["open_b"] = ledger[p].a
    BY DEF Hedge, Whole
  <2>2. \A l \in Ending : fills[p][l] = 0
    BY UnsentUnfilled DEF IInv, Sound, OpenUnsent, Unsent, Ending, Unwinding, Closing, Label
  <2>3. /\ fills[p]["open_a"] \in 0..Quantity /\ fills[p]["open_b"] \in 0..Quantity
        /\ outside[p]["a"] \in 0..Quantity /\ outside[p]["b"] \in 0..Quantity
    BY DEF IInv, TypeOK, ExecutorTypeOK, Label, Leg
  <2>4. \A leg \in Leg : Quantities(ledger[p], leg) = ledger[p].a
    BY <2>1 DEF Quantities
  <2>5. \A leg \in Leg : Exposure(p, leg) + outside[p][leg] = ledger[p].a
    BY <2>1, <2>2, <2>3, ExecutorAssumption
    DEF Exposure, Opened, Reduced, Leg, Ending, Unwinding, Closing
  <2> QED BY <2>1, <2>4, <2>5
<1> QED BY <1>1, Invariance, HedgeInvariance, PTL

(* Under the same condition, a position the ledger counts as over, or has   *)
(* no row for, holds nothing at the venues.                                 *)
THEOREM NothingLeftBehind ==
  ASSUME "open_answer" \notin Faults
  PROVE  Spec => []NothingForgotten
<1>1. Hedge => NothingForgotten
  BY DEF Hedge, Gone, NothingForgotten
<1> QED BY <1>1, HedgeInvariance, PTL
-----------------------------------------------------------------------------
(* What the durable switch guards, as long as its file can be written.      *)

SwitchLasts == tripped => pc # "down" /\ (killFile \/ pc = "halted")

(* An unknown order is of a position that is not settled, it is not the     *)
(* position's last, and the switch is on: or the executor is about to trip  *)
(* it, or the process died before it could and has not reconciled since.    *)
UnknownSeen(p) ==
  ledger[p].state \in Active /\ Unknown(p) =>
    /\ ledger[p].state \in Unsettled
    /\ pc \in InFlight /\ task.pos = p => pc = "decide" /\ task.unknown
    /\ \/ killFile
       \/ pc = "decide" /\ task.pos = p /\ task.unknown
       \/ pc \in {"down", "boot"}

(* Inductive next to IInv. *)
Guarded == SwitchLasts /\ ManualKeepsSwitch /\ \A p \in Position : UnknownSeen(p)

Trading == {"idle", "check", "equity", "close", "open"} \cup Working

LEMMA GuardedInit == Init => Guarded
BY DEF Init, SwitchInit, ExecutorInit, Guarded, SwitchLasts, ManualKeepsSwitch, UnknownSeen,
       NoPosition, Active

(* The switch only goes on while the process runs, and a trip is durable.   *)
LEMMA TripLasts ==
  ASSUME "kill_file" \notin Faults, IInv, Guarded, pc \in Trading \cup {"boot"},
         Trip \/ UNCHANGED switch
  PROVE  /\ killFile => killFile'
         /\ tripped' => killFile'
         /\ Trip => killFile'
<1>1. tripped => killFile
  BY DEF Guarded, SwitchLasts, Trading, Working, InFlight
<1>2. CASE Trip
  BY <1>1, <1>2 DEF Trip, paused, switch, IInv, TypeOK, SwitchTypeOK
<1>3. CASE UNCHANGED switch /\ ~Trip
  BY <1>1, <1>3 DEF switch
<1> QED BY <1>2, <1>3

(* While an order that is not unknown is in hand, its position has no       *)
(* unknown order.                                                           *)
LEMMA HandKnown ==
  ASSUME IInv, Guarded, pc \in InFlight \cup {"prepare"}, ~(pc = "decide" /\ task.unknown)
  PROVE  ~Unknown(task.pos)
<1>1. task.pos \in Position /\ ledger[task.pos].state \in Active
  BY HandFacts DEF Working, Active
<1>2. CASE pc \in InFlight
  BY <1>1, <1>2 DEF Guarded, UnknownSeen
<1>3. CASE pc = "prepare"
  BY <1>3 DEF IInv, InHand, Preparing, Unsent, Unknown
<1> QED BY <1>2, <1>3

(* Neither the ledger nor the orders change.                                *)
LEMMA GuardRests ==
  ASSUME "kill_file" \notin Faults, IInv, Guarded, pc \in Trading, Trip \/ UNCHANGED switch,
         UNCHANGED <<ledger, rows>>, ~(pc = "decide" /\ task.unknown),
         pc' \in Trading,
         pc' \in InFlight => pc \in InFlight \cup {"prepare"} /\ task'.pos = task.pos
  PROVE  Guarded'
<1>1. (killFile => killFile') /\ (tripped' => killFile')
  BY TripLasts
<1>2. SwitchLasts' /\ ManualKeepsSwitch'
  BY <1>1 DEF Guarded, SwitchLasts, ManualKeepsSwitch, Trading, Working, InFlight
<1>3. ASSUME NEW p \in Position PROVE UnknownSeen(p)'
  <2>1. Unknown(p)' = Unknown(p)
    BY DEF Unknown
  <2>2. pc' \in InFlight /\ task'.pos = p => ~Unknown(p)
    BY HandKnown
  <2>3. UnknownSeen(p)
    BY DEF Guarded
  <2> QED BY <1>1, <2>1, <2>2, <2>3 DEF UnknownSeen, Trading, Working, InFlight
<1> QED BY <1>2, <1>3 DEF Guarded

(* The end of a call, or the next order: the ledger row of the position in  *)
(* hand changes, to MANUAL_INTERVENTION only with a trip.                   *)
LEMMA GuardMoves ==
  ASSUME "kill_file" \notin Faults, IInv, Guarded, pc \in Trading, Trip \/ UNCHANGED switch,
         UNCHANGED rows, NEW p \in Position,
         \A q \in Position : q # p => ledger'[q] = ledger[q],
         ledger'[p] # ledger[p] /\ ledger'[p].state = "MANUAL_INTERVENTION" => Trip,
         Unknown(p) => Trip /\ ledger'[p].state = "MANUAL_INTERVENTION",
         pc' \in Trading, task.pos \in {0, p},
         pc' \in InFlight => task'.pos = p /\ ~Unknown(p)
  PROVE  Guarded'
<1>1. (killFile => killFile') /\ (tripped' => killFile') /\ (Trip => killFile')
  BY TripLasts
<1>2. SwitchLasts'
  BY <1>1 DEF SwitchLasts, Trading, Working, InFlight
<1>3. ManualKeepsSwitch'
  <2> SUFFICES ASSUME NEW q \in Position, ledger'[q].state = "MANUAL_INTERVENTION"
      PROVE  killFile'
    BY DEF ManualKeepsSwitch
  <2>1. CASE ledger'[q] = ledger[q]
    BY <1>1, <2>1 DEF Guarded, ManualKeepsSwitch
  <2>2. CASE ledger'[q] # ledger[q]
    BY <1>1, <2>2
  <2> QED BY <2>1, <2>2
<1>4. ASSUME NEW q \in Position PROVE UnknownSeen(q)'
  <2>1. Unknown(q)' = Unknown(q)
    BY DEF Unknown
  <2>2. CASE q = p
    BY <1>1, <2>1, <2>2 DEF UnknownSeen, Unsettled
  <2>3. CASE q # p
    <3>1. task.pos # q /\ pc \notin {"down", "boot"}
      BY <2>3 DEF Position, Trading, Working, InFlight
    <3>2. ledger[q].state \in Active /\ Unknown(q) => ledger[q].state \in Unsettled /\ killFile
      BY <3>1 DEF Guarded, UnknownSeen
    <3>3. ledger'[q] = ledger[q] /\ (pc' \in InFlight => task'.pos # q)
      BY <2>3
    <3> QED BY <1>1, <2>1, <3>2, <3>3 DEF UnknownSeen
  <2> QED BY <2>2, <2>3
<1> QED BY <1>2, <1>3, <1>4 DEF Guarded

(* The executor's ways to end a call or to go on, for the position in hand. *)
LEMMA FinishGuarded ==
  ASSUME "kill_file" \notin Faults, IInv, Guarded, pc \in InFlight \cup {"prepare"},
         NEW object \in LivePosition, NEW s \in Over,
         Finish(task.pos, [object EXCEPT !.state = s]),
         Trip \/ (UNCHANGED switch /\ s # "MANUAL_INTERVENTION"), UNCHANGED rows,
         pc = "decide" /\ task.unknown => FALSE
  PROVE  Guarded'
<1>1. PICK p \in Position : p = task.pos
  BY HandFacts DEF Working
<1>2. PICK final : final = [object EXCEPT !.state = s]
  OBVIOUS
<1>3. s \in State
  BY DEF Over, State
<1>4. final \in LivePosition /\ final.state = s
  BY <1>2, <1>3, Restated
<1>5. Finish(p, final)
  BY <1>1, <1>2
<1>6. /\ \A q \in Position : q # p => ledger'[q] = ledger[q]
      /\ ledger'[p] \in {ledger[p], final}
  BY <1>5 DEF Finish, Stored, IInv, TypeOK, ExecutorTypeOK
<1>7. pc \in Trading /\ pc' \in Trading \ InFlight
  BY <1>5 DEF Finish, Escape, Trading, Working, InFlight
<1>8. ~Unknown(p)
  BY <1>1, HandKnown
<1>9. ledger'[p] # ledger[p] /\ ledger'[p].state = "MANUAL_INTERVENTION" => Trip
  BY <1>4, <1>6
<1>10. (Trip \/ UNCHANGED switch) /\ task.pos \in {0, p}
  BY <1>1
<1> QED BY <1>6, <1>7, <1>8, <1>9, <1>10, GuardMoves

LEMMA OrderGuarded ==
  ASSUME "kill_file" \notin Faults, IInv, Guarded, NEW p \in Position, task.pos \in {0, p},
         pc \in Trading, NEW object \in LivePosition, object.state \in {"OPENING", "CLOSING"},
         UNCHANGED ledger \/ Stored(p, object),
         pc' \in {"submit", "prepare"}, task'.pos = p,
         UNCHANGED <<rows, switch>>, ~Unknown(p)
  PROVE  Guarded'
<1>1. /\ \A q \in Position : q # p => ledger'[q] = ledger[q]
      /\ ledger'[p] = ledger[p] \/ ledger'[p].state \in {"OPENING", "CLOSING"}
  BY DEF Stored, IInv, TypeOK, ExecutorTypeOK
<1>2. pc' \in Trading
  BY DEF Trading, Working, InFlight
<1> QED BY <1>1, <1>2, GuardMoves

(* The same for the position in hand.                                       *)
LEMMA NextOrderGuarded ==
  ASSUME "kill_file" \notin Faults, IInv, Guarded, pc \in InFlight \cup {"prepare"},
         ~(pc = "decide" /\ task.unknown),
         NEW object \in LivePosition, object.state = mem[task.pos].state,
         UNCHANGED ledger \/ Stored(task.pos, object), NEW label, NEW want,
         Submit(task.pos, label, want), UNCHANGED <<rows, switch>>
  PROVE  Guarded'
<1>1. PICK p \in Position :
        p = task.pos /\ task.pos \in {0, p} /\ mem[p].state \in {"OPENING", "CLOSING"}
  BY HandFacts DEF Working
<1>2. ~Unknown(p)
  BY <1>1, HandKnown
<1>3. UNCHANGED ledger \/ Stored(p, object)
  BY <1>1
<1>4. pc' \in {"submit", "prepare"} /\ task'.pos = p /\ pc \in Trading
  BY <1>1 DEF Submit, Trading, Working
<1> QED BY <1>1, <1>2, <1>3, <1>4, OrderGuarded

LEMMA EscapeGuarded ==
  ASSUME "kill_file" \notin Faults, IInv, Guarded, pc \in InFlight \cup {"prepare", "close"},
         ~(pc = "decide" /\ task.unknown), NEW p, NEW object, NEW next \in {"idle", "open"},
         Escape(p, next, object), UNCHANGED <<ledger, rows, switch>>
  PROVE  Guarded'
<1>1. pc \in Trading /\ pc' \in Trading \ InFlight
  BY DEF Escape, Trading, Working, InFlight
<1> QED BY <1>1, GuardRests

LEMMA PrepareGuarded ==
  ASSUME "kill_file" \notin Faults, IInv, Guarded, Prepare
  PROVE  Guarded'
<1>1. PICK object \in LivePosition : object = mem[task.pos]
  BY HandFacts DEF Prepare, Working
<1>2. pc = "prepare" /\ UNCHANGED rows
  BY DEF Prepare
<1>3. CASE Fail(task.pos, mem[task.pos])
  BY <1>1, <1>2, <1>3, FinishGuarded DEF Fail, Over
<1>4. CASE Submit(task.pos, "open_a", Quantity) /\ UNCHANGED <<ledger, mem, switch>>
  BY <1>1, <1>2, <1>4, NextOrderGuarded
<1>5. CASE Escape(task.pos, "idle", mem[task.pos]) /\ UNCHANGED <<ledger, switch>>
  BY <1>2, <1>5, EscapeGuarded
<1> QED BY <1>3, <1>4, <1>5 DEF Prepare

LEMMA RefuseGuarded ==
  ASSUME "kill_file" \notin Faults, IInv, Guarded, Refuse
  PROVE  Guarded'
<1>1. PICK object \in LivePosition : object = mem[task.pos]
  BY HandFacts DEF Refuse, Working, InFlight
<1>2. pc = "submit" /\ pc \in InFlight /\ UNCHANGED rows
  BY DEF Refuse, InFlight
<1>3. CASE Fail(task.pos, mem[task.pos])
  BY <1>1, <1>2, <1>3, FinishGuarded DEF Fail, Over
<1>4. CASE Compensate(task.pos, mem[task.pos])
  BY <1>1, <1>2, <1>4, NextOrderGuarded DEF Compensate
<1>5. CASE Manual(task.pos, mem[task.pos])
  BY <1>1, <1>2, <1>5, FinishGuarded DEF Manual, Over
<1> QED BY <1>3, <1>4, <1>5 DEF Refuse

LEMMA AbandonGuarded ==
  ASSUME "kill_file" \notin Faults, IInv, Guarded, Abandon
  PROVE  Guarded'
<1>1. /\ pc = "submit" /\ pc \in InFlight /\ UNCHANGED <<ledger, rows, switch>>
      /\ \E next \in {"idle", "open"} : Escape(task.pos, next, mem[task.pos])
  BY DEF Abandon, InFlight, durable
<1> QED BY <1>1, EscapeGuarded

LEMMA SendGuarded ==
  ASSUME "kill_file" \notin Faults, IInv, Guarded, Send
  PROVE  Guarded'
<1>1. /\ pc = "send" /\ pc' = "record" /\ UNCHANGED <<ledger, rows>>
      /\ Trip \/ UNCHANGED switch
  BY DEF Send, durable
<1>2. task \in Task
  BY <1>1, HandFacts DEF Working, InFlight
<1>3. task'.pos = task.pos
  BY <1>2 DEF Send, Answered, Task
<1> QED BY <1>1, <1>3, GuardRests DEF Trading, Working, InFlight

LEMMA AcceptGuarded ==
  ASSUME "kill_file" \notin Faults, IInv, Guarded, Accept
  PROVE  Guarded'
<1>1. /\ pc = "submit" /\ pc' = "send" /\ UNCHANGED <<ledger, switch, task>>
      /\ rows' = [rows EXCEPT ![task.pos][task.label] = "PENDING"]
  BY DEF Accept
<1>2. SwitchLasts' /\ ManualKeepsSwitch'
  BY <1>1 DEF Guarded, SwitchLasts, ManualKeepsSwitch, switch
<1>3. ASSUME NEW q \in Position PROVE UnknownSeen(q)'
  <2>1. \A l \in Label : rows'[q][l] \in {rows[q][l], "PENDING"}
    BY <1>1 DEF IInv, TypeOK, ExecutorTypeOK
  <2>2. Unknown(q)' => Unknown(q)
    BY <2>1 DEF Unknown
  <2>3. UnknownSeen(q)
    BY DEF Guarded
  <2> QED BY <1>1, <2>2, <2>3 DEF UnknownSeen, InFlight, switch
<1> QED BY <1>2, <1>3 DEF Guarded

LEMMA RecordGuarded ==
  ASSUME "kill_file" \notin Faults, IInv, Guarded, Record
  PROVE  Guarded'
<1>1. /\ pc = "record" /\ pc \in InFlight /\ pc' = "decide" /\ UNCHANGED ledger
      /\ Trip \/ UNCHANGED switch
  BY DEF Record, InFlight
<1>2. PICK p \in Position, l \in Label :
        /\ p = task.pos /\ l = task.label /\ task \in Task
        /\ ledger[p].state \in {"OPENING", "CLOSING"}
  BY <1>1, HandFacts DEF Working
<1>3. ~Unknown(p)
  BY <1>1, <1>2, HandKnown
<1>4. task'.pos = p
  BY <1>2 DEF Record, Answered, Task
<1>5. CASE UNCHANGED rows /\ Trip
  <2>1. pc \in Trading /\ pc' \in Trading
    BY <1>1 DEF Trading, Working, InFlight
  <2> QED BY <1>1, <1>2, <1>4, <1>5, <2>1, GuardRests
<1>6. CASE /\ rows' = [rows EXCEPT ![p][l] = IF task.unknown THEN "UNKNOWN" ELSE "DONE"]
           /\ UNCHANGED <<task, switch>>
  <2>1. SwitchLasts' /\ ManualKeepsSwitch'
    BY <1>1, <1>6 DEF Guarded, SwitchLasts, ManualKeepsSwitch, switch
  <2>2. ASSUME NEW q \in Position, q # p PROVE UnknownSeen(q)'
    <3>1. rows'[q] = rows[q] /\ task'.pos # q
      BY <1>4, <1>6, <2>2 DEF IInv, TypeOK, ExecutorTypeOK
    <3>2. Unknown(q)' = Unknown(q)
      BY <3>1 DEF Unknown
    <3> QED BY <1>1, <1>6, <3>1, <3>2 DEF Guarded, UnknownSeen, switch
  <2>3. UnknownSeen(p)'
    <3>1. ~task.unknown => \A m \in Label : rows'[p][m] \in {rows[p][m], "DONE"}
      BY <1>6 DEF IInv, TypeOK, ExecutorTypeOK
    <3>2. Unknown(p)' => task.unknown
      BY <1>3, <3>1 DEF Unknown
    <3> QED BY <1>1, <1>2, <1>6, <3>2 DEF UnknownSeen, Unsettled
  <2> QED BY <2>1, <2>2, <2>3 DEF Guarded
<1> QED BY <1>2, <1>5, <1>6 DEF Record

(* Whatever is unknown, the trip comes with it.                             *)
LEMMA DecideUnknownGuarded ==
  ASSUME "kill_file" \notin Faults, IInv, Guarded, DecideUnknown
  PROVE  Guarded'
<1>1. /\ pc = "decide" /\ pc \in InFlight /\ Trip /\ UNCHANGED rows
      /\ Finish(task.pos, [mem[task.pos] EXCEPT !.state = "MANUAL_INTERVENTION"])
  BY DEF DecideUnknown, Manual, InFlight
<1>2. PICK p \in Position, object \in LivePosition :
        /\ p = task.pos /\ object = mem[task.pos]
        /\ ledger[p].state \in {"OPENING", "CLOSING"}
  BY <1>1, HandFacts DEF Working
<1>3. PICK final : final = [object EXCEPT !.state = "MANUAL_INTERVENTION"]
  OBVIOUS
<1>4. final.state = "MANUAL_INTERVENTION"
  BY <1>3 DEF LivePosition
<1>5. Finish(p, final)
  BY <1>1, <1>2, <1>3
<1>6. killFile'
  BY <1>1, TripLasts DEF Trading, Working
<1>7. pc' \in {"idle", "returned"}
  BY <1>5 DEF Finish, Escape
<1>8. ASSUME NEW q \in Position PROVE UnknownSeen(q)'
  <2>1. Unknown(q)' = Unknown(q)
    BY <1>1 DEF Unknown
  <2>2. ledger'[q] = ledger[q] \/ ledger'[q].state = "MANUAL_INTERVENTION"
    BY <1>4, <1>5 DEF Finish, Stored, IInv, TypeOK, ExecutorTypeOK
  <2>3. UnknownSeen(q)
    BY DEF Guarded
  <2> QED BY <1>6, <1>7, <2>1, <2>2, <2>3 DEF UnknownSeen, Unsettled, InFlight
<1> QED BY <1>6, <1>7, <1>8 DEF Guarded, SwitchLasts, ManualKeepsSwitch

LEMMA DecideFirstLegGuarded ==
  ASSUME "kill_file" \notin Faults, IInv, Guarded, DecideFirstLeg
  PROVE  Guarded'
<1>1. pc = "decide" /\ pc \in InFlight /\ ~task.unknown /\ task.label = "open_a" /\ UNCHANGED rows
  BY DEF DecideFirstLeg, Known, InFlight
<1>2. PICK before \in LivePosition : before = mem[task.pos]
  BY <1>1, HandFacts DEF Working
<1>3. PICK object : object = [before EXCEPT !.a = task.got]
  OBVIOUS
<1>4. object \in LivePosition /\ object.state = mem[task.pos].state
  BY <1>1, <1>2, <1>3, DecideFacts DEF LivePosition
<1>5. CASE Fail(task.pos, mem[task.pos])
  BY <1>1, <1>2, <1>5, FinishGuarded DEF Fail, Over
<1>6. CASE Manual(task.pos, object)
  BY <1>1, <1>4, <1>6, FinishGuarded DEF Manual, Over
<1>7. CASE SaveThenSubmit(task.pos, object, "open_b", task.got) /\ UNCHANGED switch
  <2>1. CASE Stored(task.pos, object) /\ Submit(task.pos, "open_b", task.got)
    BY <1>1, <1>4, <1>7, <2>1, NextOrderGuarded
  <2>2. CASE Escape(task.pos, "idle", object) /\ UNCHANGED ledger
    BY <1>1, <1>7, <2>2, EscapeGuarded
  <2> QED BY <1>7, <2>1, <2>2 DEF SaveThenSubmit
<1> QED BY <1>2, <1>3, <1>5, <1>6, <1>7 DEF DecideFirstLeg

LEMMA DecideSecondLegGuarded ==
  ASSUME "kill_file" \notin Faults, IInv, Guarded, DecideSecondLeg
  PROVE  Guarded'
<1>1. pc = "decide" /\ pc \in InFlight /\ ~task.unknown /\ task.label = "open_b" /\ UNCHANGED rows
  BY DEF DecideSecondLeg, Known, InFlight
<1>2. PICK before \in LivePosition : before = mem[task.pos]
  BY <1>1, HandFacts DEF Working
<1>3. PICK object : object = [before EXCEPT !.b = task.got]
  OBVIOUS
<1>4. object \in LivePosition /\ object.state = mem[task.pos].state
  BY <1>1, <1>2, <1>3, DecideFacts DEF LivePosition
<1>5. CASE Compensate(task.pos, mem[task.pos])
  BY <1>1, <1>2, <1>5, NextOrderGuarded DEF Compensate
<1>6. CASE Compensate(task.pos, object)
  BY <1>1, <1>4, <1>6, NextOrderGuarded DEF Compensate
<1>7. CASE Finish(task.pos, [object EXCEPT !.state = "OPEN"]) /\ UNCHANGED switch
  BY <1>1, <1>4, <1>7, FinishGuarded DEF Over
<1> QED BY <1>2, <1>3, <1>5, <1>6, <1>7 DEF DecideSecondLeg

LEMMA DecideRestGuarded ==
  ASSUME "kill_file" \notin Faults, IInv, Guarded, DecideUnwind \/ DecideClose
  PROVE  Guarded'
<1>1. pc = "decide" /\ pc \in InFlight /\ ~task.unknown /\ UNCHANGED rows
  BY DEF DecideUnwind, DecideClose, Known, InFlight
<1>2. PICK object \in LivePosition : object = mem[task.pos]
  BY <1>1, HandFacts DEF Working
<1>3. CASE Manual(task.pos, mem[task.pos])
  BY <1>1, <1>2, <1>3, FinishGuarded DEF Manual, Over
<1>4. CASE Fail(task.pos, mem[task.pos])
  BY <1>1, <1>2, <1>4, FinishGuarded DEF Fail, Over
<1>5. CASE Finish(task.pos, [mem[task.pos] EXCEPT !.state = "CLOSED"]) /\ UNCHANGED switch
  BY <1>1, <1>2, <1>5, FinishGuarded DEF Over
<1>6. CASE /\ \E label \in {"unwind_b", "close_b"} : Submit(task.pos, label, mem[task.pos].b)
           /\ UNCHANGED <<ledger, mem, switch>>
  BY <1>1, <1>2, <1>6, NextOrderGuarded
<1> QED BY <1>3, <1>4, <1>5, <1>6 DEF DecideUnwind, DecideClose

LEMMA CloseNextGuarded ==
  ASSUME "kill_file" \notin Faults, IInv, Guarded, CloseNext
  PROVE  Guarded'
<1>1. pc = "close" /\ todo # {} /\ todo \subseteq Position
  BY TypesSplit DEF CloseNext, IInv, LoopTypes
<1>2. PICK p \in Position : p = Min(todo)
  BY <1>1, LeastPosition
<1>3. CASE UNCHANGED <<durable, venue, switch, mem, pc, task>>
  BY <1>1, <1>3, GuardRests DEF durable, Trading, Working, InFlight
<1>4. CASE StartClose(p)
  <2>1. PICK before \in LivePosition : before = mem[p] /\ before.state = "OPEN"
    BY <1>4, SlotFacts DEF StartClose, IInv, TypeOK, ExecutorTypeOK
  <2>2. PICK object : object = [before EXCEPT !.state = "CLOSING"]
    OBVIOUS
  <2>3. object \in LivePosition /\ object.state = "CLOSING"
    <3>1. "CLOSING" \in State
      BY DEF State
    <3> QED BY <2>1, <2>2, <3>1, Restated
  <2>4. ledger[p].state = "OPEN"
    BY <1>1, <2>1 DEF IInv, Sound, HeldAt
  <2>5. ~Unknown(p)
    BY <2>4 DEF Guarded, UnknownSeen, Active, Unsettled
  <2>6. SaveThenSubmit(p, object, "close_a", before.a) /\ UNCHANGED <<rows, switch>>
    BY <1>4, <2>1, <2>2 DEF StartClose
  <2>7. task.pos \in {0, p} /\ pc \in Trading
    BY <1>1, AtEase DEF NoTask, Trading
  <2>8. CASE Stored(p, object) /\ Submit(p, "close_a", before.a)
    BY <2>3, <2>5, <2>6, <2>7, <2>8, OrderGuarded DEF Submit
  <2>9. CASE UNCHANGED ledger /\ Escape(p, "idle", object)
    BY <1>1, <2>6, <2>9, EscapeGuarded
  <2> QED BY <2>6, <2>8, <2>9 DEF SaveThenSubmit
<1> QED BY <1>2, <1>3, <1>4 DEF CloseNext

LEMMA OpenNextGuarded ==
  ASSUME "kill_file" \notin Faults, IInv, Guarded, OpenNext
  PROVE  Guarded'
<1>1. PICK k \in Key : CreatePosition(NextPosition, k)
  BY TypesSplit DEF OpenNext, IInv, LoopTypes
<1>2. PICK p \in Position : p = NextPosition /\ ledger[p] = NoPosition
  <2>1. {q \in Position : ledger[q] = NoPosition} # {}
    BY DEF OpenNext
  <2> QED BY <2>1, LeastPosition DEF NextPosition
<1>3. pc = "open" /\ task.pos \in {0, p} /\ pc \in Trading /\ UNCHANGED <<rows, switch>>
  BY <1>1, AtEase DEF OpenNext, CreatePosition, NoTask, Trading
<1>4. CASE UNCHANGED <<ledger, mem, task>> /\ pc' = "idle"
  BY <1>3, <1>4, GuardRests DEF Trading, Working, InFlight
<1>5. ASSUME NEW object, object = [state |-> "OPENING", key |-> k, a |-> 0, b |-> 0],
             Stored(p, object), pc' = "prepare", task'.pos = p
      PROVE  Guarded'
  <2>1. object \in LivePosition /\ object.state = "OPENING"
    BY <1>5, ExecutorAssumption DEF LivePosition, State
  <2>2. ~Unknown(p)
    BY <1>2 DEF IInv, Sound, Blank, Unsent, Unknown
  <2> QED BY <1>3, <1>5, <2>1, <2>2, OrderGuarded
<1> QED BY <1>1, <1>2, <1>4, <1>5 DEF CreatePosition

LEMMA StartupGuarded ==
  ASSUME "kill_file" \notin Faults, IInv, Guarded, Startup
  PROVE  Guarded'
<1>1. pc = "boot" /\ UNCHANGED <<ledger, rows>>
  BY DEF Startup, durable
<1>2. CASE Reconciled /\ Idle /\ UNCHANGED switch
  <2>1. SwitchLasts' /\ ManualKeepsSwitch'
    BY <1>1, <1>2 DEF Guarded, SwitchLasts, ManualKeepsSwitch, switch, Idle
  <2>2. ASSUME NEW p \in Position PROVE UnknownSeen(p)'
    BY <1>1, <1>2 DEF Guarded, UnknownSeen, Reconciled, Unknown
  <2> QED BY <2>1, <2>2 DEF Guarded
<1>3. CASE pc' = "halted" /\ Trip
  <2>1. killFile'
    BY <1>1, <1>3, TripLasts
  <2>2. SwitchLasts' /\ ManualKeepsSwitch'
    BY <1>3, <2>1 DEF SwitchLasts, ManualKeepsSwitch
  <2>3. ASSUME NEW p \in Position PROVE UnknownSeen(p)'
    BY <1>1, <1>3, <2>1 DEF Guarded, UnknownSeen, Unknown, InFlight
  <2> QED BY <2>2, <2>3 DEF Guarded
<1> QED BY <1>2, <1>3 DEF Startup

(* A process that dies or starts over, and the operator.                    *)
LEMMA StoppedGuarded ==
  ASSUME "kill_file" \notin Faults, IInv, Guarded,
         Restart \/ Crash \/ OperatorClear \/ (\E p \in Position : OperatorResolve(p))
  PROVE  Guarded'
<1>1. CASE Restart \/ Crash
  <2>1. UNCHANGED <<ledger, rows, killFile>> /\ tripped' = FALSE /\ pc' \in {"boot", "down"}
    BY <1>1 DEF Restart, Crash, durable
  <2>2. SwitchLasts' /\ ManualKeepsSwitch'
    BY <2>1 DEF Guarded, SwitchLasts, ManualKeepsSwitch
  <2>3. ASSUME NEW p \in Position PROVE UnknownSeen(p)'
    BY <2>1 DEF Guarded, UnknownSeen, Unknown, InFlight
  <2> QED BY <2>2, <2>3 DEF Guarded
<1>2. CASE OperatorClear
  <2>1. /\ UNCHANGED <<ledger, rows, tripped, pc, task>> /\ Reconciled /\ pc \in Stopped
    BY <1>2 DEF OperatorClear, durable
  <2>2. \A p \in Position : ledger[p].state \notin Unsettled
    BY <2>1 DEF Reconciled
  <2>3. SwitchLasts'
    BY <2>1 DEF Guarded, SwitchLasts, Stopped
  <2>4. ManualKeepsSwitch'
    BY <2>1, <2>2 DEF ManualKeepsSwitch, Unsettled
  <2>5. ASSUME NEW p \in Position PROVE UnknownSeen(p)'
    BY <2>1, <2>2 DEF Guarded, UnknownSeen, Unknown
  <2> QED BY <2>3, <2>4, <2>5 DEF Guarded
<1>3. ASSUME NEW p \in Position, OperatorResolve(p) PROVE Guarded'
  <2>1. /\ UNCHANGED <<rows, tripped, killFile, pc, task>>
        /\ \A q \in Position : q # p => ledger'[q] = ledger[q]
    BY <1>3 DEF OperatorResolve, switch, IInv, TypeOK, ExecutorTypeOK
  <2>2. ledger'[p].state = "FAILED"
    <3>1. ledger[p] \in LivePosition
      BY <1>3, SlotFacts DEF OperatorResolve, Active, IInv, TypeOK, ExecutorTypeOK
    <3> QED BY <1>3, <3>1 DEF OperatorResolve, LivePosition, IInv, TypeOK, ExecutorTypeOK
  <2>3. SwitchLasts'
    BY <2>1 DEF Guarded, SwitchLasts
  <2>4. ManualKeepsSwitch'
    BY <2>1, <2>2 DEF Guarded, ManualKeepsSwitch
  <2>5. ASSUME NEW q \in Position PROVE UnknownSeen(q)'
    BY <2>1, <2>2 DEF Guarded, UnknownSeen, Unknown, Active
  <2> QED BY <2>3, <2>4, <2>5 DEF Guarded
<1> QED BY <1>1, <1>2, <1>3

LEMMA GuardKept ==
  ASSUME "kill_file" \notin Faults
  PROVE  IInv /\ Guarded /\ [Next]_vars => Guarded'
<1> SUFFICES ASSUME IInv, Guarded, [Next]_vars PROVE Guarded'
  OBVIOUS
<1>1. CASE Execute
  BY <1>1, PrepareGuarded, AcceptGuarded, RefuseGuarded, AbandonGuarded, SendGuarded,
     RecordGuarded, DecideUnknownGuarded, DecideFirstLegGuarded, DecideSecondLegGuarded,
     DecideRestGuarded
  DEF Execute, ExecutorStep, Decide
<1>2. CASE BeginCycle \/ Check \/ RecordEquity \/ EnterOpen \/ EndCycle \/ Returned
  <2>1. UNCHANGED <<ledger, rows>> /\ (Trip \/ UNCHANGED switch)
    BY <1>2 DEF BeginCycle, Check, RecordEquity, EnterOpen, EndCycle, Returned, ReconcileFails,
                durable
  <2>2. pc \in {"idle", "check", "equity", "close", "open", "returned"}
    BY <1>2 DEF BeginCycle, Check, RecordEquity, EnterOpen, EndCycle, Returned
  <2>3. pc' \in {"idle", "check", "equity", "close", "open"}
    BY <1>2, <2>2 DEF BeginCycle, Check, RecordEquity, EnterOpen, EndCycle, Returned, Idle
  <2> QED BY <2>1, <2>2, <2>3, GuardRests DEF Trading, Working, InFlight
<1>3. CASE CloseNext \/ OpenNext \/ Startup
  BY <1>3, CloseNextGuarded, OpenNextGuarded, StartupGuarded
<1>4. CASE Restart \/ Crash \/ OperatorClear \/ (\E p \in Position : OperatorResolve(p))
  BY <1>4, StoppedGuarded
<1>5. CASE \/ OperatorPause /\ UNCHANGED <<durable, venue, mem, pc, task, runner>>
           \/ \E p \in Position, leg \in Leg : ForcedReduction(p, leg) /\ UNCHANGED runner
           \/ UNCHANGED vars
  <2>1. /\ UNCHANGED <<ledger, rows, tripped, pc, task>>
        /\ killFile => killFile'
    BY <1>5 DEF OperatorPause, ForcedReduction, vars, durable, switch
  <2>2. SwitchLasts' /\ ManualKeepsSwitch'
    BY <2>1 DEF Guarded, SwitchLasts, ManualKeepsSwitch
  <2>3. ASSUME NEW q \in Position PROVE UnknownSeen(q)'
    BY <2>1 DEF Guarded, UnknownSeen, Unknown
  <2> QED BY <2>2, <2>3 DEF Guarded
<1> QED BY <1>1, <1>2, <1>3, <1>4, <1>5 DEF Next, RunnerStep, Environment

LEMMA GuardInvariance ==
  ASSUME "kill_file" \notin Faults
  PROVE  Spec => []Guarded
<1>1. Init => Guarded
  BY GuardedInit
<1>2. IInv /\ Guarded /\ [Next]_vars => Guarded'
  BY GuardKept
<1> QED BY <1>1, <1>2, Invariance, PTL DEF Spec

(* While the kill-switch file can be written, a position waiting for the    *)
(* operator keeps the durable switch on, over crashes and restarts          *)
(* (risk/live.py:trip).                                                     *)
THEOREM ManualIsGuarded ==
  ASSUME "kill_file" \notin Faults
  PROVE  Spec => []ManualKeepsSwitch
<1>1. Guarded => ManualKeepsSwitch
  BY DEF Guarded
<1> QED BY <1>1, GuardInvariance, PTL

LEMMA StuckPauses ==
  ASSUME Guarded, NEW p \in Position, Stuck(p), pc \notin {"down", "boot", "decide"}
  PROVE  paused
BY DEF Guarded, UnknownSeen, ManualKeepsSwitch, Stuck, paused

(* A stuck position pauses every entry: under the same condition nothing is *)
(* created and no opening order recorded while one is there.                *)
THEOREM StuckBlocksEntries ==
  ASSUME "kill_file" \notin Faults
  PROVE  Spec => NoEntryWhileStuck
<1> DEFINE Entry ==
      (\E p \in Position : Stuck(p)) =>
        \A q \in Position :
          /\ ledger[q] = NoPosition => ledger'[q] = NoPosition
          /\ \A l \in Opening : rows[q][l] = "none" => rows'[q][l] = "none"
<1>1. IInv /\ Guarded /\ [Next]_vars => [Entry]_vars
  <2> SUFFICES ASSUME IInv, Guarded, [Next]_vars, NEW p \in Position, Stuck(p),
                      NEW q \in Position
      PROVE  /\ ledger[q] = NoPosition => ledger'[q] = NoPosition
             /\ \A l \in Opening : rows[q][l] = "none" => rows'[q][l] = "none"
    OBVIOUS
  <2>1. ~OpenNext
    <3>1. OpenNext => pc = "open" /\ ~paused
      BY DEF OpenNext, CreatePosition
    <3> QED BY <3>1, StuckPauses
  <2>2. ledger[q] = NoPosition => ledger'[q] = NoPosition
    <3>1. CASE Execute
      <4>1. pc \in InFlight \cup {"prepare"}
        BY <3>1 DEF Execute, ExecutorStep, Prepare, Accept, Refuse, Abandon, Send, Record, Decide,
                    DecideUnknown, DecideFirstLeg, DecideSecondLeg, DecideUnwind, DecideClose,
                    Known, InFlight
      <4>2. PICK t \in Position : t = task.pos /\ ledger[t] # NoPosition
        BY <4>1, HandFacts DEF Working
      <4>3. \E object : ledger' = ledger \/ ledger' = [ledger EXCEPT ![t] = object]
        BY <3>1, <4>2 DEF Execute, ExecutorStep, Prepare, Accept, Refuse, Abandon, Send, Record,
           Decide, DecideUnknown, DecideFirstLeg, DecideSecondLeg, DecideUnwind, DecideClose,
           Fail, Manual, Compensate, Finish, SaveThenSubmit, Escape, Stored, durable
      <4> QED BY <4>2, <4>3 DEF IInv, TypeOK, ExecutorTypeOK
    <3>2. CASE CloseNext
      <4>1. PICK t \in Position : t = Min(todo)
        BY TypesSplit, LeastPosition, <3>2 DEF CloseNext, IInv, LoopTypes
      <4>2. CASE StartClose(t)
        <5>1. ledger[t] # NoPosition
          <6>1. mem[t].state = "OPEN" /\ pc = "close"
            BY <3>2, <4>2 DEF StartClose, CloseNext
          <6>2. ledger[t].state = "OPEN"
            BY <6>1 DEF IInv, Sound, HeldAt
          <6> QED BY <6>2 DEF NoPosition
        <5>2. \E object : ledger' = ledger \/ ledger' = [ledger EXCEPT ![t] = object]
          BY <4>2 DEF StartClose, SaveThenSubmit, Stored
        <5> QED BY <5>1, <5>2 DEF IInv, TypeOK, ExecutorTypeOK
      <4> QED BY <3>2, <4>1, <4>2 DEF CloseNext, durable
    <3>3. CASE \E r \in Position : OperatorResolve(r)
      <4>1. PICK r \in Position : OperatorResolve(r)
        BY <3>3
      <4>2. ledger[r] # NoPosition
        BY <4>1 DEF OperatorResolve, Active, NoPosition
      <4> QED BY <4>1, <4>2 DEF OperatorResolve, IInv, TypeOK, ExecutorTypeOK
    <3>4. CASE UNCHANGED ledger
      BY <3>4
    <3>5. \/ Execute \/ CloseNext \/ (\E r \in Position : OperatorResolve(r))
          \/ UNCHANGED ledger
      BY <2>1 DEF Next, RunnerStep, Environment, Restart, Startup, BeginCycle, Check,
         RecordEquity, EnterOpen, EndCycle, Returned, Crash, OperatorClear, ForcedReduction,
         durable, vars
    <3> QED BY <3>1, <3>2, <3>3, <3>4, <3>5
  <2>3. ASSUME NEW l \in Opening, rows[q][l] = "none" PROVE rows'[q][l] = "none"
    <3>1. CASE Accept
      <4>1. task.label \notin Opening
        BY <3>1, StuckPauses DEF Accept
      <4> QED BY <2>3, <3>1, <4>1 DEF Accept, IInv, TypeOK, ExecutorTypeOK
    <3>2. CASE Record
      <4>1. rows[task.pos][task.label] = "PENDING"
        BY <3>2 DEF Record, IInv, InHand, Sending
      <4>2. PICK s : rows' = rows \/ rows' = [rows EXCEPT ![task.pos][task.label] = s]
        BY <3>2 DEF Record
      <4>3. CASE rows' = [rows EXCEPT ![task.pos][task.label] = s]
        BY <2>3, <4>1, <4>3 DEF IInv, TypeOK, ExecutorTypeOK
      <4> QED BY <2>3, <4>2, <4>3
    <3>3. CASE UNCHANGED rows
      BY <2>3, <3>3
    <3>4. Accept \/ Record \/ UNCHANGED rows
      BY OrderActions DEF Send, durable
    <3> QED BY <3>1, <3>2, <3>3, <3>4
  <2> QED BY <2>2, <2>3
<1>2. Spec => []Guarded
  BY GuardInvariance
<1> QED BY <1>1, <1>2, Invariance, PTL DEF Spec, NoEntryWhileStuck
-----------------------------------------------------------------------------
(* The limits on open positions, as long as the database does not fail.     *)

Kept(p) == pc \in Trading /\ ledger[p].state = "OPEN" => mem[p].state = "OPEN"

Indexed(p) ==
  pc \in Trading \cup {"boot"} /\ ledger[p].state = "OPEN" /\ task.pos # p =>
    ledger[p].key \in indexed

(* The position in hand has a key of its own, and room to be opened.        *)
Alone ==
  pc \in Working =>
    \A q \in Open : task.pos # q => ledger[q].key # mem[task.pos].key

Room == pc \in Working /\ mem[task.pos].state = "OPENING" => Cardinality(Open) < MaxOpen

(* Inductive next to IInv. *)
Limited == Alone /\ Room /\ PositionLimits /\ \A p \in Position : Kept(p) /\ Indexed(p)

LEMMA Counting ==
  /\ Cardinality(Open) \in Nat
  /\ \A S : S \subseteq Open => Cardinality(S) \in Nat /\ Cardinality(S) =< Cardinality(Open)
  /\ \A p \in Position : p \notin Open => Cardinality(Open \cup {p}) = Cardinality(Open) + 1
<1>1. IsFiniteSet(Position)
  BY ExecutorAssumption, FS_Interval DEF Position
<1>2. IsFiniteSet(Open)
  BY <1>1, FS_Subset DEF Open
<1> QED BY <1>2, FS_Subset, FS_CardinalityType, FS_AddElement

LEMMA LimitInit == Init => Limited
<1> SUFFICES ASSUME Init PROVE Limited
  OBVIOUS
<1>1. pc = "down" /\ \A p \in Position : ledger[p].state = "none"
  BY DEF Init, ExecutorInit, NoPosition
<1>2. Open = {}
  BY <1>1 DEF Open
<1>3. Cardinality(Open) =< MaxOpen
  BY <1>2, FS_EmptySet, RunnerAssumption
<1> QED BY <1>1, <1>2, <1>3
  DEF Limited, Alone, Room, PositionLimits, Kept, Indexed, Trading, Working, InFlight

(* Nothing is in hand afterwards and the ledger is as it was.               *)
LEMMA LimitRests ==
  ASSUME Limited, UNCHANGED ledger, pc' \notin Working,
         \A p \in Position : ledger[p].state = "OPEN" /\ pc' \in Trading => mem'[p].state = "OPEN",
         \A p \in Position :
           ledger[p].state = "OPEN" /\ pc' \in Trading \cup {"boot"} => ledger[p].key \in indexed'
  PROVE  Limited'
<1>1. Open' = Open
  BY DEF Open
<1>2. PositionLimits'
  BY <1>1 DEF Limited, PositionLimits
<1>3. Alone' /\ Room'
  BY DEF Alone, Room
<1> QED BY <1>2, <1>3 DEF Limited, Kept, Indexed

(* The position in hand stays in hand, with its key.                        *)
LEMMA LimitFlies ==
  ASSUME IInv, Limited, pc \in InFlight \cup {"prepare"}, pc' \in InFlight,
         task'.pos = task.pos, UNCHANGED indexed,
         NEW p \in Position, p = task.pos,
         \A q \in Position : q # p => ledger'[q] = ledger[q] /\ mem'[q] = mem[q],
         ledger'[p].state # "OPEN", mem'[p].state = mem[p].state, mem'[p].key = mem[p].key
  PROVE  Limited'
<1>1. ledger[p].state # "OPEN"
  BY HandFacts DEF Working
<1>2. Open' = Open /\ \A q \in Open : q # p
  BY <1>1 DEF Open
<1>3. \A q \in Open : ledger'[q] = ledger[q]
  BY <1>2 DEF Open
<1>4. PositionLimits'
  BY <1>2, <1>3 DEF Limited, PositionLimits
<1>5. Alone' /\ Room'
  BY <1>2, <1>3 DEF Limited, Alone, Room, Working
<1>6. ASSUME NEW q \in Position PROVE Kept(q)' /\ Indexed(q)'
  BY <1>1 DEF Limited, Kept, Indexed, Trading, Working
<1> QED BY <1>4, <1>5, <1>6 DEF Limited

(* A call that ends: an opened position is one more.                        *)
LEMMA LimitEnds ==
  ASSUME IInv, Limited, pc \in InFlight \cup {"prepare"}, UNCHANGED <<task, indexed>>,
         NEW object \in LivePosition, object.state \in Over, object.key = mem[task.pos].key,
         object.state = "OPEN" => mem[task.pos].state = "OPENING",
         Stored(task.pos, object), Remembered(task.pos, object), pc' = "returned"
  PROVE  Limited'
<1>1. PICK p \in Position : p = task.pos /\ ledger[p].state # "OPEN"
  BY HandFacts DEF Working
<1>2. /\ ledger'[p] = object /\ mem'[p] = object
      /\ \A q \in Position : q # p => ledger'[q] = ledger[q] /\ mem'[q] = mem[q]
  BY <1>1 DEF Stored, Remembered, IInv, TypeOK, ExecutorTypeOK
<1>3. p \notin Open /\ Open' = (IF object.state = "OPEN" THEN Open \cup {p} ELSE Open)
  BY <1>1, <1>2 DEF Open
<1>4. Cardinality(Open)' =< MaxOpen
  <2>1. CASE object.state = "OPEN"
    <3>1. Cardinality(Open) < MaxOpen
      BY <1>1, <2>1 DEF Limited, Room, Working
    <3> QED BY <1>3, <2>1, <3>1, Counting, RunnerAssumption
  <2>2. CASE object.state # "OPEN"
    BY <1>3, <2>2 DEF Limited, PositionLimits
  <2> QED BY <2>1, <2>2
<1>5. \A q \in Open : ledger'[q] = ledger[q] /\ ledger[q].key # object.key /\ q # p
  BY <1>1, <1>2, <1>3 DEF Limited, Alone, Working, Open
<1>6. PositionLimits'
  <2>1. ASSUME NEW q \in Open', NEW r \in Open', ledger'[q].key = ledger'[r].key PROVE q = r
    BY <1>2, <1>3, <1>5, <2>1 DEF Limited, PositionLimits
  <2> QED BY <1>4, <2>1 DEF PositionLimits
<1>7. Alone' /\ Room'
  BY <1>1, <1>2, <1>3, <1>5 DEF Alone, Room, Over
<1>8. ASSUME NEW q \in Position PROVE Kept(q)' /\ Indexed(q)'
  BY <1>1, <1>2 DEF Limited, Kept, Indexed, Trading, Working
<1> QED BY <1>6, <1>7, <1>8 DEF Limited

LEMMA EndLimited ==
  ASSUME "database" \notin Faults, IInv, Limited, pc \in InFlight \cup {"prepare"},
         UNCHANGED indexed, NEW object \in LivePosition, object.key = mem[task.pos].key,
         NEW s \in Over, s = "OPEN" => mem[task.pos].state = "OPENING",
         Finish(task.pos, [object EXCEPT !.state = s])
  PROVE  Limited'
<1>1. PICK final : final = [object EXCEPT !.state = s]
  OBVIOUS
<1>2. final \in LivePosition /\ final.state = s /\ final.key = object.key
  BY <1>1 DEF LivePosition, Over, State
<1>3. /\ Stored(task.pos, final) /\ Remembered(task.pos, final)
      /\ pc' = "returned" /\ UNCHANGED task
  BY <1>1 DEF Finish
<1> QED BY <1>2, <1>3, LimitEnds

LEMMA OrderLimited ==
  ASSUME IInv, Limited, pc \in InFlight \cup {"prepare"}, UNCHANGED indexed,
         NEW object \in LivePosition, object.key = mem[task.pos].key,
         object.state = mem[task.pos].state,
         UNCHANGED ledger \/ Stored(task.pos, object), Remembered(task.pos, object),
         NEW label, NEW want, Submit(task.pos, label, want)
  PROVE  Limited'
<1>1. PICK p \in Position :
        /\ p = task.pos /\ mem[p].state \in {"OPENING", "CLOSING"}
        /\ ledger[p].state = mem[p].state
  BY HandFacts DEF Working
<1>2. /\ ledger'[p].state # "OPEN" /\ mem'[p] = object
      /\ \A q \in Position : q # p => ledger'[q] = ledger[q] /\ mem'[q] = mem[q]
  BY <1>1 DEF Stored, Remembered, IInv, TypeOK, ExecutorTypeOK
<1>3. pc' \in InFlight /\ task'.pos = task.pos
  BY DEF Submit, InFlight
<1> QED BY <1>1, <1>2, <1>3, LimitFlies

(* An entry that raises is nowhere open.                                    *)
LEMMA EscapeLimited ==
  ASSUME IInv, Limited, pc \in InFlight \cup {"prepare"}, UNCHANGED <<ledger, indexed>>,
         mem[task.pos].state = "OPENING", NEW next \in {"idle", "open"}, NEW object,
         Escape(task.pos, next, object)
  PROVE  Limited'
<1>1. PICK p \in Position : p = task.pos /\ ledger[p].state = "OPENING"
  BY HandFacts DEF Working
<1>2. \A q \in Position : q # p => mem'[q] = mem[q]
  BY <1>1 DEF Escape, Remembered, IInv, TypeOK, ExecutorTypeOK
<1>3. pc' \in {"idle", "open"} /\ pc \in Trading
  BY DEF Escape, Trading, Working
<1>4. ASSUME NEW q \in Position, ledger[q].state = "OPEN"
      PROVE  mem'[q].state = "OPEN" /\ ledger[q].key \in indexed'
  <2>1. q # p
    BY <1>1, <1>4
  <2> QED BY <1>1, <1>2, <1>3, <1>4, <2>1 DEF Limited, Kept, Indexed
<1> QED BY <1>3, <1>4, LimitRests DEF Working, InFlight

LEMMA PrepareLimited ==
  ASSUME "database" \notin Faults, IInv, Limited, Prepare, UNCHANGED indexed
  PROVE  Limited'
<1>1. PICK object \in LivePosition : object = mem[task.pos]
  BY HandFacts DEF Prepare, Working
<1>2. pc = "prepare" /\ object.state = "OPENING"
  BY <1>1 DEF Prepare, IInv, InHand, Preparing
<1>3. CASE Fail(task.pos, mem[task.pos])
  BY <1>1, <1>2, <1>3, EndLimited DEF Fail, Over
<1>4. CASE Submit(task.pos, "open_a", Quantity) /\ UNCHANGED <<ledger, mem, switch>>
  <2>1. Remembered(task.pos, object)
    BY <1>1, <1>4 DEF Remembered, IInv, TypeOK, ExecutorTypeOK
  <2> QED BY <1>1, <1>2, <1>4, <2>1, OrderLimited
<1>5. CASE Escape(task.pos, "idle", mem[task.pos]) /\ UNCHANGED <<ledger, switch>>
  BY <1>1, <1>2, <1>5, EscapeLimited
<1> QED BY <1>3, <1>4, <1>5 DEF Prepare

LEMMA RefuseLimited ==
  ASSUME "database" \notin Faults, IInv, Limited, Refuse, UNCHANGED indexed
  PROVE  Limited'
<1>1. PICK object \in LivePosition : object = mem[task.pos]
  BY HandFacts DEF Refuse, Working, InFlight
<1>2. pc = "submit" /\ pc \in InFlight
  BY DEF Refuse, InFlight
<1>3. CASE Fail(task.pos, mem[task.pos])
  BY <1>1, <1>2, <1>3, EndLimited DEF Fail, Over
<1>4. CASE Compensate(task.pos, mem[task.pos])
  BY <1>1, <1>2, <1>4, OrderLimited DEF Compensate
<1>5. CASE Manual(task.pos, mem[task.pos])
  BY <1>1, <1>2, <1>5, EndLimited DEF Manual, Over
<1> QED BY <1>3, <1>4, <1>5 DEF Refuse

LEMMA AbandonLimited ==
  ASSUME IInv, Limited, Abandon, UNCHANGED indexed
  PROVE  Limited'
<1>1. /\ pc = "submit" /\ pc \in InFlight /\ UNCHANGED ledger
      /\ task.label \notin Closing
      /\ \E next \in {"idle", "open"} : Escape(task.pos, next, mem[task.pos])
  BY DEF Abandon, InFlight, durable, Opening, Closing
<1>2. mem[task.pos].state = "OPENING"
  BY <1>1 DEF IInv, InHand, Flying
<1> QED BY <1>1, <1>2, EscapeLimited

(* The order goes to the venue and comes back.                              *)
LEMMA VenueLimited ==
  ASSUME IInv, Limited, Accept \/ Send \/ Record, UNCHANGED indexed
  PROVE  Limited'
<1>1. pc \in InFlight /\ pc' \in InFlight /\ UNCHANGED <<ledger, mem>>
  BY DEF Accept, Send, Record, InFlight, durable
<1>2. PICK p \in Position : p = task.pos /\ ledger[p].state # "OPEN" /\ task \in Task
  BY <1>1, HandFacts DEF Working
<1>3. task'.pos = task.pos
  BY <1>2 DEF Accept, Send, Record, Answered, Task
<1> QED BY <1>1, <1>2, <1>3, LimitFlies

LEMMA DecideUnknownLimited ==
  ASSUME "database" \notin Faults, IInv, Limited, DecideUnknown, UNCHANGED indexed
  PROVE  Limited'
<1>1. pc = "decide" /\ pc \in InFlight
  BY DEF DecideUnknown, InFlight
<1>2. PICK object \in LivePosition : object = mem[task.pos]
  BY <1>1, HandFacts DEF Working
<1> QED BY <1>1, <1>2, EndLimited DEF DecideUnknown, Manual, Over

LEMMA DecideFirstLegLimited ==
  ASSUME "database" \notin Faults, IInv, Limited, DecideFirstLeg, UNCHANGED indexed
  PROVE  Limited'
<1>1. pc = "decide" /\ pc \in InFlight
  BY DEF DecideFirstLeg, Known, InFlight
<1>2. PICK before \in LivePosition : before = mem[task.pos]
  BY <1>1, HandFacts DEF Working
<1>3. PICK object : object = [before EXCEPT !.a = task.got]
  OBVIOUS
<1>4. /\ object \in LivePosition /\ object.state = mem[task.pos].state
      /\ object.key = mem[task.pos].key
  BY <1>1, <1>2, <1>3, DecideFacts DEF LivePosition
<1>5. CASE Fail(task.pos, mem[task.pos])
  BY <1>1, <1>2, <1>5, EndLimited DEF Fail, Over
<1>6. CASE Manual(task.pos, object)
  BY <1>1, <1>4, <1>6, EndLimited DEF Manual, Over
<1>7. CASE SaveThenSubmit(task.pos, object, "open_b", task.got) /\ UNCHANGED switch
  <2>1. /\ Stored(task.pos, object) /\ Remembered(task.pos, object)
        /\ Submit(task.pos, "open_b", task.got)
    BY <1>7 DEF SaveThenSubmit
  <2> QED BY <1>1, <1>4, <2>1, OrderLimited
<1> QED BY <1>2, <1>3, <1>5, <1>6, <1>7 DEF DecideFirstLeg

LEMMA DecideSecondLegLimited ==
  ASSUME "database" \notin Faults, IInv, Limited, DecideSecondLeg, UNCHANGED indexed
  PROVE  Limited'
<1>1. pc = "decide" /\ pc \in InFlight /\ task.label = "open_b"
  BY DEF DecideSecondLeg, Known, InFlight
<1>2. PICK before \in LivePosition : before = mem[task.pos] /\ before.state = "OPENING"
  BY <1>1, DecideFacts DEF Closing
<1>3. PICK object : object = [before EXCEPT !.b = task.got]
  OBVIOUS
<1>4. /\ object \in LivePosition /\ object.state = mem[task.pos].state
      /\ object.key = mem[task.pos].key
  BY <1>1, <1>2, <1>3, DecideFacts DEF LivePosition
<1>5. CASE Compensate(task.pos, mem[task.pos])
  BY <1>1, <1>2, <1>5, OrderLimited DEF Compensate
<1>6. CASE Compensate(task.pos, object)
  BY <1>1, <1>4, <1>6, OrderLimited DEF Compensate
<1>7. CASE Finish(task.pos, [object EXCEPT !.state = "OPEN"])
  BY <1>1, <1>2, <1>4, <1>7, EndLimited DEF Over
<1> QED BY <1>2, <1>3, <1>5, <1>6, <1>7 DEF DecideSecondLeg

LEMMA DecideRestLimited ==
  ASSUME "database" \notin Faults, IInv, Limited, DecideUnwind \/ DecideClose, UNCHANGED indexed
  PROVE  Limited'
<1>1. pc = "decide" /\ pc \in InFlight
  BY DEF DecideUnwind, DecideClose, Known, InFlight
<1>2. PICK object \in LivePosition : object = mem[task.pos]
  BY <1>1, HandFacts DEF Working
<1>3. CASE Manual(task.pos, mem[task.pos])
  BY <1>1, <1>2, <1>3, EndLimited DEF Manual, Over
<1>4. CASE Fail(task.pos, mem[task.pos])
  BY <1>1, <1>2, <1>4, EndLimited DEF Fail, Over
<1>5. CASE Finish(task.pos, [mem[task.pos] EXCEPT !.state = "CLOSED"])
  BY <1>1, <1>2, <1>5, EndLimited DEF Over
<1>6. CASE /\ \E label \in {"unwind_b", "close_b"} : Submit(task.pos, label, mem[task.pos].b)
           /\ UNCHANGED <<ledger, mem, switch>>
  <2>1. Remembered(task.pos, object)
    BY <1>2, <1>6 DEF Remembered, IInv, TypeOK, ExecutorTypeOK
  <2> QED BY <1>1, <1>2, <1>6, <2>1, OrderLimited
<1> QED BY <1>3, <1>4, <1>5, <1>6 DEF DecideUnwind, DecideClose

(* The runner's index follows the position the executor returned.           *)
LEMMA ReturnedLimited ==
  ASSUME IInv, Limited, Returned
  PROVE  Limited'
<1>1. pc = "returned" /\ pc' \in {"open", "close", "idle"} /\ UNCHANGED <<ledger, mem>>
  BY DEF Returned, Idle, durable
<1>2. PICK p \in Position : p = task.pos /\ ledger[p] = mem[p] /\ mem[p].state \in Over
  BY <1>1, HandFacts DEF Working, IInv, InHand, Returning
<1>3. ASSUME NEW q \in Position, ledger[q].state = "OPEN"
      PROVE  mem'[q].state = "OPEN" /\ ledger[q].key \in indexed'
  <2>1. mem'[q].state = "OPEN"
    BY <1>1, <1>3 DEF Limited, Kept, Trading, Working
  <2>2. CASE q = p
    BY <1>2, <1>3, <2>1, <2>2 DEF Returned
  <2>3. CASE q # p
    <3>1. ledger[q].key \in indexed
      BY <1>1, <1>2, <1>3, <2>3 DEF Limited, Indexed, Trading, Working
    <3>2. ledger[q].key # mem[p].key
      BY <1>1, <1>2, <1>3, <2>3 DEF Limited, Alone, Working, Open
    <3> QED BY <1>2, <2>1, <3>1, <3>2 DEF Returned
  <2> QED BY <2>1, <2>2, <2>3
<1> QED BY <1>1, <1>3, LimitRests DEF Working, InFlight

(* What is closed is one less, and had its key for itself.                  *)
LEMMA CloseNextLimited ==
  ASSUME "database" \notin Faults, IInv, Limited, CloseNext
  PROVE  Limited'
<1>1. pc = "close" /\ todo # {} /\ todo \subseteq Position /\ UNCHANGED indexed
  BY TypesSplit DEF CloseNext, IInv, LoopTypes
<1>2. PICK p \in Position : p = Min(todo)
  BY <1>1, LeastPosition
<1>3. CASE UNCHANGED <<durable, venue, switch, mem, pc, task>>
  <2>1. UNCHANGED <<ledger, mem, task>> /\ pc' = "close"
    BY <1>1, <1>3 DEF durable
  <2>2. \A q \in Position : task.pos # q
    BY <1>1, AtEase DEF NoTask, Position
  <2> QED BY <1>1, <2>1, <2>2, LimitRests DEF Limited, Kept, Indexed, Trading, Working, InFlight
<1>4. CASE StartClose(p)
  <2>1. PICK before \in LivePosition : before = mem[p] /\ before.state = "OPEN"
    BY <1>4, SlotFacts DEF StartClose, IInv, TypeOK, ExecutorTypeOK
  <2>2. PICK object : object = [before EXCEPT !.state = "CLOSING"]
    OBVIOUS
  <2>3. object.state = "CLOSING" /\ object.key = before.key
    BY <2>1, <2>2 DEF LivePosition
  <2>4. ledger[p] = before
    BY <1>1, <2>1 DEF IInv, Sound, HeldAt
  <2>5. Stored(p, object) /\ Remembered(p, object) /\ Submit(p, "close_a", before.a)
    BY <1>4, <2>1, <2>2 DEF StartClose, SaveThenSubmit
  <2>6. /\ ledger'[p] = object /\ mem'[p] = object
        /\ \A q \in Position : q # p => ledger'[q] = ledger[q] /\ mem'[q] = mem[q]
    BY <2>5 DEF Stored, Remembered, IInv, TypeOK, ExecutorTypeOK
  <2>7. pc' = "submit" /\ task'.pos = p
    BY <2>5 DEF Submit
  <2>8. p \in Open /\ Open' = Open \ {p}
    BY <2>1, <2>3, <2>4, <2>6 DEF Open
  <2>9. Cardinality(Open)' =< MaxOpen
    <3>1. Cardinality(Open \ {p}) \in Nat /\ Cardinality(Open \ {p}) =< Cardinality(Open)
      BY Counting
    <3> QED BY <2>8, <3>1, Counting, RunnerAssumption DEF Limited, PositionLimits
  <2>10. \A q \in Open : q # p => ledger'[q] = ledger[q]
    BY <2>6 DEF Open
  <2>11. PositionLimits'
    <3>1. ASSUME NEW q \in Open', NEW r \in Open', ledger'[q].key = ledger'[r].key PROVE q = r
      BY <2>8, <2>10, <3>1 DEF Limited, PositionLimits
    <3> QED BY <2>9, <3>1 DEF PositionLimits
  <2>12. Alone'
    <3>1. ASSUME NEW q \in Open, q # p PROVE ledger'[q].key # object.key
      BY <2>3, <2>4, <2>8, <2>10, <3>1 DEF Limited, PositionLimits
    <3> QED BY <2>6, <2>7, <2>8, <3>1 DEF Alone
  <2>13. Room'
    BY <2>3, <2>6, <2>7 DEF Room
  <2>14. ASSUME NEW q \in Position PROVE Kept(q)' /\ Indexed(q)'
    <3>1. CASE q = p
      BY <2>3, <2>6, <2>7, <3>1 DEF Kept, Indexed
    <3>2. CASE q # p
      <4>1. task.pos # q
        BY <1>1, AtEase DEF NoTask, Position
      <4> QED BY <1>1, <2>6, <3>2, <4>1 DEF Limited, Kept, Indexed, Trading
    <3> QED BY <3>1, <3>2
  <2> QED BY <2>11, <2>12, <2>13, <2>14 DEF Limited
<1> QED BY <1>2, <1>3, <1>4 DEF CloseNext

(* What is created has room and a key that is not indexed.                  *)
LEMMA OpenNextLimited ==
  ASSUME "database" \notin Faults, IInv, Limited, OpenNext
  PROVE  Limited'
<1>1. PICK k \in Key :
        CreatePosition(NextPosition, k) /\ k \notin indexed
  BY TypesSplit DEF OpenNext, IInv, LoopTypes
<1>2. PICK p \in Position : p = NextPosition /\ ledger[p] = NoPosition
  <2>1. {q \in Position : ledger[q] = NoPosition} # {}
    BY DEF OpenNext
  <2> QED BY <2>1, LeastPosition DEF NextPosition
<1>3. pc = "open" /\ UNCHANGED indexed /\ Cardinality(Held) < MaxOpen
  BY DEF OpenNext
<1>4. PICK object : object = [state |-> "OPENING", key |-> k, a |-> 0, b |-> 0]
  OBVIOUS
<1>5. Stored(p, object) /\ Remembered(p, object) /\ pc' = "prepare" /\ task'.pos = p
  BY <1>1, <1>2, <1>4 DEF CreatePosition
<1>6. /\ ledger'[p] = object /\ mem'[p] = object
      /\ object.state = "OPENING" /\ object.key = k
      /\ \A q \in Position : q # p => ledger'[q] = ledger[q] /\ mem'[q] = mem[q]
  BY <1>4, <1>5 DEF Stored, Remembered, IInv, TypeOK, ExecutorTypeOK
<1>7. p \notin Open /\ Open' = Open
  BY <1>2, <1>6 DEF Open, NoPosition
<1>8. \A q \in Open : q \in Position /\ ledger[q].state = "OPEN" /\ ledger'[q] = ledger[q]
  BY <1>6, <1>7 DEF Open
<1>9. PositionLimits'
  BY <1>7, <1>8 DEF Limited, PositionLimits
<1>10. \A q \in Position : task.pos # q
  BY <1>3, AtEase DEF NoTask, Position
<1>11. \A q \in Open : ledger[q].key \in indexed
  BY <1>3, <1>8, <1>10 DEF Limited, Indexed, Trading
<1>12. Alone'
  BY <1>1, <1>5, <1>6, <1>7, <1>8, <1>11 DEF Alone
<1>13. Room'
  <2>1. Open \subseteq Held
    BY <1>3 DEF Limited, Kept, Trading, Open, Held
  <2>2. Held \subseteq Open
    BY <1>3 DEF IInv, Sound, HeldAt, Open, Held
  <2>3. Open = Held
    BY <2>1, <2>2
  <2> QED BY <1>3, <1>7, <2>3 DEF Room
<1>14. ASSUME NEW q \in Position PROVE Kept(q)' /\ Indexed(q)'
  BY <1>3, <1>5, <1>6, <1>10 DEF Limited, Kept, Indexed, Trading
<1> QED BY <1>9, <1>12, <1>13, <1>14 DEF Limited

(* What is read back at a restart is what the ledger has.                   *)
LEMMA StoppedLimited ==
  ASSUME IInv, Limited, Restart \/ Startup \/ Crash \/ OperatorClear
  PROVE  Limited'
<1>1. UNCHANGED ledger /\ pc' \notin Working
  BY DEF Restart, Startup, Crash, OperatorClear, durable, Idle, Stopped, Working, InFlight
<1>2. ASSUME NEW p \in Position, ledger[p].state = "OPEN", pc' \in Trading
      PROVE  mem'[p].state = "OPEN"
  <2>1. Startup /\ pc = "boot"
    BY <1>2 DEF Restart, Startup, Crash, OperatorClear, Trading, Working, InFlight, Stopped
  <2> QED BY <1>2, <2>1 DEF Startup, IInv, Sound, Loaded, Active
<1>3. ASSUME NEW p \in Position, ledger[p].state = "OPEN", pc' \in Trading \cup {"boot"}
      PROVE  ledger[p].key \in indexed'
  <2>1. CASE Restart
    BY <1>3, <2>1 DEF Restart
  <2>2. CASE Startup
    <3>1. pc = "boot" /\ UNCHANGED indexed
      BY <2>2 DEF Startup
    <3>2. task.pos # p
      BY <3>1 DEF IInv, InHand, Busy, Working, InFlight, NoTask, Position
    <3> QED BY <1>3, <3>1, <3>2 DEF Limited, Indexed
  <2>3. CASE Crash \/ OperatorClear
    BY <1>3, <2>3 DEF Crash, OperatorClear, Trading, Working, InFlight, Stopped
  <2> QED BY <2>1, <2>2, <2>3
<1> QED BY <1>1, <1>2, <1>3, LimitRests

LEMMA ResolveLimited ==
  ASSUME IInv, Limited, NEW p \in Position, OperatorResolve(p)
  PROVE  Limited'
<1>1. pc \in Stopped /\ UNCHANGED <<mem, pc, task, indexed>>
  BY DEF OperatorResolve, runner
<1>2. ledger'[p].state = "FAILED" /\ \A q \in Position : q # p => ledger'[q] = ledger[q]
  <2>1. ledger[p] \in LivePosition
    BY SlotFacts DEF OperatorResolve, Active, IInv, TypeOK, ExecutorTypeOK
  <2> QED BY <2>1 DEF OperatorResolve, LivePosition, IInv, TypeOK, ExecutorTypeOK
<1>3. Open' \subseteq Open /\ \A q \in Open' : ledger'[q] = ledger[q]
  BY <1>2 DEF Open
<1>4. Cardinality(Open)' =< MaxOpen
  <2>1. Cardinality(Open') \in Nat /\ Cardinality(Open') =< Cardinality(Open)
    BY <1>3, Counting
  <2> QED BY <2>1, Counting, RunnerAssumption DEF Limited, PositionLimits
<1>5. PositionLimits'
  <2>1. ASSUME NEW q \in Open', NEW r \in Open', ledger'[q].key = ledger'[r].key PROVE q = r
    BY <1>3, <2>1 DEF Limited, PositionLimits
  <2> QED BY <1>4, <2>1 DEF PositionLimits
<1>6. Alone' /\ Room'
  BY <1>1 DEF Alone, Room, Stopped, Working, InFlight
<1>7. ASSUME NEW q \in Position PROVE Kept(q)' /\ Indexed(q)'
  BY <1>1 DEF Kept, Indexed, Stopped, Trading, Working, InFlight
<1> QED BY <1>5, <1>6, <1>7 DEF Limited

LEMMA LimitKept ==
  ASSUME "database" \notin Faults
  PROVE  IInv /\ Limited /\ [Next]_vars => Limited'
<1> SUFFICES ASSUME IInv, Limited, [Next]_vars PROVE Limited'
  OBVIOUS
<1>1. CASE Execute
  <2>1. ExecutorStep /\ UNCHANGED indexed
    BY <1>1 DEF Execute
  <2> QED BY <2>1, PrepareLimited, RefuseLimited, AbandonLimited, VenueLimited,
             DecideUnknownLimited, DecideFirstLegLimited, DecideSecondLegLimited,
             DecideRestLimited
          DEF ExecutorStep, Decide
<1>2. CASE BeginCycle \/ Check \/ RecordEquity \/ EnterOpen \/ EndCycle
  <2>1. UNCHANGED <<ledger, mem, indexed>>
    BY <1>2 DEF BeginCycle, Check, RecordEquity, EnterOpen, EndCycle, durable
  <2>2. pc \in {"idle", "check", "equity", "close", "open"}
    BY <1>2 DEF BeginCycle, Check, RecordEquity, EnterOpen, EndCycle
  <2>3. pc' \in {"idle", "check", "equity", "close", "open"}
    BY <1>2, <2>2 DEF BeginCycle, Check, RecordEquity, EnterOpen, EndCycle, Idle
  <2>4. \A p \in Position : task.pos # p
    BY <2>2, AtEase DEF NoTask, Position
  <2>5. pc \in Trading /\ pc' \notin Working
    BY <2>2, <2>3 DEF Trading, Working, InFlight
  <2> QED BY <2>1, <2>4, <2>5, LimitRests DEF Limited, Kept, Indexed
<1>3. CASE CloseNext \/ OpenNext \/ Returned
  BY <1>3, CloseNextLimited, OpenNextLimited, ReturnedLimited
<1>4. CASE Restart \/ Startup \/ Crash \/ OperatorClear
  BY <1>4, StoppedLimited
<1>5. CASE \E p \in Position : OperatorResolve(p)
  BY <1>5, ResolveLimited
<1>6. CASE \/ OperatorPause /\ UNCHANGED <<durable, venue, mem, pc, task, runner>>
           \/ \E p \in Position, leg \in Leg : ForcedReduction(p, leg) /\ UNCHANGED runner
           \/ UNCHANGED vars
  <2>1. UNCHANGED <<ledger, mem, pc, task, indexed>>
    BY <1>6 DEF ForcedReduction, vars, durable, runner
  <2>2. Open' = Open
    BY <2>1 DEF Open
  <2> QED BY <2>1, <2>2 DEF Limited, Alone, Room, PositionLimits, Kept, Indexed
<1> QED BY <1>1, <1>2, <1>3, <1>4, <1>5, <1>6 DEF Next, RunnerStep, Environment

LEMMA LimitInvariance ==
  ASSUME "database" \notin Faults
  PROVE  Spec => []Limited
<1>1. Init => Limited
  BY LimitInit
<1>2. IInv /\ Limited /\ [Next]_vars => Limited'
  BY LimitKept
<1> QED BY <1>1, <1>2, Invariance, PTL DEF Spec

(* As long as the database does not fail, no more positions are open than   *)
(* live_max_open_positions, and no two of one key, whatever crashes and     *)
(* restarts there are (live_runner.py:_open_positions).                     *)
THEOREM LimitsHold ==
  ASSUME "database" \notin Faults
  PROVE  Spec => []PositionLimits
<1>1. Limited => PositionLimits
  BY DEF Limited
<1> QED BY <1>1, LimitInvariance, PTL
-----------------------------------------------------------------------------
(* The runner implements PositionLedger.                                    *)

(* The order in hand works for the position the ledger has under its key.   *)
KeyKept == pc \in InFlight => mem[task.pos].key = ledger[task.pos].key

books == <<Rows, Bought, Sold, outside>>

(* What every step of the executor other than Send does: the row of the     *)
(* position in hand may move along an edge, and its key stays.              *)
Proper(object) ==
  /\ object.key = ledger[task.pos].key
  /\ \/ object.state = ledger[task.pos].state
     \/ Book!Edge(ledger[task.pos].state, object.state)

KeyGoesOn(object) == pc' \in InFlight => task'.pos = task.pos /\ mem'[task.pos].key = object.key

RowStep ==
  /\ UNCHANGED venue
  /\ \E object \in LivePosition :
       /\ Proper(object)
       /\ UNCHANGED ledger \/ Stored(task.pos, object)
       /\ KeyGoesOn(object)

LEMMA BookInit == Init => Book!Init /\ KeyKept
<1> SUFFICES ASSUME Init PROVE Book!Init /\ KeyKept
  OBVIOUS
<1>1. KeyKept
  BY DEF Init, ExecutorInit, KeyKept, InFlight
<1>2. Rows = [p \in Position |-> Book!NoRow]
  BY DEF Init, ExecutorInit, Rows, Row, Book!NoRow
<1>3. Bought = Book!Nothing
  BY DEF Init, ExecutorInit, Bought, Opened, Book!Nothing, Book!Leg, Leg, Label
<1>4. outside = Book!Nothing
  BY DEF Init, ExecutorInit, Book!Nothing, Book!Leg, Leg
<1>5. Sold = Book!Nothing
  BY DEF Init, ExecutorInit, Sold, Reduced, Book!Nothing, Book!Leg, Leg, Label
<1> QED BY <1>1, <1>2, <1>3, <1>4, <1>5 DEF Book!Init

(* The rows of the book when one row of the ledger changes.                 *)
LEMMA OneRow ==
  ASSUME IInv, NEW p \in Position, NEW object \in LivePosition, Stored(p, object)
  PROVE  Rows' = [Rows EXCEPT ![p] = [state |-> object.state, key |-> object.key]]
<1>1. /\ ledger'[p] = object
      /\ \A q \in Position : q # p => ledger'[q] = ledger[q]
  BY DEF Stored, IInv, TypeOK, ExecutorTypeOK
<1>2. object # NoPosition
  BY SlotFacts DEF LivePosition, NoPosition, State
<1>3. \A q \in Position : Row(q)' = IF q = p THEN [state |-> object.state, key |-> object.key] ELSE Row(q)
  BY <1>1, <1>2 DEF Row
<1> QED BY <1>3 DEF Rows

LEMMA RowOf ==
  ASSUME IInv, NEW p \in Position
  PROVE  /\ ledger[p] = NoPosition => Rows[p] = [state |-> "none"]
         /\ ledger[p] # NoPosition =>
              Rows[p] = [state |-> ledger[p].state, key |-> ledger[p].key]
         /\ Rows[p].state = ledger[p].state
BY DEF Rows, Row, NoPosition

LEMMA VenueRests ==
  ASSUME UNCHANGED venue
  PROVE  UNCHANGED <<Bought, Sold, outside>>
<1>1. \A p \in Position, g \in Leg : Opened(p, g)' = Opened(p, g) /\ Reduced(p, g)' = Reduced(p, g)
  BY DEF venue, Opened, Reduced
<1> QED BY <1>1 DEF Bought, Sold, venue

LEMMA LedgerRests ==
  ASSUME UNCHANGED <<ledger, venue>>
  PROVE  UNCHANGED books
<1>1. UNCHANGED Rows
  BY DEF Rows, Row
<1> QED BY <1>1, VenueRests DEF books

(* What the book holds is what the venues hold.                             *)
LEMMA HeldIsExposure ==
  ASSUME IInv, NEW p \in Position, NEW g \in Leg
  PROVE  /\ Book!Held(p, g) = Exposure(p, g)
         /\ Exposure(p, g) \in Int /\ Exposure(p, g) >= 0
<1>1. \A l \in Label : fills[p][l] \in 0..Quantity
  BY DEF IInv, TypeOK, ExecutorTypeOK
<1>2. \A h \in Leg : outside[p][h] \in 0..Quantity
  BY DEF IInv, TypeOK, ExecutorTypeOK
<1>3. Exposure(p, g) >= 0
  BY DEF IInv, Sound, RecordedAt
<1>4. Opened(p, g) \in Int /\ Reduced(p, g) \in Int /\ outside[p][g] \in Int
  BY <1>1, <1>2, ExecutorAssumption DEF Opened, Reduced, Leg, Label
<1>5. Bought[p][g] = Opened(p, g) /\ Sold[p][g] = Reduced(p, g) - outside[p][g]
  BY DEF Bought, Sold
<1> QED BY <1>3, <1>4, <1>5 DEF Book!Held, Exposure

LEMMA Restatement ==
  ASSUME NEW row, NEW from, NEW key, NEW to, row = [state |-> from, key |-> key]
  PROVE  [row EXCEPT !.state = to] = [state |-> to, key |-> key]
OBVIOUS

(* A row that moves along an edge settles: the next state's invariants say  *)
(* that it is right about the venues.                                       *)
LEMMA RowMoves ==
  ASSUME IInv, IInv', Hedge', NEW p \in Position, NEW object \in LivePosition,
         ledger[p] # NoPosition, object.key = ledger[p].key,
         object.state = ledger[p].state \/ Book!Edge(ledger[p].state, object.state),
         UNCHANGED venue, UNCHANGED ledger \/ Stored(p, object)
  PROVE  [Book!Next]_books
<1>1. CASE UNCHANGED ledger
  BY <1>1, LedgerRests
<1>2. CASE Stored(p, object)
  <2>1. Rows' = [Rows EXCEPT ![p] = [state |-> object.state, key |-> object.key]]
    BY <1>2, OneRow
  <2>2. Rows[p] = [state |-> ledger[p].state, key |-> object.key]
    BY RowOf
  <2>3. DOMAIN Rows = Position
    BY DEF Rows
  <2>4. Rows = [q \in Position |-> Rows[q]]
    BY DEF Rows
  <2>5. UNCHANGED <<Bought, Sold, outside>>
    BY VenueRests
  <2>6. CASE object.state = ledger[p].state
    <3>1. Rows' = Rows
      BY <2>1, <2>2, <2>4, <2>6
    <3> QED BY <2>5, <3>1 DEF books
  <2>7. CASE Book!Edge(ledger[p].state, object.state)
    <3>1. Rows' = [Rows EXCEPT ![p].state = object.state]
      <4>1. [Rows[p] EXCEPT !.state = object.state]
              = [state |-> object.state, key |-> object.key]
        BY <2>2, Restatement
      <4> QED BY <2>1, <4>1, Zenon
    <3>2. ledger'[p] = object
      BY <1>2 DEF Stored, IInv, TypeOK, ExecutorTypeOK
    <3>3. \A q \in Position, g \in Leg : Exposure(q, g)' = Exposure(q, g)
      BY DEF venue, Exposure, Opened, Reduced
    <3>4. object.state = "OPEN" => Book!Hedged(p)
      <4> SUFFICES ASSUME object.state = "OPEN" PROVE Book!Hedged(p)
        OBVIOUS
      <4>1. fills[p]["open_a"] > 0 /\ fills[p]["open_a"] = fills[p]["open_b"]
        BY <3>2 DEF Hedge, Whole, venue
      <4>2. Unsent(p, Ending)'
        BY <3>2 DEF IInv, Sound, OpenUnsent
      <4>3. \A l \in Ending : fills[p][l] = 0
        <5>1. ASSUME NEW l \in Ending PROVE ~(fills[p][l] > 0)
          BY <4>2 DEF IInv, Sound, RecordedAt, Unsent, venue, Ending, Unwinding, Closing, Label
        <5>2. \A l \in Ending : fills[p][l] \in 0..Quantity
          BY DEF IInv, TypeOK, ExecutorTypeOK, Ending, Unwinding, Closing, Label
        <5> QED BY <5>1, <5>2, ExecutorAssumption
      <4>4. \A g \in Leg : outside[p][g] \in 0..Quantity
        BY DEF IInv, TypeOK, ExecutorTypeOK
      <4>5. \A g \in Leg : Sold[p][g] = 0
        BY <4>3, <4>4, ExecutorAssumption DEF Sold, Reduced, Leg, Ending, Unwinding, Closing
      <4>6. Bought[p]["a"] = fills[p]["open_a"] /\ Bought[p]["b"] = fills[p]["open_b"]
        BY DEF Bought, Opened, Leg
      <4> QED BY <4>1, <4>5, <4>6 DEF Book!Hedged, Book!Leg, Leg
    <3>5. object.state \in {"FAILED", "CLOSED"} => Book!Flat(p)
      <4> SUFFICES ASSUME object.state \in {"FAILED", "CLOSED"} PROVE Book!Flat(p)
        OBVIOUS
      <4>1. ASSUME NEW g \in Leg PROVE Exposure(p, g) = 0
        <5>1. Gone(p)' /\ ledger'[p].state \notin Active'
          BY <3>2 DEF Hedge, Active
        <5>2. Exposure(p, g)' = 0
          BY <5>1 DEF Gone
        <5> QED BY <3>3, <5>2
      <4> QED BY <4>1, HeldIsExposure DEF Book!Flat, Book!Leg, Leg
    <3>6. object.state \in {"OPEN", "CLOSING", "CLOSED", "FAILED", "MANUAL_INTERVENTION"}
      BY <2>7 DEF Book!Edge
    <3>7. Rows[p].state = ledger[p].state
      BY RowOf
    <3>8. Book!Settle(p)
      BY <2>5, <2>7, <3>1, <3>4, <3>5, <3>6, <3>7 DEF Book!Settle
    <3> QED BY <3>8 DEF Book!Next
  <2> QED BY <2>6, <2>7
<1> QED BY <1>1, <1>2

(* The executor's steps but Send.                                           *)
LEMMA HandRow ==
  ASSUME IInv, IInv', Hedge', pc \in Working, RowStep
  PROVE  [Book!Next]_books /\ KeyKept'
<1>1. PICK p \in Position : p = task.pos /\ ledger[p] # NoPosition
  BY HandFacts
<1>2. PICK object \in LivePosition :
        /\ Proper(object) /\ KeyGoesOn(object)
        /\ UNCHANGED ledger \/ Stored(p, object)
  BY <1>1 DEF RowStep
<1>3. [Book!Next]_books
  BY <1>1, <1>2, RowMoves DEF RowStep, Proper
<1>4. ledger'[p].key = object.key
  BY <1>1, <1>2 DEF Proper, Stored, IInv, TypeOK, ExecutorTypeOK
<1>5. KeyKept'
  BY <1>1, <1>2, <1>4 DEF KeyGoesOn, KeyKept, InFlight
<1> QED BY <1>3, <1>5

(* How a call ends, or is left.                                             *)
LEMMA EndRow ==
  ASSUME IInv, KeyKept, pc \in InFlight \cup {"prepare"}, NEW object \in LivePosition,
         object.key = mem[task.pos].key,
         NEW s \in State, Book!Edge(ledger[task.pos].state, s),
         Finish(task.pos, [object EXCEPT !.state = s]), UNCHANGED venue
  PROVE  RowStep
<1>1. PICK final : final = [object EXCEPT !.state = s]
  OBVIOUS
<1>2. final \in LivePosition /\ final.state = s /\ final.key = object.key
  BY <1>1 DEF LivePosition
<1>3. ledger[task.pos].key = object.key
  BY DEF KeyKept, IInv, InHand, Preparing
<1>4. UNCHANGED ledger \/ Stored(task.pos, final)
  BY <1>1 DEF Finish
<1>5. pc' \notin InFlight
  BY <1>1 DEF Finish, Escape, InFlight
<1> QED BY <1>2, <1>3, <1>4, <1>5 DEF RowStep, Proper, KeyGoesOn

LEMMA LeftRow ==
  ASSUME IInv, KeyKept, pc \in InFlight \cup {"prepare"},
         UNCHANGED <<ledger, venue>>,
         pc' \in InFlight => task'.pos = task.pos /\ mem'[task.pos].key = mem[task.pos].key
  PROVE  RowStep
<1>1. mem[task.pos] \in LivePosition
  BY HandFacts DEF Working
<1>2. /\ mem[task.pos].key = ledger[task.pos].key
      /\ mem[task.pos].state = ledger[task.pos].state
  BY HandFacts DEF KeyKept, IInv, InHand, Preparing, Working
<1> QED BY <1>1, <1>2 DEF RowStep, Proper, KeyGoesOn

(* The next order, with the object as it is or with a fill in it.           *)
LEMMA NextRow ==
  ASSUME IInv, KeyKept, pc \in InFlight \cup {"prepare"}, NEW object \in LivePosition,
         object.key = mem[task.pos].key, object.state = mem[task.pos].state,
         NEW label, NEW want, UNCHANGED ledger \/ Stored(task.pos, object),
         Remembered(task.pos, object), Submit(task.pos, label, want), UNCHANGED venue
  PROVE  RowStep
<1>1. task.pos \in Position
  BY HandFacts DEF Working
<1>2. /\ object.key = ledger[task.pos].key
      /\ object.state = ledger[task.pos].state
  BY HandFacts DEF KeyKept, IInv, InHand, Preparing, Working
<1>3. mem'[task.pos] = object /\ task'.pos = task.pos
  BY <1>1 DEF Remembered, Submit, IInv, TypeOK, ExecutorTypeOK
<1> QED BY <1>2, <1>3 DEF RowStep, Proper, KeyGoesOn

LEMMA PrepareRow ==
  ASSUME IInv, KeyKept, Prepare
  PROVE  RowStep
<1>1. PICK object \in LivePosition : object = mem[task.pos]
  BY HandFacts DEF Prepare, Working
<1>2. pc = "prepare" /\ UNCHANGED venue /\ ledger[task.pos].state = "OPENING"
  BY DEF Prepare, IInv, InHand, Preparing
<1>3. CASE Fail(task.pos, mem[task.pos])
  BY <1>1, <1>2, <1>3, EndRow DEF Fail, State, Book!Edge
<1>4. CASE Submit(task.pos, "open_a", Quantity) /\ UNCHANGED <<ledger, mem, switch>>
  BY <1>2, <1>4, LeftRow DEF Submit
<1>5. CASE Escape(task.pos, "idle", mem[task.pos]) /\ UNCHANGED <<ledger, switch>>
  BY <1>2, <1>5, LeftRow DEF Escape, InFlight
<1> QED BY <1>3, <1>4, <1>5 DEF Prepare

(* What the row in hand says while the executor works on an order.          *)
LEMMA FlightRow ==
  ASSUME IInv, pc \in InFlight
  PROVE  /\ task.pos \in Position /\ mem[task.pos] \in LivePosition
         /\ ledger[task.pos].state = mem[task.pos].state
         /\ mem[task.pos].state = IF task.label \in Closing THEN "CLOSING" ELSE "OPENING"
BY HandFacts DEF Working, IInv, InHand, Flying

LEMMA ManualRow ==
  ASSUME IInv, KeyKept, pc \in InFlight, NEW object \in LivePosition,
         object.key = mem[task.pos].key, Manual(task.pos, object), UNCHANGED venue
  PROVE  RowStep
<1>1. Book!Edge(ledger[task.pos].state, "MANUAL_INTERVENTION")
  BY FlightRow DEF Book!Edge
<1> QED BY <1>1, EndRow DEF Manual, State

LEMMA FailRow ==
  ASSUME IInv, KeyKept, pc \in InFlight, task.label \notin Closing,
         Fail(task.pos, mem[task.pos]), UNCHANGED venue
  PROVE  RowStep
<1>1. Book!Edge(ledger[task.pos].state, "FAILED")
  BY FlightRow DEF Book!Edge
<1> QED BY <1>1, FlightRow, EndRow DEF Fail, State

LEMMA CompensateRow ==
  ASSUME IInv, KeyKept, pc \in InFlight, NEW object \in LivePosition,
         object.key = mem[task.pos].key, object.state = mem[task.pos].state,
         Compensate(task.pos, object), UNCHANGED venue
  PROVE  RowStep
BY NextRow DEF Compensate

LEMMA RefuseRow ==
  ASSUME IInv, KeyKept, Refuse
  PROVE  RowStep
<1>1. pc = "submit" /\ pc \in InFlight /\ UNCHANGED venue
  BY DEF Refuse, InFlight
<1>2. mem[task.pos] \in LivePosition
  BY <1>1, FlightRow
<1>3. CASE task.label = "open_a" /\ Fail(task.pos, mem[task.pos])
  BY <1>1, <1>3, FailRow DEF Closing
<1>4. CASE Compensate(task.pos, mem[task.pos])
  BY <1>1, <1>2, <1>4, CompensateRow
<1>5. CASE Manual(task.pos, mem[task.pos])
  BY <1>1, <1>2, <1>5, ManualRow
<1> QED BY <1>3, <1>4, <1>5 DEF Refuse

(* A step that neither saves the position nor changes it.                   *)
LEMMA QuietRow ==
  ASSUME IInv, KeyKept, Abandon \/ Accept \/ Record
  PROVE  RowStep
<1>1. task \in Task
  BY HandFacts DEF Abandon, Accept, Record, Working, InFlight
<1>2. CASE Abandon
  BY <1>2, LeftRow DEF Abandon, Escape, InFlight, durable
<1>3. CASE Accept
  BY <1>3, LeftRow DEF Accept, InFlight
<1>4. CASE Record
  <2>1. task'.pos = task.pos
    BY <1>1, <1>4 DEF Record, Answered, Task
  <2> QED BY <1>4, <2>1, LeftRow DEF Record, InFlight
<1> QED BY <1>2, <1>3, <1>4

LEMMA DecideUnknownRow ==
  ASSUME IInv, KeyKept, DecideUnknown
  PROVE  RowStep
BY FlightRow, ManualRow DEF DecideUnknown, InFlight

LEMMA DecideFirstLegRow ==
  ASSUME IInv, KeyKept, DecideFirstLeg
  PROVE  RowStep
<1>1. pc = "decide" /\ pc \in InFlight /\ task.label = "open_a" /\ UNCHANGED venue
  BY DEF DecideFirstLeg, Known, InFlight
<1>2. PICK before \in LivePosition : before = mem[task.pos]
  BY <1>1, FlightRow
<1>3. task.got \in 0..Quantity
  BY <1>1, HandFacts DEF Working, Task
<1>4. PICK object : object = [before EXCEPT !.a = task.got]
  OBVIOUS
<1>5. object \in LivePosition /\ object.key = before.key /\ object.state = before.state
  BY <1>2, <1>3, <1>4 DEF LivePosition
<1>6. CASE Fail(task.pos, mem[task.pos])
  BY <1>1, <1>6, FailRow DEF Closing
<1>7. CASE Manual(task.pos, object)
  BY <1>1, <1>2, <1>5, <1>7, ManualRow
<1>8. CASE SaveThenSubmit(task.pos, object, "open_b", task.got)
  <2>1. CASE /\ Stored(task.pos, object)
             /\ Remembered(task.pos, object)
             /\ Submit(task.pos, "open_b", task.got)
    BY <1>1, <1>2, <1>5, <2>1, NextRow
  <2>2. CASE Escape(task.pos, "idle", object) /\ UNCHANGED ledger
    BY <1>1, <2>2, LeftRow DEF Escape, InFlight
  <2> QED BY <1>8, <2>1, <2>2 DEF SaveThenSubmit
<1> QED BY <1>2, <1>4, <1>6, <1>7, <1>8 DEF DecideFirstLeg

LEMMA DecideSecondLegRow ==
  ASSUME IInv, KeyKept, DecideSecondLeg
  PROVE  RowStep
<1>1. pc = "decide" /\ pc \in InFlight /\ task.label = "open_b" /\ UNCHANGED venue
  BY DEF DecideSecondLeg, Known, InFlight
<1>2. PICK before \in LivePosition : before = mem[task.pos]
  BY <1>1, FlightRow
<1>3. task.got \in 0..Quantity
  BY <1>1, HandFacts DEF Working, Task
<1>4. PICK object : object = [before EXCEPT !.b = task.got]
  OBVIOUS
<1>5. object \in LivePosition /\ object.key = before.key /\ object.state = before.state
  BY <1>2, <1>3, <1>4 DEF LivePosition
<1>6. CASE Compensate(task.pos, mem[task.pos])
  BY <1>1, <1>2, <1>6, CompensateRow
<1>7. CASE Compensate(task.pos, object)
  BY <1>1, <1>2, <1>5, <1>7, CompensateRow
<1>8. CASE Finish(task.pos, [object EXCEPT !.state = "OPEN"])
  <2>1. Book!Edge(ledger[task.pos].state, "OPEN") /\ "OPEN" \in State
    BY <1>1, FlightRow DEF Book!Edge, State, Closing
  <2> QED BY <1>1, <1>2, <1>5, <1>8, <2>1, EndRow
<1> QED BY <1>2, <1>4, <1>6, <1>7, <1>8 DEF DecideSecondLeg

LEMMA DecideRestRow ==
  ASSUME IInv, KeyKept, DecideUnwind \/ DecideClose
  PROVE  RowStep
<1>1. pc = "decide" /\ pc \in InFlight /\ UNCHANGED venue
  BY DEF DecideUnwind, DecideClose, Known, InFlight
<1>2. mem[task.pos] \in LivePosition
  BY <1>1, FlightRow
<1>3. CASE Manual(task.pos, mem[task.pos])
  BY <1>1, <1>2, <1>3, ManualRow
<1>4. CASE \E label, want : Submit(task.pos, label, want) /\ UNCHANGED <<ledger, mem, switch>>
  BY <1>1, <1>4, LeftRow DEF Submit
<1>5. CASE DecideUnwind /\ Fail(task.pos, mem[task.pos])
  BY <1>1, <1>5, FailRow DEF DecideUnwind, Known, Closing
<1>6. CASE DecideClose /\ Finish(task.pos, [mem[task.pos] EXCEPT !.state = "CLOSED"])
  <2>1. Book!Edge(ledger[task.pos].state, "CLOSED") /\ "CLOSED" \in State
    BY <1>1, <1>6, FlightRow DEF Book!Edge, State, Closing, DecideClose, Known
  <2> QED BY <1>1, <1>2, <1>6, <2>1, EndRow
<1> QED BY <1>3, <1>4, <1>5, <1>6 DEF DecideUnwind, DecideClose

(* What the book has bought and sold after one fill.                        *)
Buys(p, leg, n) ==
  /\ Bought' = [Bought EXCEPT ![p][leg] = n]
  /\ Bought[p][leg] = 0
  /\ UNCHANGED Sold

Sells(p, leg, n) == Sold' = [Sold EXCEPT ![p][leg] = @ + n] /\ UNCHANGED Bought

LEMMA Shifted ==
  ASSUME NEW u \in Nat, NEW c \in Nat, NEW o \in Nat, NEW n \in Nat, NEW before, NEW after,
         before = u + c + o,
         (u = 0 /\ after = n + c + o) \/ (c = 0 /\ after = u + n + o)
  PROVE  after - o = (before - o) + n
OBVIOUS

LEMMA OneFill ==
  ASSUME IInv, NEW p \in Position, NEW l \in Label, NEW f \in 0..Quantity,
         fills[p][l] = 0, fills' = [fills EXCEPT ![p][l] = f], UNCHANGED outside
  PROVE  IF l \in Opening THEN Buys(p, LegOf(l), f) ELSE Sells(p, LegOf(l), f)
<1>1. /\ fills'[p][l] = f
      /\ \A m \in Label : m # l => fills'[p][m] = fills[p][m]
      /\ \A q \in Position : q # p => fills'[q] = fills[q]
  BY DEF IInv, TypeOK, ExecutorTypeOK
<1>2. \A m \in Label : fills[p][m] \in 0..Quantity
  BY DEF IInv, TypeOK, ExecutorTypeOK
<1>3. \A g \in Leg : outside[p][g] \in 0..Quantity
  BY DEF IInv, TypeOK, ExecutorTypeOK
<1>4. ASSUME NEW q \in Position, NEW g \in Leg, q # p \/ g # LegOf(l)
      PROVE  Opened(q, g)' = Opened(q, g) /\ Reduced(q, g)' = Reduced(q, g)
  BY <1>1, <1>4 DEF Opened, Reduced, LegOf, Leg, Label
<1>5. LegOf(l) \in Leg
  BY DEF LegOf, Leg
<1>6. CASE l \in Opening
  <2>1. Opened(p, LegOf(l))' = f /\ Opened(p, LegOf(l)) = 0
    BY <1>1, <1>6 DEF Opened, LegOf, Opening
  <2>2. Reduced(p, LegOf(l))' = Reduced(p, LegOf(l))
    BY <1>1, <1>6 DEF Reduced, LegOf, Opening, Label
  <2>3. Sold' = Sold
    BY <1>4, <1>5, <2>2 DEF Sold
  <2>4. Bought' = [Bought EXCEPT ![p][LegOf(l)] = f]
    BY <1>4, <1>5, <2>1 DEF Bought
  <2>5. Bought[p][LegOf(l)] = 0
    BY <1>5, <2>1 DEF Bought
  <2> QED BY <1>6, <2>3, <2>4, <2>5 DEF Buys
<1>7. CASE l \notin Opening
  <2>1. Opened(p, LegOf(l))' = Opened(p, LegOf(l))
    BY <1>1, <1>7 DEF Opened, LegOf, Opening, Label
  <2>2. Reduced(p, LegOf(l))' - outside[p][LegOf(l)] = (Reduced(p, LegOf(l)) - outside[p][LegOf(l)]) + f
    <3>2. \A m \in Label : fills[p][m] \in Nat
      BY <1>2, ExecutorAssumption
    <3>3. outside[p]["a"] \in Nat /\ outside[p]["b"] \in Nat
      BY <1>3, ExecutorAssumption DEF Leg
    <3>4. f \in Nat /\ l \in {"unwind_a", "unwind_b", "close_a", "close_b"}
      BY <1>7, ExecutorAssumption DEF Label, Opening
    <3>5. CASE l = "unwind_a"
      <4>1. LegOf(l) = "a"
        BY <3>5 DEF LegOf
      <4>2. Reduced(p, "a") = fills[p]["unwind_a"] + fills[p]["close_a"] + outside[p]["a"]
        BY DEF Reduced
      <4>3. Reduced(p, "a")' = f + fills[p]["close_a"] + outside[p]["a"]
        BY <1>1, <3>5 DEF Reduced, Label
      <4>4. /\ fills[p]["unwind_a"] \in Nat /\ fills[p]["close_a"] \in Nat
            /\ outside[p]["a"] \in Nat /\ f \in Nat /\ fills[p][l] = 0
        BY <3>2, <3>3, <3>4 DEF Label
      <4>5. Reduced(p, "a")' - outside[p]["a"] = (Reduced(p, "a") - outside[p]["a"]) + f
        BY <3>5, <4>2, <4>3, <4>4, Shifted
      <4> QED BY <4>1, <4>5
    <3>6. CASE l = "unwind_b"
      <4>1. LegOf(l) = "b"
        BY <3>6 DEF LegOf
      <4>2. Reduced(p, "b") = fills[p]["unwind_b"] + fills[p]["close_b"] + outside[p]["b"]
        BY DEF Reduced
      <4>3. Reduced(p, "b")' = f + fills[p]["close_b"] + outside[p]["b"]
        BY <1>1, <3>6 DEF Reduced, Label
      <4>4. /\ fills[p]["unwind_b"] \in Nat /\ fills[p]["close_b"] \in Nat
            /\ outside[p]["b"] \in Nat /\ f \in Nat /\ fills[p][l] = 0
        BY <3>2, <3>3, <3>4 DEF Label
      <4>5. Reduced(p, "b")' - outside[p]["b"] = (Reduced(p, "b") - outside[p]["b"]) + f
        BY <3>6, <4>2, <4>3, <4>4, Shifted
      <4> QED BY <4>1, <4>5
    <3>7. CASE l = "close_a"
      <4>1. LegOf(l) = "a"
        BY <3>7 DEF LegOf
      <4>2. Reduced(p, "a") = fills[p]["unwind_a"] + fills[p]["close_a"] + outside[p]["a"]
        BY DEF Reduced
      <4>3. Reduced(p, "a")' = fills[p]["unwind_a"] + f + outside[p]["a"]
        BY <1>1, <3>7 DEF Reduced, Label
      <4>4. /\ fills[p]["unwind_a"] \in Nat /\ fills[p]["close_a"] \in Nat
            /\ outside[p]["a"] \in Nat /\ f \in Nat /\ fills[p][l] = 0
        BY <3>2, <3>3, <3>4 DEF Label
      <4>5. Reduced(p, "a")' - outside[p]["a"] = (Reduced(p, "a") - outside[p]["a"]) + f
        BY <3>7, <4>2, <4>3, <4>4, Shifted
      <4> QED BY <4>1, <4>5
    <3>8. CASE l = "close_b"
      <4>1. LegOf(l) = "b"
        BY <3>8 DEF LegOf
      <4>2. Reduced(p, "b") = fills[p]["unwind_b"] + fills[p]["close_b"] + outside[p]["b"]
        BY DEF Reduced
      <4>3. Reduced(p, "b")' = fills[p]["unwind_b"] + f + outside[p]["b"]
        BY <1>1, <3>8 DEF Reduced, Label
      <4>4. /\ fills[p]["unwind_b"] \in Nat /\ fills[p]["close_b"] \in Nat
            /\ outside[p]["b"] \in Nat /\ f \in Nat /\ fills[p][l] = 0
        BY <3>2, <3>3, <3>4 DEF Label
      <4>5. Reduced(p, "b")' - outside[p]["b"] = (Reduced(p, "b") - outside[p]["b"]) + f
        BY <3>8, <4>2, <4>3, <4>4, Shifted
      <4> QED BY <4>1, <4>5
    <3> QED BY <3>4, <3>5, <3>6, <3>7, <3>8
  <2>3. Bought' = Bought
    BY <1>4, <1>5, <2>1 DEF Bought
  <2>4. Sold' = [Sold EXCEPT ![p][LegOf(l)] = @ + f]
    BY <1>4, <1>5, <2>2 DEF Sold
  <2> QED BY <1>7, <2>3, <2>4 DEF Sells
<1> QED BY <1>6, <1>7

(* A venue that fills nothing does nothing; an entry buys a leg, any other  *)
(* order sells what is held.                                                *)
LEMMA SendBook ==
  ASSUME IInv, Hedge, KeyKept, Send
  PROVE  [Book!Next]_books /\ KeyKept'
<1>1. /\ pc = "send" /\ pc \in InFlight /\ pc' = "record" /\ UNCHANGED <<ledger, mem, outside>>
  BY DEF Send, InFlight, durable
<1>2. PICK p \in Position, l \in Label : p = task.pos /\ l = task.label
  BY <1>1, FlightFacts
<1>3. PICK want \in 0..Quantity : want = task.want /\ Wanted(l, want, mem[p]) /\ Account(p, l, mem[p])
  BY <1>1, <1>2, FlightFacts
<1>4. PICK f \in 0..Fillable(p, l, want) :
        /\ fills' = [fills EXCEPT ![p][l] = f]
        /\ \E got, unknown : Answered(got, unknown)
  BY <1>2, <1>3 DEF Send
<1>5. f \in 0..Quantity /\ (l \notin Opening => f <= Exposure(p, LegOf(l)))
  BY FillFacts, TypesSplit DEF IInv, Sound
<1>6. KeyKept'
  <2>1. task \in Task
    BY <1>1, HandFacts DEF Working
  <2>2. task'.pos = task.pos
    BY <1>4, <2>1 DEF Answered, Task
  <2> QED BY <1>1, <2>2 DEF KeyKept
<1>7. fills[p][l] = 0 /\ \A m \in Absent(l) : fills[p][m] = 0
  BY <1>1, <1>2, FlightFacts DEF IInv, InHand, Sending
<1>8. /\ ledger[p].state = IF l \in Closing THEN "CLOSING" ELSE "OPENING"
      /\ Rows[p].state = ledger[p].state
  BY <1>1, <1>2, FlightRow, RowOf
<1>9. UNCHANGED Rows
  BY <1>1 DEF Rows, Row
<1>10. LegOf(l) \in Leg /\ LegOf(l) \in Book!Leg
  BY DEF LegOf, Leg, Book!Leg
<1>11. CASE l \in Opening
  <2>1. Buys(p, LegOf(l), f)
    BY <1>1, <1>4, <1>5, <1>7, <1>11, OneFill
  <2>2. CASE f = 0
    <3>1. Bought' = Bought
      <4>1. \A q \in Position : Bought[q] = [leg \in Leg |-> Bought[q][leg]]
        BY DEF Bought
      <4>2. Bought = [q \in Position |-> Bought[q]]
        BY DEF Bought
      <4>3. Bought' = [Bought EXCEPT ![p][LegOf(l)] = 0] /\ Bought[p][LegOf(l)] = 0
        BY <2>1, <2>2 DEF Buys
      <4> QED BY <1>10, <4>1, <4>2, <4>3
    <3> QED BY <1>1, <1>6, <1>9, <2>1, <3>1 DEF books, Buys
  <2>3. CASE f # 0
    <3>1. Bought[p]["b"] = 0
      <4>1. fills[p]["open_b"] = 0
        BY <1>7, <1>11 DEF Absent, Opening
      <4> QED BY <4>1 DEF Bought, Opened, Leg
    <3>2. \A g \in Leg : Sold[p][g] = 0
      <4>1. \A m \in Ending : fills[p][m] = 0
        BY <1>7, <1>11 DEF Absent, Opening
      <4>2. \A g \in Leg : outside[p][g] \in 0..Quantity
        BY DEF IInv, TypeOK, ExecutorTypeOK
      <4> QED BY <4>1, <4>2, ExecutorAssumption DEF Sold, Reduced, Leg, Ending, Unwinding, Closing
    <3>3. f \in 1..(IF LegOf(l) = "a" THEN Quantity ELSE Bought[p]["a"])
      <4>1. CASE l = "open_a"
        BY <1>5, <2>3, <4>1, ExecutorAssumption DEF LegOf
      <4>2. CASE l = "open_b"
        <5>1. want = fills[p]["open_a"] /\ Bought[p]["a"] = fills[p]["open_a"]
          BY <1>3, <4>2 DEF Wanted, Account, Bought, Opened, Leg
        <5>2. f \in 0..want
          BY <4>2 DEF Fillable, Opening
        <5> QED BY <2>3, <4>2, <5>1, <5>2, ExecutorAssumption DEF LegOf
      <4> QED BY <1>11, <4>1, <4>2 DEF Opening
    <3>4. Rows[p].state = "OPENING"
      BY <1>8, <1>11 DEF Opening, Closing
    <3>5. Book!Buy(p, LegOf(l))
      BY <1>1, <1>9, <2>1, <3>1, <3>2, <3>3, <3>4 DEF Book!Buy, Book!Leg, Leg, Buys
    <3> QED BY <1>6, <1>10, <3>5 DEF Book!Next
  <2> QED BY <2>2, <2>3
<1>12. CASE l \notin Opening
  <2>1. Sells(p, LegOf(l), f)
    BY <1>1, <1>4, <1>5, <1>7, <1>12, OneFill
  <2>2. CASE f = 0
    <3>1. Sold' = Sold
      <4>1. Sold[p][LegOf(l)] \in Int
        <5>1. \A m \in Label : fills[p][m] \in 0..Quantity
          BY DEF IInv, TypeOK, ExecutorTypeOK
        <5>2. \A g \in Leg : outside[p][g] \in 0..Quantity
          BY DEF IInv, TypeOK, ExecutorTypeOK
        <5> QED BY <1>10, <5>1, <5>2, ExecutorAssumption DEF Sold, Reduced, Leg, Label
      <4>2. Sold[p][LegOf(l)] + f = Sold[p][LegOf(l)]
        BY <2>2, <4>1
      <4>3. \A q \in Position : Sold[q] = [leg \in Leg |-> Sold[q][leg]]
        BY DEF Sold
      <4>4. Sold = [q \in Position |-> Sold[q]]
        BY DEF Sold
      <4>5. Sold' = [Sold EXCEPT ![p][LegOf(l)] = Sold[p][LegOf(l)] + f]
        BY <2>1 DEF Sells
      <4>6. Sold' = [Sold EXCEPT ![p][LegOf(l)] = Sold[p][LegOf(l)]]
        BY <4>2, <4>5, Zenon
      <4> QED BY <1>10, <4>3, <4>4, <4>6
    <3> QED BY <1>1, <1>6, <1>9, <2>1, <3>1 DEF books, Sells
  <2>3. CASE f # 0
    <3>1. f \in 1..Book!Held(p, LegOf(l))
      BY <1>5, <1>10, <1>12, <2>3, HeldIsExposure, ExecutorAssumption
    <3>2. Rows[p].state \in {"OPENING", "CLOSING"}
      BY <1>8
    <3>3. Book!Sell(p, LegOf(l))
      BY <1>1, <1>9, <2>1, <3>1, <3>2 DEF Book!Sell, Sells
    <3> QED BY <1>6, <1>10, <3>3 DEF Book!Next
  <2> QED BY <2>2, <2>3
<1> QED BY <1>11, <1>12

LEMMA CloseNextBook ==
  ASSUME IInv, IInv', Hedge', CloseNext
  PROVE  [Book!Next]_books /\ KeyKept'
<1>1. pc = "close" /\ todo # {} /\ todo \subseteq Position
  BY TypesSplit DEF CloseNext, IInv, LoopTypes
<1>2. PICK p \in Position : p = Min(todo)
  BY <1>1, LeastPosition
<1>3. CASE UNCHANGED <<durable, venue, switch, mem, pc, task>>
  BY <1>1, <1>3, LedgerRests DEF KeyKept, InFlight, durable
<1>4. CASE StartClose(p)
  <2>1. PICK before \in LivePosition : before = mem[p] /\ before.state = "OPEN"
    BY <1>4, SlotFacts DEF StartClose, IInv, TypeOK, ExecutorTypeOK
  <2>2. PICK object : object = [before EXCEPT !.state = "CLOSING"]
    OBVIOUS
  <2>3. object \in LivePosition /\ object.state = "CLOSING" /\ object.key = before.key
    BY <2>1, <2>2 DEF LivePosition, State
  <2>4. ledger[p] = before /\ ledger[p] # NoPosition
    BY <1>1, <2>1 DEF IInv, Sound, HeldAt, NoPosition
  <2>5. SaveThenSubmit(p, object, "close_a", before.a) /\ UNCHANGED venue
    BY <1>4, <2>1, <2>2 DEF StartClose
  <2>6. UNCHANGED ledger \/ Stored(p, object)
    BY <2>5 DEF SaveThenSubmit
  <2>7. Book!Edge(ledger[p].state, object.state)
    BY <2>1, <2>3, <2>4 DEF Book!Edge
  <2>8. [Book!Next]_books
    BY <2>3, <2>4, <2>5, <2>6, <2>7, RowMoves
  <2>9. KeyKept'
    <3>1. CASE Stored(p, object) /\ Remembered(p, object) /\ Submit(p, "close_a", before.a)
      BY <3>1 DEF KeyKept, Stored, Remembered, Submit, IInv, TypeOK, ExecutorTypeOK
    <3>2. CASE Escape(p, "idle", object)
      BY <3>2 DEF KeyKept, Escape, InFlight
    <3> QED BY <2>5, <3>1, <3>2 DEF SaveThenSubmit
  <2> QED BY <2>8, <2>9
<1> QED BY <1>2, <1>3, <1>4 DEF CloseNext

LEMMA OpenNextBook ==
  ASSUME IInv, OpenNext
  PROVE  [Book!Next]_books /\ KeyKept'
<1>1. PICK k \in Key : CreatePosition(NextPosition, k)
  BY TypesSplit DEF OpenNext, IInv, LoopTypes
<1>2. PICK p \in Position : p = NextPosition
  <2>1. {q \in Position : ledger[q] = NoPosition} # {}
    BY DEF OpenNext
  <2> QED BY <2>1, LeastPosition DEF NextPosition
<1>3. UNCHANGED venue /\ ledger[p] = NoPosition
  BY <1>1, <1>2 DEF CreatePosition
<1>4. CASE UNCHANGED <<ledger, mem, task>> /\ pc' = "idle"
  BY <1>3, <1>4, LedgerRests DEF KeyKept, InFlight
<1>5. ASSUME NEW object, object = [state |-> "OPENING", key |-> k, a |-> 0, b |-> 0],
             Stored(p, object), pc' = "prepare"
      PROVE  [Book!Next]_books /\ KeyKept'
  <2>1. object \in LivePosition
    BY <1>5, ExecutorAssumption DEF LivePosition, State
  <2>2. Rows' = [Rows EXCEPT ![p] = [state |-> "OPENING", key |-> k]]
    BY <1>5, <2>1, OneRow
  <2>3. Rows[p] = Book!NoRow
    BY <1>3, RowOf DEF Book!NoRow
  <2>4. fills[p]["open_a"] = 0 /\ fills[p]["open_b"] = 0
    BY <1>3, UnsentUnfilled DEF IInv, Sound, Blank, Unsent, Label
  <2>5. \A g \in Leg : Bought[p][g] = 0
    BY <2>4 DEF Bought, Opened
  <2>6. UNCHANGED <<Bought, Sold, outside>>
    BY <1>3, VenueRests
  <2>7. Book!Enter(p)
    BY <2>2, <2>3, <2>5, <2>6 DEF Book!Enter, Book!Leg, Leg
  <2> QED BY <1>5, <2>7 DEF KeyKept, InFlight, Book!Next
<1> QED BY <1>1, <1>2, <1>4, <1>5 DEF CreatePosition

(* Fills stay, so the book's own trades do.                                 *)
LEMMA TradesRest ==
  ASSUME IInv, IInv', UNCHANGED fills
  PROVE  UNCHANGED <<Bought, Sold>>
<1>1. Bought' = Bought
  BY DEF Bought, Opened
<1>2. ASSUME NEW q \in Position, NEW g \in Leg
      PROVE  (Reduced(q, g) - outside[q][g])' = Reduced(q, g) - outside[q][g]
  <2>1. \A l \in Label : fills[q][l] \in Nat
    <3>1. \A l \in Label : fills[q][l] \in 0..Quantity
      BY DEF IInv, TypeOK, ExecutorTypeOK
    <3> QED BY <3>1, ExecutorAssumption
  <2>2. outside[q][g] \in Nat /\ outside'[q][g] \in Nat
    <3>1. outside[q][g] \in 0..Quantity /\ outside'[q][g] \in 0..Quantity
      BY DEF IInv, TypeOK, ExecutorTypeOK
    <3> QED BY <3>1, ExecutorAssumption
  <2>3. PICK n \in Nat : /\ Reduced(q, g) = n + outside[q][g]
                         /\ Reduced(q, g)' = n + outside'[q][g]
    <3>1. CASE g = "a"
      BY <2>1, <3>1 DEF Reduced, Label
    <3>2. CASE g = "b"
      BY <2>1, <3>2 DEF Reduced, Label
    <3> QED BY <3>1, <3>2 DEF Leg
  <2> QED BY <2>2, <2>3
<1>3. Sold' = Sold
  BY <1>2 DEF Sold
<1> QED BY <1>1, <1>3

LEMMA ForcedReductionBook ==
  ASSUME IInv, IInv', NEW p \in Position, NEW g \in Leg, ForcedReduction(p, g)
  PROVE  Book!Next /\ (KeyKept => KeyKept')
<1>1. UNCHANGED <<ledger, fills, mem, pc, task>> /\ Exposure(p, g) > 0
  BY DEF ForcedReduction, durable
<1>2. UNCHANGED <<Bought, Sold>>
  BY <1>1, TradesRest
<1>3. UNCHANGED Rows
  BY <1>1 DEF Rows, Row
<1>4. outside' = [outside EXCEPT ![p][g] = @ + Book!Held(p, g)]
  BY HeldIsExposure DEF ForcedReduction
<1>5. Book!Take(p, g)
  BY <1>1, <1>2, <1>3, <1>4, HeldIsExposure DEF Book!Take
<1> QED BY <1>1, <1>5 DEF KeyKept, Book!Next, Book!Leg, Leg

LEMMA OperatorResolveBook ==
  ASSUME IInv, IInv', NEW p \in Position, OperatorResolve(p)
  PROVE  Book!Next /\ KeyKept'
<1>1. pc \in Stopped /\ UNCHANGED <<fills, pc>> /\ ledger[p].state \in Active
  BY DEF OperatorResolve
<1>2. ledger[p] \in LivePosition /\ ledger[p] # NoPosition
  BY <1>1, SlotFacts DEF IInv, TypeOK, ExecutorTypeOK, Active, NoPosition
<1>3. PICK object : object = [ledger[p] EXCEPT !.state = "FAILED"]
  OBVIOUS
<1>4. object \in LivePosition /\ object.state = "FAILED" /\ object.key = ledger[p].key
  BY <1>2, <1>3 DEF LivePosition, State
<1>5. Stored(p, object)
  BY <1>3 DEF OperatorResolve, Stored
<1>6. Rows' = [Rows EXCEPT ![p].state = "FAILED"]
  <2>1. Rows' = [Rows EXCEPT ![p] = [state |-> "FAILED", key |-> ledger[p].key]]
    BY <1>4, <1>5, OneRow
  <2>2. [Rows[p] EXCEPT !.state = "FAILED"] = [state |-> "FAILED", key |-> ledger[p].key]
    <3>1. Rows[p] = [state |-> ledger[p].state, key |-> ledger[p].key]
      BY <1>2, RowOf
    <3> QED BY <3>1, Restatement
  <2> QED BY <2>1, <2>2, Zenon
<1>7. outside' = [outside EXCEPT ![p] = [leg \in Book!Leg |-> @[leg] + Book!Held(p, leg)]]
  <2>1. \A g \in Leg : Book!Held(p, g) = Exposure(p, g)
    BY HeldIsExposure
  <2>2. [leg \in Book!Leg |-> outside[p][leg] + Book!Held(p, leg)]
          = [leg \in Leg |-> outside[p][leg] + Exposure(p, leg)]
    BY <2>1 DEF Book!Leg, Leg
  <2>3. outside' = [outside EXCEPT ![p] = [leg \in Leg |-> outside[p][leg] + Exposure(p, leg)]]
    BY DEF OperatorResolve
  <2> QED BY <2>2, <2>3
<1>8. Book!Resolve(p)
  BY <1>1, <1>6, <1>7, RowOf, TradesRest DEF Book!Resolve, Active
<1> QED BY <1>1, <1>8 DEF KeyKept, InFlight, Stopped, Book!Next

(* Every step of the runner is a step of the book, or none.                 *)
LEMMA BookStep ==
  ASSUME IInv, IInv', Hedge, Hedge', KeyKept, [Next]_vars
  PROVE  [Book!Next]_books /\ KeyKept'
<1>1. CASE Execute
  <2>1. CASE Send
    BY <2>1, SendBook
  <2>2. CASE Prepare \/ Accept \/ Refuse \/ Abandon \/ Record \/ Decide
    <3>1. RowStep
      BY <2>2, PrepareRow, RefuseRow, QuietRow, DecideUnknownRow, DecideFirstLegRow,
         DecideSecondLegRow, DecideRestRow
      DEF Decide
    <3>2. pc \in Working
      BY <2>2 DEF Prepare, Accept, Refuse, Abandon, Record, Decide, DecideUnknown,
                  DecideFirstLeg, DecideSecondLeg, DecideUnwind, DecideClose, Known,
                  Working, InFlight
    <3> QED BY <3>1, <3>2, HandRow
  <2> QED BY <1>1, <2>1, <2>2 DEF Execute, ExecutorStep
<1>2. CASE \/ Restart \/ Startup \/ BeginCycle \/ Check \/ RecordEquity \/ EnterOpen
           \/ EndCycle \/ Returned \/ Crash
  <2>1. UNCHANGED <<ledger, venue>>
    BY <1>2 DEF Restart, Startup, BeginCycle, Check, RecordEquity, EnterOpen, EndCycle,
                Returned, Crash, durable
  <2>2. pc' \notin InFlight
    BY <1>2 DEF Restart, Startup, BeginCycle, Check, RecordEquity, EnterOpen, EndCycle,
                Returned, Crash, Idle, InFlight
  <2> QED BY <2>1, <2>2, LedgerRests DEF KeyKept
<1>3. CASE CloseNext \/ OpenNext
  BY <1>3, CloseNextBook, OpenNextBook
<1>4. CASE \/ OperatorPause /\ UNCHANGED <<durable, venue, mem, pc, task, runner>>
           \/ OperatorClear \/ UNCHANGED vars
  <2>1. UNCHANGED <<ledger, venue, mem, pc, task>>
    BY <1>4 DEF OperatorClear, vars, durable
  <2> QED BY <2>1, LedgerRests DEF KeyKept
<1>5. CASE \E p \in Position : OperatorResolve(p)
  BY <1>5, OperatorResolveBook
<1>6. CASE \E p \in Position, leg \in Leg : ForcedReduction(p, leg) /\ UNCHANGED runner
  BY <1>6, ForcedReductionBook
<1> QED BY <1>1, <1>2, <1>3, <1>4, <1>5, <1>6 DEF Next, RunnerStep, Environment

(* Where an answer that arrives is right about the fill, every step of the  *)
(* runner, the executor, the venues, a crash and the operator is one of     *)
(* PositionLedger's, or leaves its book as it is.                           *)
THEOREM PositionsKeepTheBook ==
  ASSUME "open_answer" \notin Faults
  PROVE  Spec => BookSpec
<1>1. Init => Book!Init /\ KeyKept
  BY BookInit
<1>2. ASSUME IInv, Hedge, KeyKept, [Next]_vars
      PROVE  [Book!Next]_books /\ KeyKept'
  <2>1. IInv' /\ Hedge'
    BY <1>2, NextPreserves, HedgeKept
  <2> QED BY <1>2, <2>1, BookStep
<1>3. Book!Init /\ [][Book!Next]_books => BookSpec
  BY DEF BookSpec, Book!Spec, books
<1> QED BY <1>1, <1>2, <1>3, Invariance, HedgeInvariance, PTL DEF Spec
=============================================================================
