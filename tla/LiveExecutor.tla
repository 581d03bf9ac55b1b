---------------------------- MODULE LiveExecutor ----------------------------
(***************************************************************************)
(* LiveTradingExecutor (execution/live.py): opens a position as two IOC    *)
(* orders on two venues, unwinds what was filled when the second leg       *)
(* fails, and closes both legs again.  Every await is a step of its own:   *)
(* the row of an order is durable before the venue sees it, the fill is    *)
(* decided by the venue, the answer may be lost, and the ledger row of the *)
(* position follows the object in memory, or fails to.                     *)
(***************************************************************************)
EXTENDS KillSwitch, Integers, FiniteSets

CONSTANTS
  Key,           \* opportunity keys
  MaxPositions,  \* bound: positions created altogether
  Quantity       \* base quantity of a leg

ASSUME ExecutorAssumption ==
  /\ MaxPositions \in Nat
  /\ Quantity \in Nat \ {0}

Position == 1..MaxPositions
Leg == {"a", "b"}
Label == {"open_a", "open_b", "unwind_a", "unwind_b", "close_a", "close_b"}
Opening == {"open_a", "open_b"}
LegOf(label) == IF label \in {"open_a", "unwind_a", "close_a"} THEN "a" ELSE "b"

State == {"OPENING", "OPEN", "CLOSING", "CLOSED", "FAILED", "MANUAL_INTERVENTION"}

(* load_active_live_positions *)
Active == {"OPENING", "OPEN", "CLOSING", "MANUAL_INTERVENTION"}

(* A LivePosition: its key, its state and the filled quantity of its legs   *)
(* (0: the leg is None).                                                    *)
LivePosition == [state: State, key: Key, a: 0..Quantity, b: 0..Quantity]
NoPosition == [state |-> "none"]
Slot == LivePosition \cup {NoPosition}

(* The order the executor works on: its answer, once it has one.            *)
Task == [pos: Position, label: Label, want: 0..Quantity, got: 0..Quantity, unknown: BOOLEAN]
NoTask == [pos |-> 0]

VARIABLES
  ledger,   \* live_positions in PostgreSQL
  rows,     \* live_orders in PostgreSQL: the status of each position's orders
  mem,      \* LivePosition objects the runner or the executor holds
  fills,    \* what each order has really filled at its venue
  outside,  \* quantity of a leg that was closed by somebody else
  pc,       \* what the runner's task does next
  task      \* the order in hand

durable == <<ledger, rows>>
venue == <<fills, outside>>

ExecutorTypeOK ==
  /\ ledger \in [Position -> Slot]
  /\ rows \in [Position -> [Label -> {"none", "PENDING", "DONE", "UNKNOWN"}]]
  /\ mem \in [Position -> Slot]
  /\ fills \in [Position -> [Label -> 0..Quantity]]
  /\ outside \in [Position -> [Leg -> 0..Quantity]]
  /\ task \in Task \cup {NoTask}

Reduced(p, leg) ==
  IF leg = "a" THEN fills[p]["unwind_a"] + fills[p]["close_a"] + outside[p]["a"]
               ELSE fills[p]["unwind_b"] + fills[p]["close_b"] + outside[p]["b"]

Opened(p, leg) == IF leg = "a" THEN fills[p]["open_a"] ELSE fills[p]["open_b"]

(* What the venue holds for a leg.                                          *)
Exposure(p, leg) == Opened(p, leg) - Reduced(p, leg)
-----------------------------------------------------------------------------
Stored(p, object) == ledger' = [ledger EXCEPT ![p] = object]

Remembered(p, object) == mem' = [mem EXCEPT ![p] = object]

(* The next order of the position: its preparation and _submit.             *)
Submit(p, label, want) ==
  /\ pc' = "submit"
  /\ task' = [pos |-> p, label |-> label, want |-> want, got |-> 0, unknown |-> FALSE]

(* Plausible bug: the runner keeps an object whose entry raised. *)
EscapeKeeps(p, next, object) ==
  /\ pc' = next
  /\ task' = NoTask
  /\ Remembered(p, object)

(* An exception leaves the executor.  The runner takes the next opportunity *)
(* ("open") after a LiveExecutionError, LiveTradingPaused, KeyError or      *)
(* ValueError of an entry; any other ends the cycle ("idle").  The object   *)
(* of an entry is lost with the call, that of a close is the runner's own.  *)
Escape(p, next, object) ==
  /\ pc' = next
  /\ task' = NoTask
  /\ Remembered(p, IF mem[p].state = "OPENING" THEN NoPosition ELSE object)

(* _save_position and update_live_intent at the end of a call: two          *)
(* transactions, so that the first may commit and the second raise.         *)
Finish(p, object) ==
  \/ /\ Stored(p, object)
     /\ Remembered(p, object)
     /\ pc' = "returned"
     /\ UNCHANGED task
  \/ /\ "database" \in Faults
     /\ UNCHANGED ledger \/ Stored(p, object)
     /\ Escape(p, "idle", object)

(* _save_position in the middle of a call, and the order that follows it.   *)
SaveThenSubmit(p, object, label, want) ==
  \/ /\ Stored(p, object)
     /\ Remembered(p, object)
     /\ Submit(p, label, want)
  \/ /\ "database" \in Faults
     /\ UNCHANGED ledger
     /\ Escape(p, "idle", object)

Fail(p, object) == Finish(p, [object EXCEPT !.state = "FAILED"]) /\ UNCHANGED switch

(* Plausible bug: the position is marked, but entries are not paused. *)
ManualNoTrip(p, object) ==
  /\ UNCHANGED switch
  /\ Finish(p, [object EXCEPT !.state = "MANUAL_INTERVENTION"])

Manual(p, object) ==
  /\ Trip
  /\ Finish(p, [object EXCEPT !.state = "MANUAL_INTERVENTION"])

(* _compensate_open: unwind leg A, then leg B if it exists.                 *)
Compensate(p, object) ==
  /\ Remembered(p, object)
  /\ Submit(p, "unwind_a", object.a)
  /\ UNCHANGED <<ledger, switch>>
-----------------------------------------------------------------------------
(* open_position: the intent and the OPENING row precede every venue call.  *)
CreatePosition(p, k) ==
  /\ ~paused
  /\ ledger[p] = NoPosition
  /\ LET object == [state |-> "OPENING", key |-> k, a |-> 0, b |-> 0]
     IN  \/ /\ Stored(p, object)
            /\ Remembered(p, object)
            /\ pc' = "prepare"
            /\ task' = [pos |-> p, label |-> "open_a", want |-> 0, got |-> 0, unknown |-> FALSE]
         \/ /\ "database" \in Faults
            /\ UNCHANGED <<ledger, mem, task>>
            /\ pc' = "idle"
  /\ UNCHANGED <<rows, venue, switch>>

(* Normalisation, fresh books, planned prices and derivative configuration. *)
Prepare ==
  /\ pc = "prepare"
  /\ LET p == task.pos
     IN  \/ Fail(p, mem[p])
         \/ Submit(p, "open_a", Quantity) /\ UNCHANGED <<ledger, mem, switch>>
         \/ /\ "network" \in Faults
            /\ Escape(p, "idle", mem[p])
            /\ UNCHANGED <<ledger, switch>>
  /\ UNCHANGED <<rows, venue>>

(* Plausible bug: the row is written with the result, not before the order. *)
AcceptUnrecorded ==
  /\ pc = "submit"
  /\ task.label \in Opening => ~paused
  /\ pc' = "send"
  /\ UNCHANGED <<ledger, rows, mem, venue, switch, task>>

(* _submit up to the venue call: the risk check, then the PENDING row.      *)
Accept ==
  /\ pc = "submit"
  /\ task.label \in Opening => ~paused
  /\ rows' = [rows EXCEPT ![task.pos][task.label] = "PENDING"]
  /\ pc' = "send"
  /\ UNCHANGED <<ledger, mem, venue, switch, task>>

(* An order that is not sent: paused, a limit, a stale or thin book, a      *)
(* quantity below the venue's minimum, or no PENDING row.                   *)
Refuse ==
  /\ pc = "submit"
  /\ LET p == task.pos
     IN  \/ task.label = "open_a" /\ Fail(p, mem[p])
         \/ task.label = "open_b" /\ Compensate(p, mem[p])
         \/ /\ task.label \notin Opening
            /\ Faults \cap {"database", "price"} # {}
            /\ Manual(p, mem[p])
         \/ /\ task.label \in {"close_a", "close_b"}
            /\ "network" \in Faults
            /\ Manual(p, mem[p])
  /\ UNCHANGED <<rows, venue>>

(* What no handler of open_position catches before the venue call: the      *)
(* PENDING row of an entry, fetch_balance before the hedge, and the limit   *)
(* price of an unwind.                                                      *)
Abandon ==
  /\ pc = "submit"
  /\ \/ /\ task.label \in Opening
        /\ "database" \in Faults
        /\ Escape(task.pos, "idle", mem[task.pos])
     \/ /\ task.label = "open_b"
        /\ "network" \in Faults
        /\ Escape(task.pos, "idle", mem[task.pos])
     \/ /\ task.label \in {"unwind_a", "unwind_b"}
        /\ "price" \in Faults
        /\ Escape(task.pos, "open", mem[task.pos])
  /\ UNCHANGED <<durable, venue, switch>>

(* submit_ioc_order: the venue fills what it will; reduce-only orders and   *)
(* spot sales cannot exceed what is held.  The outcome is known, lost (the  *)
(* adapter reports UNKNOWN, or raises and the executor trips), or read from *)
(* an order that was still open when it was found by its client id.         *)
Fillable(p, label, want) ==
  IF label \in Opening \/ want <= Exposure(p, LegOf(label))
  THEN want ELSE Exposure(p, LegOf(label))

Answered(got, unknown) == task' = [task EXCEPT !.got = got, !.unknown = unknown]

Send ==
  /\ pc = "send"
  /\ pc' = "record"
  /\ \E f \in 0..Fillable(task.pos, task.label, task.want) :
       /\ fills' = [fills EXCEPT ![task.pos][task.label] = f]
       /\ \/ Answered(f, FALSE) /\ UNCHANGED switch
          \/ /\ "answer" \in Faults
             /\ Answered(0, TRUE)
             /\ UNCHANGED switch \/ Trip
          \/ /\ "open_answer" \in Faults
             /\ \E got \in 0..f : Answered(got, FALSE)
             /\ UNCHANGED switch
  /\ UNCHANGED <<durable, mem, outside>>

(* save_live_order of the result; when that fails the outcome counts as     *)
(* unknown.                                                                 *)
Record ==
  /\ pc = "record"
  /\ pc' = "decide"
  /\ \/ /\ rows' = [rows EXCEPT ![task.pos][task.label] = IF task.unknown THEN "UNKNOWN" ELSE "DONE"]
        /\ UNCHANGED <<task, switch>>
     \/ /\ "database" \in Faults
        /\ Trip
        /\ Answered(task.got, TRUE)
        /\ UNCHANGED rows
  /\ UNCHANGED <<ledger, mem, venue>>
-----------------------------------------------------------------------------
Known(label) == pc = "decide" /\ task.label = label /\ ~task.unknown

(* Plausible bug: an unknown order is sent again. *)
UnknownRetries ==
  /\ pc = "decide"
  /\ task.unknown
  /\ Submit(task.pos, task.label, task.want)
  /\ UNCHANGED <<durable, mem, venue, switch>>

(* An unknown outcome is never retried or compensated.                      *)
DecideUnknown ==
  /\ pc = "decide"
  /\ task.unknown
  /\ Manual(task.pos, mem[task.pos])
  /\ UNCHANGED <<rows, venue>>

DecideFirstLeg ==
  /\ Known("open_a")
  /\ LET p == task.pos
         object == [mem[p] EXCEPT !.a = task.got]
     IN  \/ task.got = 0 /\ Fail(p, mem[p])
         \/ /\ task.got > 0
            /\ SaveThenSubmit(p, object, "open_b", task.got)
            /\ UNCHANGED switch
         \/ /\ task.got > 0  \* a spot purchase whose fee cannot be resolved
            /\ "network" \in Faults
            /\ Manual(p, object)
  /\ UNCHANGED <<rows, venue>>

(* Plausible bug: any second fill counts as a hedge. *)
HedgeAnyFill ==
  /\ Known("open_b")
  /\ LET p == task.pos
         object == [mem[p] EXCEPT !.b = task.got]
     IN  \/ task.got = 0 /\ Compensate(p, mem[p])
         \/ /\ task.got > 0
            /\ Finish(p, [object EXCEPT !.state = "OPEN"])
            /\ UNCHANGED switch
  /\ UNCHANGED <<rows, venue>>

(* Fills that differ by more than live_max_hedge_drift_percent (here: at    *)
(* all) are unwound on both legs.                                           *)
DecideSecondLeg ==
  /\ Known("open_b")
  /\ LET p == task.pos
         object == [mem[p] EXCEPT !.b = task.got]
     IN  \/ task.got = 0 /\ Compensate(p, mem[p])
         \/ task.got > 0 /\ task.got # mem[p].a /\ Compensate(p, object)
         \/ /\ task.got = mem[p].a
            /\ Finish(p, [object EXCEPT !.state = "OPEN"])
            /\ UNCHANGED switch
  /\ UNCHANGED <<rows, venue>>

(* Plausible bug: an unwind that filled at all counts as complete. *)
UnwindPartly ==
  /\ pc = "decide"
  /\ task.label \in {"unwind_a", "unwind_b"}
  /\ ~task.unknown
  /\ LET p == task.pos
     IN  \/ task.got = 0 /\ Manual(p, mem[p])
         \/ /\ task.got > 0
            /\ \/ /\ task.label = "unwind_a" /\ mem[p].b > 0
                  /\ Submit(p, "unwind_b", mem[p].b)
                  /\ UNCHANGED <<ledger, mem, switch>>
               \/ ~(task.label = "unwind_a" /\ mem[p].b > 0) /\ Fail(p, mem[p])
  /\ UNCHANGED <<rows, venue>>

(* An unwind that is not full is left to the operator, and so is one that   *)
(* leaves too much of a spot leg in units the venue does not take (all      *)
(* quantities are counted in units it takes).                               *)
DecideUnwind ==
  /\ Known("unwind_a") \/ Known("unwind_b")
  /\ LET p == task.pos
         another == task.label = "unwind_a" /\ mem[p].b > 0
     IN  \/ /\ task.got < task.want \/ "price" \in Faults
            /\ Manual(p, mem[p])
         \/ /\ task.got = task.want
            /\ another
            /\ Submit(p, "unwind_b", mem[p].b)
            /\ UNCHANGED <<ledger, mem, switch>>
         \/ task.got = task.want /\ ~another /\ Fail(p, mem[p])
  /\ UNCHANGED <<rows, venue>>
-----------------------------------------------------------------------------
(* Plausible bug: the first close goes out before CLOSING is saved. *)
StartCloseUnsaved(p) ==
  /\ mem[p].state = "OPEN"
  /\ Remembered(p, [mem[p] EXCEPT !.state = "CLOSING"])
  /\ Submit(p, "close_a", mem[p].a)
  /\ UNCHANGED <<ledger, rows, venue, switch>>

(* close_position: CLOSING is in memory before it is in the ledger.  Its    *)
(* test for a missing leg never succeeds: an OPEN position has both.        *)
StartClose(p) ==
  /\ mem[p].state = "OPEN"
  /\ SaveThenSubmit(p, [mem[p] EXCEPT !.state = "CLOSING"], "close_a", mem[p].a)
  /\ UNCHANGED <<rows, venue, switch>>

(* What a closing order cannot take of a spot leg is found out before it is *)
(* sent, and refuses it (Refuse).                                           *)
DecideClose ==
  /\ Known("close_a") \/ Known("close_b")
  /\ LET p == task.pos
     IN  \/ task.got < task.want /\ Manual(p, mem[p])
         \/ /\ task.got = task.want
            /\ task.label = "close_a"
            /\ Submit(p, "close_b", mem[p].b)
            /\ UNCHANGED <<ledger, mem, switch>>
         \/ /\ task.got = task.want
            /\ task.label = "close_b"
            /\ Finish(p, [mem[p] EXCEPT !.state = "CLOSED"])
            /\ UNCHANGED switch
  /\ UNCHANGED <<rows, venue>>

Decide ==
  \/ DecideUnknown
  \/ DecideFirstLeg
  \/ DecideSecondLeg
  \/ DecideUnwind
  \/ DecideClose

ExecutorStep == Prepare \/ Accept \/ Refuse \/ Abandon \/ Send \/ Record \/ Decide

(* The venue reduces a leg by itself.                                       *)
ForcedReduction(p, leg) ==
  /\ "forced" \in Faults
  /\ Exposure(p, leg) > 0
  /\ outside' = [outside EXCEPT ![p][leg] = @ + Exposure(p, leg)]
  /\ UNCHANGED <<durable, fills, mem, switch, pc, task>>

ExecutorInit ==
  /\ ledger = [p \in Position |-> NoPosition]
  /\ rows = [p \in Position |-> [l \in Label |-> "none"]]
  /\ mem = [p \in Position |-> NoPosition]
  /\ fills = [p \in Position |-> [l \in Label |-> 0]]
  /\ outside = [p \in Position |-> [g \in Leg |-> 0]]
  /\ task = NoTask
  /\ pc = "down"
=============================================================================
