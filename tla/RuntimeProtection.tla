-------------------------- MODULE RuntimeProtection --------------------------
(***************************************************************************)
(* The multi-regime runtime around the directional paper broker and its    *)
(* protective stops: services/multi_regime_runtime.py takes journaled      *)
(* events one by one, saves the decision an event leads to, lets the       *)
(* broker act on it, and synchronizes the stops with the positions.        *)
(*                                                                         *)
(* A catch-up saves, with the checkpoint, the positions updated since the  *)
(* page before.  The broker is deterministic, and a restart replays every  *)
(* event and saved decision since the checkpoint: as a rule it brings back *)
(* the positions the process died with, so pos survives a crash.           *)
(*                                                                         *)
(* Not so after a catch-up was overtaken.  One that waits for the lock     *)
(* (flush) does not look at the failure again; it goes on where another    *)
(* was cut off, the broker drops what it has already seen, and the page    *)
(* saved then has nothing of it.  A restart takes such positions back to   *)
(* their rows: undone has them, and is also what remains of them.  Until   *)
(* that page is saved a replay would still bring them back; rows and any   *)
(* replay from there include this.                                         *)
(***************************************************************************)
EXTENDS ProtectiveStops

CONSTANTS
  Instrument,
  InstrumentOf  \* the instrument of each position

ASSUME InstrumentAssumption == InstrumentOf \in [Position -> Instrument]

VARIABLES
  pos,        \* DirectionalPaperBroker._positions
  plan,       \* the saved decision the broker has still to act on, or NoPlan
  interlock,  \* RuntimeState._protective_interlock_reason is not None
  todo,       \* the positions synchronize has still to visit
  pc,
  rows,       \* position_states
  page,       \* positions updated since the page saved last
  owed,       \* saved decisions of events behind the checkpoint
  course,     \* was a catch-up overtaken, and what it had not saved "strayed"
  undone      \* positions a restart took back to an earlier state

saving == <<rows, page, owed, course, undone>>
protection == <<stops, pos, plan, interlock, todo, pc, saving>>

NoPlan == "no plan"

ASSUME PlanAssumption == NoPlan \notin Position

Terminal == {"CLOSED", "REJECTED", "EXPIRED"}
PositionStatus == {"none", "PENDING_ENTRY", "OPEN", "PENDING_EXIT"} \cup Terminal

Up == {"restore", "idle", "broker", "sync", "reconcile"}

ProtectionTypeOK ==
  /\ StopsTypeOK
  /\ pos \in [Position -> [status : PositionStatus, byStop : BOOLEAN]]
  /\ plan \in Position \cup {NoPlan}
  /\ interlock \in BOOLEAN
  /\ todo \subseteq Position
  /\ pc \in Up \cup {"down", "failed"}
  /\ rows \in [Position -> [status : PositionStatus, byStop : BOOLEAN]]
  /\ {page, owed, undone} \subseteq SUBSET Position
  /\ course \in {"own", "overtaken", "strayed"}

Known == {p \in Position : pos[p].status # "none"}
Active(i, positions) ==
  {p \in Position : InstrumentOf[p] = i /\ positions[p].status \notin {"none"} \cup Terminal}

(* What restore demands of the rows it reads. *)
Distinct(positions) ==
  \A p, q \in Position : \A i \in Instrument : {p, q} \subseteq Active(i, positions) => p = q
-----------------------------------------------------------------------------
At(s) == [status |-> s, byStop |-> FALSE]
Exiting == {[status |-> "PENDING_EXIT", byStop |-> b] : b \in BOOLEAN}

(* _advance_position: what one book may make of a position.  An open one    *)
(* never closes on the book that ends it.                                   *)
Advanced(position) ==
  IF position.status = "PENDING_ENTRY"
  THEN {At(s) : s \in {"PENDING_ENTRY", "OPEN", "REJECTED", "EXPIRED"}} \cup Exiting
  ELSE {position} \cup
       (IF position.status = "OPEN" THEN Exiting ELSE {}) \cup
       (IF position.status = "PENDING_EXIT" THEN {[position EXCEPT !.status = "CLOSED"]} ELSE {})

(* submit: one active position for each instrument.                         *)
Submitted(decision, positions) ==
  IF decision = NoPlan \/ positions[decision].status # "none"
  THEN positions
  ELSE [positions EXCEPT ![decision] =
          At(IF Active(InstrumentOf[decision], positions) = {}
                 THEN "PENDING_ENTRY" ELSE "REJECTED")]

(* advance, then submit, on one book of instrument i.                       *)
BrokerActs(i, decision) ==
  /\ decision # NoPlan => InstrumentOf[decision] = i
  /\ \E after \in [Active(i, pos) -> UNION {Advanced(pos[p]) : p \in Active(i, pos)}] :
       /\ \A p \in Active(i, pos) : after[p] \in Advanced(pos[p])
       /\ pos' = Submitted(decision, [p \in Position |-> IF p \in Active(i, pos) THEN after[p] ELSE pos[p]])
  /\ plan' = NoPlan
  /\ page' = page \cup {p \in Position : pos'[p] # pos[p]}
-----------------------------------------------------------------------------
(* _catch_up takes an event.  The engine may approve an entry, if entries   *)
(* are allowed, and the decision is saved before the broker sees it.        *)
TakeEvent ==
  /\ pc = "idle"
  /\ \/ plan' = NoPlan
     \/ ~interlock /\ plan' \in Position \ (Known \cup owed \cup undone)
  /\ owed' = owed \cup ({plan'} \ {NoPlan})
  /\ pc' = "broker"
  /\ UNCHANGED <<stops, pos, interlock, todo, rows, page, course, undone>>

(* save_directional_paper_page: the updated positions and the checkpoint,   *)
(* in a transaction that may report an error although it committed.         *)
SavePage ==
  /\ pc = "idle"
  /\ rows' = [p \in Position |-> IF p \in page THEN pos[p] ELSE rows[p]]
  /\ page' = {} /\ owed' = {}
  /\ \/ pc' = "idle"
     \/ "database" \in Faults /\ pc' = "failed"
  /\ UNCHANGED <<stops, pos, plan, interlock, todo, course, undone>>

(* A transaction of the catch-up did not happen: failure_reason is set.     *)
CatchUpFails ==
  /\ "database" \in Faults
  /\ pc \in {"idle", "broker"}
  /\ pc' = "failed"
  /\ UNCHANGED <<stops, pos, plan, interlock, todo, saving>>

(* flush: a catch-up that waited goes on, once, as no other passes the      *)
(* check any more.  Events the broker has seen bring no update, a decision  *)
(* the engine has made is not made again.                                   *)
Overtake ==
  /\ pc = "failed"
  /\ course = "own"
  /\ course' = IF page = {} /\ plan = NoPlan THEN "overtaken" ELSE "strayed"
  /\ plan' = NoPlan /\ page' = {} /\ todo' = {}
  /\ pc' = "idle"
  /\ UNCHANGED <<stops, pos, interlock, rows, owed, undone>>

(* Plausible bug: a position on its way out counts as flat. *)
PathExitingIsFlat(p) ==
  IF pos[p].status = "OPEN" THEN Activation(stop[p])
  ELSE IF pos[p].status \in Terminal \cup {"PENDING_EXIT"} THEN Closure(stop[p], pos[p].byStop)
  ELSE << >>

(* The entries synchronize writes for a position.                           *)
Path(p) ==
  IF pos[p].status = "OPEN" THEN Activation(stop[p])
  ELSE IF pos[p].status \in Terminal THEN Closure(stop[p], pos[p].byStop)
  ELSE << >>

(* How a pass over the positions ends early: the process dies, or the       *)
(* catch-up ends in an error.                                               *)
Halts ==
  \/ "crash" \in Faults /\ pc' = "down"
  \/ "append" \in Faults /\ pc' = "failed"

(* What synchronize refuses: a cancellation nobody prepared, and a stop     *)
(* that was registered for another quantity, which only a position that was *)
(* taken back and entered anew can have.                                    *)
Refused(p) ==
  \/ pos[p].status \in Terminal /\ ClosureRaises(stop[p])
  \/ p \in undone /\ pos[p].status = "OPEN" /\ stop[p] # "none"

(* The broker acts; any update is followed by a pass over all positions, of *)
(* which those matter here that have something to be written or refused.    *)
Broker ==
  /\ pc = "broker"
  /\ UNCHANGED <<stops, interlock, rows, owed, course, undone>>
  /\ \/ \E i \in Instrument :
          /\ Active(i, pos) # {} \/ plan # NoPlan
          /\ BrokerActs(i, plan)
          /\ todo' = {p \in Position : Path(p)' # << >> \/ Refused(p)'}
          /\ pc' = IF todo' = {} THEN "reconcile" ELSE "sync"
     \/ plan = NoPlan /\ pc' = "idle" /\ UNCHANGED <<pos, plan, todo, page>>

(* synchronize visits a position, in whatever order their identities have.  *)
Visit(p) ==
  /\ pc = "sync"
  /\ p \in todo
  /\ \/ /\ Refused(p)
        /\ pc' = "failed"
        /\ UNCHANGED <<stops, todo>>
     \/ /\ ~(pos[p].status \in Terminal /\ ClosureRaises(stop[p]))
        /\ StopWritten(p, Path(p))
        /\ todo' = todo \ {p}
        /\ pc' = IF todo' = {} THEN "reconcile" ELSE "sync"
     \/ Path(p) # << >> /\ Interrupted(p, Path(p)) /\ Halts /\ UNCHANGED todo
  /\ UNCHANGED <<pos, plan, interlock, saving>>

(* _observed: the venue lists the stops of open positions.                  *)
Observed == {p \in Position : pos[p].status = "OPEN"}

(* Plausible bug: a pass with no issue lifts the interlock of an earlier one. *)
VerdictForgets(safe, engaged) == ~safe

(* The runtime's interlock after a pass. *)
Verdict(safe, engaged) == IF safe THEN interlock /\ engaged ELSE TRUE

(* The reconciliation that ends the pass, and the runtime's interlock.      *)
Reconcile ==
  /\ pc = "reconcile"
  /\ \/ /\ ReconcileStops(Observed)
        /\ interlock' = Verdict(Missing(Observed) = {}, latched)
        /\ pc' = "idle"
     \/ ReconcileInterrupted(Observed) /\ Halts /\ UNCHANGED interlock
  /\ UNCHANGED <<pos, plan, todo, saving>>
-----------------------------------------------------------------------------
(* A process that dies leaves no memory; pos is what a replay brings back.  *)
ServiceDies ==
  /\ "crash" \in Faults
  /\ pc \in Up
  /\ pc' = "down"
  /\ stop' = stopJournal.stop /\ latched' = stopJournal.latched
  /\ plan' = NoPlan /\ interlock' = FALSE /\ todo' = {}
  /\ UNCHANGED <<stopJournal, lastLine, pos, saving>>

(* A new process: the stop journal must load and the rows must pass restore.*)
(* RuntimeState starts without an interlock.                                *)
ServiceStarts ==
  /\ pc \in {"down", "failed"}
  /\ StopsRecovered
  /\ Distinct(rows)
  /\ IF course = "strayed"
     THEN /\ pos' = rows /\ page' = {}
          /\ undone' = undone \cup {p \in Position : rows[p] # pos[p]}
     ELSE UNCHANGED <<pos, page, undone>>
  /\ owed' = {p \in owed : pos'[p].status = "none"}
  /\ course' = "own"
  /\ plan' = NoPlan /\ interlock' = FALSE /\ todo' = {}
  /\ pc' = "restore"
  /\ UNCHANGED rows

(* _restore_paper: events the dead process had not taken, and decisions it  *)
(* had saved, go through the broker; the stops are not synchronized.        *)
Replay ==
  /\ pc = "restore"
  /\ \E i \in Instrument : \E decision \in owed \cup {NoPlan} :
       /\ Active(i, pos) # {} \/ decision # NoPlan
       /\ BrokerActs(i, decision)
       /\ owed' = owed \ {decision}
  /\ UNCHANGED <<stops, interlock, todo, pc, rows, course, undone>>

(* The pages of the replay are saved before an event is taken.              *)
Restored ==
  /\ pc = "restore"
  /\ owed = {}
  /\ rows' = pos /\ page' = {}
  /\ pc' = "idle"
  /\ UNCHANGED <<stops, pos, plan, interlock, todo, owed, course, undone>>

ProtectionInit ==
  /\ StopsInit
  /\ pos = [p \in Position |-> At("none")] /\ rows = pos
  /\ plan = NoPlan
  /\ interlock = FALSE
  /\ todo = {} /\ page = {} /\ owed = {} /\ undone = {}
  /\ course = "own"
  /\ pc = "idle"

ProtectionNext ==
  \/ TakeEvent \/ Broker \/ SavePage \/ CatchUpFails \/ Overtake \/ Reconcile
  \/ \E p \in Position : Visit(p)
  \/ ServiceDies \/ ServiceStarts \/ Replay \/ Restored

ProtectionSpec == ProtectionInit /\ [][ProtectionNext]_protection
-----------------------------------------------------------------------------
(* The broker never holds two live positions in one instrument, whatever a  *)
(* crash or a restart comes between; and restore refuses the rows, which    *)
(* must not hold two either, only if a catch-up was overtaken.              *)
OneActive == Distinct(pos) /\ (course # "strayed" => Distinct(rows))

(* Protection is withdrawn only from a position that is flat for good: no   *)
(* exit in progress, crash, failed append or replay leaves exposure whose   *)
(* stop was cancelled, rejected or taken for triggered.  Excepted are the   *)
(* positions a restart took back.                                           *)
WithdrawnOnlyWhenFlat ==
  \A p \in Position \ undone : stop[p] \in Withdrawn => pos[p].status \in Terminal

(* When a pass completes, whatever crashes and errors came before it, every *)
(* open position has an active stop and no ended one has a stop still       *)
(* working at the venue; the same are excepted.                             *)
Accounted(p) ==
  /\ pos[p].status = "OPEN" => stop[p] = "ACTIVE"
  /\ pos[p].status \in Terminal => stop[p] \in Ended \cup {"none"}

PassAccountsForAll ==
  [][pc = "reconcile" /\ pc' = "idle" => \A p \in Position \ undone : Accounted(p)']_protection

(* In one process the interlock, once engaged, stays: later passes without  *)
(* an issue do not lift it, and no decision to enter is taken under it.     *)
InterlockStays ==
  [][interlock /\ pc' \in Up \ {"restore"} => interlock' /\ (plan' = plan \/ plan' = NoPlan)]_protection
-----------------------------------------------------------------------------
(* What documents and tests say of the runtime.                             *)

(* An exit that nothing disturbs, be it the target or the stop itself, ends *)
(* the stop without an interlock.                                           *)
ExitsKeepInterlockOff == Faults = {} => ~interlock

(* The interlock blocks new entries until an operator resolves it: while    *)
(* the journal has it engaged, no decision to enter is taken.               *)
NoEntryWhileLatched == [][plan' \notin {plan, NoPlan} => ~latched]_protection

(* Protection survives a restart: with crashes alone the runtime does not   *)
(* fail of itself.                                                          *)
SurvivesRestart == pc = "failed" => Faults \cap {"append", "database"} # {}
=============================================================================
