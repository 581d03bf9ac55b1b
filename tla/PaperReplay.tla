---------------------------- MODULE PaperReplay ----------------------------
(***************************************************************************)
(* How the multi-regime runtime (services/multi_regime_runtime.py) keeps   *)
(* its paper positions over restarts.  It reads the canonical journal by   *)
(* row id; the decision a row leads to is saved before the broker acts on  *)
(* it; a page of rows is taken in memory, and then its position rows are   *)
(* committed together with the checkpoint.  A start loads the positions    *)
(* and replays the rows behind the checkpoint with their saved decisions.  *)
(* The worker and the paper runner's barrier catch up under one lock; any  *)
(* transaction fails before or after its commit, the process ends anywhere,*)
(* and a shutdown cancels a runner that takes too long.                    *)
(*                                                                         *)
(* One instrument: a row is a book on which orders fill or do not, and may *)
(* make the engine decide; a position is named after the row it was        *)
(* decided on.                                                             *)
(***************************************************************************)
EXTENDS Integers, Sequences, FiniteSetsExt

CONSTANTS
  MaxLog,     \* bound: rows of the journal
  PageSize    \* limit of load_ingestion_events

ASSUME ReplayAssumption == MaxLog \in Nat /\ PageSize \in Nat \ {0}

VARIABLES
  log,         \* canonical_events in id order: what each row does to a position
  decided,     \* rows with a batch in multi_regime_decision_batches that has a plan
  saved,       \* position_states, by the row of their decision
  savedRow,    \* event_row_id of the consumer's checkpoint
  phase,       \* of the process: down, restoring, running, and its shutdown
  failed,      \* failure_reason is not None
  broker,      \* DirectionalPaperBroker._positions
  known,       \* highest row in the engine's _seen
  booked,      \* highest row in the broker's _seen
  processed,   \* _processed_event_row_id
  pass,        \* the catch-up under _lock
  wake,        \* _wake_event
  worker,      \* where _run_worker is
  barrier,     \* where flush is, called by the runner's cycle or by stop
  announced,   \* rows the router has handed to publish
  shown,       \* history: the positions protection was last synchronized with
  overtaken    \* history: a catch-up began where another had been cut off

durableState == <<log, decided, saved, savedRow>>
memoryState == <<broker, known, booked, processed>>
tasks == <<pass, wake, worker, barrier, announced>>
replay == <<durableState, phase, failed, memoryState, tasks, shown, overtaken>>

RowId == 1..MaxLog
Kind == {"fills", "expires"}
InPlay == {"entering", "open", "exiting"}
Stage == {"none", "rejected", "over"} \cup InPlay

NoPositions == [d \in RowId |-> "none"]
NoPass == [by |-> "none", at |-> "row", row |-> 0, last |-> 0, tip |-> 0, dirty |-> {}]

ReplayTypeOK ==
  /\ log \in Seq(Kind) /\ Len(log) <= MaxLog
  /\ decided \subseteq 1..Len(log)
  /\ {saved, broker, shown} \subseteq [RowId -> Stage]
  /\ phase \in {"down", "restoring", "running", "stopping", "draining", "final"}
  /\ {failed, wake, overtaken} \subseteq BOOLEAN
  /\ {savedRow, known, booked, processed, announced} \subseteq 0..Len(log)
  /\ pass \in [by: {"none", "worker", "barrier"}, at: {"row", "decision", "page", "over"},
               row: 0..MaxLog + 1, last: 0..MaxLog, tip: 0..MaxLog, dirty: SUBSET RowId]
  /\ worker \in {"off", "idle", "locking", "working", "done"}
  /\ barrier \in {"idle", "locking", "working"}
-----------------------------------------------------------------------------
(* _advance_position: a book on which orders fill completes the entry or    *)
(* the exit, or ends what is open; on another one an entry expires.         *)
Moved(stage, kind) ==
  CASE stage = "entering" /\ kind = "fills"   -> "open"
    [] stage = "entering" /\ kind = "expires" -> "over"
    [] stage = "open" /\ kind = "fills"       -> "exiting"
    [] stage = "exiting" /\ kind = "fills"    -> "over"
    [] OTHER -> stage

AdvanceAll(positions, r) == [d \in RowId |-> Moved(positions[d], log[r])]

(* The plan of a row that comes while a position works is rejected.         *)
SubmitPlan(positions, r) ==
  [positions EXCEPT ![r] =
     IF positions[r] # "none" THEN positions[r]
     ELSE IF \E d \in RowId : positions[d] \in InPlay THEN "rejected" ELSE "entering"]

(* A row as it is taken: first the broker advances, then the row's decision *)
(* is submitted. *)
Taken(positions, r) ==
  IF r \in decided THEN SubmitPlan(AdvanceAll(positions, r), r) ELSE AdvanceAll(positions, r)

(* What rows first..last make of positions.                                 *)
After(positions, first, last) ==
  LET after[r \in first - 1 .. last] ==
        IF r < first THEN positions ELSE Taken(after[r - 1], r)
  IN  after[last]

History(r) == After(NoPositions, 1, r)

Changed(old, new) == {d \in RowId : old[d] # new[d]}

(* Plausible bug: only positions that are still active are written.         *)
MergedActive(new, dirty) ==
  [d \in RowId |-> IF d \in dirty /\ new[d] \in InPlay THEN new[d] ELSE saved[d]]

(* save_directional_paper_page: the rows of the positions the page updated. *)
Merged(new, dirty) == [d \in RowId |-> IF d \in dirty THEN new[d] ELSE saved[d]]

(* How a transaction may end: committed or not, and an error or not.        *)
Outcomes == {e \in [commits: BOOLEAN, returns: BOOLEAN] : e.returns => e.commits}
-----------------------------------------------------------------------------
(* The collectors append to the journal, and the router tells the consumer. *)
(* They run behind the restore and until the end of a shutdown. *)
Producing == {"running", "stopping", "draining"}

Journaled(kind) ==
  /\ phase \in Producing /\ Len(log) < MaxLog
  /\ log' = Append(log, kind)
  /\ UNCHANGED <<decided, saved, savedRow, phase, failed, memoryState, tasks, shown, overtaken>>

Announce ==
  /\ phase \in Producing /\ ~failed /\ worker # "done"
  /\ announced' \in announced + 1 .. Len(log)
  /\ wake' = TRUE
  /\ UNCHANGED <<durableState, phase, failed, memoryState, pass, worker, barrier, shown, overtaken>>
-----------------------------------------------------------------------------
(* restore_features: the positions and the checkpoint, then page after page *)
(* of the rows behind it, then the consumer stands at the tip of the        *)
(* journal.  The engine has read all of it; an error ends the start.        *)
RestoreBegins ==
  /\ phase = "down"
  /\ phase' = "restoring"
  /\ broker' = saved /\ booked' = savedRow /\ known' = Len(log)
  /\ UNCHANGED <<durableState, failed, processed, tasks, shown, overtaken>>

RestorePage(e) ==
  LET last == Min({booked + PageSize, Len(log)})
  IN  /\ phase = "restoring" /\ ~failed /\ booked < Len(log)
      /\ broker' = After(broker, booked + 1, last) /\ booked' = last
      /\ IF e.commits
         THEN saved' = Merged(broker', Changed(broker, broker')) /\ savedRow' = last
         ELSE UNCHANGED <<saved, savedRow>>
      /\ failed' = ~e.returns
      /\ UNCHANGED <<log, decided, phase, known, processed, tasks, shown, overtaken>>

RestoreEnds ==
  /\ phase = "restoring" /\ ~failed /\ booked = Len(log)
  /\ phase' = "running" /\ worker' = "idle"
  /\ processed' = Len(log) /\ announced' = Len(log)
  /\ UNCHANGED <<durableState, failed, broker, known, booked, pass, wake, barrier, shown,
                 overtaken>>
-----------------------------------------------------------------------------
(* _catch_up: the tip is read once, and the rows up to it in pages.         *)
Page(by, from, tip) ==
  IF from < tip
  THEN [by |-> by, at |-> "row", row |-> from + 1, last |-> Min({from + PageSize, tip}),
        tip |-> tip, dirty |-> {}]
  ELSE [NoPass EXCEPT !.by = by, !.at = "over"]

CatchUp(by) ==
  /\ pass.by = "none"
  /\ pass' = Page(by, processed, Len(log))
  /\ overtaken' = (overtaken \/ known > processed)

(* The row is taken: the engine and the broker drop what they have seen,    *)
(* protection is synchronized with what changed, all of it in one step of   *)
(* the event loop.                                                          *)
TakeRow(withBatch) ==
  LET r == pass.row
      moved == IF r > booked THEN AdvanceAll(broker, r) ELSE broker
      taken == IF withBatch THEN SubmitPlan(moved, r) ELSE moved
  IN  /\ broker' = taken /\ booked' = Max({booked, r})
      /\ shown' = IF taken # broker THEN taken ELSE shown
      /\ pass' = [pass EXCEPT !.dirty = @ \cup Changed(broker, taken),
                              !.row = r + 1, !.at = IF r = pass.last THEN "page" ELSE "row"]

(* No batch: the engine decides nothing, or has seen the row before.        *)
PassRow ==
  /\ pass.by # "none" /\ pass.at = "row"
  /\ TakeRow(FALSE)
  /\ known' = Max({known, pass.row})
  /\ UNCHANGED <<durableState, phase, failed, processed, wake, worker, barrier, announced,
                 overtaken>>

Decide ==
  /\ pass.by # "none" /\ pass.at = "row" /\ pass.row > known
  /\ known' = pass.row
  /\ pass' = [pass EXCEPT !.at = "decision"]
  /\ UNCHANGED <<durableState, phase, failed, broker, booked, processed, wake, worker, barrier,
                 announced, shown, overtaken>>

(* An exception: failure_reason is set, and the lock given back.  The worker *)
(* ends; the caller of flush is told.                                       *)
Fails ==
  /\ failed' = TRUE /\ pass' = NoPass
  /\ worker' = IF pass.by = "worker" THEN "done" ELSE worker
  /\ barrier' = IF pass.by = "barrier" THEN "idle" ELSE barrier

SaveDecision(e) ==
  /\ pass.at = "decision"
  /\ decided' = IF e.commits THEN decided \cup {pass.row} ELSE decided
  /\ IF e.returns
     THEN TakeRow(TRUE) /\ UNCHANGED <<failed, worker, barrier>>
     ELSE Fails /\ UNCHANGED <<broker, booked, shown>>
  /\ UNCHANGED <<log, saved, savedRow, phase, known, processed, wake, announced, overtaken>>

SavePage(e) ==
  /\ pass.at = "page"
  /\ IF e.commits THEN saved' = Merged(broker, pass.dirty) /\ savedRow' = pass.last
                  ELSE UNCHANGED <<saved, savedRow>>
  /\ IF e.returns
     THEN /\ processed' = pass.last /\ pass' = Page(pass.by, pass.last, pass.tip)
          /\ UNCHANGED <<failed, worker, barrier>>
     ELSE Fails /\ UNCHANGED processed
  /\ UNCHANGED <<log, decided, phase, broker, known, booked, wake, announced, shown, overtaken>>

(* The page cannot be read, or the engine raises on the row.                *)
RowFails ==
  /\ pass.by # "none" /\ pass.at = "row"
  /\ known' \in {known, Max({known, pass.row})}
  /\ Fails
  /\ UNCHANGED <<durableState, phase, broker, booked, processed, wake, announced, shown, overtaken>>
-----------------------------------------------------------------------------
(* _run_worker                                                              *)
WorkerWakes ==
  /\ worker = "idle" /\ wake
  /\ worker' = "locking" /\ wake' = FALSE
  /\ UNCHANGED <<durableState, phase, failed, memoryState, pass, barrier, announced, shown,
                 overtaken>>

WorkerStarts ==
  /\ worker = "locking" /\ pass.by = "none"
  /\ IF failed THEN worker' = "done" /\ UNCHANGED <<pass, overtaken>>
               ELSE worker' = "working" /\ CatchUp("worker")
  /\ UNCHANGED <<durableState, phase, failed, memoryState, wake, barrier, announced, shown>>

(* Plausible bug: the wake-up is cleared after the catch-up.                *)
WorkerEndsClearing ==
  /\ pass.by = "worker" /\ pass.at = "over"
  /\ pass' = NoPass /\ wake' = FALSE
  /\ worker' = IF phase = "draining" THEN "done" ELSE "idle"
  /\ UNCHANGED <<durableState, phase, failed, memoryState, barrier, announced, shown, overtaken>>

WorkerEnds ==
  /\ pass.by = "worker" /\ pass.at = "over"
  /\ pass' = NoPass
  /\ worker' = IF phase = "draining" THEN "done" ELSE "idle"
  /\ UNCHANGED <<durableState, phase, failed, memoryState, wake, barrier, announced, shown,
                 overtaken>>

(* flush, by the runner's cycle: the failure is looked at before the lock.  *)
BarrierCalls ==
  /\ phase \in {"running", "stopping"} /\ barrier = "idle" /\ ~failed
  /\ barrier' = "locking"
  /\ UNCHANGED <<durableState, phase, failed, memoryState, pass, wake, worker, announced, shown,
                 overtaken>>

BarrierStarts ==
  /\ barrier = "locking" /\ CatchUp("barrier")
  /\ barrier' = "working"
  /\ UNCHANGED <<durableState, phase, failed, memoryState, wake, worker, announced, shown>>
-----------------------------------------------------------------------------
(* What the end of the process leaves.                                      *)
Ends ==
  /\ phase' = "down" /\ failed' = FALSE
  /\ broker' = NoPositions /\ known' = 0 /\ booked' = 0 /\ processed' = 0
  /\ pass' = NoPass /\ wake' = FALSE /\ worker' = "off" /\ barrier' = "idle" /\ announced' = 0

(* The end of flush; the one stop waits for is its last step. *)
BarrierEnds ==
  /\ pass.by = "barrier" /\ pass.at = "over"
  /\ IF phase = "final"
     THEN Ends
     ELSE /\ pass' = NoPass /\ barrier' = "idle"
          /\ UNCHANGED <<phase, failed, memoryState, wake, worker, announced>>
  /\ UNCHANGED <<durableState, shown, overtaken>>

(* The shutdown of main.py: the runner is asked to end and, when it takes   *)
(* too long, cancelled, which no handler of flush notices; a transaction    *)
(* under way is committed or not.  Then the worker drains the journal, and  *)
(* stop flushes once more.                                                  *)
ShutdownBegins ==
  /\ phase = "running"
  /\ phase' = "stopping"
  /\ UNCHANGED <<durableState, failed, memoryState, tasks, shown, overtaken>>

StopRequested == phase' = "draining" /\ wake' = TRUE

RunnerEnds ==
  /\ phase = "stopping" /\ barrier = "idle"
  /\ StopRequested
  /\ UNCHANGED <<durableState, failed, memoryState, pass, worker, barrier, announced, shown,
                 overtaken>>

RunnerCancelled(committed) ==
  /\ phase = "stopping" /\ barrier \in {"locking", "working"}
  /\ pass.by = "barrier" => pass.at \in {"decision", "page"} \/ pass.row = processed + 1
  /\ StopRequested
  /\ barrier' = "idle" /\ pass' = IF pass.by = "barrier" THEN NoPass ELSE pass
  /\ decided' = IF committed /\ pass.by = "barrier" /\ pass.at = "decision"
                THEN decided \cup {pass.row} ELSE decided
  /\ IF committed /\ pass.by = "barrier" /\ pass.at = "page"
     THEN saved' = Merged(broker, pass.dirty) /\ savedRow' = pass.last
     ELSE UNCHANGED <<saved, savedRow>>
  /\ UNCHANGED <<log, failed, memoryState, worker, announced, shown, overtaken>>

Drained ==
  /\ phase = "draining" /\ worker = "done"
  /\ IF failed THEN Ends
     ELSE /\ phase' = "final" /\ barrier' = "locking"
          /\ UNCHANGED <<failed, memoryState, pass, wake, worker, announced>>
  /\ UNCHANGED <<durableState, shown, overtaken>>

ProcessDies ==
  /\ phase # "down" /\ Ends
  /\ UNCHANGED <<durableState, shown, overtaken>>
-----------------------------------------------------------------------------
ReplayInit ==
  /\ log = << >> /\ decided = {} /\ saved = NoPositions /\ savedRow = 0
  /\ phase = "down" /\ failed = FALSE
  /\ broker = NoPositions /\ known = 0 /\ booked = 0 /\ processed = 0
  /\ pass = NoPass /\ wake = FALSE /\ worker = "off" /\ barrier = "idle" /\ announced = 0
  /\ shown = NoPositions /\ overtaken = FALSE

ReplayNext ==
  \/ \E kind \in Kind : Journaled(kind)
  \/ Announce
  \/ RestoreBegins \/ (\E e \in Outcomes : RestorePage(e)) \/ RestoreEnds
  \/ PassRow \/ Decide \/ RowFails
  \/ \E e \in Outcomes : SaveDecision(e) \/ SavePage(e)
  \/ WorkerWakes \/ WorkerStarts \/ WorkerEnds
  \/ BarrierCalls \/ BarrierStarts \/ BarrierEnds
  \/ ShutdownBegins \/ RunnerEnds \/ (\E c \in BOOLEAN : RunnerCancelled(c)) \/ Drained
  \/ ProcessDies

ReplaySpec == ReplayInit /\ [][ReplayNext]_replay
-----------------------------------------------------------------------------
(* The documented promise: the checkpoint is committed together with the    *)
(* changes of positions, so the position rows are what the rows up to it    *)
(* make of none.                                                            *)
CheckpointIsAtomic == saved = History(savedRow)

(* Unless a catch-up went on where another had been cut off, no restart     *)
(* takes back what protection, and through it a venue, was shown of a       *)
(* position: its stage comes again.                                         *)
NothingUndone ==
  phase \in {"running", "stopping", "draining", "final"} /\ ~overtaken =>
    \A d \in RowId :
      \/ shown[d] \in {"none", broker[d]}
      \/ shown[d] \in InPlay /\ broker[d] = "over"
      \/ shown[d] = "entering" /\ broker[d] \in InPlay
      \/ shown[d] = "open" /\ broker[d] = "exiting"

(* Under the same condition the position rows are at the checkpoint, and    *)
(* the broker at the row it took last, what the journal and the saved       *)
(* decisions make of no positions: no decision is lost or acted upon twice  *)
(* or in another order, by crashes, errors on either side of a commit,      *)
(* restarts, and whoever catches up.                                        *)
PositionsAreHistory ==
  \/ overtaken
  \/ CheckpointIsAtomic /\ (phase # "down" => broker = History(booked)) /\ NothingUndone

(* A worker that waits with no wake-up pending has nothing to do: an        *)
(* announcement made while it, or the barrier, catches up is not lost.      *)
NoRowIsMissed ==
  phase \in {"running", "stopping"} /\ ~failed /\ worker = "idle" /\ ~wake =>
    announced <= processed
=============================================================================
