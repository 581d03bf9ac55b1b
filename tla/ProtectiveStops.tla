--------------------------- MODULE ProtectiveStops ---------------------------
(***************************************************************************)
(* The protective stops of execution/protective.py and the coordinator     *)
(* that drives them (services/runtime_protective.py).  A stop is written   *)
(* to a journal, fsynced, before memory changes, and nothing in a pass     *)
(* over the positions awaits.  A crash or a failed append leaves a prefix  *)
(* of the entries a pass was about to write; the entry whose append failed *)
(* may be in the journal, and a process that goes on after that error does *)
(* not know of it: its next entry repeats the sequence number, and the     *)
(* journal does not load again.                                            *)
(***************************************************************************)
EXTENDS Naturals, Sequences, SequencesExt

CONSTANTS
  Position,  \* the positions the broker may ever hold; one stop for each
  Faults     \* what may go wrong: a subset of FaultKinds

(* crash   the process dies
   append  an append to the journal ends in an OSError, its line is there or not
   torn    a crash or such an error leaves part of a line in the journal
   database  a transaction fails, or is cancelled by a shutdown              *)
FaultKinds == {"crash", "append", "torn", "database"}

ASSUME FaultsAssumption == Faults \subseteq FaultKinds

VARIABLES
  stop,     \* the status of each position's stop, "none" before registration
  latched,  \* ProtectiveStopManager.interlock_engaged
  stopJournal, \* the stop and latched that the journal replays to
  lastLine  \* is it "known" to memory, "unknown" to it, or the journal "broken"

stops == <<stop, latched, stopJournal, lastLine>>

StopStatus == {"none", "REGISTERED", "SUBMITTING", "ACTIVE", "TRIGGERED",
               "CANCEL_PENDING", "CANCELLED", "REJECTED", "BLOCKED"}

Expected == {"SUBMITTING", "ACTIVE", "CANCEL_PENDING"}
Withdrawn == {"TRIGGERED", "CANCEL_PENDING", "CANCELLED", "REJECTED"}
Ended == {"TRIGGERED", "CANCELLED", "REJECTED", "BLOCKED"}

StopsTypeOK ==
  /\ stop \in [Position -> StopStatus]
  /\ latched \in BOOLEAN
  /\ stopJournal \in [stop : [Position -> StopStatus], latched : BOOLEAN]
  /\ lastLine \in {"known", "unknown", "broken"}
-----------------------------------------------------------------------------
(* The statuses _ensure_active writes for an open position.                 *)
ActivationFrom ==
  [none       |-> <<"REGISTERED", "SUBMITTING", "ACTIVE">>,
   REGISTERED |-> <<"SUBMITTING", "ACTIVE">>,
   SUBMITTING |-> <<"ACTIVE">>]

(* Plausible bug: only a stop registered in this pass is submitted. *)
ActivationFresh(status) ==
  IF status = "none" THEN <<"REGISTERED", "SUBMITTING", "ACTIVE">> ELSE << >>

Activation(status) ==
  IF status \in {"none", "REGISTERED", "SUBMITTING"} THEN ActivationFrom[status] ELSE << >>

(* The statuses _close writes for a position that ended.                    *)
ClosureFrom ==
  [ACTIVE         |-> <<"CANCEL_PENDING", "CANCELLED">>,
   CANCEL_PENDING |-> <<"CANCELLED">>,
   SUBMITTING     |-> <<"REJECTED">>]

Closure(status, byStop) ==
  IF status = "ACTIVE" /\ byStop THEN <<"TRIGGERED">>
  ELSE IF status \in {"ACTIVE", "CANCEL_PENDING", "SUBMITTING"} THEN ClosureFrom[status]
  ELSE << >>

(* apply_terminal refuses to cancel a stop that no cancellation was         *)
(* prepared for: "unsolicited protective cancellation".                     *)
ClosureRaises(status) == status = "REGISTERED"

(* _persist: entries are written, and memory follows.                       *)
Persisted ==
  /\ stopJournal' = [stop |-> stop', latched |-> latched']
  /\ lastLine' = IF lastLine = "known" THEN "known" ELSE "broken"

(* What an append that did not return leaves at the journal's end, when     *)
(* some line of the pass is there and memory knows all there are.           *)
LineLeft(some, all) ==
  lastLine' \in (IF "torn" \in Faults THEN {"broken"} ELSE {}) \cup
               {CASE ~some -> lastLine
                  [] some /\ lastLine # "known" -> "broken"
                  [] some /\ lastLine = "known" -> IF all THEN "known" ELSE "unknown"}

(* The entries of one position, all of them written.                        *)
StopWritten(p, path) ==
  \/ path = << >> /\ UNCHANGED stops
  \/ /\ path # << >>
     /\ stop' = [stop EXCEPT ![p] = Last(path)]
     /\ UNCHANGED latched
     /\ Persisted

(* n of them known to memory and m of them in the journal, when the process *)
(* crashed or an append failed.                                             *)
AfterLines(p, path, n) == IF n = 0 THEN stop ELSE [stop EXCEPT ![p] = path[n]]

Interrupted(p, path) ==
  \E m \in 0 .. Len(path) : \E n \in {k \in 0 .. Len(path) - 1 : k = m \/ k + 1 = m} :
    /\ stop' = AfterLines(p, path, n)
    /\ stopJournal' = IF m = 0 THEN stopJournal
                      ELSE [stop |-> AfterLines(p, path, m), latched |-> latched]
    /\ LineLeft(m > 0, m = n)
    /\ UNCHANGED latched
-----------------------------------------------------------------------------
(* reconcile: the stops the venue should list and does not.                 *)
Working == {p \in Position : stop[p] \in Expected}
Missing(observed) == Working \ observed

(* What it makes of a stop.  An order the venue lists agrees with the       *)
(* journal, because the simulated venue derives it from there.              *)
Reconciled(p, observed) ==
  IF p \notin Working THEN stop[p]
  ELSE IF p \in Missing(observed) THEN "BLOCKED"
  ELSE IF stop[p] = "CANCEL_PENDING" THEN "CANCELLED"
  ELSE "ACTIVE"

StopsAfter(done, observed) ==
  [p \in Position |-> IF p \in done THEN Reconciled(p, observed) ELSE stop[p]]

ReconcileStops(observed) ==
  /\ stop' = StopsAfter(Working, observed)
  /\ latched' = (latched \/ Missing(observed) # {})
  /\ IF Working = {} THEN UNCHANGED <<stopJournal, lastLine>> ELSE Persisted

(* Interrupted: memory knows of some stops, the journal of these or of one  *)
(* more, or the interlock is what one of them does not know of.             *)
ReconcileInterrupted(observed) ==
  /\ UNCHANGED latched
  /\ \E done \in SUBSET Working : \E written \in {done} \cup {done \cup {p} : p \in Working} :
       \E engaged \in BOOLEAN :
         /\ done = Working => Missing(observed) # {}
         /\ engaged => done = Working
         /\ stop' = StopsAfter(done, observed)
         /\ stopJournal' = IF written = {} THEN stopJournal
              ELSE [stop |-> StopsAfter(written, observed), latched |-> latched \/ engaged]
         /\ LineLeft(written # {}, written = done /\ ~engaged)

(* _recover: a new manager has what the journal replays to, if it loads.    *)
StopsRecovered ==
  /\ lastLine # "broken"
  /\ stop' = stopJournal.stop /\ latched' = stopJournal.latched
  /\ lastLine' = "known"
  /\ UNCHANGED stopJournal

StopsInit ==
  /\ stop = [p \in Position |-> "none"]
  /\ latched = FALSE
  /\ stopJournal = [stop |-> stop, latched |-> latched]
  /\ lastLine = "known"
=============================================================================
