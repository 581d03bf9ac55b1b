----------------------------- MODULE KillSwitch -----------------------------
(***************************************************************************)
(* LiveRiskController's interlock (risk/live.py): a reason in memory and a *)
(* file on a volume that survives the process.  Either one pauses entries. *)
(* The equity baselines are abstracted to "a limit may be crossed".        *)
(***************************************************************************)
CONSTANT Faults  \* what may go wrong: a subset of FaultKinds

(* database      a transaction raises (and rolls back)
   network       a venue request other than an order raises
   price         normalize_price or normalize_base_quantity raises ValueError
   answer        the outcome of an order is lost: UNKNOWN
   open_answer   an ambiguous order is recovered while it is still open
   forced        the venue reduces a leg by itself (liquidation, ADL)
   losses        equity crosses a limit
   kill_file     the kill-switch file cannot be written
   crash         the process dies                                           *)
FaultKinds == {"database", "network", "price", "answer", "open_answer", "forced",
               "losses", "kill_file", "crash"}

ASSUME FaultsAssumption == Faults \subseteq FaultKinds

VARIABLES
  tripped,   \* LiveRiskController.state.paused_reason is not None
  killFile   \* the kill-switch file exists

switch == <<tripped, killFile>>

SwitchTypeOK == tripped \in BOOLEAN /\ killFile \in BOOLEAN

paused == killFile \/ tripped

(* Plausible bug: the reason is kept in memory only. *)
TripInMemory ==
  /\ tripped' = TRUE
  /\ UNCHANGED killFile

(* trip: nothing when already paused; the write may fail and the pause then *)
(* lasts only as long as the process.                                       *)
Trip ==
  IF paused
  THEN UNCHANGED switch
  ELSE /\ tripped' = TRUE
       /\ killFile' \in IF "kill_file" \in Faults THEN BOOLEAN ELSE {TRUE}

(* The operator's emergency stop: the file, written from outside.           *)
OperatorPause ==
  /\ ~killFile
  /\ killFile' = TRUE
  /\ UNCHANGED tripped

SwitchInit == tripped = FALSE /\ killFile = FALSE
=============================================================================
