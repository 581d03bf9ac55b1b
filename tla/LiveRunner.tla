----------------------------- MODULE LiveRunner -----------------------------
(***************************************************************************)
(* The live runner (services/live_runner.py) around the executor: one task *)
(* that reconciles, values the accounts, closes what must be closed and    *)
(* opens what may be opened; the reconciler that compares the ledger with  *)
(* the venues; an operator at the kill switch; crashes and restarts at any *)
(* step.  A PostgreSQL advisory lock keeps a second runner out, so there   *)
(* is one process.                                                         *)
(***************************************************************************)
EXTENDS LiveExecutor, FiniteSetsExt

CONSTANTS
  MaxOpen,          \* live_max_open_positions
  LiquidateOnPause  \* live_liquidate_on_pause

ASSUME RunnerAssumption == MaxOpen \in Nat /\ LiquidateOnPause \in BOOLEAN

VARIABLES
  indexed,  \* the keys of _position_by_key
  due,      \* a reconciliation is due: none has passed within the interval
  todo,     \* positions _close_positions has still to look at
  offers    \* opportunities _open_positions has still to look at

loops == <<todo, offers>>
runner == <<indexed, due, loops>>
vars == <<durable, venue, switch, mem, pc, task, runner>>

Steps == {"down", "boot", "halted", "idle", "check", "equity", "close", "open",
          "prepare", "submit", "send", "record", "decide", "returned"}
Stopped == {"down", "halted"}

TypeOK ==
  /\ SwitchTypeOK
  /\ ExecutorTypeOK
  /\ pc \in Steps
  /\ indexed \subseteq Key
  /\ due \in BOOLEAN
  /\ todo \subseteq Position
  /\ offers \subseteq Key
-----------------------------------------------------------------------------
(* LiveReconciler.reconcile compares, for each instrument, the sum over the *)
(* active positions with what the venue holds; positions of one key trade   *)
(* the same instruments.  Quantities that differ within its tolerance are   *)
(* the same number of units here.                                           *)
Quantities(object, leg) == IF leg = "a" THEN object.a ELSE object.b

Expected(k, leg) ==
  MapThenSumSet(LAMBDA p : Quantities(ledger[p], leg),
                {p \in Position : ledger[p].state \in Active /\ ledger[p].key = k})

Actual(k, leg) ==
  MapThenSumSet(LAMBDA p : Exposure(p, leg),
                {p \in Position : ledger[p] # NoPosition /\ ledger[p].key = k})

Unsettled == {"OPENING", "CLOSING", "MANUAL_INTERVENTION"}

(* Plausible bug: only quantities are compared, not position states. *)
QuantitiesReconciled ==
  \A k \in Key, leg \in Leg : Expected(k, leg) = Actual(k, leg)

Reconciled ==
  /\ \A p \in Position : ledger[p].state \notin Unsettled
  /\ \A k \in Key, leg \in Leg : Expected(k, leg) = Actual(k, leg)

(* Its three outcomes; a database error leaves the switch alone.            *)
ReconcileFails ==
  \/ (~Reconciled \/ "network" \in Faults) /\ Trip
  \/ "database" \in Faults /\ UNCHANGED switch
-----------------------------------------------------------------------------
Held == {p \in Position : mem[p].state = "OPEN"}

Idle ==
  /\ pc' = "idle"
  /\ todo' = {}
  /\ offers' = {}

(* _restore_positions and the startup reconciliation.                       *)
Restart ==
  /\ pc \in Stopped
  /\ pc' = "boot"
  /\ tripped' = FALSE
  /\ mem' = [p \in Position |-> IF ledger[p].state \in Active THEN ledger[p] ELSE NoPosition]
  /\ indexed' = {ledger[p].key : p \in {q \in Position : ledger[q].state = "OPEN"}}
  /\ due' = TRUE
  /\ UNCHANGED <<durable, venue, killFile, task, loops>>

Startup ==
  /\ pc = "boot"
  /\ \/ Reconciled /\ Idle /\ due' = FALSE /\ UNCHANGED switch
     \/ /\ ~Reconciled \/ Faults \cap {"network", "database"} # {}
        /\ pc' = "halted"
        /\ Trip
        /\ UNCHANGED <<due, loops>>
  /\ UNCHANGED <<durable, venue, mem, task, indexed>>

(* cycle: the market snapshot; an incomplete one pauses.                    *)
BeginCycle ==
  /\ pc = "idle"
  /\ \/ pc' = "check" /\ due' \in {due, TRUE} /\ UNCHANGED switch
     \/ "network" \in Faults /\ Trip /\ UNCHANGED <<pc, due>>
  /\ UNCHANGED <<durable, venue, mem, task, indexed, loops>>

(* The reconciliation when it is due, fresh balances otherwise.  Only a     *)
(* reconciliation that passes stops being due.                              *)
Check ==
  /\ pc = "check"
  /\ \/ due /\ Reconciled /\ pc' = "equity" /\ due' = FALSE /\ UNCHANGED <<switch, loops>>
     \/ due /\ ReconcileFails /\ Idle /\ UNCHANGED due
     \/ ~due /\ pc' = "equity" /\ UNCHANGED <<switch, due, loops>>
     \/ ~due /\ "network" \in Faults /\ Trip /\ Idle /\ UNCHANGED due
  /\ UNCHANGED <<durable, venue, mem, task, indexed>>

(* _record_equity: a limit pauses and the cycle goes on; an unpriced asset   *)
(* pauses and ends it; a database error ends it.                            *)
RecordEquity ==
  /\ pc = "equity"
  /\ \/ /\ pc' = "close"
        /\ todo' = Held
        /\ UNCHANGED offers
        /\ UNCHANGED switch \/ ("losses" \in Faults /\ Trip)
     \/ "network" \in Faults /\ Trip /\ Idle
     \/ "database" \in Faults /\ Idle /\ UNCHANGED switch
  /\ UNCHANGED <<durable, venue, mem, task, indexed, due>>

(* Plausible bug: a paused position waits for an exit signal, too. *)
CloseOnSignal ==
  /\ pc = "close"
  /\ todo # {}
  /\ StartClose(Min(todo)) \/ UNCHANGED <<durable, venue, switch, mem, pc, task>>
  /\ todo' = IF pc' = "idle" THEN {} ELSE todo \ {Min(todo)}
  /\ UNCHANGED <<indexed, due, offers>>

(* _close_positions, one position: a pause closes it, and so does any of    *)
(* the exit signals.                                                        *)
CloseNext ==
  /\ pc = "close"
  /\ todo # {}
  /\ LET p == Min(todo)
     IN  \/ StartClose(p)
         \/ ~(paused /\ LiquidateOnPause) /\ UNCHANGED <<durable, venue, switch, mem, pc, task>>
  /\ todo' = IF pc' = "idle" THEN {} ELSE todo \ {Min(todo)}
  /\ UNCHANGED <<indexed, due, offers>>

(* The gate between closing and opening.                                    *)
EnterOpen ==
  /\ pc = "close"
  /\ todo = {}
  /\ \/ ~paused /\ pc' = "open" /\ offers' = Key /\ UNCHANGED <<switch, todo>>
     \/ Idle /\ UNCHANGED switch
     \/ ~paused /\ "network" \in Faults /\ Trip /\ Idle
  /\ UNCHANGED <<durable, venue, mem, task, indexed, due>>

NextPosition == Min({p \in Position : ledger[p] = NoPosition})

(* Plausible bug: the limit is off by one. *)
OpenNextOneMore ==
  /\ pc = "open"
  /\ Cardinality(Held) <= MaxOpen
  /\ \E p \in Position : ledger[p] = NoPosition
  /\ \E k \in offers \ indexed : CreatePosition(NextPosition, k) /\ offers' = offers \ {k}
  /\ UNCHANGED <<indexed, due, todo>>

(* _open_positions, one opportunity.                                        *)
OpenNext ==
  /\ pc = "open"
  /\ Cardinality(Held) < MaxOpen
  /\ \E p \in Position : ledger[p] = NoPosition
  /\ \E k \in offers \ indexed : CreatePosition(NextPosition, k) /\ offers' = offers \ {k}
  /\ UNCHANGED <<indexed, due, todo>>

EndCycle ==
  /\ pc = "open"
  /\ Idle
  /\ UNCHANGED <<durable, venue, switch, mem, task, indexed, due>>

(* The executor returned the position: the index, and where the loop goes.  *)
Returned ==
  /\ pc = "returned"
  /\ task' = NoTask
  /\ LET object == mem[task.pos]
     IN  \/ /\ object.state = "OPEN"
            /\ pc' = "open"
            /\ indexed' = indexed \cup {object.key}
            /\ UNCHANGED loops
         \/ object.state = "FAILED" /\ pc' = "open" /\ UNCHANGED <<indexed, loops>>
         \/ /\ object.state = "CLOSED"
            /\ pc' = "close"
            /\ indexed' = indexed \ {object.key}
            /\ UNCHANGED loops
         \/ object.state = "MANUAL_INTERVENTION" /\ Idle /\ UNCHANGED indexed
  /\ UNCHANGED <<durable, venue, switch, mem, due>>

Execute ==
  /\ ExecutorStep
  /\ todo' = IF pc' = "idle" THEN {} ELSE todo
  /\ offers' = IF pc' = "idle" THEN {} ELSE offers
  /\ UNCHANGED <<indexed, due>>

RunnerStep ==
  \/ Restart \/ Startup \/ BeginCycle \/ Check \/ RecordEquity \/ CloseNext
  \/ EnterOpen \/ OpenNext \/ EndCycle \/ Returned \/ Execute
-----------------------------------------------------------------------------
Crash ==
  /\ "crash" \in Faults
  /\ pc # "down"
  /\ pc' = "down"
  /\ tripped' = FALSE
  /\ mem' = [p \in Position |-> NoPosition]
  /\ task' = NoTask
  /\ indexed' = {}
  /\ due' = TRUE
  /\ todo' = {}
  /\ offers' = {}
  /\ UNCHANGED <<durable, venue, killFile>>

(* What the runbook has the operator do while the service is stopped:       *)
(* flatten and settle what does not reconcile, then delete the file.        *)
OperatorResolve(p) ==
  /\ pc \in Stopped
  /\ ~Reconciled
  /\ ledger[p].state \in Active
  /\ ledger' = [ledger EXCEPT ![p].state = "FAILED"]
  /\ outside' = [outside EXCEPT ![p] = [leg \in Leg |-> @[leg] + Exposure(p, leg)]]
  /\ UNCHANGED <<rows, fills, switch, mem, pc, task, runner>>

OperatorClear ==
  /\ pc \in Stopped
  /\ Reconciled
  /\ killFile
  /\ killFile' = FALSE
  /\ UNCHANGED <<durable, venue, tripped, mem, pc, task, runner>>

Environment ==
  \/ Crash
  \/ OperatorPause /\ UNCHANGED <<durable, venue, mem, pc, task, runner>>
  \/ OperatorClear
  \/ \E p \in Position : OperatorResolve(p)
  \/ \E p \in Position, leg \in Leg : ForcedReduction(p, leg) /\ UNCHANGED runner

Init ==
  /\ SwitchInit
  /\ ExecutorInit
  /\ indexed = {}
  /\ due = TRUE
  /\ todo = {}
  /\ offers = {}

Next == RunnerStep \/ Environment

Spec == Init /\ [][Next]_vars

(* The event loop keeps running the runner's task and Docker restarts a     *)
(* dead process (restart: unless-stopped); a halted startup waits for the   *)
(* operator.                                                                *)
FairSpec == Spec /\ WF_vars(RunnerStep /\ pc # "halted")
-----------------------------------------------------------------------------
(* What is in the hands of the executor, and what is not.                   *)
AtRest(p) == task = NoTask \/ task.pos # p

Unknown(p) == \E l \in Label : rows[p][l] = "UNKNOWN"

(* An OPEN row of the ledger is a hedge at the venues: both legs hold the   *)
(* recorded quantity, unless the venue reduced one by itself.               *)
OpenIsHedged ==
  \A p \in Position :
    ledger[p].state = "OPEN" =>
      /\ ledger[p].a > 0
      /\ \A leg \in Leg : Exposure(p, leg) + outside[p][leg] = ledger[p].a
                          /\ Quantities(ledger[p], leg) = ledger[p].a

(* No exposure is left behind by a position the ledger counts as over, and  *)
(* none exists without a ledger row.                                        *)
NothingForgotten ==
  \A p \in Position :
    ledger[p].state \notin Active => \A leg \in Leg : Exposure(p, leg) = 0

(* No order fills before its row is durable, and no order is closed twice   *)
(* over: the venue never ends up on the other side.                         *)
RecordedBeforeSent ==
  \A p \in Position :
    /\ \A l \in Label : fills[p][l] > 0 => rows[p][l] # "none"
    /\ \A leg \in Leg : Exposure(p, leg) >= 0

(* An order is sent at most once, over crashes, restarts and failed saves:  *)
(* it goes to its venue only when it had no row, and then it has one for    *)
(* good; nothing but the order on its way fills, and once; and an outcome   *)
(* that was recorded is not recorded over.                                  *)
SentOnce ==
  [][/\ pc' = "send" =>
          /\ task' = task
          /\ pc # "send" => rows[task.pos][task.label] = "none" /\ rows'[task.pos][task.label] = "PENDING"
     /\ \A p \in Position, l \in Label :
          /\ rows[p][l] # "none" => rows'[p][l] # "none"
          /\ rows[p][l] \in {"DONE", "UNKNOWN"} => rows'[p][l] = rows[p][l]
          /\ fills'[p][l] # fills[p][l] =>
               pc = "send" /\ pc' = "record" /\ task.pos = p /\ task.label = l]_vars

(* While a position waits for the operator, or the outcome of one of its    *)
(* orders is unknown, no new position is created and no opening order sent. *)
Stuck(p) ==
  /\ ledger[p].state \in Active
  /\ ledger[p].state = "MANUAL_INTERVENTION" \/ Unknown(p)

NoEntryWhileStuck ==
  [][(\E p \in Position : Stuck(p)) =>
       \A q \in Position :
         /\ ledger[q] = NoPosition => ledger'[q] = NoPosition
         /\ \A l \in Opening : rows[q][l] = "none" => rows'[q][l] = "none"]_vars

(* A position waiting for the operator keeps the durable switch on, over    *)
(* crashes, until it is resolved.                                           *)
ManualKeepsSwitch ==
  (\E p \in Position : ledger[p].state = "MANUAL_INTERVENTION") => killFile

(* A reconciliation passes, and a process gets past its startup, only when  *)
(* no transition was left interrupted, by this life or an earlier one: all  *)
(* that is active is open, in the memory of a process that starts too, and  *)
(* the outcome of every order ever sent for it is recorded.                 *)
Settled(p) ==
  /\ ledger[p].state = "OPEN"
  /\ \A l \in Label : rows[p][l] \in {"none", "DONE"}

StartupGate ==
  [][(pc = "boot" /\ pc' \notin Stopped \cup {"boot"}) \/ (due /\ ~due') =>
       \A p \in Position :
         ledger[p].state \in Active => Settled(p) /\ (pc = "boot" => mem'[p] = ledger[p])]_vars

(* What a trading runner believes open is what the ledger says is open.     *)
HeldIsLedger == pc # "halted" => \A p \in Held : ledger[p] = mem[p]

(* The limits on open positions hold for the ledger, whatever happens       *)
(* between the executor's return and the next cycle.                        *)
Open == {p \in Position : ledger[p].state = "OPEN"}

PositionLimits ==
  /\ Cardinality(Open) <= MaxOpen
  /\ \A p, q \in Open : ledger[p].key = ledger[q].key => p = q

(* The emergency stop closes an open position, or leaves it to the operator *)
(* (runbook: the switch requests closes as soon as fresh depth is there).   *)
PauseLiquidates ==
  \A p \in Position :
    (killFile /\ ledger[p].state = "OPEN") ~> (ledger[p].state # "OPEN" \/ ~killFile)
-----------------------------------------------------------------------------
(* The book of PositionLedger: the rows of the ledger, and what the orders  *)
(* of each position did at the venues.                                      *)
Row(p) ==
  IF ledger[p] = NoPosition THEN [state |-> "none"]
  ELSE [state |-> ledger[p].state, key |-> ledger[p].key]

Rows == [p \in Position |-> Row(p)]
Bought == [p \in Position |-> [leg \in Leg |-> Opened(p, leg)]]
Sold == [p \in Position |-> [leg \in Leg |-> Reduced(p, leg) - outside[p][leg]]]

Book == INSTANCE PositionLedger WITH book <- Rows, bought <- Bought, sold <- Sold, taken <- outside

(* Every position is one life of PositionLedger: over crashes, lost answers *)
(* and failed saves no venue trades for a row that does not say so, no leg  *)
(* is bought twice, and what is over does not come back. *)
BookSpec == Book!Spec
=============================================================================
