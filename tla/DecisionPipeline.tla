-------------------------- MODULE DecisionPipeline --------------------------
(***************************************************************************)
(* DecisionPipeline.execute (services/decision_pipeline.py): one approved  *)
(* signal becomes one OMS order per leg, and the legs go to their venues   *)
(* one after another.  The pipeline keeps nothing of its own: what it      *)
(* knows after a crash is what the OMS journal says, and executing the     *)
(* same decision again finds the same orders by their deterministic ids.   *)
(* Between adapter.submit and its answer anything can happen: the venue    *)
(* fills, the connection breaks, the process stops.                        *)
(***************************************************************************)
EXTENDS DurableOMS

CONSTANT
  Legs         \* the orders of the plan, in leg order

ASSUME PipelineAssumption ==
  /\ Legs \in Seq(Order) /\ Legs # << >>
  /\ \A i, k \in 1..Len(Legs) : Legs[i] = Legs[k] => i = k
  /\ \A p, q \in Process : p = q

VARIABLES
  wired,     \* the venues' adapters and the compensator, as configured
  pc,        \* where execute is
  leg,       \* the leg it is at
  result,    \* PipelineStatus of this execution, "RAISED" for an exception
  venue,     \* what the venues hold of each order
  unwound    \* orders whose fill the compensator has taken back

plan == <<wired, venue, unwound>>
task == <<pc, leg, result>>
pipeline == <<vars, plan, task>>

Results == {"none", "RAISED", "RISK_REJECTED", "COMPLETED", "COMPENSATED", "STOPPED",
            "AMBIGUOUS", "MANUAL_INTERVENTION"}

PipelineTypeOK ==
  /\ TypeOK
  /\ wired \in [adapters: SUBSET Order, compensator: BOOLEAN]
  /\ pc \in {"idle", "create", "submit", "send", "answer", "compensate"}
  /\ leg \in 0..Len(Legs)
  /\ pc # "idle" => leg > 0
  /\ result \in Results
  /\ venue \in [Order -> [state: {"none", "live", "done"}, filled: Nat]]
  /\ \A o \in Order : venue[o].filled <= Quantity[o]
  /\ unwound \subseteq Order
-----------------------------------------------------------------------------
Return(status) == pc' = "idle" /\ result' = status /\ UNCHANGED leg

(* The task goes on if the append it has just made succeeded; an append     *)
(* error leaves execute as an exception.                                    *)
GoTo(p, next, n) ==
  IF open'[p] THEN pc' = next /\ leg' = n /\ UNCHANGED result ELSE Return("RAISED")

(* prepare, up to the plan: validation may raise, the risk evaluation may   *)
(* reject, and nothing has been written.                                    *)
Prepare(p) ==
  /\ up[p]
  /\ pc = "idle"
  /\ \/ Return("RAISED")
     \/ Return("RISK_REJECTED")
     \/ pc' = "create" /\ leg' = 1 /\ result' = "none"
  /\ UNCHANGED <<vars, plan>>

(* prepare, one create_order: the order of an earlier execution is reused,  *)
(* whatever became of the journal.                                          *)
Create(p) ==
  /\ pc = "create"
  /\ LET next == IF leg < Len(Legs) THEN [pc |-> "create", leg |-> leg + 1]
                 ELSE [pc |-> "submit", leg |-> 1]
     IN  \/ /\ orders[p][Legs[leg]] # NoOrder
            /\ pc' = next.pc /\ leg' = next.leg
            /\ UNCHANGED <<vars, result>>
         \/ CreateOrder(p, Legs[leg]) /\ GoTo(p, next.pc, next.leg)
  /\ UNCHANGED plan

(* Plausible bug: an order whose outcome is unknown is submitted again. *)
SubmitUnknownToo(p) ==
  /\ pc = "submit"
  /\ LET o == Legs[leg]
     IN  \/ o \in wired.adapters /\ PrepareSubmit(p, o) /\ GoTo(p, "send", leg)
         \/ /\ o \in wired.adapters
            /\ orders[p][o].status \in {"SUBMITTING", "UNKNOWN"}
            /\ pc' = "send"
            /\ UNCHANGED <<vars, leg, result>>
  /\ UNCHANGED plan

(* _adapter and prepare_submit: an order already SUBMITTING goes out again  *)
(* under its id; a missing adapter and every other status raise.            *)
Submit(p) ==
  /\ pc = "submit"
  /\ LET o == Legs[leg]
     IN  \/ o \in wired.adapters /\ PrepareSubmit(p, o) /\ GoTo(p, "send", leg)
         \/ /\ o \in wired.adapters
            /\ orders[p][o].status = "SUBMITTING"
            /\ pc' = "send"
            /\ UNCHANGED <<vars, leg, result>>
         \/ /\ o \notin wired.adapters \/ orders[p][o].status \notin {"NEW", "SUBMITTING"}
            /\ Return("RAISED")
            /\ UNCHANGED vars
  /\ UNCHANGED plan

(* A journal that an earlier error closed refuses the next write.           *)
Refused(p) ==
  /\ ~open[p]
  /\ \/ pc = "create" /\ orders[p][Legs[leg]] = NoOrder
     \/ pc = "submit" /\ orders[p][Legs[leg]].status = "NEW"
  /\ Return("RAISED")
  /\ UNCHANGED <<vars, plan>>

(* adapter.submit: the request reaches the venue, or is lost on the way; a  *)
(* venue that knows the client order id does not take the order twice.      *)
Send(p) ==
  /\ pc = "send"
  /\ pc' = "answer"
  /\ LET o == Legs[leg]
     IN  \/ UNCHANGED venue
         \/ /\ venue[o].state = "none"
            /\ venue' \in { [venue EXCEPT ![o] = v] :
                 v \in {[state |-> "done", filled |-> 0]}
                       \cup [state: {"live", "done"}, filled: 0..Quantity[o]] }
  /\ UNCHANGED <<vars, wired, unwound, leg, result>>

(* What the venue may say of the order it holds.                            *)
Honest(r) ==
  /\ venue[r.order].state # "none"
  /\ r.filled = venue[r.order].filled
  /\ r.status \in IF venue[r.order].state = "live" THEN {"ACKNOWLEDGED", "PARTIALLY_FILLED"}
                  ELSE IF r.filled = Quantity[r.order] THEN {"FILLED"}
                  ELSE IF r.filled = 0 THEN {"REJECTED", "CANCELLED"} ELSE {"CANCELLED"}

(* The exception branch: mark_unknown, which may itself fail to append.     *)
AnswerLost(p) ==
  /\ pc = "answer"
  /\ MarkUnknown(p, Legs[leg])
  /\ Return(IF open'[p] THEN "AMBIGUOUS" ELSE "RAISED")
  /\ UNCHANGED plan

(* apply_report refuses the report, the journal cannot take it, or          *)
(* mark_unknown cannot be written.                                          *)
AnswerRaises(p) ==
  /\ pc = "answer"
  /\ \/ \E r \in Report : /\ r.order = Legs[leg]
                          /\ Honest(r)
                          /\ ~Reportable(orders[p][r.order].status, r.status)
     \/ ~open[p]
  /\ Return("RAISED")
  /\ UNCHANGED <<vars, plan>>

(* Plausible bug: the next leg is sent once this one is in the market. *)
GoesOnLive(p, status) ==
  IF status \in {"FILLED", "PARTIALLY_FILLED"}
  THEN IF leg < Len(Legs) THEN GoTo(p, "submit", leg + 1) ELSE Return("COMPLETED")
  ELSE IF leg > 1 /\ wired.compensator THEN GoTo(p, "compensate", leg)
  ELSE Return("STOPPED")

(* The loop after a report: on with the next leg, or out of it.  The legs   *)
(* before this one are FILLED, or the loop would not have come this far.    *)
GoesOn(p, status) ==
  IF status = "FILLED"
  THEN IF leg < Len(Legs) THEN GoTo(p, "submit", leg + 1) ELSE Return("COMPLETED")
  ELSE IF leg = 1 THEN Return("STOPPED")
  ELSE IF wired.compensator THEN GoTo(p, "compensate", leg)
  ELSE Return("MANUAL_INTERVENTION")

Answer(p, r) ==
  /\ pc = "answer"
  /\ r.order = Legs[leg]
  /\ Honest(r)
  /\ ApplyReport(p, r)
  /\ IF open'[p] THEN GoesOn(p, orders'[p][r.order].status) ELSE Return("RAISED")
  /\ UNCHANGED plan

(* Plausible bug: an incomplete compensation counts as one. *)
CompensatePartly(p) ==
  /\ pc = "compensate"
  /\ unwound' \in SUBSET {Legs[k] : k \in 1..leg-1}
  /\ Return("COMPENSATED")
  /\ UNCHANGED <<vars, wired, venue>>

(* _compensate: the legs before this one; an exception and an incomplete    *)
(* result leave it to the operator.                                         *)
Compensate(p) ==
  /\ pc = "compensate"
  /\ LET filled == {Legs[k] : k \in 1..leg-1}
     IN  \/ unwound' = unwound \cup filled /\ Return("COMPENSATED")
         \/ unwound' \in {unwound \cup some : some \in SUBSET filled}
            /\ Return("MANUAL_INTERVENTION")
  /\ UNCHANGED <<vars, wired, venue>>

(* An order left in the market fills, or is closed by the venue.            *)
VenueFills(o) ==
  /\ venue[o].state = "live"
  /\ \/ /\ venue[o].filled < Quantity[o]
        /\ venue' = [venue EXCEPT ![o] =
             [state |-> IF @.filled + 1 = Quantity[o] THEN "done" ELSE "live",
              filled |-> @.filled + 1]]
     \/ venue' = [venue EXCEPT ![o].state = "done"]
  /\ UNCHANGED <<vars, wired, unwound, task>>

Stop(p) ==
  /\ Crash(p)
  /\ pc' = "idle"
  /\ leg' = 0
  /\ result' = "none"
  /\ UNCHANGED plan

Start(p) == Restart(p) /\ UNCHANGED <<plan, task>>
-----------------------------------------------------------------------------
PipelineInit ==
  /\ Init
  /\ wired \in [adapters: SUBSET Order, compensator: BOOLEAN]
  /\ pc = "idle"
  /\ leg = 0
  /\ result = "none"
  /\ venue = [o \in Order |-> [state |-> "none", filled |-> 0]]
  /\ unwound = {}

PipelineNext ==
  \/ \E p \in Process :
       \/ Prepare(p) \/ Create(p) \/ Submit(p) \/ Refused(p) \/ Send(p)
       \/ AnswerLost(p) \/ AnswerRaises(p) \/ Compensate(p) \/ Stop(p) \/ Start(p)
       \/ \E r \in Report : Answer(p, r)
  \/ \E o \in Order : VenueFills(o)

PipelineSpec == PipelineInit /\ [][PipelineNext]_pipeline
-----------------------------------------------------------------------------
Durable(o) == ReplayTo(journal, Len(journal))[o]

(* No venue hears of an order before the journal says it is being sent, and *)
(* the second leg of a hedge reaches its venue only when the first is       *)
(* completely filled there and durably known to be: over lost answers,      *)
(* append errors, crashes and executions of the same decision again. *)
LegsInOrder ==
  \A k \in 1..Len(Legs) : venue[Legs[k]].state # "none" =>
    /\ Durable(Legs[k]).status \notin {"ABSENT", "NEW"}
    /\ \A i \in 1..k-1 :
         /\ venue[Legs[i]].filled = Quantity[Legs[i]]
         /\ Durable(Legs[i]).status = "FILLED"

(* An order is given to an adapter only while the journal says SUBMITTING:  *)
(* one that was answered, or whose outcome is recorded as unknown, is never *)
(* retried, by this execution or by a later one.  The exception is a        *)
(* process whose journal failed: it may not know its own last record. *)
NeverRetried ==
  [][\A p \in Process :
       pc = "send" /\ open[p] => Durable(Legs[leg]).status = "SUBMITTING"]_pipeline

(* What execute returns is so at the venues: COMPLETED is said only of a    *)
(* plan whose every leg is filled, COMPENSATED only when every complete leg *)
(* before the one that failed has been taken back, and only complete legs   *)
(* ever are. *)
ResultIsTrue ==
  /\ result = "COMPLETED" =>
       \A k \in 1..Len(Legs) : venue[Legs[k]].filled = Quantity[Legs[k]]
  /\ result = "COMPENSATED" =>
       \A k \in 1..leg-1 : Legs[k] \in unwound
  /\ \A o \in unwound : venue[o].filled = Quantity[o] /\ Durable(o).status = "FILLED"
=============================================================================
