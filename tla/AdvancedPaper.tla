---------------------------- MODULE AdvancedPaper ----------------------------
(***************************************************************************)
(* The paper broker of plans with several legs                             *)
(* (execution/advanced_paper.py).  All legs of a plan are to be entered:   *)
(* when one of the entry orders ends unfilled, the others are cancelled    *)
(* and what was filled is given back (COMPENSATING); a complete position   *)
(* is left when its time is up (PENDING_EXIT).  Exits are market orders,   *)
(* asked for again until nothing is left.                                  *)
(*                                                                         *)
(* An event is a book, a trade or something else, on one instrument and    *)
(* with its own time; times of one instrument do not run backwards, those  *)
(* of different instruments have no order.  What the fill model answers to *)
(* an order is a choice: it fills some units, refuses the order, or leaves *)
(* it waiting.  A page writes the positions its events updated, and a      *)
(* restart has what is written, no books and no times.  An event the       *)
(* broker has already seen changes nothing: a catch-up that goes on where  *)
(* another was cut off meets such events again, and its page has nothing   *)
(* of the updates they led to.                                             *)
(***************************************************************************)
EXTENDS Integers

CONSTANTS
  Plan,          \* execution plans; a position is named after its plan
  Leg,           \* the legs of all plans
  Market,
  PlanOf, MarketOf, Size,   \* of a leg
  PostOnly,      \* legs entered by a post-only order, the others by a limit
  CreatedAt, ExpiresAt, ExitAt, \* of a plan: its entries', and the time stop
  MaxTime,       \* bound: times of events
  MaxFill        \* bound: units one event can fill

LegsOf(p) == {l \in Leg : PlanOf[l] = p}

ASSUME AdvancedAssumption ==
  /\ PlanOf \in [Leg -> Plan] /\ MarketOf \in [Leg -> Market]
  /\ Size \in [Leg -> Nat \ {0}] /\ PostOnly \subseteq Leg
  /\ {CreatedAt, ExpiresAt, ExitAt} \subseteq [Plan -> Nat]
  /\ \A p \in Plan : LegsOf(p) # {}
  /\ MaxTime \in Nat /\ MaxFill \in Nat

VARIABLES
  multileg,       \* AdvancedStrategyPaperBroker._positions
  multilegRows,   \* position_states: the positions a restart has
  quoted,         \* instruments with a book in _books
  lastSeen,       \* _latest_instrument_timestamp
  touched,        \* plans updated by events of the page under way
  skipped         \* in this process a catch-up went on where another was cut off

advanced == <<multileg, multilegRows, quoted, lastSeen, touched, skipped>>

OrderState == {"OPEN", "PARTIALLY_FILLED", "FILLED", "CANCELLED", "EXPIRED", "REJECTED"}
TerminalOrder == {"CANCELLED", "EXPIRED", "REJECTED"}
Leaving == {"PENDING_EXIT", "COMPENSATING"}
ActiveStatus == {"PENDING_ENTRY", "OPEN"} \cup Leaving
TerminalStatus == {"CLOSED", "COMPENSATED", "REJECTED", "EXPIRED"}

(* A leg: its entry order; its last exit order, with what it was asked for, *)
(* has done and since when; and what the exit orders before that one did.   *)
LegState == [entry: OrderState, filled: Nat, exit: OrderState \cup {"NONE"},
             asked: Nat, done: Nat, gone: Nat, since: Nat]

PositionOf(p) == [status: {"NONE"} \cup ActiveStatus \cup TerminalStatus, legs: [LegsOf(p) -> LegState]]

AdvancedTypeOK ==
  /\ \A p \in Plan : {multileg[p], multilegRows[p]} \subseteq PositionOf(p)
  /\ multileg = [p \in Plan |-> multileg[p]] /\ multilegRows = [p \in Plan |-> multilegRows[p]]
  /\ quoted \subseteq Market
  /\ lastSeen \in [Market -> 0..MaxTime]
  /\ touched \subseteq Plan /\ skipped \in BOOLEAN

FreshLeg == [entry |-> "OPEN", filled |-> 0, exit |-> "NONE",
             asked |-> 0, done |-> 0, gone |-> 0, since |-> 0]

Unsubmitted(p) == [status |-> "NONE", legs |-> [l \in LegsOf(p) |-> FreshLeg]]

(* net_quantity                                                             *)
Net(leg) == leg.filled - (leg.gone + leg.done)

(* An entry order that can still fill.                                      *)
Unfilled(l, leg) == leg.filled < Size[l]
CanFill(l, leg) == Unfilled(l, leg) /\ leg.entry \notin TerminalOrder
-----------------------------------------------------------------------------
(* What an event has for an order, and _simulate: the units it fills, and   *)
(* the state of the order after it.  A market order does not wait for more. *)
FillAnswer == {[fills |-> q, refused |-> FALSE] : q \in 0..MaxFill}
            \cup {[fills |-> 0, refused |-> TRUE]}

Least(a, b) == IF a < b THEN a ELSE b

OrderAfter(wanted, total, got, market, answer) ==
  CASE answer.refused -> "REJECTED"
    [] ~answer.refused /\ total = wanted -> "FILLED"
    [] ~answer.refused /\ total < wanted /\ market /\ got > 0 -> "CANCELLED"
    [] ~answer.refused /\ total < wanted /\ ~(market /\ got > 0) ->
         IF total > 0 THEN "PARTIALLY_FILLED" ELSE "OPEN"

(* An entry order; a post-only one is filled by trades alone.               *)
EntryFilled(p, l, leg, e) ==
  LET room == IF l \in PostOnly /\ e.kind # "trade" THEN 0 ELSE e.answer[l].fills
      got == Least(Size[l] - leg.filled, room)
      total == leg.filled + got
  IN  IF e.time < CreatedAt[p] THEN leg
      ELSE [leg EXCEPT !.filled = total,
                       !.entry = OrderAfter(Size[l], total, got, FALSE, e.answer[l])]

ExitFilled(l, leg, e) ==
  LET got == Least(leg.asked - leg.done, e.answer[l].fills)
      total == leg.done + got
  IN  IF e.time < leg.since THEN leg
      ELSE [leg EXCEPT !.done = total,
                       !.exit = OrderAfter(leg.asked, total, got, TRUE, e.answer[l])]
-----------------------------------------------------------------------------
(* Plausible bug: another attempt asks for what the last one was asked for. *)
ExitOrderAgain(leg, t) ==
  [leg EXCEPT !.exit = "OPEN", !.asked = IF leg.exit = "NONE" THEN Net(leg) ELSE @,
              !.gone = @ + leg.done, !.done = 0, !.since = t]

(* _exit_order: another attempt, for all that is left.                      *)
ExitOrder(leg, t) ==
  [leg EXCEPT !.exit = "OPEN", !.asked = Net(leg), !.gone = @ + leg.done, !.done = 0, !.since = t]

(* _start_exit                                                              *)
StartExit(pos, status, t) ==
  [pos EXCEPT !.status = status,
              !.legs = [l \in DOMAIN pos.legs |->
                          IF Net(pos.legs[l]) > 0 /\ pos.legs[l].exit = "NONE"
                          THEN ExitOrder(pos.legs[l], t) ELSE pos.legs[l]]]

EveryLegIn(pos) == \A l \in DOMAIN pos.legs : ~Unfilled(l, pos.legs[l])
LegLost(pos) ==
  \E l \in DOMAIN pos.legs : Unfilled(l, pos.legs[l]) /\ pos.legs[l].entry \in TerminalOrder
SomeFilled(pos) == \E l \in DOMAIN pos.legs : pos.legs[l].filled > 0

(* The entry orders that are still working are cancelled.                   *)
CancelEntries(pos) ==
  [pos EXCEPT !.legs = [l \in DOMAIN pos.legs |->
                          IF CanFill(l, pos.legs[l])
                          THEN [pos.legs[l] EXCEPT !.entry = "CANCELLED"] ELSE pos.legs[l]]]

(* _finalize_entry_state                                                    *)
FinalizeEntry(p, pos, t) ==
  LET cut == CancelEntries(pos)
      lapsed == \A l \in DOMAIN cut.legs : cut.legs[l].entry \in {"EXPIRED", "CANCELLED"}
  IN  CASE EveryLegIn(pos) /\ t < ExitAt[p] -> [pos EXCEPT !.status = "OPEN"]
        [] EveryLegIn(pos) /\ t >= ExitAt[p] -> StartExit(pos, "PENDING_EXIT", t)
        [] LegLost(pos) /\ SomeFilled(pos) -> StartExit(cut, "COMPENSATING", t)
        [] LegLost(pos) /\ ~SomeFilled(pos) ->
             [cut EXCEPT !.status = IF lapsed THEN "EXPIRED" ELSE "REJECTED"]
        [] ~EveryLegIn(pos) /\ ~LegLost(pos) -> pos

(* _expire_pending_entries, on every event, whatever its instrument.        *)
ExpireEntries(p, pos, t) ==
  IF /\ pos.status = "PENDING_ENTRY" /\ t >= ExpiresAt[p]
     /\ \E l \in DOMAIN pos.legs : CanFill(l, pos.legs[l])
  THEN FinalizeEntry(p, [pos EXCEPT !.legs = [l \in DOMAIN pos.legs |->
                           IF CanFill(l, pos.legs[l])
                           THEN [pos.legs[l] EXCEPT !.entry = "EXPIRED"] ELSE pos.legs[l]]], t)
  ELSE pos
-----------------------------------------------------------------------------
(* _advance_entry                                                           *)
AdvanceEntry(p, pos, e) ==
  FinalizeEntry(p, [pos EXCEPT !.legs = [l \in DOMAIN pos.legs |->
                      IF MarketOf[l] = e.instrument /\ CanFill(l, pos.legs[l])
                      THEN EntryFilled(p, l, pos.legs[l], e) ELSE pos.legs[l]]], e.time)

(* _advance_exit: a leg whose last order ended short gets another one.      *)
ExitLeg(l, leg, e) ==
  LET short == leg.exit = "NONE" \/ (leg.exit \in TerminalOrder /\ leg.done < leg.asked)
  IN  IF MarketOf[l] = e.instrument /\ Net(leg) > 0
      THEN ExitFilled(l, IF short THEN ExitOrder(leg, e.time) ELSE leg, e)
      ELSE leg

AdvanceExit(pos, e) ==
  LET after == [pos EXCEPT !.legs = [l \in DOMAIN pos.legs |-> ExitLeg(l, pos.legs[l], e)]]
  IN  IF \A l \in DOMAIN after.legs : Net(after.legs[l]) = 0
      THEN [after EXCEPT !.status = IF pos.status = "COMPENSATING" THEN "COMPENSATED"
                                                                  ELSE "CLOSED"]
      ELSE after

(* _advance_position                                                        *)
AdvancePosition(p, pos, e) ==
  LET due == pos.status = "OPEN" /\ e.time >= ExitAt[p]
      left == IF due THEN StartExit(pos, "PENDING_EXIT", e.time) ELSE pos
  IN  CASE pos.status = "PENDING_ENTRY" -> AdvanceEntry(p, pos, e)
        [] pos.status # "PENDING_ENTRY" /\ left.status \in Leaving -> AdvanceExit(left, e)
        [] OTHER -> left
-----------------------------------------------------------------------------
TradesOn(p, i) == \E l \in LegsOf(p) : MarketOf[l] = i
IsActive(held, p) == held[p].status \in ActiveStatus

(* A book stands for itself; a trade needs the book that was cached.  Both  *)
(* must be no older than what the instrument has shown.                     *)
Framed(e) ==
  /\ e.kind = "book" \/ e.instrument \in quoted
  /\ e.time >= lastSeen[e.instrument]

(* The broker's update of a position is kept for the page.                  *)
Updated == touched' = touched \cup {p \in Plan : multileg'[p] # multileg[p]}

Swept(t) == [p \in Plan |-> ExpireEntries(p, multileg[p], t)]

(* advance: entries that are over expire, then the book or trade is applied *)
(* to the active positions on its instrument.                               *)
EventArrives(e) ==
  LET swept == Swept(e.time)
  IN  /\ Framed(e)
      /\ multileg' = [p \in Plan |-> IF IsActive(swept, p) /\ TradesOn(p, e.instrument)
                                     THEN AdvancePosition(p, swept[p], e) ELSE swept[p]]
      /\ quoted' = quoted \cup {e.instrument}
      /\ lastSeen' = [lastSeen EXCEPT ![e.instrument] = e.time]
      /\ Updated
      /\ UNCHANGED <<multilegRows, skipped>>

(* Any other event, and one that is too old or has no book, stops there.    *)
EventSweeps(t) ==
  /\ multileg' = Swept(t)
  /\ Updated
  /\ UNCHANGED <<multilegRows, quoted, lastSeen, skipped>>

Conflicts(p) ==
  \E q \in Plan : IsActive(multileg, q) /\ \E i \in Market : TradesOn(p, i) /\ TradesOn(q, i)

Entering(p) == [Unsubmitted(p) EXCEPT !.status = "PENDING_ENTRY"]
Rejected(p) ==
  [status |-> "REJECTED", legs |-> [l \in LegsOf(p) |-> [FreshLeg EXCEPT !.entry = "REJECTED"]]]

(* Plausible bug: a plan that comes again is taken again.                   *)
SubmitAgain(p) ==
  /\ multileg' = [multileg EXCEPT ![p] = IF Conflicts(p) THEN Rejected(p) ELSE Entering(p)]
  /\ Updated
  /\ UNCHANGED <<multilegRows, quoted, lastSeen, skipped>>

(* submit_authorized: a plan that is known stays as it is.                  *)
SubmitPlanOnce(p) ==
  /\ multileg[p].status = "NONE"
  /\ multileg' = [multileg EXCEPT ![p] = IF Conflicts(p) THEN Rejected(p) ELSE Entering(p)]
  /\ Updated
  /\ UNCHANGED <<multilegRows, quoted, lastSeen, skipped>>

(* The page of the events taken is written, with the positions they updated.*)
WritePage ==
  /\ multilegRows' = [p \in Plan |-> IF p \in touched THEN multileg[p] ELSE multilegRows[p]]
  /\ touched' = {}
  /\ UNCHANGED <<multileg, quoted, lastSeen, skipped>>

(* The catch-up fails before it has written its page, and one that waited   *)
(* for the lock goes on: once, as no other passes the check of the failure. *)
Overtaken ==
  /\ touched # {} /\ ~skipped
  /\ touched' = {} /\ skipped' = TRUE
  /\ UNCHANGED <<multileg, multilegRows, quoted, lastSeen>>

Apart(held) ==
  \A p, q \in Plan :
    IsActive(held, p) /\ IsActive(held, q) /\ p # q => \A i \in Market : ~(TradesOn(p, i) /\ TradesOn(q, i))

(* A new process restores what is written, unless two of its active         *)
(* positions have an instrument in common; the events behind it come again. *)
RestoreBroker ==
  /\ Apart(multilegRows)
  /\ multileg' = multilegRows
  /\ quoted' = {} /\ lastSeen' = [i \in Market |-> 0]
  /\ touched' = {} /\ skipped' = FALSE
  /\ UNCHANGED multilegRows
-----------------------------------------------------------------------------
(* The answers an event has for the legs that may ask.                      *)
AskingOn(i) == {l \in Leg : MarketOf[l] = i /\ IsActive(multileg, PlanOf[l])}

(* While nothing is being entered by a post-only order, what a trade does   *)
(* is what a book does.                                                     *)
KindsOn(i) ==
  {"book"} \cup (IF \E l \in PostOnly : MarketOf[l] = i /\ multileg[PlanOf[l]].status = "PENDING_ENTRY"
                 THEN {"trade"} ELSE {})

EventOn(i) == [instrument: {i}, kind: KindsOn(i), time: 0..MaxTime,
               answer: [AskingOn(i) -> FillAnswer]]

AdvancedInit ==
  /\ multileg = [p \in Plan |-> Unsubmitted(p)] /\ multilegRows = multileg
  /\ quoted = {} /\ lastSeen = [i \in Market |-> 0]
  /\ touched = {} /\ skipped = FALSE

AdvancedNext ==
  \/ \E i \in Market : \E e \in EventOn(i) : EventArrives(e)
  \/ \E t \in 0..MaxTime : EventSweeps(t)
  \/ \E p \in Plan : SubmitPlanOnce(p)
  \/ WritePage \/ Overtaken
  \/ RestoreBroker

AdvancedSpec == AdvancedInit /\ [][AdvancedNext]_advanced
-----------------------------------------------------------------------------
(* "Incomplete entry sets are cancelled and every filled leg is flattened   *)
(* before the position can become terminal": a position that is over has    *)
(* given back all it filled and has no order that could fill again; an open *)
(* one has every leg in full and gave none back.                            *)
OverIsFlat(p, pos) ==
  /\ pos.status \in TerminalStatus =>
       \A l \in LegsOf(p) : Net(pos.legs[l]) = 0 /\ ~CanFill(l, pos.legs[l])
  /\ pos.status = "OPEN" =>
       \A l \in LegsOf(p) : pos.legs[l].filled = Size[l] /\ Net(pos.legs[l]) = Size[l]

(* What is being left: some leg has something left, none has given back     *)
(* more than it filled, and the last exit order of every leg with exposure  *)
(* has exactly that much to do, through expiries, refusals, partial fills   *)
(* and new attempts.  No position that is not left has an exit order, and   *)
(* no entry order can fill behind the exits' back.                          *)
ExitsMatch(p, pos) ==
  /\ pos.status \in Leaving => \E l \in LegsOf(p) : Net(pos.legs[l]) > 0
  /\ \A l \in LegsOf(p) :
       LET leg == pos.legs[l]
       IN  /\ Net(leg) >= 0
           /\ pos.status \in Leaving =>
                /\ ~CanFill(l, leg)
                /\ Net(leg) > 0 => leg.exit # "NONE" /\ leg.asked - leg.done = Net(leg)
           /\ pos.status \notin Leaving \cup TerminalStatus => leg.exit = "NONE"

(* Both hold of every position, in memory and as written.                   *)
PositionsEndFlat ==
  \A p \in Plan : \A pos \in {multileg[p], multilegRows[p]} : OverIsFlat(p, pos) /\ ExitsMatch(p, pos)

(* Two active positions never have an instrument in common, not in memory,  *)
(* and as written only when pages lack what a catch-up had taken: restore   *)
(* refuses its rows in no other case.                                       *)
InstrumentsAreExclusive == Apart(multileg) /\ (~skipped => Apart(multilegRows))

(* What is written of a position never goes back, over restarts too: it     *)
(* stays submitted, is entered, opened, left and over in this order, only   *)
(* an entry adds to what it filled, only an exit to what it gave back, and  *)
(* what is over stays as it is.                                             *)
Rank(status) ==
  CASE status = "NONE" -> 0
    [] status = "PENDING_ENTRY" -> 1
    [] status = "OPEN" -> 2
    [] status \in Leaving -> 3
    [] status \in TerminalStatus -> 4

GivenBack(leg) == leg.gone + leg.done

Continues(p, old, new) ==
  /\ Rank(old.status) <= Rank(new.status)
  /\ old.status = "COMPENSATING" => new.status \in {"COMPENSATING", "COMPENSATED"}
  /\ old.status \in {"OPEN", "PENDING_EXIT"} => new.status \in {"OPEN", "PENDING_EXIT", "CLOSED"}
  /\ old.status \in TerminalStatus => new = old
  /\ \A l \in LegsOf(p) :
       /\ old.legs[l].filled <= new.legs[l].filled
       /\ Rank(old.status) > 1 => new.legs[l].filled = old.legs[l].filled
       /\ GivenBack(old.legs[l]) <= GivenBack(new.legs[l])

RowsContinue ==
  [][multilegRows' # multilegRows =>
       \A p \in Plan : Continues(p, multilegRows[p], multilegRows'[p])]_advanced
=============================================================================
