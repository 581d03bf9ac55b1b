---------------------------- MODULE PaperFunding ----------------------------
(***************************************************************************)
(* Funding and capital of the paper account (services/paper_runner.py).    *)
(* A cycle asks for the funding histories that are due, pays what is owed  *)
(* to each position, closes and opens positions, and saves them one by one *)
(* and then the balances.  A closed position is polled until a history     *)
(* that was read after its deadline arrives, or the attempts are spent.    *)
(* Any call of the database or of a venue can fail, and the process can    *)
(* end between two steps.  Capital is counted in positions: each locks one *)
(* unit of it and has a perpetual leg in every instrument of Perp.         *)
(***************************************************************************)
EXTENDS Integers, FiniteSets

CONSTANTS
  Holding,       \* positions, by id
  Perp,          \* instruments of their legs
  Settlement,    \* funding settlements of these instruments
  PerpOf,        \* the instrument of each
  FallsAt,       \* and its time
  Capital,       \* units of the virtual balance
  Window,        \* paper_funding_reconciliation_window_seconds
  PollEvery,     \* paper_funding_reconciliation_poll_seconds
  MaxPolls,      \* paper_funding_reconciliation_max_post_deadline_attempts
  Horizon        \* bound on time

ASSUME PaperAssumption ==
  /\ IsFiniteSet(Holding)
  /\ PerpOf \in [Settlement -> Perp] /\ FallsAt \in [Settlement -> Nat \ {0}]
  /\ {Capital, Window, PollEvery, MaxPolls} \subseteq Nat \ {0} /\ Horizon \in Nat

VARIABLES
  clock,
  published,   \* when each settlement appears in the venue's history
  held,        \* the account in memory: its positions
  cash,        \* and its free capital
  unsaid,      \* reconciliations given up whose incident is not saved
  cycle,       \* where the runner's cycle is
  paid,        \* rows of paper_funding_payments
  row,         \* rows of paper_positions
  balance,     \* the last saved balance, of those of the table
  incident,    \* positions with a saved incident
  fresh,       \* ids not drawn yet
  saving,      \* history: positions are saved and their balance is not
  torn         \* history: the process has ended then

memory == <<held, cash, unsaid>>
tables == <<paid, row, balance, incident>>
paper == <<clock, published, held, cash, unsaid, cycle, paid, row, balance, incident,
           fresh, saving, torn>>

Never == Horizon + 1
NoHolding == [is |-> "none"]
Resting == [at |-> "idle"]
Down == [at |-> "down"]
NoBalance == -1

(* credited counts how often the account got a settlement, settled is the   *)
(* position's settled_funding_events.                                       *)
Position ==
  {NoHolding}
    \cup [is: {"open"}, opened: 0..Horizon, credited: [Settlement -> 0..2],
          settled: SUBSET Settlement]
    \cup [is: {"closed"}, opened: 0..Horizon, closed: 0..Horizon,
          credited: [Settlement -> 0..2], settled: SUBSET Settlement,
          poll: 0..(Horizon + PollEvery + Window), polls: 0..MaxPolls,
          outcome: {"none", "completed", "failed"}]

Place ==
  {Resting, Down}
    \cup [at: {"asked"}]
    \cup [at: {"reading"}, end: 0..Horizon]
    \cup [at: {"paying"}, history: SUBSET Settlement, read: SUBSET Perp, end: 0..Horizon,
          captured: 0..Horizon, left: SUBSET Holding]
    \cup [at: {"saving"}, left: SUBSET Holding]

PaperTypeOK ==
  /\ clock \in 0..Horizon
  /\ published \in [Settlement -> 1..Never]
  /\ held \in [Holding -> Position] /\ row \in [Holding -> Position]
  /\ {cash, balance} \subseteq {NoBalance} \cup 0..(Capital + Cardinality(Holding))
  /\ unsaid \subseteq Holding /\ incident \subseteq Holding /\ fresh \subseteq Holding
  /\ cycle \in Place
  /\ paid \subseteq Holding \X Settlement
  /\ saving \in BOOLEAN /\ torn \in BOOLEAN

Open == {h \in Holding : held[h].is = "open"}
Present == {h \in Holding : held[h].is # "none"}
Until(position) == position.closed + Window

(* _funding_reconciliation_active.                                          *)
Active(h) == held[h].is = "closed" /\ held[h].outcome = "none"
-----------------------------------------------------------------------------
(* _due_funding_symbols: polls after the deadline are counted when they are *)
(* asked for, whatever becomes of them.                                     *)
Due == {h \in Holding : Active(h) /\ held[h].poll <= clock}

Spent == {h \in Due : Until(held[h]) <= clock /\ held[h].polls >= MaxPolls}

Earlier(a, b) == IF a < b THEN a ELSE b

Scheduled(position) ==
  IF clock < Until(position)
  THEN [position EXCEPT !.poll = Earlier(clock + PollEvery, Until(position))]
  ELSE [position EXCEPT !.poll = clock + PollEvery, !.polls = @ + 1]

Ask ==
  /\ cycle = Resting
  /\ held' = [h \in Holding |->
               IF h \in Spent THEN [held[h] EXCEPT !.outcome = "failed"]
               ELSE IF h \in Due THEN Scheduled(held[h]) ELSE held[h]]
  /\ unsaid' = unsaid \cup Spent
  /\ cycle' = [at |-> "asked"]
  /\ UNCHANGED <<clock, published, cash, tables, fresh, saving, torn>>

(* _persist_pending_funding_reconciliation_failures, one position: its row  *)
(* and its incident in one transaction, whose answer can be lost.           *)
Tell(h) ==
  /\ cycle.at = "asked" /\ h \in unsaid
  /\ row' = [row EXCEPT ![h] = held[h]]
  /\ incident' = incident \cup {h}
  /\ \/ unsaid' = unsaid \ {h} /\ UNCHANGED cycle
     \/ cycle' = Resting /\ UNCHANGED unsaid
  /\ saving' = TRUE
  /\ UNCHANGED <<clock, published, held, cash, paid, balance, fresh, torn>>

(* _collect_venue takes the end of the range before it asks for it.         *)
Read ==
  /\ cycle.at = "asked" /\ unsaid = {}
  /\ cycle' = [at |-> "reading", end |-> clock]
  /\ UNCHANGED <<clock, published, memory, tables, fresh, saving, torn>>

Listed == {s \in Settlement : published[s] <= clock}

(* A periodic refresh asks also for histories that are not due, and any can *)
(* fail: then what is cached counts.  An answer has at least what was       *)
(* listed before it was asked for.                                          *)
Capture ==
  /\ cycle.at = "reading"
  /\ \E read \in SUBSET Perp, history \in SUBSET Listed :
       /\ \A s \in Settlement : PerpOf[s] \in read =>
            /\ published[s] < cycle.end => s \in history
            /\ s \in history => FallsAt[s] <= cycle.end
       /\ cycle' = [at |-> "paying", history |-> history, read |-> read,
                    end |-> cycle.end, captured |-> clock, left |-> Present]
  /\ UNCHANGED <<clock, published, memory, tables, fresh, saving, torn>>
-----------------------------------------------------------------------------
(* _settle_live_funding.                                                    *)
EffectiveEnd(h) ==
  IF held[h].is = "open" THEN cycle.captured ELSE Earlier(cycle.captured, held[h].closed)

Owed(h) ==
  IF held[h].is = "open" \/ Active(h)
  THEN {s \in cycle.history \ held[h].settled :
          held[h].opened < FallsAt[s] /\ FallsAt[s] <= EffectiveEnd(h)}
  ELSE {}

Credited(position, s) ==
  [position EXCEPT !.credited[s] = Earlier(@ + 1, 2), !.settled = @ \cup {s}]

(* _apply_funding_event: the payment is committed, or found, and then       *)
(* credited; the answer of the commit can be lost.                          *)
Pay(h, s) ==
  /\ cycle.at = "paying" /\ h \in cycle.left /\ s \in Owed(h)
  /\ \A other \in Owed(h) : PerpOf[other] = PerpOf[s] => FallsAt[s] <= FallsAt[other]
  /\ paid' = paid \cup {<<h, s>>}
  /\ \/ held' = [held EXCEPT ![h] = Credited(@, s)] /\ UNCHANGED cycle
     \/ cycle' = Resting /\ UNCHANGED held
  /\ UNCHANGED <<clock, published, cash, unsaid, row, balance, incident, fresh, saving, torn>>

(* Plausible bug: a history counts as being as fresh as the snapshot. *)
FreshAsSnapshot(h) == cycle.captured >= Until(held[h]) /\ cycle.read = Perp

(* _complete_funding_reconciliation_after_poll.                             *)
FreshEnough(h) ==
  /\ cycle.captured >= Until(held[h])
  /\ cycle.read = Perp /\ cycle.end >= Until(held[h])

Polled(h) ==
  /\ cycle.at = "paying" /\ h \in cycle.left /\ Owed(h) = {}
  /\ cycle' = [cycle EXCEPT !.left = @ \ {h}]
  /\ IF Active(h) /\ FreshEnough(h)
     THEN held' = [held EXCEPT ![h].outcome = "completed"]
     ELSE UNCHANGED held
  /\ UNCHANGED <<clock, published, cash, unsaid, tables, fresh, saving, torn>>
-----------------------------------------------------------------------------
NewHolding == [is |-> "open", opened |-> clock, credited |-> [s \in Settlement |-> 0],
               settled |-> {}]

(* PaperExecutor.close, close_position, _schedule_funding_reconciliation.   *)
Closed(position) ==
  [is |-> "closed", opened |-> position.opened, closed |-> clock,
   credited |-> position.credited, settled |-> position.settled,
   poll |-> Earlier(cycle.captured, clock + Window), polls |-> 0, outcome |-> "none"]

(* _close_expired, then _open_confirmed within the balance that is left.    *)
Trade ==
  /\ cycle.at = "paying" /\ cycle.left = {}
  /\ \E out \in SUBSET Open, in \in SUBSET fresh :
       /\ Cardinality(in) <= cash + Cardinality(out)
       /\ held' = [h \in Holding |-> IF h \in out THEN Closed(held[h])
                                     ELSE IF h \in in THEN NewHolding ELSE held[h]]
       /\ cash' = cash + Cardinality(out) - Cardinality(in)
       /\ fresh' = fresh \ in
       /\ cycle' = [at |-> "saving", left |-> Present \cup in]
  /\ UNCHANGED <<clock, published, unsaid, tables, saving, torn>>
-----------------------------------------------------------------------------
(* _persist_portfolio: save_paper_position commits each position.           *)
Save(h) ==
  /\ cycle.at = "saving" /\ h \in cycle.left
  /\ row' = [row EXCEPT ![h] = held[h]]
  /\ cycle' = [cycle EXCEPT !.left = @ \ {h}]
  /\ saving' = TRUE
  /\ UNCHANGED <<clock, published, memory, paid, balance, incident, fresh, torn>>

SaveBalance ==
  /\ cycle = [at |-> "saving", left |-> {}]
  /\ balance' = cash
  /\ cycle' = Resting
  /\ saving' = FALSE
  /\ UNCHANGED <<clock, published, memory, paid, row, incident, fresh, torn>>

(* An exception ends the cycle; the next one starts from memory as it is.   *)
CycleFails ==
  /\ cycle.at \notin {"idle", "down"}
  /\ cycle' = Resting
  /\ UNCHANGED <<clock, published, memory, tables, fresh, saving, torn>>
-----------------------------------------------------------------------------
Die ==
  /\ cycle # Down
  /\ cycle' = Down
  /\ held' = [h \in Holding |-> NoHolding] /\ cash' = 0 /\ unsaid' = {}
  /\ torn' = (torn \/ saving)
  /\ UNCHANGED <<clock, published, tables, fresh, saving>>

PaidTo(h) == {s \in Settlement : <<h, s>> \in paid}

(* Plausible bug: the sum of the payments is restored, their marks are not. *)
LoadedUnmarked(h) ==
  [row[h] EXCEPT !.credited = [s \in Settlement |-> IF s \in PaidTo(h) THEN 1 ELSE 0]]

(* _restore_positions takes what was paid from the payments.                *)
Loaded(h) ==
  [row[h] EXCEPT !.credited = [s \in Settlement |-> IF s \in PaidTo(h) THEN 1 ELSE 0],
                 !.settled = @ \cup PaidTo(h)]

(* Without a saved balance, capital is allocated again to every row, as far *)
(* as it goes.                                                              *)
Restore ==
  LET Saved == {h \in Holding : row[h].is # "none"}
      Restored(kept) == [h \in Holding |-> IF h \in kept THEN Loaded(h) ELSE NoHolding]
  IN /\ cycle = Down /\ cycle' = Resting
     /\ IF balance # NoBalance
        THEN held' = Restored(Saved) /\ cash' = balance
        ELSE \E kept \in SUBSET Saved :
               /\ Cardinality(kept) = Earlier(Capital, Cardinality(Saved))
               /\ held' = Restored(kept) /\ cash' = Capital - Cardinality(kept)
     /\ UNCHANGED <<clock, published, unsaid, tables, fresh, saving, torn>>

(* The venue adds a settlement to its history, at its time or later.        *)
Publish(s) ==
  /\ published[s] = Never /\ FallsAt[s] <= clock
  /\ published' = [published EXCEPT ![s] = clock]
  /\ UNCHANGED <<clock, memory, cycle, tables, fresh, saving, torn>>

HourPasses ==
  /\ clock < Horizon
  /\ clock' = clock + 1
  /\ UNCHANGED <<published, memory, cycle, tables, fresh, saving, torn>>
-----------------------------------------------------------------------------
PaperInit ==
  /\ clock = 0
  /\ published = [s \in Settlement |-> Never]
  /\ held = [h \in Holding |-> NoHolding] /\ row = [h \in Holding |-> NoHolding]
  /\ cash = Capital /\ balance = NoBalance
  /\ unsaid = {} /\ incident = {} /\ paid = {}
  /\ cycle = Resting
  /\ fresh = Holding
  /\ saving = FALSE /\ torn = FALSE

PaperNext ==
  \/ Ask \/ Read \/ Capture \/ Trade \/ SaveBalance \/ CycleFails
  \/ Die \/ Restore \/ HourPasses
  \/ \E h \in Holding : Tell(h) \/ Polled(h) \/ Save(h)
  \/ \E h \in Holding, s \in Settlement : Pay(h, s)
  \/ \E s \in Settlement : Publish(s)

PaperSpec == PaperInit /\ [][PaperNext]_paper
-----------------------------------------------------------------------------
(* The account neither makes nor loses money, through any failure and any   *)
(* restart: what it was credited is what the payments say, each once, and   *)
(* its capital is either free or in an open position - unless the process   *)
(* has ended while the positions were saved and the balance was not.        *)
AccountIsTrue ==
  cycle # Down =>
    /\ \A h \in Present, s \in Settlement :
         held[h].credited[s] = (IF <<h, s>> \in paid /\ s \in held[h].settled THEN 1 ELSE 0)
    /\ ~torn => cash + Cardinality(Open) = Capital

(* A reconciliation that says it is complete has paid every settlement      *)
(* between opening and close that the venue listed before the deadline, and one *)
(* that was given up is on record as an incident as soon as it is saved.    *)
ReconciliationIsTrue ==
  /\ \A h \in Holding, s \in Settlement :
       /\ row[h].is = "closed" /\ row[h].outcome = "completed"
       /\ row[h].opened < FallsAt[s] /\ FallsAt[s] <= row[h].closed
       /\ published[s] < Until(row[h])
       => <<h, s>> \in paid
  /\ \A h \in Holding : row[h].is = "closed" /\ row[h].outcome = "failed" => h \in incident
=============================================================================
