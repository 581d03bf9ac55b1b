# Verification of the funding arbitrage system

TLA+ models of the parts of `src/src/funding_arbitrage` that own orders,
positions, stops and transfers, the TLC runs that check them on small instances,
and the theorems TLAPS proves about them for every value of the constants.
Paths below are relative to `src/src/funding_arbitrage/`.

## 1. The system

A Python service (asyncio, PostgreSQL, Redis, ClickHouse) that watches eight
derivative venues, looks for funding and basis differences, and trades them: on
paper through simulated brokers, and live, behind explicit authorisation,
through exchange adapters. One process runs one event loop; a PostgreSQL
advisory lock keeps a second live runner out. Several components keep journals
of their own beside PostgreSQL, and a restart rebuilds memory from them.

### Inventory

| Component | State it keeps | Operations | What is hard | What makes it correct |
|---|---|---|---|---|
| Order management (`execution/oms.py`) | orders, versions, report fingerprints; JSONL or SQLite journal | create, submit, report, cancel, unknown, reconcile, expire | append errors before and after durability, torn records, two processes on one SQLite file | memory is a replay of a journal prefix; a report counts once; each order is one life cycle |
| Kill switch (`risk/live.py`) | a file and a reason in memory; equity baselines | trip, check, measure losses | the file cannot be written; an operator creates or deletes it at any time | what needs the operator keeps entries out, over restarts |
| Live executor (`execution/live.py`) | `LivePosition` in memory, `live_positions` and `live_orders` in PostgreSQL | open two legs, unwind, close | every await between memory, database and venue; answers that are lost | no order before its row; OPEN means hedged; nothing is forgotten at a venue |
| Live runner, reconciler (`services/live_runner.py`, `execution/reconciliation.py`) | held positions, index by key, next reconciliation | cycle: snapshot, reconcile, value, close, open | crash at any step, failing reconciliations, limits read while they change | limits hold in the ledger; restarts trade only on a reconciled ledger; a pause closes positions |
| Protective stops (`execution/protective.py`, `services/runtime_protective.py`) | stops and the interlock, fsynced JSONL journal | register, submit, acknowledge, cancel, terminal, reconcile | a crash between two entries of one pass; what the venue is said to list | exposure keeps its stop; the interlock outlives what caused it |
| Directional paper broker (`execution/directional_paper.py`) | positions, simulated orders | submit a decision, advance on a book | replay after a crash must repeat what happened | its positions are a function of the rows it has taken |
| Multi-regime runtime (`services/multi_regime_runtime.py`) | position in the event journal, decisions, checkpoints, interlock | catch up, save a decision, protect, save a page, restore, flush, stop | a decision is saved before it is acted upon and the positions after; two tasks catch up in turns; errors on either side of a commit | over restarts the positions are what the journal and the saved decisions make of them, and nothing shown to protection is taken back |
| Withdrawals (`portfolio/withdrawal.py`) | requests with approvals, hash-chained journal | request, approve, prepare, report, cancel, fail | a write that raises leaves the manager working behind its journal | separate people approve, the daily cap holds, nothing that left is taken back |
| Decision pipeline and risk (`services/decision_pipeline.py`, `risk/portfolio.py`, `risk/margin.py`) | none between calls; orders through the OMS | validate, size, plan, submit legs, compensate | one leg of several fails, in each possible way; a decision executed again after a crash | legs go in order, what is reported is true at the venues, no outcome is retried |
| Double-entry ledger (`portfolio/ledger.py`, `portfolio/reconciliation.py`) | postings, balances, holds | post, project, reconcile | nothing in the source creates one | balanced postings |
| L2 books (`market_data/l2_book.py`, `orderbook_protocols.py`, `quality.py`, `exchanges/orderbook.py`) | levels, sequence, recent deltas, quality; a second book in the runtime | snapshot, delta, stale, recover | deltas lost, doubled, reordered around a snapshot, seen by two books that do not see the same ones | a tradable book is the venue's book |
| Market data collection (`market_data/collector.py`) | tasks and back-off for each venue | start, collect, reconnect | slow venue against fast consumer | a failing venue does not stop another |
| Event writer and router (`services/event_writer.py`, `event_router.py`, `database/repositories/events.py`) | bounded queue, batch in flight, futures of the waiters | publish, append with retry, recover, stop | queue full while a batch is retried; stop during a retry; a commit whose answer is lost | a publisher that returns has its event in the journal, once; a stop loses nothing; every caller is answered |
| Replication (`storage/*`) | position for each target | copy, advance, archive, retain | a crash between copy and position | at least once, and retention behind every reader |
| Back-test jobs (`database/repositories/backtest_jobs.py`) | job rows with owner and lease | claim, heartbeat, complete, requeue | a lease that expires under a working owner | one result for each job |
| Control plane (`security/control_plane.py`, `database/repositories/control_plane.py`) | rows of idempotency keys, audit | reserve, execute, record, replay, reconcile | a request that dies between its effect and its answer; an operator who settles a key whose request still runs | a command runs once; everyone hears the same ending |
| Paper runner (`services/paper_runner.py`) | positions and capital in memory and in PostgreSQL, funding payments | cycle: poll histories, pay, close, open, save | payments committed behind the positions; a settlement the venue lists late | the account is what it was paid; a reconciliation ends with every settlement or an incident |
| Advanced paper broker (`execution/advanced_paper.py`, `backtest/fills.py`) | positions of several legs with entry and exit orders, books, the last time of each instrument | submit a plan, advance on an event, restore | one leg fails while others are filled; exits refused or filled in part; events of several instruments without an order; restarts | a position that is over is flat; an exit asks for what is left of its leg; what is written never goes back |
| DEX, MEV, low-latency sidecar (`execution/*`) | simulated books, nonces, bundles | submit, replace, observe | not driven by any deployed service | one nonce, one effect |
| Strategies, features, regimes, opportunities, AI, back-testing, QA | none across calls, or offline | numeric computation | numeric | outside TLC's reach |
| API, configuration, exchange clients, storage formats, `research/`, `infra/`, `scripts/` | none of their own | I/O and wiring | I/O | not modelled |

### How the modelled parts interact

- Market data comes from the venues' streams through the adapter's book, the
  router and the writer into the event journal (`canonical_events`). The
  multi-regime runtime reads the journal by row id, the replicators copy it to
  ClickHouse, retention deletes its oldest rows.
- The multi-regime runtime feeds journaled events to the engine and the broker,
  and the broker's positions to the protective coordinator, whose journal is
  its own. The interleaving is between journal entries and crashes.
- An approved signal goes through the decision pipeline to the order management
  and the venues' adapters, one leg after another. The order management and the
  withdrawal manager are driven by callers that come and go; each is a state
  machine in front of a journal.
- The live runner calls the executor, which reads and trips the kill switch,
  saves rows and calls adapters; the reconciler compares its ledger with the
  venues. All of it is one asyncio task, so the interleaving is between that
  task and the venues, the operator, the database and the host.
- The paper runner reads the funding histories of the venues and keeps its
  account in PostgreSQL. Replay jobs are rows of PostgreSQL that the API writes
  and workers claim. Every writing command of the operator goes through a row
  of its idempotency key.

## 2. The modules

| Module | Models | Notes |
|---|---|---|
| `Orders` | statuses and snapshots of `OMSOrderSnapshot` | shared by the next two |
| `OrderLedger` | the abstract specification: a book of orders, each moving along the edges of its life cycle | no journal, no processes |
| `DurableOMS` | `DurableOMS` and both journals | implements `OrderLedger` |
| `DecisionPipeline` | `execute`, the adapters, the compensator, execution again after a crash | EXTENDS `DurableOMS` and implements its `Spec` |
| `KillSwitch` | `LiveRiskController` | extended by the executor |
| `PositionLedger` | the abstract specification: a book of positions, their rows and what the venues bought and sold for them | no orders, memory, answers, crashes or switch |
| `LiveExecutor` | `LiveTradingExecutor`, the adapter's answers, the rows | state and actions, no `Spec` of its own |
| `LiveRunner` | `LiveTradingRunner`, `LiveReconciler`, operator, crash | composes switch and executor, implements `PositionLedger`; properties |
| `ProtectiveStops` | `ProtectiveStopManager`, the entries of the coordinator | operators and state |
| `RuntimeProtection` | `DurableMultiRegimeRuntime`, `DirectionalPaperBroker`, the passes | composes it; properties |
| `PaperReplay` | the same runtime's catch-up: decisions, pages, checkpoint, worker and barrier, shutdown, restart | what `RuntimeProtection` says of a restart in brief, in full |
| `AdvancedPaper` | `AdvancedStrategyPaperBroker`, the answers of `DeterministicFillModel`, the rows of its positions | beside the two above: the same pages, another broker |
| `Withdrawals` | `WithdrawalManager` and its journal | |
| `LocalOrderBook` | `LocalOrderBook`'s methods as operators on a book | used twice by the next one |
| `BookFeed` | the adapter's connection and book, the quality monitor, the rows of a stream, the runtime's book | composes two books |
| `JournalReplication` | replicators, their cursor and sink, retention | |
| `ControlPlane` | a key's row, the requests with that key, the operator's reconciliation | |
| `EventWriter` | the writer's queue and worker, the router's publication, stop, crash | liveness |
| `BacktestJobs` | a job's row, the workers' tasks, leases, the sweep | liveness |
| `PaperFunding` | the paper account: payments, balances, reconciliation after a close | |
| `LiveRunnerProofs`, `RuntimeProtectionProofs`, `AdvancedPaperProofs`, `WithdrawalsProofs` | theorems about the module they are named after | section 4 |
| `DecisionPipelineProofs` | theorems about `DurableOMS` and `DecisionPipeline`, which implements it | two parts |
| `JournalProofs` | theorems about `EventWriter`, `BookFeed`, `JournalReplication`: the way of an event to the journal's readers | three parts |
| `PaperProofs` | theorems about `PaperReplay` and `PaperFunding`: the paper positions and their account | two parts |
| `ServiceProofs` | theorems about `ControlPlane` and `BacktestJobs` | two parts |
| `MC*` | instances for TLC | constants and symmetry; those that compose are below |
| `MCSignalPath` | `DecisionPipeline`, `BookFeed`, `JournalReplication`, `ControlPlane`, `PaperFunding`, `PaperReplay` side by side | a behaviour explores one of them, the others stay at their start |
| `MCServices` | `EventWriter` and `BacktestJobs` side by side | the same |
| `MCProtectedOrders` | `DurableOMS` on SQLite, `RuntimeProtection` and `AdvancedPaper` side by side | the same |

### How state and actions correspond to the code

*DurableOMS.* `journal` holds complete records, `tail` what is behind them;
`orders`, `fingerprints`, `sequence` are the fields of the class, for each
process. An operation is one action, because nothing in it awaits: it computes
the next snapshot and calls `Persist`, whose two outcomes are `AppendSucceeds`
and `AppendFails` (before, inside or after the record). `Restart` is the load of
the journal and `_recover`.

*DecisionPipeline.* `pc`, `leg` and `result` are where one call of `execute` is;
everything else it knows it reads from the orders. `venue` is what the venues
hold of each order, which moves on its own between the submission and the
answer; `unwound` is what the compensator took back. Each call of the OMS is one
step and may raise, which ends the call with result `RAISED`; `AnswerLost` is an
adapter that raises. A crash forgets the call, and the next one finds the orders
by their deterministic ids.

*LiveExecutor and LiveRunner.* `pc` and `task` are the point where the task
awaits. `ledger` and `rows` are tables, `mem` the objects, `fills` what the
venue really did. The fill of an order is decided in `Send`: an IOC order fills
at once or not at all, and what is left open is what the caller gets to know,
which is the answer (`Answered`), recorded by a later step. `Escape` is an
exception that no handler of the executor catches and what the caller does then.
`Reconciled` is the comparison of the reconciler, instrument by instrument. Its
tolerance, and the drift the executor allows a second leg, are less than the units
quantities are counted in, so both are comparisons for equality; a spot residual
that is too large, before a close or after an unwind, is one of the things that
send a position to the operator (fault `price`).

*RuntimeProtection.* `stop` and `latched` are the manager's memory, `stopJournal`
what its journal replays to, `lastLine` whether memory knows of the last line and
whether the file can be loaded. An entry is fsynced before memory changes; a crash
or a failed append inside a pass leaves a prefix of its entries, and memory may
lack the last of them (`Interrupted`, `ReconcileInterrupted`). A manager that goes
on then repeats a sequence number, and no later process starts. `rows` are the
saved positions, `page` the positions updated since, `owed` the saved decisions
behind the checkpoint. `pos` survives a crash as a rule: the broker is
deterministic and a restart replays the event journal and the saved decisions from
the checkpoint (`restore_features`, `_restore_paper_pages`), which leads to the
positions the process died with, as `PaperReplay` shows (`PositionsAreHistory`);
`Replay` is what comes on top, the events it had not taken. The exception is a
`flush` that waited for the lock while the worker failed: it goes on (`Overtake`,
once, because every later caller sees the failure), the broker drops what it has
seen, and the page it saves has nothing of that. If there was something, `course`
is `strayed`, and the next process has the positions of `rows` (`ServiceStarts`),
unless two active ones of one instrument are among them, which `restore` refuses.
`undone` remembers which positions went back: their stops are further than they
are, and a new entry of such a position may meet a stop of another quantity, which
`register_stop` refuses (`Refused`).

*PaperReplay.* `log` is the event journal, each row reduced to whether orders
fill on its book; `decided` the saved decision batches, `saved` and `savedRow`
the position rows and the checkpoint; `broker`, `known`, `booked`, `processed`
the memory of the runtime, the engine's and the broker's `_seen` as the highest
row in them. `pass` is a call of `_catch_up` under the lock: from the reading of
a page on, it is at a row, at the save of a row's decision (`SaveDecision`), or
at the save of its page (`SavePage`); a row is taken by the broker and shown to
protection in one step (`TakeRow`), because nothing awaits there. `worker` and
`barrier` are the two tasks that want the lock. `RestorePage` is one page of
`_restore_paper_pages`; `RunnerCancelled` and `Drained` are the shutdown of
`main.py`. `History` is the reference: the rows up to one, taken from no
positions, with the decisions that are saved. `shown` and `overtaken` are history
variables.

*AdvancedPaper.* `multileg` is the broker's dictionary of positions and
`multilegRows` the table; `quoted` and `lastSeen` are the instruments with a book
and the time each has shown. A leg carries its entry order, its last exit order
and the sum of what the earlier exit orders did (`gone`). An event is one step,
because `advance` awaits nothing: entries that are over expire in every position,
whatever the instrument of the event (`Swept`), then the book or trade is applied
to the active positions on its instrument (`AdvancePosition`). What the fill model
answers to an order is a choice of units or a refusal; what becomes of the order,
its leg and its position is the code's. `SubmitPlanOnce` is a decision, once or
again; `WritePage` the transaction of a page, which writes the positions its events
updated (`touched`); `Overtaken` the same `flush` as above, which leaves out what a
cut-off catch-up had updated; `RestoreBroker` a restart, which refuses rows that
have two active positions on one instrument, and behind which events come again
with any time.

*Withdrawals.* `saved` is what the journal replays to and `requests` the
memory. Unlike the order journal this one stays open after an error, so `behind`
remembers that a line is not in memory and `damaged` that a line was repeated or
is partial. Timestamps are days.

*LocalOrderBook and BookFeed.* Levels carry absolute quantities, so a book is
abstracted to the venue's version its levels are (`image`), or to `Wrong`. What
the code sees of a message, its sequences and its timestamp, is concrete. A
message passes the adapter's book, the monitor's preview, the journal and the
monitor's observation in one step, as the stream lock makes it; a row that is
not written is not observed. `engine` is the runtime's own book over the rows,
read in their order at any later time.

*JournalReplication.* A pass is three steps: read the cursor and a batch, write
each table, compare and swap the cursor. Any of them may fail, in between some
tables have the batch. `TrimRows` is one deletion of retention.

*ControlPlane.* `entry` is the row of the key; a request (`attempt`) reserves
it, works, records its answer, and may die at each point. The transaction of a
reservation and that of an answer are one step each, and may commit without the
caller hearing of it. `ending` and `told` are history.

*EventWriter.* `queue`, `active`, `lock`, `accepting` are the fields of the
writer, `future` the durable futures, `journal` the rows. A stream's call is
`Enqueue` for each event under the lock, then `Await` for each future; the
worker takes one event, collects what is there, appends with retries (`Append`
commits, fails before the commit or after it) and completes or fails the
futures. `BeginStop`, `EnterStop`, `EnqueueStop` and `EndStop` are `stop`.

*BacktestJobs.* `row` is the table, `task` what each process does about a job.
`attempts` names the claim, so a late task can be told from the owner. A lease
expires at any time; each statement commits or not, and its answer may be lost.

*PaperFunding.* A cycle is a sequence of phases: the histories, the payments,
the closings and openings, the saves of the positions one by one, the balance.
`paid`, `row`, `balance`, `incident` are tables; a failure of any step leaves the
rest of the cycle undone. Money is counted in units of capital and in settlements
paid, which is all the properties compare.

### Faults

What may go wrong is a constant set in the configurations of three parts, so that
a run says what it is about.

- `LiveRunner`: `database` (a transaction fails), `network` (an unauthenticated
  or a snapshot call fails), `price` (a limit price cannot be normalised, a spot residual is too
  large),
  `answer` (the outcome of an order is lost), `open_answer` (an order found by
  its client id is still open), `forced` (the venue reduces a leg), `losses`,
  `kill_file` (the file cannot be written), `crash`.
- `RuntimeProtection`: `crash`, `append`, `torn`, `database` (a transaction of a
  catch-up fails, before or after its commit).
- `Withdrawals`: `crash`, `write`.

The others have theirs always on: `DurableOMS` failed and torn appends, crashes,
a second process; `DecisionPipeline` those, lost answers, a missing adapter or
compensator and a compensator that raises; `BookFeed` lost, repeated and
overtaken messages, broken connections, clocks that run ahead, a journal that
refuses a row, a restart; `JournalReplication` a sink, a database and a
replicator that fail anywhere; `ControlPlane` commits that fail or whose answer
is lost, requests that die; `EventWriter` appends that fail before or after the
commit, a retry window that ends, a worker that dies, cancelled callers, crashes;
`BacktestJobs` leases that expire, crashed and slow workers, statements that fail
before or after the commit; `PaperReplay` transactions that fail before or after the
commit, rows the engine raises on, crashes, a runner cancelled at shutdown;
`AdvancedPaper` refused and partial fills, late events, restarts at any page,
overtaken catch-ups;
`PaperFunding` any failing call of a venue or of the
database, lost commits, restarts.

## 3. The runs

| Run | Question | Instance | Result |
|---|---|---|---|
| `live_faults` | Does the ledger describe the venues under every fault but a stale answer? | one position, two units, all steps may crash | holds |
| `live_two` | Does what is unresolved keep the switch on and entries out, and do the limits hold, over crashes? | two keys, two positions, room for one | holds |
| `live_pause` | Does a pause end every position? | one position, weak fairness | holds |
| `live_blocked` | ... and with two positions? | two positions, no fault | violated: finding |
| `prot_orders` | Does exposure keep its stop over crashes, torn lines, failed appends and transactions, overtaken catch-ups and replays? Can failed appends, crashes and a second process on the same file make the orders' memory differ from their journal, or count a report twice? Does a paper plan of several legs end flat, whatever becomes of each leg and over restarts? | two positions of one instrument; two processes, two reports, four versions; two plans, three legs on two markets | holds |
| `prot_exit` | Does an exit that nothing disturbs leave the interlock off? | three positions in two instruments, no fault | violated: finding |
| `prot_latched` | Does a latched interlock keep entries out after a restart? | the same, crashes | violated: finding |
| `prot_restart` | Does the runtime survive a crash between two entries? | the same, crashes | violated: finding |
| `wd_faults` | Do separation of duties and the daily cap survive failed writes and replays? | two requests, three people, two roles, three days | holds |
| `path_faults` | From the book to the decision and back: is a tradable book the venue's, a copied row everywhere, a plan's result true, a paper position where its decision and the journal put it, a paper account right, a command run once? | six parts, below | holds |
| `replay_overtaken` | Is the checkpoint always atomic with the positions, as documented? | four rows in pages of two | violated: finding |
| `services_faults` | Is every accepted event written once and every caller answered; does every job end, with one result? | two parts, below, with fairness | holds |

What the properties say is in the comment above each of them. In short:

- `MemoryIsDurablePrefix`, `JournalLoads`, `ReportsAppliedOnce`, `LedgerSpec`:
  the order journal is the truth, can be loaded, and replays to lives of orders.
- `RecordedBeforeSent`, `OpenIsHedged`, `NothingForgotten`: what the
  venues hold has a row, and what the ledger calls over is over.
- `SentOnce`: an order goes to its venue only from no row, by way of the PENDING row
  that precedes it, and what it filled changes only in the step that sends it. A
  row does not return to none and a recorded outcome is not overwritten, so that
  an order whose answer, save or process was lost is not sent again.
- `BookSpec`: the runner implements `PositionLedger`. A row moves along the edges of
  one life; a leg is bought once, the second no more than the first and not after
  something was sold; nothing is sold before the row that says so, CLOSING, is
  saved; a row becomes OPEN only when both legs hold the same, FAILED or CLOSED only
  when they hold nothing.
- `StartupGate`: every reconciliation that passes, at startup or when one is due in
  a cycle, finds no active position in the ledger but open ones, with the outcome
  of every order on record; an opening, a closing, a position for the operator or
  a PENDING order keeps it from passing, whoever left it. A process that starts to
  trade holds these positions as they are written.
- `HeldIsLedger`, `ManualKeepsSwitch`, `NoEntryWhileStuck`,
  `PositionLimits`, `PauseLiquidates`: what the runner may do with it.
- `WithdrawnOnlyWhenFlat`, `PassAccountsForAll`, `InterlockStays`: what the
  runtime owes to open exposure. Excepted in the first two are the positions a
  restart took back to their rows after an overtaken catch-up (`undone`): an open
  one among them can have a stop that is durably cancelled.
- `PositionsEndFlat`, `RowsContinue`: a plan of several legs that is over has given
  back all it filled and left no order that could fill; while it is left, the last
  exit order of each leg asks for exactly what remains, through refusals, partial
  fills and new attempts; an open one has every leg in full. What is written of it
  never goes back, although a restart forgets books and times and a page may lack
  what an overtaken catch-up had updated.
- `SeparationOfDuties`, `DailyCapHolds`, `NoWayBack`: what a
  transfer needs before it leaves, and after.
- `LegsInOrder`, `ResultIsTrue`, `NeverRetried`: a leg goes out only behind legs
  that are filled and known to be; COMPLETED and COMPENSATED are so at the
  venues; an order with an outcome in the journal is not sent again.
- `BooksAreExact`: a book that calls itself VALID is the venue's at its sequence,
  the adapter's and the runtime's; and the runtime's has every delta the monitor
  called VALID that it read after the last snapshot. A delta that crosses the
  book, or that the monitor refused, is not in that promise (see Findings).
- `NothingSkipped`, `CursorMovesOn`: the cursor is behind what every table of the
  sink has, and never goes back.
- `PositionsAreHistory`, `NoRowIsMissed`: the positions, stored or in memory, are
  what the rows up to theirs make of none, and no restart takes back a stage that
  protection was shown (`NothingUndone`, a part of it), unless a catch-up went on
  where another was cut off (the finding); a worker that sleeps has taken all it
  was told of.
- `RunsOnce`, `AnswersAgree`: a command starts only when every earlier one with
  its key is known to have ended and has lapsed; client, retry and operator are
  told one ending.
- `AccountIsTrue`, `ReconciliationIsTrue`: what is in memory is what the tables
  say was paid; a reconciliation that ends has every settlement or an incident.
- `JournalIsTrue`, `CleanStop`, `Answered`: a caller that is told "written" has
  its events in the journal, each once, and an event that no other call publishes
  behind the earlier ones of its call; a stop that returns left nothing behind;
  every call ends.
- `ResultIsTheOwners`, `JobsEnd`: the result is that of the last claim, which owns
  the row, and an accepted job ends.

### Bounds, and why they are enough

- `MaxVersion` 4 is a submission, a partial fill, an unknown outcome and an end,
  and enough for two processes to race for one record. The proofs have no such
  bound.
- `Quantity` 2 makes a partial fill possible and lets the two legs differ; 1 is
  enough where fills are not the question.
- `MaxPositions` 2 with `MaxOpen` 1 is the smallest instance with one position
  too many, and with one stuck while another wants to open. Every position has
  all its orders.
- Two positions of one instrument (`prot_orders`): a new entry meets a closing one,
  and a restart may meet the rows of both as active. The finding runs have a third
  in another instrument, which goes on.
- `prot_orders`, plans: a pair with a leg of two units and a post-only one of one,
  and a second plan on the market of the latter, so that a leg fills in part or
  not at all while the other is in, and a plan is refused or taken after another
  has ended. `MaxTime` 1 puts events before and at the end of the pair's entries
  and at the time stop of both, and before and after the second plan exists;
  `MaxFill` 1 makes the larger leg fill and be left in two events or more. The
  proofs have no such bound.
- Two requests of 1 or 2 under a cap of 3: two fit, or they do not. Three people
  for two roles: exactly the requester and two approvers. Three days, the last
  outside the allowlist's window.
- `path_faults`, pipeline: three legs, so that there are filled ones before and
  untouched ones behind the one that fails; the first of two units. Book:
  three versions (`LastVersion` 3), the first two at one timestamp, `MaxRows` 3
  rows of the stream, one message from the future (`MaxSkewed` 1); deltas that
  span versions, and with or without the sequence before them. Replication: two
  replicators, three rows (`MaxStored` 3) in batches of two, so that there is a
  full and a short batch. Commands: a request, its retry and another request
  with the same key, an answer that lives for 2 of `LastTime` 3 ticks. Paper: one
  position with two perpetual legs, one settlement, the smallest window, poll
  interval and number of attempts, `Horizon` 3: before, at and after a deadline.
  Replay: three rows (`MaxLog` 3) in pages of two, a full page and a short one;
  each row may decide, fill or expire, so an entry opens or ends, and a later
  decision finds its instrument taken or free. `MaxLog` 4, with which an exit is
  completed, holds too (3.7 million states, 80 seconds) and is the bound of
  `replay_overtaken`.
- `services_faults`: two streams, one with two events of which the other
  publishes one as well, and a queue and batch of two: it is full with the events
  of one call. Two jobs, one of which no worker can parse, two workers, and
  `MaxAttempts` 2 claims of a job.
- Crashes are not counted: they can come at any step, as often as they like.

A composite of parts that share no variable explores each part alone, so its
state space is the sum and not the product, and each property is about one part.

Symmetry is used in safety runs only (keys, people, roles, requests, positions), never with
a liveness property.

`CHECK_DEADLOCK FALSE` is set where the system may stop for good: in
`prot_orders` a torn line keeps every new process out, and so do rows with two
active positions of one instrument; in `wd_faults` a damaged journal does. All other runs look for deadlocks.

### Fairness

`FairSpec` (live runner) asks for weak fairness of the runner's steps, except of
a start that was halted. The event loop runs the one task of the runner, every
await of it has a timeout, and the deployment restarts a dead process (`restart:
unless-stopped`); what was halted waits for the operator and is not assumed to
start. Nothing is assumed of the venue's fills, of the operator, or of the
absence of faults beyond those the configuration lists. `live_pause` has no
crashes, since a process that crashes before each close never closes anything.

`WriterFairness` asks for weak fairness of what the event loop runs as soon as it
can: a call's next event and its wait, the worker's take, collection and append
(whose outcome stays open), the stop's marker. The lock is taken with strong
fairness: an asyncio lock wakes its waiters in order. Storage need not recover:
`Answered` holds because the retry window ends.

`JobsFairness` asks for strong fairness of the sweep and of a claim, which every
process repeats on a timer and other processes may disable in between, and weak
fairness of a worker's computation, of the expiry of a lease, and of a process
being there. A job that is always claimed by a worker that dies before it
finishes never ends; `MaxAttempts` is the bound of the model on that.

### Findings

- `live_blocked`: a due reconciliation that fails ends the cycle before
  anything is closed and stays due (`services/live_runner.py:309`), so that one
  position in need of the operator keeps all others open although the switch
  asks for their closing.
- `prot_exit`: the venue view lists stops of OPEN positions only
  (`services/runtime_protective.py:184`), so that a pass during an exit blocks
  its stop and engages the interlock.
- `prot_latched`: the interlock in the journal is not taken over by a new
  process (`services/multi_regime_runtime.py:1388`).
- `replay_overtaken`: `flush` looks at the failure before it waits for the lock
  (`services/multi_regime_runtime.py:1540`). A barrier that waits while the worker
  fails in the middle of a page goes on with the same rows, which the engine and
  the broker drop as seen, and commits the checkpoint without their changes; so
  does the final drain behind a runner that was cancelled inside `flush`. What
  follows from it is in `RuntimeProtection` and `AdvancedPaper`: a restart takes
  positions back behind their stops, or refuses the rows.
- `prot_restart`: a stop that was registered and not submitted makes every later
  pass raise once its position has ended (`services/runtime_protective.py:161`).

Other places where code and documents differ were met while modelling, and have
no run of their own.

One of them was found by a proof that failed. `docs/V1_ORDERBOOK_RECOVERY.md:15`
says that a sequence gap "keeps the last levels only for diagnosis and marks them
non-tradable until a fresh valid snapshot arrives". In the monitor
(`market_data/quality.py:227`) a delta behind the last sequence is judged before
RECOVERING is looked at: it is VALID (`:231`) and sets the last sequence back
(`:160`). The invariant of the proof needed that only a snapshot ends a gap, and
four versions (`LastVersion` and `MaxRows` 4, no skewed clock, the last three
versions in one millisecond) break it: a snapshot of version 3; delta 2, late;
delta 4, which is journaled as a GAP and not applied by the runtime's book; delta
2 again, which the journal has; delta 3, VALID. The runtime's book is VALID
at version 3 from there on, without delta 4 and without a snapshot. What holds
all the same, and is proved, is `BooksAreExact`: the levels are those of the
sequence the book states, so that it is stale and not wrong.

Of the others, most are listed as hazards with their lines: the abandoned
unwind (`execution/live.py:435`), the open order taken for final
(`exchanges/trading.py:387`), the torn line of the stop journal
(`execution/protective.py:147`), a stop blocked without the interlock
(`execution/protective.py:363`), a first leg that fills partly and is left
without compensation (`services/decision_pipeline.py:433`), the order of the
paper runner's saves (`services/paper_runner.py:833`). Not listed there: a
reconciliation to NEW, from where an order may be prepared again
(`execution/oms.py:682`); an order found SUBMITTING after a poisoned journal is
sent again although the alert runbook forbids it, which `NeverRetried` excepts; a
private stream that is marked active (`exchanges/private_streams.py:864`) before
its reconnection has succeeded, where `docs/V1_PRIVATE_STREAMS.md` says that a
channel which is reconnecting blocks new live entries.

## 4. The proofs

All theorems are proved from the named assumptions on the constants of their
modules: `QuantityAssumption`, `OMSAssumption`, `PipelineAssumption` (legs are
distinct orders, one process), `FaultsAssumption`, `ExecutorAssumption`,
`RunnerAssumption`, `InstrumentAssumption`, `PlanAssumption`,
`WithdrawalAssumption`, `ReplicationAssumption`, `ReplayAssumption` (a page is not
empty), `PaperAssumption` (finitely many positions), `FeedAssumption` (the venue's
clock does not go back), `WriterAssumption` (no call is empty, and the marker of
the stop is none of the streams or items, as `_STOP = object()` is),
`CommandsAssumption`, `JobsAssumption`, `AdvancedAssumption` (a plan has legs, and
legs have a size). They hold for any number of orders,
positions, keys, requests, streams, workers and replicators, for any length of a
journal, and for any value of the bounds.

*Induction over data.* The induction theorems of the library take an operator,
which the provers at hand cannot instantiate. Two lemmas take a set instead:
`SetInduction` (a set that has 0 and each next number has them all, from
`WFMin` and the order of the naturals) and `SubsetInduction` (the same for the
subsets of a finite set). With them it is proved what three recursive functions
compute for every argument: the positions a journal leads to (`HistoryFacts`,
`HistoryKept`), the journal that an append of a batch leaves
(`CommittedInserts`), and a sum over a finite set, which does not depend on the
order it is taken in (`TotalWithout`, `TotalDepends`). Each starts with the
existence of the function that the definition chooses, because nothing can be
said of a CHOOSE otherwise.

- `DecisionPipelineProofs`, the orders: `TypeCorrect`, `JournalAlwaysLoads`, `MemoryNeverAhead`,
  `NoReportTwice`, `ImplementsLedger`. `MemoryIsDurablePrefix` is not inductive:
  a process that is open could append to records it has not seen. The invariant
  adds that an open JSONL writer has seen every record and that torn bytes leave
  no open writer (`WriterKnows`), that every order a prefix of the journal
  mentions has a last record in it (`HasLast`), and that a complete fill is FILLED (`FullIsFilled`), which
  the abstract edges need. Refinement is `Init` to `Init` and each step to an
  edge or a stutter of the replayed book.
- `DecisionPipelineProofs`, the pipeline: `PipelineIsOMS` shows that every step of the pipeline
  is a step of `DurableOMS` or a stutter, so that all theorems about that module
  hold of it; `PipelineJournalLoads` follows. `PipelineTyped`, `HedgesGoInOrder`, `ResultsAreTrue`
  and `OutcomesAreNotRetried` need what the journal says of an order to be
  related to what its venue holds, and what lies before the current leg to be
  FILLED both in memory and in the journal.
- `LiveRunnerProofs` has five layers and a refinement. `IInv` holds under all faults: types, that
  the position in the hand of the executor is at a point its program counter
  allows (`InHand`), and for each position what its rows, its memory and its
  fills have to do with each other (`Sound`); from it follow `TypeCorrect`,
  `RecordsFirst`, `MemoryIsLedger`. `Recorded` holds under all faults too: an order
  that is decided over, and both opening orders of an OPEN position, have their
  outcome on record (`OutcomeRecorded`); from both follow `NeverSentTwice`, with what
  a step may do to a row (`RowWrites`), and `GateHolds`. `Hedge`, when
  no order that is still open is taken for final (`open_answer` is not among the
  faults), says what each phase has filled at most and at least: `OpenStaysHedged`,
  `NothingLeftBehind`. `Guarded`, when the file of the switch can be written,
  relates a stuck position to the switch through every path that ends one:
  `ManualIsGuarded`, `StuckBlocksEntries`. `Limited`, when the database does not
  fail, says that the index and the count of the runner cover the ledger
  (`Alone`, `Room`, `Kept`, `Indexed`): `LimitsHold`. The conditions are those
  under which TLC finds the properties to hold; each fails under the fault that
  is excluded. `PositionsKeepTheBook` is the refinement, `BookSpec`, under the condition
  of `Hedge`. One lemma says what every step of the executor but `Send` may do to the
  row in hand (`RowStep`), another that such a step is one of `PositionLedger`
  (`RowMoves`): that the row is right about the venues is what `IInv` and `Hedge` say
  of the next state. `Send` is a purchase, a sale of what is held, or nothing.
- `RuntimeProtectionProofs`: `TypeCorrect`, `OnePerInstrument`,
  `NeverUncovered`, `PassesAccount`, `InterlockHolds`. What a pass promises at
  its end needs what it has done so far (`PassProgress`), and that needs to know
  in which phases of a position a stop can exist, in memory and in the journal
  (`StopsFollow`), since a replay moves positions behind the stops' back. It says
  nothing of the positions a restart took back. `RowsFollow`, that rows are behind
  only where the next page will write them, holds unless a catch-up was overtaken;
  from it, a restart of the others finds one active position in each instrument.
- `AdvancedPaperProofs`: `AdvancedTypes`, `LegsEndFlat` (`PositionsEndFlat`),
  `RefusedOnlyIfOvertaken` (`InstrumentsAreExclusive`: no two active positions in
  memory have a market in common, which `restore` raises on, and none as written
  unless a catch-up went on where another was cut off),
  `LeggedRowsContinue` (`RowsContinue`). That a position ends flat is not inductive:
  the next attempt of an exit is sized by what the attempts before it did. The
  invariant adds that these add up (`SoundLeg`: what the earlier exit orders did and
  what the last was asked for make up what the leg filled), that a position has no
  exit order before it is left, and that memory goes on from the rows (`Continues`),
  which is why a page can be written at any time, and of any of them. `Written` adds
  that rows equal memory where no update is owed or was left out. `Moves` is what every part of the
  broker does to a position, from a fill to an event: it stays sound and continues.
  `RefusedOnlyIfOvertaken` needs that only a submission makes a position active.
- `WithdrawalsProofs`: `TypeCorrect`, `NothingUnsaved`, `DutiesStaySeparate`,
  `NeverBack`, `CapIsKept`. Every operation saves one snapshot that is well
  approved (`OperateSaves`), and a save keeps the invariant however it ends
  (`PersistKeeps`); `NeverBack` follows from both because a line that does not
  damage the journal was computed from what the journal says. `CapIsKept` states
  `DailyCapHolds`. The cap is checked against memory, and the invariant carries
  it over to the journal: a line that leaves the journal whole was computed from a
  memory equal to it. It adds that finitely many requests were made (`CapInv`), so
  that nothing is assumed of the set of requests, and every operation puts in the
  place of a request one that fits (`Fits`): new and under the cap, or of the same
  day and amount, and not taken up again once it was given up.
- `JournalProofs`, the writer: `ToldIsDurable` (`JournalIsTrue`) and `StopDrains`
  (`CleanStop`). `WriterInv` says where each event of a call is for every state of
  its future (`FuturesSound`: set means in the journal, pending means in the
  queue, in the batch, or behind a worker that died), that queue and batch keep a
  call's events in order behind what the journal has (`QueueOrdered`,
  `ActiveOrdered`), and that the marker of a stop is the last thing ever put
  (`ClosingSound`).
- `JournalProofs`, the book: `FeedIsTyped`, `UsableBooksAreExact`
  (`BooksAreExact`). `FeedInv` adds to the exactness of a usable book that the
  runtime's is no younger than its sequence's version (`EngineSound`), which needs
  that a row the monitor called VALID did not come from a clock that ran ahead
  (`RowsSound`); without it a delta could be refused for its time and missed.
- `JournalProofs`, the replication: `ReplicationTyped`, `SinkIsComplete`
  (`NothingSkipped`), `CursorNeverGoesBack` (`CursorMovesOn`). The invariant adds
  what a replicator holds (`PassIsSound`): a loaded batch starts behind the cursor
  it read with nothing but deleted rows between, and a written one is in every
  table.
- `PaperProofs`, the runtime: `NobodySleepsOnWork` (`NoRowIsMissed`),
  `PositionsAreReplayed` (`PositionsAreHistory`), `StagesAreNotTakenBack`
  (`NothingUndone`). `ReplayInv`: what the catch-up of the worker goes to covers
  all that was announced unless a wake-up is pending (`WorkIsKnown`), a page ends
  between what was processed and the tip, and no task runs before the restore has
  ended. `HistoryInv` holds unless a catch-up went on where another was cut off
  (the finding `replay_overtaken`): the saved positions are the history of the
  checkpoint's row, the broker's that of the row it is at, with no decision on a
  row the engine has not seen (`MemoryIsHistory`), a pass began at the checkpoint
  and lists what differs from it (`PassIsFresh`), and what protection was shown is
  the history of an earlier row (`ShownIsPast`). The last is why nothing is undone:
  rows take a position only forward (`HistoryGoesOn`). `ReplayIsTyped`
  (`ReplayTypeOK`) needs no such condition: its invariant is that a pass is inside
  the journal (`PassInLog`).
- `PaperProofs`, the account: `NoMoneyIsMade` (`AccountIsTrue`), `CompleteIsPaid`
  (`ReconciliationIsTrue`). `AccountInv` relates memory, rows and payments for each
  position (`Marked`: what was credited has its payment; `Complete`; `Said`: what is
  given up is said before anything else is saved), the range of a history to the
  clock (`CycleSound`), and the capital to the positions at each point of the saves
  (`CapitalSound`, unless `torn`). `AccountTypes` (`PaperTypeOK`) and
  `TornCapitalIsBounded` hold also where it is torn: `CapitalWithin` says that a row
  which is behind its position is so on the way from open to closed, and that each
  unit of capital above the balance, in memory and as saved, was locked by a
  position that is closed there.
- `ServiceProofs`, the commands: `CommandsTyped`, `CommandsRunOnce`,
  `EveryoneHearsTheSame`. The invariant relates the key's row to the one request
  that may still record into it, and to the ending the history has of it. The jobs:
  `JobsTyped`, `OneHoldsTheRow`, `LateWorkersAreHarmless`. The invariant says that a
  task has the number of an earlier claim or of the row's, and that the second is
  the owner's.

`OneActive`, `OneOwner`, `MemoryIsSaved`, `InstrumentsAreExclusive` and the type
invariants are proved and in no run; `NothingUndone` is proved alone and in the
runs a part of `PositionsAreHistory`.

Only model-checked: liveness (`PauseLiquidates`, `Answered`, `JobsEnd`), which
needs ENABLED and is out of reach of TLAPS here; and what the five finding runs
show to be violated, which is not there to be proved. Every other property of a passing run is stated by a
theorem.

A theorem is about the specification of one part (or, for the pipeline and the
runner, of the composite they are). A composite of parts that share no variable
steps one of them at a time, so that a part's theorem is about the part as the
run explores it.

## 5. What is not modelled, and why

- Prices, fees, slippage and every number derived from them: they are
  nondeterministic choices where they decide control (a limit, a loss, an exit).
  Most of the source, by lines, is of this kind, or is parsing, I/O, evaluation
  of recorded data and wiring: strategies, features, regimes, back-testing, the
  acceptance evidence of `qa/`, the clients of eight venues, the API.
- The live executor's tolerances, and how much of a spot residual is too much: see
  section 2.
- The reconciler's second snapshot that rules out a race with a running order:
  the runner does not reconcile while it trades.
- `clear_interlock`, `prepare_replacement`, `mark_unknown` of the stop manager,
  which nothing in the source calls.
- `DoubleEntryLedger` and `ContinuousReconciler` (`portfolio/ledger.py`,
  `portfolio/reconciliation.py`): nothing in the source creates one. Of the
  ledger's tables only `append_ledger_transaction` is used, inside transactions
  that `PaperFunding` has as payments.
- DEX and MEV execution are constructed in `main.py` and never called; the
  low-latency sidecar is off in every deployment.
- `BookFeed`: ageing of a book (`mark_stale`) and checksums, which no selected
  feed uses. The completeness half of `BooksAreExact` is about deltas the monitor
  called VALID: with a crossed delta instead, and an old one repeated after it, a
  book that calls itself VALID can be behind.
- `JournalReplication`: that a replicator catches up. Retention does not look at
  the cursors, so a slow one never does.
- `ControlPlane`: one principal and one key; authentication, roles, rate limits,
  revocation, the hash chain of the audit file. A request is assumed to be over
  before an answer's time to live has passed. The clock is read before the row
  lock in the code and within the step here.
- `EventWriter`: queries of the journal.
- `PaperFunding`: one position; borrow costs, marks, the two profiles' shared
  collection, the daily report. A settlement counts as listed in time when the
  venue lists it before the deadline of its position. `AccountIsTrue` excepts a
  restart between the saves of positions and that of the balance (`torn`), after
  which it does not hold.
- `PaperReplay`: one instrument; the features of the engine and the limit of its
  `_seen`; the checks of journal profiles and of the identity of the checkpoint's
  row, which end a start; a publication before the worker has started, which
  catches up itself. Two runtimes on one database, which
  read the checkpoint and write it back without a lock, are not modelled either.
- `AdvancedPaper`: prices, fees, marks, exposures and the inventory they are summed
  to; the memory of seen events, without which an event would be applied twice
  (one that comes again changes nothing there, and after a restart counts as new
  here); a payload whose time differs from that of its envelope.
- The private streams of the venues.

## 6. What could come next

Two runtimes on one checkpoint during a deployment; `BookFeed` with the ageing of
books; the collector's tasks and back-off, the private streams, and the order
router, which are not modelled; of the proofs, an abstract specification of the
stops that the runtime implements, as `OrderLedger` is for the orders.
