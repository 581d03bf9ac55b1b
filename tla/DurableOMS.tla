----------------------------- MODULE DurableOMS -----------------------------
(***************************************************************************)
(* DurableOMS (execution/oms.py): an in-memory book of orders in front of  *)
(* an append-only journal.  Every operation computes the next snapshot     *)
(* from memory, appends it to the journal and only then changes memory     *)
(* (_persist).  A failed append closes the journal, so the process can     *)
(* write nothing more until it is restarted and replays what is durable.   *)
(* Both deployable journals are here: "jsonl" writes without looking at    *)
(* the file and may leave a torn last record, "sqlite" checks the sequence *)
(* inside its transaction, so that several processes may share the file.   *)
(***************************************************************************)
EXTENDS Orders, Sequences, FiniteSets

CONSTANTS
  Process,      \* processes that open the journal
  JournalKind,  \* "jsonl" or "sqlite"
  Stamp,        \* what tells two reports of the same status and fill apart
  MaxVersion    \* bound: the highest version an order reaches

(* A JSONL journal has one writer: nothing in the file guards against two. *)
ASSUME OMSAssumption ==
  /\ JournalKind \in {"jsonl", "sqlite"}
  /\ JournalKind = "jsonl" => \A p, q \in Process : p = q
  /\ MaxVersion \in Nat

VARIABLES
  journal,       \* complete durable records
  tail,          \* bytes after them: "clean", "torn", or "corrupt" if a record follows torn bytes
  up,            \* up[p]: p has loaded the journal
  open,          \* open[p]: p's journal object is not closed (poisoned)
  orders,        \* orders[p]: DurableOMS.orders
  fingerprints,  \* fingerprints[p]: DurableOMS._report_fingerprints
  sequence       \* sequence[p]: DurableOMS._sequence

vars == <<journal, tail, up, open, orders, fingerprints, sequence>>
-----------------------------------------------------------------------------
(* An ExecutionReport that passes its own validator and the requested-      *)
(* quantity check; the fingerprint of a report is the report.               *)
Report == UNION { [order: {o}, status: Status, filled: 0..Quantity[o], stamp: Stamp]
                  : o \in Order }

(* OMSJournalEntry; report holds the fingerprint of the report applied.     *)
Entry == [seq: Nat \ {0}, order: Order, snap: AnySnapshot, report: SUBSET Report]

(* The last record of o among the first n, and the book they replay to.     *)
IsLast(j, n, o, i) ==
  /\ i \in 1..n
  /\ j[i].order = o
  /\ \A k \in 1..n : j[k].order = o => k <= i

LastOf(j, n, o) == CHOOSE i \in 1..n : IsLast(j, n, o, i)

Mentions(j, n, o) == \E i \in 1..n : j[i].order = o

ReplayTo(j, n) ==
  [o \in Order |-> IF Mentions(j, n, o) THEN j[LastOf(j, n, o)].snap ELSE NoOrder]

ReportsIn(j, n) == UNION {j[i].report : i \in 1..n}

(* _recover and the journals' load: contiguous sequences and versions.      *)
Loadable(j) ==
  \A i \in 1..Len(j) :
    /\ j[i].seq = i
    /\ j[i].snap.version = ReplayTo(j, i - 1)[j[i].order].version + 1
-----------------------------------------------------------------------------
(* _persist: the entry is appended, and only a successful append reaches    *)
(* memory.  The append may fail before the record is durable (leaving torn  *)
(* bytes in a JSONL file) or after it (fdatasync or COMMIT reported an       *)
(* error); both close the journal and leave memory as it was.                *)
(* Plausible bug: SQLite, too, writes without comparing the sequence. *)
AppendableUnchecked(p, e) == open[p]

Appendable(p, e) ==
  /\ open[p]
  /\ JournalKind = "sqlite" => e.seq = Len(journal) + 1

Written(e) ==
  /\ journal' = Append(journal, e)
  /\ tail' = IF tail = "clean" THEN "clean" ELSE "corrupt"

Poison(p) == open' = [open EXCEPT ![p] = FALSE]

AppendSucceeds(p, e) ==
  /\ Appendable(p, e)
  /\ Written(e)
  /\ orders' = [orders EXCEPT ![p][e.order] = e.snap]
  /\ fingerprints' = [fingerprints EXCEPT ![p] = @ \cup e.report]
  /\ sequence' = [sequence EXCEPT ![p] = e.seq]
  /\ UNCHANGED <<up, open>>

(* Plausible bug: the snapshot reaches memory although the append failed. *)
MemoryFirstAppendFails(p, e) ==
  /\ open[p]
  /\ open' = [open EXCEPT ![p] = FALSE]
  /\ orders' = [orders EXCEPT ![p][e.order] = e.snap]
  /\ UNCHANGED <<journal, tail, up, fingerprints, sequence>>

(* Plausible bug: the journal stays open after an append error. *)
AppendFailsKeepsOpen(p, e) ==
  /\ Appendable(p, e)
  /\ \/ Written(e)
     \/ tail' = (IF JournalKind = "jsonl" THEN "torn" ELSE tail) /\ UNCHANGED journal
  /\ UNCHANGED <<up, open, orders, fingerprints, sequence>>

AppendFails(p, e) ==
  /\ open[p]
  /\ open' = [open EXCEPT ![p] = FALSE]
  /\ \/ /\ Appendable(p, e)
        /\ Written(e)
     \/ /\ tail' \in IF JournalKind = "jsonl" THEN {tail, "torn"} ELSE {tail}
        /\ UNCHANGED journal
  /\ UNCHANGED <<up, orders, fingerprints, sequence>>

(* _persist of the next snapshot of o with the given changes.               *)
Persist(p, o, status, filled, cancel, report) ==
  LET old == orders[p][o]
      e   == [seq |-> sequence[p] + 1, order |-> o, report |-> report,
              snap |-> [status |-> status, filled |-> filled, cancel |-> cancel,
                        version |-> old.version + 1]]
  IN  /\ old.version < MaxVersion
      /\ AppendSucceeds(p, e) \/ AppendFails(p, e)

(* _update with nothing but a new status. *)
Move(p, o, status) ==
  Persist(p, o, status, orders[p][o].filled, orders[p][o].cancel, {})
-----------------------------------------------------------------------------
(* create_order: an id that is already known is returned as it is.          *)
CreateOrder(p, o) ==
  /\ orders[p][o] = NoOrder
  /\ Move(p, o, "NEW")

(* prepare_submit: SUBMITTING is returned as it is, others are refused.     *)
PrepareSubmit(p, o) ==
  /\ orders[p][o].status = "NEW"
  /\ Move(p, o, "SUBMITTING")

(* _report_transition_allowed. *)
Reportable(from, to) ==
  \/ from = "NEW" /\ to \in {"ACKNOWLEDGED", "REJECTED"}
  \/ from = "SUBMITTING" /\ to \in
       {"ACKNOWLEDGED", "PARTIALLY_FILLED", "FILLED", "REJECTED", "UNKNOWN"}
  \/ from \in {"ACKNOWLEDGED", "UNKNOWN", "RECONCILING"} /\ to \in
       {"ACKNOWLEDGED", "PARTIALLY_FILLED", "FILLED", "CANCELLED", "REJECTED"}
  \/ from = "PARTIALLY_FILLED" /\ to \in {"PARTIALLY_FILLED", "FILLED", "CANCELLED"}
  \/ from = "CANCEL_PENDING" /\ to \in
       {"PARTIALLY_FILLED", "FILLED", "CANCELLED", "UNKNOWN"}
  \/ from = "CANCELLED" /\ to = "FILLED"

(* The status stored for a reported one: a complete fill wins over anything *)
(* the venue calls it, and a first fill over an acknowledgement.            *)
StatusOf(o, status, filled) ==
  IF filled = Quantity[o] THEN "FILLED"
  ELSE IF filled > 0 /\ status = "ACKNOWLEDGED" THEN "PARTIALLY_FILLED"
  ELSE status

(* Plausible bug: the cumulative fill is not compared with the stored one. *)
ApplyReportAnyFill(p, r) ==
  LET old == orders[p][r.order]
  IN  /\ old # NoOrder
      /\ r \notin fingerprints[p]
      /\ Reportable(old.status, r.status)
      /\ Persist(p, r.order, StatusOf(r.order, r.status, r.filled), r.filled,
                 old.cancel, {r})

(* apply_report: a fingerprint already seen changes nothing.                *)
ApplyReport(p, r) ==
  LET old == orders[p][r.order]
  IN  /\ old # NoOrder
      /\ r \notin fingerprints[p]
      /\ r.filled >= old.filled
      /\ Reportable(old.status, r.status)
      /\ Persist(p, r.order, StatusOf(r.order, r.status, r.filled), r.filled,
                 old.cancel, {r})

(* prepare_cancel *)
PrepareCancel(p, o) ==
  /\ orders[p][o].status \in
       {"ACKNOWLEDGED", "PARTIALLY_FILLED", "UNKNOWN", "RECONCILING"}
  /\ Persist(p, o, "CANCEL_PENDING", orders[p][o].filled, TRUE, {})

(* mark_unknown: refused for the final statuses, though not for CANCELLED.  *)
MarkUnknown(p, o) ==
  /\ orders[p][o].status \notin Final \cup {"ABSENT"}
  /\ Move(p, o, "UNKNOWN")

(* start_reconciliation *)
StartReconciliation(p, o) ==
  /\ orders[p][o].status \in {"UNKNOWN", "CANCEL_PENDING"}
  /\ Move(p, o, "RECONCILING")

(* apply_reconciliation with what the venue was found to hold.              *)
ApplyReconciliation(p, o, status, filled) ==
  /\ orders[p][o].status = "RECONCILING"
  /\ status \notin {"UNKNOWN", "RECONCILING", "SUBMITTING"}
  /\ filled \in orders[p][o].filled .. Quantity[o]
  /\ Persist(p, o, StatusOf(o, status, filled), filled, orders[p][o].cancel, {})

(* expire *)
Expire(p, o) ==
  /\ orders[p][o].status \in {"NEW", "ACKNOWLEDGED", "PARTIALLY_FILLED"}
  /\ Move(p, o, "EXPIRED")
-----------------------------------------------------------------------------
Forget(p) ==
  /\ orders' = [orders EXCEPT ![p] = [o \in Order |-> NoOrder]]
  /\ fingerprints' = [fingerprints EXCEPT ![p] = {}]
  /\ sequence' = [sequence EXCEPT ![p] = 0]

(* A process stops; a crash inside append is AppendFails and then this.     *)
Crash(p) ==
  /\ up[p]
  /\ up' = [up EXCEPT ![p] = FALSE]
  /\ open' = [open EXCEPT ![p] = FALSE]
  /\ Forget(p)
  /\ UNCHANGED <<journal, tail>>

(* A new DurableOMS on the same path: a torn last record is cut off, the    *)
(* rest is replayed, and a journal that does not replay is refused.         *)
Restart(p) ==
  /\ ~up[p]
  /\ tail # "corrupt"
  /\ Loadable(journal)
  /\ tail' = "clean"
  /\ up' = [up EXCEPT ![p] = TRUE]
  /\ open' = [open EXCEPT ![p] = TRUE]
  /\ orders' = [orders EXCEPT ![p] = ReplayTo(journal, Len(journal))]
  /\ fingerprints' = [fingerprints EXCEPT ![p] = ReportsIn(journal, Len(journal))]
  /\ sequence' = [sequence EXCEPT ![p] = Len(journal)]
  /\ UNCHANGED journal
-----------------------------------------------------------------------------
Init ==
  /\ journal = << >>
  /\ tail = "clean"
  /\ up = [p \in Process |-> FALSE]
  /\ open = [p \in Process |-> FALSE]
  /\ orders = [p \in Process |-> [o \in Order |-> NoOrder]]
  /\ fingerprints = [p \in Process |-> {}]
  /\ sequence = [p \in Process |-> 0]

Operate(p, o) ==
  \/ CreateOrder(p, o)
  \/ PrepareSubmit(p, o)
  \/ PrepareCancel(p, o)
  \/ MarkUnknown(p, o)
  \/ StartReconciliation(p, o)
  \/ \E status \in Status, filled \in 0..Quantity[o] :
       ApplyReconciliation(p, o, status, filled)
  \/ Expire(p, o)

Next == \E p \in Process :
  \/ \E o \in Order : Operate(p, o)
  \/ \E r \in Report : ApplyReport(p, r)
  \/ Crash(p)
  \/ Restart(p)

Spec == Init /\ [][Next]_vars
-----------------------------------------------------------------------------
(* Every variable has its type, with the bounds the operations enforce: no  *)
(* stored fill exceeds the requested quantity. *)
TypeOK ==
  /\ journal \in Seq(Entry)
  /\ \A i \in 1..Len(journal) : journal[i].snap \in Snapshot(journal[i].order)
  /\ tail \in {"clean", "torn", "corrupt"}
  /\ up \in [Process -> BOOLEAN]
  /\ open \in [Process -> BOOLEAN]
  /\ orders \in [Process -> [Order -> AnySnapshot]]
  /\ \A p \in Process, o \in Order : orders[p][o] \in Slot(o)
  /\ fingerprints \in [Process -> SUBSET Report]
  /\ sequence \in [Process -> Nat]

(* Whatever sequence of failed appends, crashes and competing writers came  *)
(* before, a restart can replay the journal: records are contiguous, each   *)
(* order's versions are, and no record follows torn bytes. *)
JournalLoads == Loadable(journal) /\ tail # "corrupt"

(* What a running process believes is what the journal says up to the       *)
(* record it last saw: nothing reaches memory that is not durable, even     *)
(* when an append reports an error after the record became durable. *)
MemoryIsDurablePrefix ==
  \A p \in Process : up[p] =>
    /\ sequence[p] <= Len(journal)
    /\ orders[p] = ReplayTo(journal, sequence[p])
    /\ fingerprints[p] = ReportsIn(journal, sequence[p])

(* A report delivered again, to another process or after a restart, is      *)
(* recorded once. *)
ReportsAppliedOnce ==
  \A i, k \in 1..Len(journal) : i # k => journal[i].report \cap journal[k].report = {}

(* The replayed journal is the abstract book of OrderLedger. *)
Ledger == INSTANCE OrderLedger WITH book <- ReplayTo(journal, Len(journal))

LedgerSpec == Ledger!Spec
=============================================================================
