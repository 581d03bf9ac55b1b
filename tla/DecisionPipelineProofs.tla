----------------------- MODULE DecisionPipelineProofs -----------------------
(***************************************************************************)
(* Proofs about DurableOMS, for any orders, quantities, processes, stamps  *)
(* and bounds and for both journals, and about DecisionPipeline, for any   *)
(* plan, quantities and wiring.  Every step of the pipeline is a step of   *)
(* DurableOMS or leaves it alone, so what is proved of the journal holds   *)
(* there too; on top of it comes what one process adds: it knows its own   *)
(* journal.                                                                *)
(***************************************************************************)
EXTENDS DecisionPipeline, TLAPS

(* Every order a prefix mentions has a last record in it.                   *)
HasLast(j) ==
  \A n \in 0..Len(j), o \in Order : Mentions(j, n, o) => \E i \in 1..n : IsLast(j, n, o, i)

(* Who may write: an open journal object belongs to a running process; a    *)
(* JSONL writer has seen every record, and torn bytes leave no writer.      *)
WriterKnows ==
  /\ \A p \in Process : open[p] => up[p]
  /\ JournalKind = "jsonl" =>
       /\ \A p \in Process : open[p] => sequence[p] = Len(journal)
       /\ tail = "torn" => \A p \in Process : ~open[p]
  /\ JournalKind = "sqlite" => tail = "clean"

(* Nothing is left to fill only in FILLED orders. *)
FullIsFilled ==
  \A i \in 1..Len(journal) :
    journal[i].snap.filled = Quantity[journal[i].order] => journal[i].snap.status = "FILLED"

(* The inductive invariant. *)
IInv ==
  /\ TypeOK
  /\ JournalLoads
  /\ MemoryIsDurablePrefix
  /\ ReportsAppliedOnce
  /\ WriterKnows
  /\ HasLast(journal)
  /\ FullIsFilled

(* What _persist is called with: a legal next snapshot of o in the memory   *)
(* of p, and at most one report that p has not recorded.                    *)
Legal(p, o, status, filled, cancel, report) ==
  /\ status \in Status
  /\ filled \in orders[p][o].filled .. Quantity[o]
  /\ cancel \in BOOLEAN
  /\ orders[p][o].cancel => cancel
  /\ filled = Quantity[o] => status = "FILLED"
  /\ Ledger!Edge(orders[p][o].status, status)
  /\ report \in SUBSET Report
  /\ report \cap fingerprints[p] = {}

(* The entry _persist builds. *)
EntryOf(p, o, status, filled, cancel, report) ==
  [seq |-> sequence[p] + 1, order |-> o, report |-> report,
   snap |-> [status |-> status, filled |-> filled, cancel |-> cancel,
             version |-> orders[p][o].version + 1]]
-----------------------------------------------------------------------------
LEMMA AppendKeeps ==
  ASSUME NEW S, NEW j \in Seq(S), NEW e \in S
  PROVE  /\ Append(j, e) \in Seq(S)
         /\ Len(Append(j, e)) = Len(j) + 1
         /\ Append(j, e)[Len(j) + 1] = e
         /\ \A i \in 1..Len(j) : Append(j, e)[i] = j[i]
OBVIOUS

LEMMA LastIsUnique ==
  ASSUME NEW j, NEW n \in Nat, NEW o, NEW i \in 1..n, IsLast(j, n, o, i)
  PROVE  LastOf(j, n, o) = i
<1> DEFINE l == LastOf(j, n, o)
<1>1. l \in 1..n /\ IsLast(j, n, o, l)
  BY DEF LastOf
<1>2. l <= i /\ i <= l
  BY <1>1 DEF IsLast
<1> QED BY <1>1, <1>2

LEMMA AppendKeepsReplay ==
  ASSUME NEW j \in Seq(Entry), NEW e \in Entry, HasLast(j), NEW n \in 0..Len(j)
  PROVE  /\ ReplayTo(Append(j, e), n) = ReplayTo(j, n)
         /\ ReportsIn(Append(j, e), n) = ReportsIn(j, n)
<1> DEFINE a == Append(j, e)
<1>1. \A i \in 1..n : a[i] = j[i]
  BY AppendKeeps
<1>2. ReportsIn(a, n) = ReportsIn(j, n)
  BY <1>1 DEF ReportsIn
<1>3. ASSUME NEW o \in Order
      PROVE  /\ Mentions(a, n, o) = Mentions(j, n, o)
             /\ Mentions(j, n, o) => a[LastOf(a, n, o)] = j[LastOf(j, n, o)]
  <2>1. Mentions(a, n, o) = Mentions(j, n, o)
    BY <1>1 DEF Mentions
  <2>2. ASSUME Mentions(j, n, o) PROVE a[LastOf(a, n, o)] = j[LastOf(j, n, o)]
    <3>1. PICK i \in 1..n : IsLast(j, n, o, i)
      BY <2>2 DEF HasLast
    <3>2. IsLast(a, n, o, i)
      BY <1>1, <3>1 DEF IsLast
    <3>3. LastOf(a, n, o) = i /\ LastOf(j, n, o) = i
      BY <3>1, <3>2, LastIsUnique
    <3> QED BY <1>1, <3>3
  <2> QED BY <2>1, <2>2
<1>4. ReplayTo(a, n) = ReplayTo(j, n)
  BY <1>3 DEF ReplayTo
<1> QED BY <1>2, <1>4

LEMMA AppendReplays ==
  ASSUME NEW j \in Seq(Entry), NEW e \in Entry, HasLast(j)
  PROVE  /\ ReplayTo(Append(j, e), Len(j) + 1)
              = [ReplayTo(j, Len(j)) EXCEPT ![e.order] = e.snap]
         /\ ReportsIn(Append(j, e), Len(j) + 1) = ReportsIn(j, Len(j)) \cup e.report
         /\ HasLast(Append(j, e))
<1> DEFINE a == Append(j, e)
           n == Len(j)
<1>0. n \in Nat /\ n + 1 \in Nat /\ Len(a) = n + 1 /\ a[n + 1] = e
  BY AppendKeeps
<1>1. \A i \in 1..n : a[i] = j[i]
  BY AppendKeeps
<1>2. ReportsIn(a, n + 1) = ReportsIn(j, n) \cup e.report
  BY <1>0, <1>1 DEF ReportsIn
<1>3. IsLast(a, n + 1, e.order, n + 1)
  BY <1>0 DEF IsLast
<1>4. ASSUME NEW o \in Order, o # e.order, NEW i \in 1..n, IsLast(j, n, o, i)
      PROVE  i \in 1..(n + 1) /\ IsLast(a, n + 1, o, i)
  BY <1>0, <1>1, <1>4 DEF IsLast
<1>5. ASSUME NEW o \in Order, o # e.order
      PROVE  Mentions(a, n + 1, o) = Mentions(j, n, o)
  BY <1>0, <1>1, <1>5 DEF Mentions
<1>6. ASSUME NEW o \in Order
      PROVE  ReplayTo(a, n + 1)[o] = [ReplayTo(j, n) EXCEPT ![e.order] = e.snap][o]
  <2>1. CASE o = e.order
    <3>1. LastOf(a, n + 1, o) = n + 1
      BY <1>0, <1>3, <2>1, LastIsUnique
    <3>2. Mentions(a, n + 1, o)
      BY <1>0, <1>3, <2>1 DEF Mentions, IsLast
    <3> QED BY <1>0, <2>1, <3>1, <3>2 DEF ReplayTo
  <2>2. CASE o # e.order /\ ~Mentions(j, n, o)
    BY <1>5, <2>2 DEF ReplayTo
  <2>3. CASE o # e.order /\ Mentions(j, n, o)
    <3>1. PICK i \in 1..n : IsLast(j, n, o, i)
      BY <1>0, <2>3 DEF HasLast
    <3>2. LastOf(j, n, o) = i
      BY <1>0, <3>1, LastIsUnique
    <3>3. LastOf(a, n + 1, o) = i
      BY <1>0, <1>4, <2>3, <3>1, LastIsUnique
    <3>4. a[i] = j[i]
      BY <1>1
    <3> QED BY <1>5, <2>3, <3>2, <3>3, <3>4 DEF ReplayTo
  <2> QED BY <2>1, <2>2, <2>3
<1>7. ReplayTo(a, n + 1) = [ReplayTo(j, n) EXCEPT ![e.order] = e.snap]
  BY <1>6 DEF ReplayTo
<1>8. HasLast(a)
  <2> SUFFICES ASSUME NEW m \in 0..Len(a), NEW o \in Order, Mentions(a, m, o)
               PROVE  \E i \in 1..m : IsLast(a, m, o, i)
    BY DEF HasLast
  <2>1. CASE m \in 0..n
    <3>1. \A i \in 1..m : a[i] = j[i]
      BY <1>0, <1>1, <2>1
    <3>2. Mentions(j, m, o)
      BY <3>1 DEF Mentions
    <3>3. PICK i \in 1..m : IsLast(j, m, o, i)
      BY <2>1, <3>2 DEF HasLast
    <3>4. IsLast(a, m, o, i)
      BY <3>1, <3>3 DEF IsLast
    <3> QED BY <3>4
  <2>2. CASE m = n + 1 /\ o = e.order
    BY <1>0, <1>3, <2>2
  <2>3. CASE m = n + 1 /\ o # e.order
    <3>1. Mentions(j, n, o)
      BY <1>5, <2>3
    <3>2. PICK i \in 1..n : IsLast(j, n, o, i)
      BY <1>0, <3>1 DEF HasLast
    <3> QED BY <1>4, <2>3, <3>2
  <2> QED BY <1>0, <2>1, <2>2, <2>3
<1> QED BY <1>2, <1>7, <1>8
-----------------------------------------------------------------------------
THEOREM InitIInv == Init => IInv
<1> SUFFICES ASSUME Init PROVE IInv
  OBVIOUS
<1>1. journal = << >> /\ journal \in Seq(Entry) /\ Len(journal) = 0
  BY DEF Init
<1>2. TypeOK
  BY <1>1, QuantityAssumption
     DEF Init, TypeOK, NoOrder, AnySnapshot, Slot, Status
<1>3. JournalLoads
  BY <1>1 DEF Init, JournalLoads, Loadable
<1>4. MemoryIsDurablePrefix /\ ReportsAppliedOnce /\ FullIsFilled
  BY <1>1 DEF Init, MemoryIsDurablePrefix, ReportsAppliedOnce, FullIsFilled
<1>5. WriterKnows
  BY DEF Init, WriterKnows
<1>6. HasLast(journal)
  BY <1>1 DEF HasLast, Mentions
<1> QED BY <1>2, <1>3, <1>4, <1>5, <1>6 DEF IInv

(* Whoever manages to write has seen every record, and leaves a clean file. *)
LEMMA WriterIsCurrent ==
  ASSUME IInv, NEW p \in Process, NEW e, Appendable(p, e), e.seq = sequence[p] + 1
  PROVE  /\ up[p]
         /\ sequence[p] = Len(journal)
         /\ tail = "clean"
<1>1. CASE JournalKind = "jsonl"
  BY <1>1 DEF IInv, WriterKnows, Appendable, TypeOK, JournalLoads
<1>2. CASE JournalKind = "sqlite"
  BY <1>2 DEF IInv, WriterKnows, Appendable, TypeOK
<1> QED BY <1>1, <1>2, OMSAssumption

(* A record written by _persist keeps the journal replayable, and extends   *)
(* its replay by the one snapshot it holds.                                 *)
LEMMA WriteKeepsJournal ==
  ASSUME IInv, NEW p \in Process, NEW o \in Order, NEW status, NEW filled, NEW cancel,
         NEW report, Legal(p, o, status, filled, cancel, report),
         Appendable(p, EntryOf(p, o, status, filled, cancel, report)),
         Written(EntryOf(p, o, status, filled, cancel, report))
  PROVE  LET e == EntryOf(p, o, status, filled, cancel, report) IN
         /\ e \in Entry /\ e.snap \in Snapshot(o)
         /\ journal' \in Seq(Entry) /\ Len(journal') = Len(journal) + 1
         /\ \A i \in 1..Len(journal') : journal'[i].snap \in Snapshot(journal'[i].order)
         /\ tail' = "clean"
         /\ JournalLoads' /\ ReportsAppliedOnce' /\ HasLast(journal)' /\ FullIsFilled'
         /\ \A n \in 0..Len(journal) : /\ ReplayTo(journal', n) = ReplayTo(journal, n)
                                       /\ ReportsIn(journal', n) = ReportsIn(journal, n)
         /\ ReplayTo(journal', Len(journal'))
              = [ReplayTo(journal, Len(journal)) EXCEPT ![o] = e.snap]
         /\ ReportsIn(journal', Len(journal'))
              = ReportsIn(journal, Len(journal)) \cup report
<1> DEFINE e == EntryOf(p, o, status, filled, cancel, report)
           n == Len(journal)
<1>1. /\ e.seq = sequence[p] + 1 /\ e.order = o /\ e.report = report
      /\ e.snap = [status |-> status, filled |-> filled, cancel |-> cancel,
                   version |-> orders[p][o].version + 1]
  BY DEF EntryOf
<1>2. up[p] /\ sequence[p] = n /\ tail = "clean"
  BY <1>1, WriterIsCurrent
<1>3. journal \in Seq(Entry) /\ n \in Nat
  BY DEF IInv, TypeOK
<1>4. /\ orders[p] = ReplayTo(journal, n)
      /\ fingerprints[p] = ReportsIn(journal, n)
  BY <1>2 DEF IInv, MemoryIsDurablePrefix
<1>5. orders[p][o] \in Slot(o) /\ orders[p][o] \in AnySnapshot /\ Quantity[o] \in Nat
  BY QuantityAssumption DEF IInv, TypeOK
<1>6. e.snap \in Snapshot(o) /\ e.snap \in AnySnapshot
  BY <1>1, <1>5 DEF Legal, Snapshot, AnySnapshot
<1>7. e \in Entry
  BY <1>2, <1>3, <1>6 DEF EntryOf, Entry, Legal
<1>8. journal' = Append(journal, e) /\ tail' = "clean"
  BY <1>2 DEF Written
<1>9. /\ journal' \in Seq(Entry) /\ Len(journal') = n + 1 /\ journal'[n + 1] = e
      /\ \A i \in 1..n : journal'[i] = journal[i]
  BY <1>3, <1>7, <1>8, AppendKeeps
<1>10. HasLast(journal)
  BY DEF IInv
<1>11. \A m \in 0..n : /\ ReplayTo(journal', m) = ReplayTo(journal, m)
                       /\ ReportsIn(journal', m) = ReportsIn(journal, m)
  BY <1>3, <1>7, <1>8, <1>10, AppendKeepsReplay
<1>12. /\ ReplayTo(journal', n + 1) = [ReplayTo(journal, n) EXCEPT ![o] = e.snap]
       /\ ReportsIn(journal', n + 1) = ReportsIn(journal, n) \cup report
       /\ HasLast(journal')
  BY <1>1, <1>3, <1>7, <1>8, <1>10, AppendReplays
<1>13. \A i \in 1..Len(journal') : journal'[i].snap \in Snapshot(journal'[i].order)
  BY <1>1, <1>3, <1>6, <1>9 DEF IInv, TypeOK
<1>14. JournalLoads'
  <2>1. ASSUME NEW i \in 1..Len(journal')
        PROVE  /\ journal'[i].seq = i
               /\ journal'[i].snap.version = ReplayTo(journal', i - 1)[journal'[i].order].version + 1
    <3>1. CASE i \in 1..n
      BY <1>3, <1>9, <1>11, <3>1 DEF IInv, JournalLoads, Loadable
    <3>2. CASE i = n + 1
      BY <1>1, <1>2, <1>3, <1>4, <1>9, <1>11, <3>2
    <3> QED BY <1>3, <1>9, <3>1, <3>2
  <2> QED BY <1>8, <2>1 DEF JournalLoads, Loadable
<1>15. ReportsAppliedOnce'
  <2>1. \A i \in 1..n : journal[i].report \cap report = {}
    BY <1>4 DEF Legal, ReportsIn
  <2> QED BY <1>1, <1>3, <1>9, <2>1 DEF IInv, ReportsAppliedOnce
<1>16. FullIsFilled'
  BY <1>1, <1>3, <1>9 DEF IInv, FullIsFilled, Legal
<1> QED BY <1>6, <1>7, <1>8, <1>9, <1>11, <1>12, <1>13, <1>14, <1>15, <1>16

(* A failed append: the process is closed, the journal has the record or    *)
(* has not, and memory is what it was.                                      *)
LEMMA FailureKeepsIInv ==
  ASSUME IInv, NEW p \in Process, NEW o \in Order, NEW status, NEW filled, NEW cancel,
         NEW report, Legal(p, o, status, filled, cancel, report),
         AppendFails(p, EntryOf(p, o, status, filled, cancel, report))
  PROVE  IInv'
<1> DEFINE e == EntryOf(p, o, status, filled, cancel, report)
<1>1. /\ open[p] /\ open' = [open EXCEPT ![p] = FALSE]
      /\ UNCHANGED <<up, orders, fingerprints, sequence>>
  BY DEF AppendFails
<1>2. CASE Appendable(p, e) /\ Written(e)
  <2>1. /\ journal' \in Seq(Entry) /\ Len(journal') = Len(journal) + 1
        /\ \A i \in 1..Len(journal') : journal'[i].snap \in Snapshot(journal'[i].order)
        /\ tail' = "clean"
        /\ JournalLoads' /\ ReportsAppliedOnce' /\ HasLast(journal)' /\ FullIsFilled'
        /\ \A n \in 0..Len(journal) : /\ ReplayTo(journal', n) = ReplayTo(journal, n)
                                      /\ ReportsIn(journal', n) = ReportsIn(journal, n)
    BY <1>2, WriteKeepsJournal
  <2>2. TypeOK'
    BY <1>1, <2>1 DEF IInv, TypeOK
  <2>3. MemoryIsDurablePrefix'
    <3>1. Len(journal) \in Nat /\ sequence \in [Process -> Nat]
      BY DEF IInv, TypeOK
    <3> QED BY <1>1, <2>1, <3>1 DEF IInv, MemoryIsDurablePrefix
  <2>4. WriterKnows'
    <3>1. ASSUME JournalKind = "jsonl" PROVE \A q \in Process : ~open'[q]
      BY <1>1, <3>1, OMSAssumption DEF IInv, TypeOK
    <3> QED BY <1>1, <2>1, <3>1 DEF IInv, WriterKnows, TypeOK
  <2> QED BY <2>1, <2>2, <2>3, <2>4 DEF IInv
<1>3. CASE /\ tail' \in IF JournalKind = "jsonl" THEN {tail, "torn"} ELSE {tail}
           /\ UNCHANGED journal
  <2>1. TypeOK' /\ JournalLoads'
    BY <1>1, <1>3 DEF IInv, TypeOK, JournalLoads
  <2>2. MemoryIsDurablePrefix' /\ ReportsAppliedOnce' /\ HasLast(journal)' /\ FullIsFilled'
    BY <1>1, <1>3 DEF IInv, MemoryIsDurablePrefix, ReportsAppliedOnce, FullIsFilled
  <2>3. WriterKnows'
    <3>1. ASSUME JournalKind = "jsonl" PROVE \A q \in Process : ~open'[q]
      BY <1>1, <3>1, OMSAssumption DEF IInv, TypeOK
    <3> QED BY <1>1, <1>3, <3>1 DEF IInv, WriterKnows, TypeOK
  <2> QED BY <2>1, <2>2, <2>3 DEF IInv
<1> QED BY <1>2, <1>3 DEF AppendFails

(* A successful append: memory moves to the end of the longer journal.      *)
LEMMA SuccessKeepsIInv ==
  ASSUME IInv, NEW p \in Process, NEW o \in Order, NEW status, NEW filled, NEW cancel,
         NEW report, Legal(p, o, status, filled, cancel, report),
         AppendSucceeds(p, EntryOf(p, o, status, filled, cancel, report))
  PROVE  IInv'
<1> DEFINE e == EntryOf(p, o, status, filled, cancel, report)
<1>1. /\ e.seq = sequence[p] + 1 /\ e.order = o /\ e.report = report
      /\ Appendable(p, e) /\ Written(e)
      /\ orders' = [orders EXCEPT ![p][o] = e.snap]
      /\ fingerprints' = [fingerprints EXCEPT ![p] = @ \cup report]
      /\ sequence' = [sequence EXCEPT ![p] = sequence[p] + 1]
      /\ UNCHANGED <<up, open>>
  BY DEF AppendSucceeds, EntryOf
<1>2. up[p] /\ sequence[p] = Len(journal) /\ tail = "clean"
  BY <1>1, WriterIsCurrent
<1>3. /\ e \in Entry /\ e.snap \in Snapshot(o)
      /\ journal' \in Seq(Entry) /\ Len(journal') = Len(journal) + 1
      /\ \A i \in 1..Len(journal') : journal'[i].snap \in Snapshot(journal'[i].order)
      /\ tail' = "clean"
      /\ JournalLoads' /\ ReportsAppliedOnce' /\ HasLast(journal)' /\ FullIsFilled'
      /\ \A n \in 0..Len(journal) : /\ ReplayTo(journal', n) = ReplayTo(journal, n)
                                    /\ ReportsIn(journal', n) = ReportsIn(journal, n)
      /\ ReplayTo(journal', Len(journal'))
           = [ReplayTo(journal, Len(journal)) EXCEPT ![o] = e.snap]
      /\ ReportsIn(journal', Len(journal')) = ReportsIn(journal, Len(journal)) \cup report
  BY <1>1, WriteKeepsJournal
<1>4. TypeOK'
  <2>1. e.snap \in AnySnapshot /\ report \in SUBSET Report
    BY <1>1, <1>3 DEF Entry
  <2>2. /\ orders' \in [Process -> [Order -> AnySnapshot]]
        /\ \A q \in Process, r \in Order : orders'[q][r] \in Slot(r)
    BY <1>1, <1>3, <2>1 DEF IInv, TypeOK, Slot
  <2>3. fingerprints' \in [Process -> SUBSET Report] /\ sequence' \in [Process -> Nat]
    BY <1>1, <2>1 DEF IInv, TypeOK
  <2> QED BY <1>1, <1>3, <2>2, <2>3 DEF IInv, TypeOK
<1>5. MemoryIsDurablePrefix'
  <2> SUFFICES ASSUME NEW q \in Process, up'[q]
               PROVE  /\ sequence'[q] <= Len(journal')
                      /\ orders'[q] = ReplayTo(journal', sequence'[q])
                      /\ fingerprints'[q] = ReportsIn(journal', sequence'[q])
    BY DEF MemoryIsDurablePrefix
  <2>1. /\ sequence \in [Process -> Nat] /\ Len(journal) \in Nat
        /\ orders \in [Process -> [Order -> AnySnapshot]]
        /\ fingerprints \in [Process -> SUBSET Report]
    BY DEF IInv, TypeOK
  <2>2. CASE q = p
    <3>1. /\ orders'[p] = [orders[p] EXCEPT ![o] = e.snap]
          /\ fingerprints'[p] = fingerprints[p] \cup report
          /\ sequence'[p] = Len(journal) + 1
      BY <1>1, <1>2, <2>1
    <3>2. /\ orders[p] = ReplayTo(journal, Len(journal))
          /\ fingerprints[p] = ReportsIn(journal, Len(journal))
      BY <1>2 DEF IInv, MemoryIsDurablePrefix
    <3> QED BY <1>3, <2>1, <2>2, <3>1, <3>2
  <2>3. CASE q # p
    <3>1. /\ orders'[q] = orders[q] /\ fingerprints'[q] = fingerprints[q]
          /\ sequence'[q] = sequence[q] /\ up[q]
      BY <1>1, <2>1, <2>3
    <3> QED BY <1>3, <2>1, <3>1 DEF IInv, MemoryIsDurablePrefix
  <2> QED BY <2>2, <2>3
<1>6. WriterKnows'
  <2>1. ASSUME JournalKind = "jsonl" PROVE \A q \in Process : sequence'[q] = Len(journal')
    BY <1>1, <1>2, <1>3, <2>1, OMSAssumption DEF IInv, TypeOK
  <2> QED BY <1>1, <1>3, <2>1 DEF IInv, WriterKnows
<1> QED BY <1>3, <1>4, <1>5, <1>6 DEF IInv

LEMMA PersistKeepsIInv ==
  ASSUME IInv, NEW p \in Process, NEW o \in Order, NEW status, NEW filled, NEW cancel,
         NEW report, Legal(p, o, status, filled, cancel, report),
         Persist(p, o, status, filled, cancel, report)
  PROVE  IInv'
<1>1. \/ AppendSucceeds(p, EntryOf(p, o, status, filled, cancel, report))
      \/ AppendFails(p, EntryOf(p, o, status, filled, cancel, report))
  BY DEF Persist, EntryOf
<1> QED BY <1>1, SuccessKeepsIInv, FailureKeepsIInv
-----------------------------------------------------------------------------
(* In the memory of a running process, too, a full order is FILLED.         *)
LEMMA FullInMemory ==
  ASSUME IInv, NEW p \in Process, up[p], NEW o \in Order
  PROVE  orders[p][o].filled = Quantity[o] => orders[p][o].status = "FILLED"
<1> DEFINE n == sequence[p]
<1>1. n \in 0..Len(journal) /\ Len(journal) \in Nat /\ orders[p] = ReplayTo(journal, n)
  BY DEF IInv, MemoryIsDurablePrefix, TypeOK
<1>2. CASE ~Mentions(journal, n, o)
  BY <1>1, <1>2, QuantityAssumption DEF ReplayTo, NoOrder
<1>3. CASE Mentions(journal, n, o)
  <2>1. PICK i \in 1..n : IsLast(journal, n, o, i)
    BY <1>1, <1>3 DEF IInv, HasLast
  <2>2. LastOf(journal, n, o) = i
    BY <1>1, <2>1, LastIsUnique
  <2>3. orders[p][o] = journal[i].snap /\ journal[i].order = o /\ i \in 1..Len(journal)
    BY <1>1, <1>3, <2>1, <2>2 DEF ReplayTo, IsLast
  <2> QED BY <2>3 DEF IInv, FullIsFilled
<1> QED BY <1>2, <1>3

(* Persist and Legal, for some snapshot of o.                               *)
LegalPersist(p, o) ==
  \E status, filled, cancel, report :
    Legal(p, o, status, filled, cancel, report) /\ Persist(p, o, status, filled, cancel, report)

LEMMA PersistNeedsOpen ==
  ASSUME IInv, NEW p \in Process, NEW o, NEW status, NEW filled, NEW cancel, NEW report,
         Persist(p, o, status, filled, cancel, report)
  PROVE  open[p] /\ up[p]
BY DEF Persist, AppendSucceeds, AppendFails, Appendable, IInv, WriterKnows

(* A move that keeps the fill is legal along every edge of the book.        *)
LEMMA MoveIsLegal ==
  ASSUME IInv, NEW p \in Process, NEW o \in Order, NEW status \in Status,
         NEW cancel \in BOOLEAN, orders[p][o].cancel => cancel,
         Ledger!Edge(orders[p][o].status, status),
         Persist(p, o, status, orders[p][o].filled, cancel, {})
  PROVE  LegalPersist(p, o)
<1>1. orders[p][o] \in Slot(o) /\ Quantity[o] \in Nat \ {0}
  BY QuantityAssumption DEF IInv, TypeOK
<1>2. orders[p][o].filled \in 0..Quantity[o]
  BY <1>1 DEF Slot, Snapshot, NoOrder
<1>3. orders[p][o].filled = Quantity[o] => orders[p][o].status = "FILLED"
  BY PersistNeedsOpen, FullInMemory
<1>4. orders[p][o].filled # Quantity[o]
  BY <1>3 DEF Ledger!Edge, Ledger!Final
<1>5. Legal(p, o, status, orders[p][o].filled, cancel, {})
  BY <1>1, <1>2, <1>4 DEF Legal
<1> QED BY <1>5 DEF LegalPersist

(* A stored status never contradicts a full order.                          *)
LEMMA FillIsLegal ==
  ASSUME IInv, NEW p \in Process, NEW o \in Order, NEW status \in Status,
         NEW filled \in orders[p][o].filled .. Quantity[o],
         NEW report \in SUBSET Report, report \cap fingerprints[p] = {},
         Ledger!Edge(orders[p][o].status, status),
         orders[p][o].status \notin Final \cup {"ABSENT"},
         orders[p][o].status = "CANCELLED" => status = "FILLED",
         Persist(p, o, StatusOf(o, status, filled), filled, orders[p][o].cancel, report)
  PROVE  LegalPersist(p, o)
<1>1. orders[p][o] \in Slot(o) /\ Quantity[o] \in Nat \ {0}
  BY QuantityAssumption DEF IInv, TypeOK
<1>2. orders[p][o].cancel \in BOOLEAN
  BY <1>1 DEF Slot, Snapshot, NoOrder
<1>3. StatusOf(o, status, filled) \in Status
  BY DEF StatusOf, Status
<1>4. filled = Quantity[o] => StatusOf(o, status, filled) = "FILLED"
  BY DEF StatusOf
<1>5. Ledger!Edge(orders[p][o].status, StatusOf(o, status, filled))
  BY DEF StatusOf, Ledger!Edge, Ledger!Final, Final
<1>6. Legal(p, o, StatusOf(o, status, filled), filled, orders[p][o].cancel, report)
  BY <1>2, <1>3, <1>4, <1>5 DEF Legal
<1> QED BY <1>6 DEF LegalPersist

LEMMA OperateIsLegal ==
  ASSUME IInv, NEW p \in Process, NEW o \in Order, Operate(p, o)
  PROVE  LegalPersist(p, o)
<1>1. orders[p][o] \in Slot(o)
  BY DEF IInv, TypeOK
<1>2. /\ orders[p][o].cancel \in BOOLEAN
      /\ orders[p][o].filled \in Nat
      /\ orders[p][o].status \in Status \cup {"ABSENT"}
  <2>1. Quantity[o] \in Nat
    BY QuantityAssumption
  <2>2. CASE orders[p][o] = NoOrder
    BY <2>2 DEF NoOrder
  <2>3. CASE orders[p][o] \in Snapshot(o)
    BY <2>1, <2>3 DEF Snapshot
  <2> QED BY <1>1, <2>2, <2>3 DEF Slot
<1>3. CASE CreateOrder(p, o)
  <2>1. orders[p][o].status = "ABSENT"
    BY <1>3 DEF CreateOrder, NoOrder
  <2>2. Ledger!Edge(orders[p][o].status, "NEW")
    BY <2>1 DEF Ledger!Edge, Ledger!Final
  <2> QED BY <1>2, <1>3, <2>2, MoveIsLegal DEF CreateOrder, Move, Status
<1>4. CASE PrepareSubmit(p, o)
  <2>1. Ledger!Edge(orders[p][o].status, "SUBMITTING")
    BY <1>4 DEF PrepareSubmit, Ledger!Edge, Ledger!Final
  <2> QED BY <1>2, <1>4, <2>1, MoveIsLegal DEF PrepareSubmit, Move, Status
<1>5. CASE PrepareCancel(p, o)
  <2>1. Ledger!Edge(orders[p][o].status, "CANCEL_PENDING")
    BY <1>5 DEF PrepareCancel, Ledger!Edge, Ledger!Final
  <2> QED BY <1>2, <1>5, <2>1, MoveIsLegal DEF PrepareCancel, Status
<1>6. CASE MarkUnknown(p, o)
  <2>1. Ledger!Edge(orders[p][o].status, "UNKNOWN")
    BY <1>6 DEF MarkUnknown, Ledger!Edge, Ledger!Final, Final
  <2> QED BY <1>2, <1>6, <2>1, MoveIsLegal DEF MarkUnknown, Move, Status
<1>7. CASE StartReconciliation(p, o)
  <2>1. Ledger!Edge(orders[p][o].status, "RECONCILING")
    BY <1>7 DEF StartReconciliation, Ledger!Edge, Ledger!Final
  <2> QED BY <1>2, <1>7, <2>1, MoveIsLegal DEF StartReconciliation, Move, Status
<1>8. CASE \E status \in Status, filled \in 0..Quantity[o] :
              ApplyReconciliation(p, o, status, filled)
  <2>1. PICK status \in Status, filled \in 0..Quantity[o] :
               ApplyReconciliation(p, o, status, filled)
    BY <1>8
  <2>2. /\ orders[p][o].status = "RECONCILING"
        /\ status \notin {"UNKNOWN", "RECONCILING", "SUBMITTING"}
        /\ filled \in orders[p][o].filled .. Quantity[o]
        /\ Persist(p, o, StatusOf(o, status, filled), filled, orders[p][o].cancel, {})
    BY <2>1 DEF ApplyReconciliation
  <2>3. Ledger!Edge("RECONCILING", status)
    BY <2>2 DEF Ledger!Edge, Ledger!Final
  <2> QED BY <2>2, <2>3, FillIsLegal DEF Final
<1>9. CASE Expire(p, o)
  <2>1. Ledger!Edge(orders[p][o].status, "EXPIRED")
    BY <1>9 DEF Expire, Ledger!Edge, Ledger!Final
  <2> QED BY <1>2, <1>9, <2>1, MoveIsLegal DEF Expire, Move, Status
<1> QED BY <1>3, <1>4, <1>5, <1>6, <1>7, <1>8, <1>9 DEF Operate

LEMMA ApplyReportIsLegal ==
  ASSUME IInv, NEW p \in Process, NEW r \in Report, ApplyReport(p, r)
  PROVE  r.order \in Order /\ LegalPersist(p, r.order)
<1> DEFINE old == orders[p][r.order]
<1>1. /\ r.order \in Order /\ r.status \in Status
      /\ r.filled \in 0..Quantity[r.order]
  BY DEF Report
<1>2. /\ old \in Slot(r.order) /\ old # NoOrder
      /\ r \notin fingerprints[p] /\ r.filled >= old.filled
      /\ Reportable(old.status, r.status)
      /\ Persist(p, r.order, StatusOf(r.order, r.status, r.filled), r.filled, old.cancel, {r})
  BY <1>1 DEF ApplyReport, IInv, TypeOK
<1>3. old.status \in Status /\ old.filled \in 0..Quantity[r.order] /\ Quantity[r.order] \in Nat
  BY <1>1, <1>2, QuantityAssumption DEF Slot, Snapshot
<1>4. r.filled \in old.filled .. Quantity[r.order]
  BY <1>1, <1>2, <1>3
<1>5. /\ old.status \notin Final \cup {"ABSENT"}
      /\ old.status = "CANCELLED" => r.status = "FILLED"
      /\ r.status \notin {"NEW", "SUBMITTING", "RECONCILING", "EXPIRED"}
  BY <1>2, <1>3 DEF Reportable, Status, Final
<1>6. Ledger!Edge(old.status, r.status)
  BY <1>5 DEF Ledger!Edge, Ledger!Final, Final
<1>7. {r} \in SUBSET Report /\ {r} \cap fingerprints[p] = {}
  BY <1>2
<1>8. LegalPersist(p, r.order)
  BY <1>1, <1>2, <1>4, <1>5, <1>6, <1>7, FillIsLegal
<1> QED BY <1>1, <1>8

LEMMA CrashKeepsIInv ==
  ASSUME IInv, NEW p \in Process, Crash(p)
  PROVE  IInv'
<1>1. /\ up' = [up EXCEPT ![p] = FALSE] /\ open' = [open EXCEPT ![p] = FALSE]
      /\ orders' = [orders EXCEPT ![p] = [o \in Order |-> NoOrder]]
      /\ fingerprints' = [fingerprints EXCEPT ![p] = {}]
      /\ sequence' = [sequence EXCEPT ![p] = 0]
      /\ UNCHANGED <<journal, tail>>
  BY DEF Crash, Forget
<1>2. TypeOK'
  <2>1. \A o \in Order : NoOrder \in AnySnapshot /\ NoOrder \in Slot(o)
    BY DEF NoOrder, AnySnapshot, Slot
  <2> QED BY <1>1, <2>1 DEF IInv, TypeOK
<1>3. MemoryIsDurablePrefix'
  BY <1>1 DEF IInv, TypeOK, MemoryIsDurablePrefix
<1>4. WriterKnows'
  BY <1>1 DEF IInv, TypeOK, WriterKnows
<1> QED BY <1>1, <1>2, <1>3, <1>4
        DEF IInv, JournalLoads, ReportsAppliedOnce, FullIsFilled

LEMMA RestartKeepsIInv ==
  ASSUME IInv, NEW p \in Process, Restart(p)
  PROVE  IInv'
<1> DEFINE n == Len(journal)
<1>1. /\ tail' = "clean"
      /\ up' = [up EXCEPT ![p] = TRUE] /\ open' = [open EXCEPT ![p] = TRUE]
      /\ orders' = [orders EXCEPT ![p] = ReplayTo(journal, n)]
      /\ fingerprints' = [fingerprints EXCEPT ![p] = ReportsIn(journal, n)]
      /\ sequence' = [sequence EXCEPT ![p] = n]
      /\ UNCHANGED journal
  BY DEF Restart
<1>2. journal \in Seq(Entry) /\ n \in Nat
  BY DEF IInv, TypeOK
<1>3. ASSUME NEW o \in Order
      PROVE  ReplayTo(journal, n)[o] \in Slot(o) /\ ReplayTo(journal, n)[o] \in AnySnapshot
  <2>1. CASE ~Mentions(journal, n, o)
    BY <2>1 DEF ReplayTo, NoOrder, Slot, AnySnapshot
  <2>2. CASE Mentions(journal, n, o)
    <3>1. PICK i \in 1..n : IsLast(journal, n, o, i)
      BY <1>2, <2>2 DEF IInv, HasLast
    <3>2. ReplayTo(journal, n)[o] = journal[i].snap /\ journal[i].order = o
      BY <1>2, <2>2, <3>1, LastIsUnique DEF ReplayTo, IsLast
    <3>3. journal[i] \in Entry /\ journal[i].snap \in Snapshot(o)
      BY <1>2, <3>2 DEF IInv, TypeOK
    <3> QED BY <3>2, <3>3 DEF Entry, Slot
  <2> QED BY <2>1, <2>2
<1>4. ReportsIn(journal, n) \in SUBSET Report
  <2>1. \A i \in 1..n : journal[i] \in Entry
    BY <1>2
  <2>2. \A i \in 1..n : journal[i].report \in SUBSET Report
    BY <2>1 DEF Entry
  <2> QED BY <2>2 DEF ReportsIn
<1>5. TypeOK'
  <2>1. ReplayTo(journal, n) \in [Order -> AnySnapshot]
    BY <1>3 DEF ReplayTo
  <2>2. /\ orders' \in [Process -> [Order -> AnySnapshot]]
        /\ \A q \in Process, o \in Order : orders'[q][o] \in Slot(o)
    BY <1>1, <1>3, <2>1 DEF IInv, TypeOK
  <2> QED BY <1>1, <1>2, <1>4, <2>2 DEF IInv, TypeOK
<1>6. MemoryIsDurablePrefix'
  BY <1>1, <1>2 DEF IInv, TypeOK, MemoryIsDurablePrefix
<1>7. WriterKnows'
  <2>1. \A q \in Process : open'[q] => up'[q]
    BY <1>1 DEF IInv, TypeOK, WriterKnows
  <2>2. ASSUME JournalKind = "jsonl" PROVE \A q \in Process : sequence'[q] = Len(journal')
    BY <1>1, <2>2, OMSAssumption DEF IInv, TypeOK
  <2> QED BY <1>1, <2>1, <2>2 DEF WriterKnows
<1>8. JournalLoads' /\ ReportsAppliedOnce' /\ HasLast(journal)' /\ FullIsFilled'
  BY <1>1 DEF IInv, JournalLoads, ReportsAppliedOnce, FullIsFilled
<1> QED BY <1>5, <1>6, <1>7, <1>8 DEF IInv

(* Every operation is a legal append, by a process that is running.         *)
LEMMA StepIsLegal ==
  ASSUME IInv, NEW p \in Process,
         (\E o \in Order : Operate(p, o)) \/ (\E r \in Report : ApplyReport(p, r))
  PROVE  \E o \in Order : LegalPersist(p, o)
BY OperateIsLegal, ApplyReportIsLegal

LEMMA NextKeepsIInv ==
  ASSUME IInv, [Next]_vars
  PROVE  IInv'
<1>1. CASE UNCHANGED vars
  BY <1>1 DEF vars, IInv, TypeOK, JournalLoads, MemoryIsDurablePrefix,
              ReportsAppliedOnce, WriterKnows, FullIsFilled
<1>2. CASE Next
  <2>1. PICK p \in Process :
          \/ (\E o \in Order : Operate(p, o)) \/ (\E r \in Report : ApplyReport(p, r))
          \/ Crash(p)
          \/ Restart(p)
    BY <1>2 DEF Next
  <2>2. CASE (\E o \in Order : Operate(p, o)) \/ (\E r \in Report : ApplyReport(p, r))
    BY <2>2, StepIsLegal, PersistKeepsIInv DEF LegalPersist
  <2> QED BY <2>1, <2>2, CrashKeepsIInv, RestartKeepsIInv
<1> QED BY <1>1, <1>2

THEOREM Invariance == Spec => []IInv
BY InitIInv, NextKeepsIInv, PTL DEF Spec

(* Every variable keeps its type, and no stored fill ever exceeds the       *)
(* requested quantity of its order. *)
THEOREM TypeCorrect == Spec => []TypeOK
<1>1. IInv => TypeOK
  BY DEF IInv
<1> QED BY <1>1, Invariance, PTL

(* However many crashes, failed appends and competing writers there were,   *)
(* the journal replays. *)
THEOREM JournalAlwaysLoads == Spec => []JournalLoads
<1>1. IInv => JournalLoads
  BY DEF IInv
<1> QED BY <1>1, Invariance, PTL

(* The memory of every running process is a prefix of the durable history. *)
THEOREM MemoryNeverAhead == Spec => []MemoryIsDurablePrefix
<1>1. IInv => MemoryIsDurablePrefix
  BY DEF IInv
<1> QED BY <1>1, Invariance, PTL

(* No execution report is recorded twice. *)
THEOREM NoReportTwice == Spec => []ReportsAppliedOnce
<1>1. IInv => ReportsAppliedOnce
  BY DEF IInv
<1> QED BY <1>1, Invariance, PTL
-----------------------------------------------------------------------------
LEMMA LedgerInit == Init => Ledger!Init
BY DEF Init, Ledger!Init, ReplayTo, Mentions, NoOrder, Ledger!NoOrder

(* A record that becomes durable advances one order of the abstract book.   *)
LEMMA WriteAdvancesLedger ==
  ASSUME IInv, NEW p \in Process, NEW o \in Order, NEW status, NEW filled, NEW cancel,
         NEW report, Legal(p, o, status, filled, cancel, report),
         Appendable(p, EntryOf(p, o, status, filled, cancel, report)),
         Written(EntryOf(p, o, status, filled, cancel, report))
  PROVE  Ledger!Next
<1> DEFINE e == EntryOf(p, o, status, filled, cancel, report)
           b == ReplayTo(journal, Len(journal))
<1>1. e.seq = sequence[p] + 1 /\ e.snap.status = status /\ e.snap.filled = filled
      /\ e.snap.cancel = cancel /\ e.snap.version = orders[p][o].version + 1
  BY DEF EntryOf
<1>2. up[p] /\ sequence[p] = Len(journal)
  BY <1>1, WriterIsCurrent
<1>3. orders[p] = b
  BY <1>2 DEF IInv, MemoryIsDurablePrefix
<1>4. e.snap \in Snapshot(o) /\ b' = [b EXCEPT ![o] = e.snap]
  BY WriteKeepsJournal
<1>5. b'[o] = e.snap /\ b' = [b EXCEPT ![o] = b'[o]]
  BY <1>4 DEF ReplayTo
<1>6. orders[p][o] \in Slot(o) /\ Quantity[o] \in Nat
  BY QuantityAssumption DEF IInv, TypeOK
<1>7. Ledger!Advance(o, b[o], e.snap)
  BY <1>1, <1>3, <1>4, <1>6
     DEF Ledger!Advance, Legal, Slot, Snapshot, Ledger!Snapshot, NoOrder, Status, Ledger!Status
<1> QED BY <1>5, <1>7 DEF Ledger!Next

LEMMA LedgerStep ==
  ASSUME IInv, [Next]_vars
  PROVE  [Ledger!Next]_(ReplayTo(journal, Len(journal)))
<1>1. CASE UNCHANGED journal
  BY <1>1
<1>2. CASE Next /\ journal' # journal
  <2>1. PICK p \in Process :
          (\E o \in Order : Operate(p, o)) \/ (\E r \in Report : ApplyReport(p, r))
    BY <1>2 DEF Next, Crash, Restart
  <2>2. PICK o \in Order : LegalPersist(p, o)
    BY <2>1, StepIsLegal
  <2>3. PICK status, filled, cancel, report :
          /\ Legal(p, o, status, filled, cancel, report)
          /\ Persist(p, o, status, filled, cancel, report)
    BY <2>2 DEF LegalPersist
  <2>4. /\ Appendable(p, EntryOf(p, o, status, filled, cancel, report))
        /\ Written(EntryOf(p, o, status, filled, cancel, report))
    BY <1>2, <2>3 DEF Persist, EntryOf, AppendSucceeds, AppendFails
  <2> QED BY <2>3, <2>4, WriteAdvancesLedger
<1> QED BY <1>1, <1>2 DEF vars

(* The replayed journal is an OrderLedger: orders advance one at a time     *)
(* along the lifecycle, whatever crashes and competing writers do. *)
THEOREM ImplementsLedger == Spec => LedgerSpec
<1>1. Ledger!Init /\ [][Ledger!Next]_(ReplayTo(journal, Len(journal))) => LedgerSpec
  BY DEF LedgerSpec, Ledger!Spec
<1> QED BY <1>1, LedgerInit, LedgerStep, Invariance, PTL DEF Spec
-----------------------------------------------------------------------------
(* The pipeline.                                                            *)
Book == ReplayTo(journal, Len(journal))

Sent(status) == status \notin {"ABSENT", "NEW"}

(* The only process has seen every record, unless its journal failed.       *)
SeesAll == \A p \in Process : open[p] => sequence[p] = Len(journal)

(* What memory believes to have been sent, the journal says, too.           *)
Behind ==
  \A p \in Process, o \in Order : Sent(orders[p][o].status) => Sent(Book[o].status)

(* What a step never takes back. *)
Keeps ==
  \A o \in Order :
    /\ Book[o].status = "FILLED" => Book'[o].status = "FILLED"
    /\ Sent(Book[o].status) => Sent(Book'[o].status)

Complete(i) ==
  venue[Legs[i]].filled = Quantity[Legs[i]] /\ Book[Legs[i]].status = "FILLED"

(* The task at work: its process runs, the order it sends is SUBMITTING in  *)
(* memory, and the legs before it are complete.                             *)
TaskIsSound ==
  /\ pc # "idle" => result = "none"
  /\ \A p \in Process :
       /\ pc # "idle" => up[p]
       /\ pc \in {"send", "answer"} => orders[p][Legs[leg]].status = "SUBMITTING"
  /\ pc \in {"submit", "send", "answer", "compensate"} =>
       \A i \in 1..leg-1 : Complete(i)

Untouched == \A o \in Order : venue[o].state = "none" => venue[o].filled = 0

(* The inductive invariant. *)
PInv ==
  /\ IInv /\ SeesAll /\ Behind
  /\ PipelineTypeOK /\ TaskIsSound /\ Untouched
  /\ LegsInOrder /\ ResultIsTrue
-----------------------------------------------------------------------------
LEMMA PlanIsTyped ==
  ASSUME NEW i \in 1..Len(Legs)
  PROVE  Legs[i] \in Order /\ Quantity[Legs[i]] \in Nat \ {0}
BY PipelineAssumption, QuantityAssumption

LEMMA LegAtWork ==
  ASSUME PInv, pc # "idle"
  PROVE  leg \in 1..Len(Legs) /\ Legs[leg] \in Order /\ Len(Legs) \in Nat
<1>1. Len(Legs) \in Nat /\ leg \in 1..Len(Legs)
  BY PipelineAssumption DEF PInv, PipelineTypeOK
<1> QED BY <1>1, PlanIsTyped

LEMMA OpenMemory ==
  ASSUME IInv, SeesAll, NEW p \in Process, open[p]
  PROVE  up[p] /\ orders[p] = Book /\ sequence[p] = Len(journal)
BY DEF IInv, WriterKnows, MemoryIsDurablePrefix, SeesAll, Book

(* Every step is a step of the order management, or leaves it alone.        *)
LEMMA StepIsOMS ==
  ASSUME PInv, [PipelineNext]_pipeline
  PROVE  [Next]_vars
<1>1. CASE UNCHANGED pipeline
  BY <1>1 DEF pipeline
<1>2. ASSUME NEW p \in Process,
             \/ Prepare(p) \/ Refused(p) \/ Send(p) \/ AnswerRaises(p) \/ Compensate(p)
      PROVE  [Next]_vars
  BY <1>2 DEF Prepare, Refused, Send, AnswerRaises, Compensate
<1>3. ASSUME NEW p \in Process, Create(p) \/ Submit(p) \/ AnswerLost(p) PROVE [Next]_vars
  <2>1. Legs[leg] \in Order
    BY <1>3, LegAtWork DEF Create, Submit, AnswerLost
  <2>2. UNCHANGED vars \/ Operate(p, Legs[leg])
    BY <1>3 DEF Create, Submit, AnswerLost, Operate
  <2> QED BY <2>1, <2>2 DEF Next
<1>4. ASSUME NEW p \in Process, Stop(p) \/ Start(p) \/ \E r \in Report : Answer(p, r)
      PROVE  [Next]_vars
  BY <1>4 DEF Stop, Start, Answer, Next
<1>5. ASSUME NEW o \in Order, VenueFills(o) PROVE [Next]_vars
  BY <1>5 DEF VenueFills
<1> QED BY <1>1, <1>2, <1>3, <1>4, <1>5 DEF PipelineNext
-----------------------------------------------------------------------------
(* What an append leaves: memory and book with the new snapshot, or a       *)
(* closed journal with memory as it was.                                    *)
LEMMA PersistSeen ==
  ASSUME IInv, IInv', SeesAll, NEW p \in Process, NEW o \in Order, NEW status, NEW filled,
         NEW cancel, NEW report, Persist(p, o, status, filled, cancel, report)
  PROVE  LET s == EntryOf(p, o, status, filled, cancel, report).snap IN
         /\ SeesAll' /\ orders[p] = Book
         /\ \/ open'[p] /\ orders'[p] = [Book EXCEPT ![o] = s] /\ Book' = orders'[p]
            \/ /\ ~open'[p] /\ orders'[p] = orders[p]
               /\ Book' = Book \/ Book' = [Book EXCEPT ![o] = s]
<1> DEFINE e == EntryOf(p, o, status, filled, cancel, report)
<1>1. open[p] /\ orders[p] = Book /\ sequence[p] = Len(journal)
  BY PersistNeedsOpen, OpenMemory
<1>2. e.order = o /\ e.seq = sequence[p] + 1
  BY DEF EntryOf
<1>3. \A q \in Process : q = p
  BY PipelineAssumption
<1>4. TypeOK /\ TypeOK' /\ HasLast(journal)
  BY DEF IInv
<1>5. AppendSucceeds(p, e) \/ AppendFails(p, e)
  BY DEF Persist, EntryOf
<1>6. CASE AppendSucceeds(p, e)
  <2>1. /\ journal' = Append(journal, e) /\ open' = open
        /\ orders' = [orders EXCEPT ![p][o] = e.snap]
        /\ sequence' = [sequence EXCEPT ![p] = e.seq]
    BY <1>2, <1>6 DEF AppendSucceeds, Written
  <2>2. Len(journal') = Len(journal) + 1
    BY <2>1, <1>4 DEF TypeOK
  <2>3. sequence'[p] = Len(journal')
    BY <1>1, <1>2, <1>4, <2>1, <2>2 DEF TypeOK
  <2>4. SeesAll'
    BY <1>3, <2>3 DEF SeesAll
  <2>5. open'[p]
    BY <1>1, <2>1
  <2>6. Book' = orders'[p]
    BY <2>4, <2>5 DEF IInv, WriterKnows, MemoryIsDurablePrefix, SeesAll, Book
  <2>7. orders'[p] = [orders[p] EXCEPT ![o] = e.snap]
    BY <1>4, <2>1 DEF TypeOK
  <2> QED BY <1>1, <2>4, <2>5, <2>6, <2>7
<1>7. CASE AppendFails(p, e)
  <2>1. /\ open' = [open EXCEPT ![p] = FALSE] /\ orders' = orders
        /\ journal' = journal \/ journal' = Append(journal, e)
    BY <1>7 DEF AppendFails, Written
  <2>2. ~open'[p]
    BY <1>4, <2>1 DEF TypeOK
  <2>3. SeesAll'
    BY <1>3, <2>2 DEF SeesAll
  <2>4. CASE journal' = Append(journal, e)
    <3>1. journal \in Seq(Entry) /\ journal' \in Seq(Entry)
      BY <1>4 DEF TypeOK
    <3>2. Len(journal') = Len(journal) + 1 /\ journal'[Len(journal) + 1] = e
      BY <2>4, <3>1
    <3>3. e \in Entry
      BY <3>1, <3>2
    <3>4. Book' = [Book EXCEPT ![o] = e.snap]
      BY <1>2, <1>4, <2>4, <3>1, <3>2, <3>3, AppendReplays DEF Book
    <3> QED BY <1>1, <2>1, <2>2, <2>3, <3>4
  <2>5. CASE journal' = journal
    BY <1>1, <2>1, <2>2, <2>3, <2>5 DEF Book
  <2> QED BY <2>1, <2>4, <2>5
<1> QED BY <1>5, <1>6, <1>7

(* An append that leaves the beginning of an order's life and its complete  *)
(* fill behind it.                                                          *)
LEMMA PersistKeeps ==
  ASSUME IInv, IInv', SeesAll, Behind, NEW p \in Process, NEW o \in Order, NEW status,
         NEW filled, NEW cancel, NEW report, Persist(p, o, status, filled, cancel, report),
         orders[p][o].status # "FILLED",
         Sent(status) \/ ~Sent(orders[p][o].status)
  PROVE  /\ SeesAll' /\ Behind' /\ Keeps
         /\ open'[p] => orders'[p][o].status = status /\ Book'[o].status = status
         /\ orders'[p][o].status \in {status, orders[p][o].status}
<1> DEFINE s == EntryOf(p, o, status, filled, cancel, report).snap
<1>1. s.status = status
  BY DEF EntryOf
<1>2. /\ SeesAll' /\ orders[p] = Book
      /\ \/ open'[p] /\ orders'[p] = [Book EXCEPT ![o] = s] /\ Book' = orders'[p]
         \/ /\ ~open'[p] /\ orders'[p] = orders[p]
            /\ Book' = Book \/ Book' = [Book EXCEPT ![o] = s]
  BY PersistSeen
<1>3. Book = [i \in Order |-> Book[i]]
  BY DEF Book, ReplayTo
<1>4. Book' = Book \/ Book' = [Book EXCEPT ![o] = s]
  BY <1>2
<1>5. ASSUME NEW i \in Order
      PROVE  /\ Book[i].status = "FILLED" => Book'[i].status = "FILLED"
             /\ Sent(Book[i].status) => Sent(Book'[i].status)
  <2>1. i # o => Book'[i] = Book[i]
    BY <1>3, <1>4
  <2>2. Book'[o] = Book[o] \/ Book'[o] = s
    BY <1>3, <1>4
  <2> QED BY <1>1, <1>2, <2>1, <2>2
<1>6. Keeps
  BY <1>5 DEF Keeps
<1>7. Behind'
  <2> SUFFICES ASSUME NEW q \in Process, NEW i \in Order
               PROVE  Sent(orders'[q][i].status) => Sent(Book'[i].status)
    BY DEF Behind, Sent
  <2>1. q = p
    BY PipelineAssumption
  <2> QED BY <1>2, <1>5, <2>1
<1>8. open'[p] => orders'[p][o] = s /\ Book'[o] = s
  BY <1>2, <1>3
<1>9. orders'[p][o] \in {s, orders[p][o]}
  BY <1>2, <1>3
<1> QED BY <1>1, <1>2, <1>6, <1>7, <1>8, <1>9

(* A stop and a start, or nothing at all. *)
LEMMA QuietKeeps ==
  ASSUME IInv, SeesAll, Behind, NEW p \in Process, UNCHANGED vars \/ Crash(p) \/ Restart(p)
  PROVE  SeesAll' /\ Behind' /\ Keeps /\ Book' = Book
<1>1. journal' = journal /\ Book' = Book
  BY DEF vars, Crash, Restart, Book
<1>2. Keeps
  BY <1>1 DEF Keeps
<1>3. \A q \in Process : q = p
  BY PipelineAssumption
<1>4. TypeOK
  BY DEF IInv
<1>5. CASE UNCHANGED vars
  BY <1>1, <1>2, <1>5 DEF vars, SeesAll, Behind
<1>6. CASE Crash(p)
  <2>1. ~open'[p] /\ \A o \in Order : orders'[p][o] = NoOrder
    BY <1>4, <1>6 DEF Crash, Forget, TypeOK
  <2>2. ~Sent(NoOrder.status)
    BY DEF Sent, NoOrder
  <2> QED BY <1>1, <1>2, <1>3, <2>1, <2>2 DEF SeesAll, Behind
<1>7. CASE Restart(p)
  <2>1. sequence'[p] = Len(journal) /\ orders'[p] = Book
    BY <1>4, <1>7 DEF Restart, TypeOK, Book
  <2> QED BY <1>1, <1>2, <1>3, <2>1 DEF SeesAll, Behind
<1> QED BY <1>5, <1>6, <1>7
-----------------------------------------------------------------------------
(* What the order management part of a step gives.                          *)
Onward == IInv' /\ SeesAll' /\ Behind' /\ Keeps

(* Fills stay, and orders the venues know stay known.                       *)
VenueKeeps ==
  \A o \in Order : /\ venue[o].filled = Quantity[o] => venue'[o].filled = Quantity[o]
                   /\ venue[o].state # "none" => venue'[o].state # "none"

LEMMA CompleteStays ==
  ASSUME Keeps, VenueKeeps, NEW i \in 1..Len(Legs), Complete(i)
  PROVE  Complete(i)'
BY PlanIsTyped DEF Keeps, VenueKeeps, Complete

(* A leg comes to a venue in its turn.                                      *)
LEMMA OrderStays ==
  ASSUME PInv, Keeps, VenueKeeps,
         \A k \in 1..Len(Legs) :
           venue'[Legs[k]].state # "none" =>
             \/ venue[Legs[k]].state # "none"
             \/ Sent(Book'[Legs[k]].status) /\ \A i \in 1..k-1 : Complete(i)'
  PROVE  LegsInOrder'
<1> SUFFICES ASSUME NEW k \in 1..Len(Legs), venue'[Legs[k]].state # "none"
             PROVE  /\ Sent(Book'[Legs[k]].status)
                    /\ \A i \in 1..k-1 : Complete(i)'
  BY DEF LegsInOrder, Durable, Book, Sent, Complete
<1>1. CASE venue[Legs[k]].state # "none"
  <2>1. Sent(Book[Legs[k]].status) /\ \A i \in 1..k-1 : Complete(i)
    BY <1>1 DEF PInv, LegsInOrder, Durable, Book, Sent, Complete
  <2>2. \A i \in 1..k-1 : i \in 1..Len(Legs)
    BY PipelineAssumption
  <2> QED BY <2>1, <2>2, CompleteStays, PlanIsTyped DEF Keeps
<1>2. CASE ~(venue[Legs[k]].state # "none")
  BY <1>2
<1> QED BY <1>1, <1>2

(* What has been taken back was complete, and stays so.                     *)
LEMMA UnwoundStays ==
  ASSUME PInv, Keeps, VenueKeeps, unwound' = unwound
  PROVE  \A o \in unwound' : venue'[o].filled = Quantity[o] /\ Durable(o)'.status = "FILLED"
BY DEF PInv, PipelineTypeOK, ResultIsTrue, Keeps, VenueKeeps, Durable, Book

LEMMA PlanKept ==
  ASSUME PInv, UNCHANGED plan, Keeps
  PROVE  /\ VenueKeeps /\ LegsInOrder' /\ Untouched'
         /\ \A o \in unwound' : venue'[o].filled = Quantity[o] /\ Durable(o)'.status = "FILLED"
<1>1. venue' = venue /\ unwound' = unwound /\ wired' = wired
  BY DEF plan
<1>2. VenueKeeps
  BY <1>1 DEF VenueKeeps
<1>3. LegsInOrder'
  BY <1>1, <1>2, OrderStays
<1> QED BY <1>1, <1>2, <1>3, UnwoundStays DEF PInv, Untouched

(* execute returns, and nothing is said to be complete.                     *)
LEMMA ReturnKeeps ==
  ASSUME PInv, Onward, UNCHANGED plan,
         NEW status \in Results \ {"COMPLETED", "COMPENSATED"}, Return(status)
  PROVE  PInv'
<1>1. pc' = "idle" /\ result' = status /\ leg' = leg
  BY DEF Return
<1>2. PipelineTypeOK'
  BY <1>1 DEF PInv, PipelineTypeOK, Onward, IInv, plan
<1>3. TaskIsSound'
  BY <1>1 DEF TaskIsSound
<1>4. ResultIsTrue'
  BY <1>1, PlanKept DEF Onward, ResultIsTrue
<1> QED BY <1>2, <1>3, <1>4, PlanKept DEF PInv, Onward

(* execute goes on.                                                         *)
LEMMA GoOnKeeps ==
  ASSUME PInv, Onward, UNCHANGED plan, NEW p \in Process, up'[p],
         pc' \in {"create", "submit", "send", "answer", "compensate"},
         leg' \in 1..Len(Legs), result' = "none",
         pc' \in {"send", "answer"} => orders'[p][Legs[leg']].status = "SUBMITTING",
         pc' # "create" => \A i \in 1..leg'-1 : Complete(i)'
  PROVE  PInv'
<1>1. \A q \in Process : q = p
  BY PipelineAssumption
<1>2. Len(Legs) \in Nat
  BY PipelineAssumption
<1>3. PipelineTypeOK'
  BY <1>2 DEF PInv, PipelineTypeOK, Onward, IInv, plan, Results
<1>4. TaskIsSound'
  BY <1>1 DEF TaskIsSound
<1>5. ResultIsTrue'
  BY PlanKept DEF Onward, ResultIsTrue
<1> QED BY <1>3, <1>4, <1>5, PlanKept DEF PInv, Onward

(* An append leaves its process running, and open only if it succeeded.     *)
LEMMA PersistLeaves ==
  ASSUME IInv, NEW p \in Process, NEW o \in Order, NEW status, NEW filled, NEW cancel,
         NEW report, Persist(p, o, status, filled, cancel, report)
  PROVE  up' = up /\ up[p] /\ open[p]
BY PersistNeedsOpen DEF Persist, AppendSucceeds, AppendFails

LEMMA QuietOnward ==
  ASSUME PInv, [PipelineNext]_pipeline, NEW p \in Process,
         UNCHANGED vars \/ Crash(p) \/ Restart(p)
  PROVE  Onward /\ Book' = Book
<1>1. IInv'
  BY StepIsOMS, NextKeepsIInv DEF PInv
<1> QED BY <1>1, QuietKeeps DEF PInv, Onward

LEMMA PersistOnward ==
  ASSUME PInv, [PipelineNext]_pipeline, NEW p \in Process, NEW o \in Order, NEW status,
         NEW filled, NEW cancel, NEW report, Persist(p, o, status, filled, cancel, report),
         orders[p][o].status # "FILLED",
         Sent(status) \/ ~Sent(orders[p][o].status)
  PROVE  /\ Onward /\ up'[p]
         /\ open'[p] => orders'[p][o].status = status /\ Book'[o].status = status
<1>1. IInv'
  BY StepIsOMS, NextKeepsIInv DEF PInv
<1> QED BY <1>1, PersistKeeps, PersistLeaves DEF PInv, Onward
-----------------------------------------------------------------------------
LEMMA PrepareKeeps ==
  ASSUME PInv, NEW p \in Process, Prepare(p), [PipelineNext]_pipeline
  PROVE  PInv'
<1>1. Onward /\ UNCHANGED plan /\ up'[p]
  BY QuietOnward DEF Prepare, vars
<1>2. CASE Return("RAISED") \/ Return("RISK_REJECTED")
  BY <1>1, <1>2, ReturnKeeps DEF Results
<1>3. CASE pc' = "create" /\ leg' = 1 /\ result' = "none"
  <2>1. 1 \in 1..Len(Legs)
    BY PipelineAssumption
  <2> QED BY <1>1, <1>3, <2>1, GoOnKeeps
<1> QED BY <1>2, <1>3 DEF Prepare

LEMMA CreateKeeps ==
  ASSUME PInv, NEW p \in Process, Create(p), [PipelineNext]_pipeline
  PROVE  PInv'
<1>1. /\ pc = "create" /\ leg \in 1..Len(Legs) /\ Legs[leg] \in Order /\ Len(Legs) \in Nat
      /\ UNCHANGED plan /\ result = "none" /\ up[p]
  BY LegAtWork DEF Create, PInv, TaskIsSound
<1> DEFINE next == IF leg < Len(Legs) THEN [pc |-> "create", leg |-> leg + 1]
                   ELSE [pc |-> "submit", leg |-> 1]
<1>2. /\ next.pc \in {"create", "submit"} /\ next.leg \in 1..Len(Legs)
      /\ next.pc = "submit" => next.leg = 1
  BY <1>1
<1>3. CASE UNCHANGED vars /\ pc' = next.pc /\ leg' = next.leg /\ UNCHANGED result
  <2>1. Onward /\ up'[p]
    BY <1>1, <1>3, QuietOnward DEF vars
  <2> QED BY <1>1, <1>2, <1>3, <2>1, GoOnKeeps
<1>4. CASE CreateOrder(p, Legs[leg]) /\ GoTo(p, next.pc, next.leg)
  <2>1. /\ orders[p][Legs[leg]].status = "ABSENT"
        /\ Persist(p, Legs[leg], "NEW", orders[p][Legs[leg]].filled,
                   orders[p][Legs[leg]].cancel, {})
    <3>1. orders[p][Legs[leg]] = NoOrder /\ Move(p, Legs[leg], "NEW")
      BY <1>4 DEF CreateOrder
    <3>2. NoOrder.status = "ABSENT"
      BY DEF NoOrder
    <3> QED BY <3>1, <3>2 DEF Move
  <2>2. Onward /\ up'[p]
    BY <1>1, <2>1, PersistOnward DEF Sent
  <2>3. CASE open'[p]
    BY <1>1, <1>2, <1>4, <2>2, <2>3, GoOnKeeps DEF GoTo
  <2>4. CASE ~open'[p]
    BY <1>1, <1>4, <2>2, <2>4, ReturnKeeps DEF GoTo, Results
  <2> QED BY <2>3, <2>4
<1> QED BY <1>3, <1>4 DEF Create

LEMMA SubmitKeeps ==
  ASSUME PInv, NEW p \in Process, Submit(p), [PipelineNext]_pipeline
  PROVE  PInv'
<1> DEFINE o == Legs[leg]
<1>1. /\ pc = "submit" /\ leg \in 1..Len(Legs) /\ o \in Order /\ Len(Legs) \in Nat
      /\ UNCHANGED plan /\ result = "none" /\ up[p]
      /\ \A i \in 1..leg-1 : i \in 1..Len(Legs) /\ Complete(i)
  BY LegAtWork DEF Submit, PInv, TaskIsSound
<1>2. ASSUME Onward PROVE \A i \in 1..leg-1 : Complete(i)'
  BY <1>1, <1>2, CompleteStays, PlanKept DEF Onward
<1>3. CASE UNCHANGED vars /\ Return("RAISED")
  BY <1>1, <1>3, QuietOnward, ReturnKeeps DEF Results
<1>4. CASE orders[p][o].status = "SUBMITTING" /\ pc' = "send" /\ UNCHANGED <<vars, leg, result>>
  <2>1. Onward /\ up'[p] /\ orders'[p] = orders[p]
    BY <1>1, <1>4, QuietOnward DEF vars
  <2> QED BY <1>1, <1>2, <1>4, <2>1, GoOnKeeps
<1>5. CASE PrepareSubmit(p, o) /\ GoTo(p, "send", leg)
  <2>1. /\ orders[p][o].status = "NEW"
        /\ Persist(p, o, "SUBMITTING", orders[p][o].filled, orders[p][o].cancel, {})
    BY <1>5 DEF PrepareSubmit, Move
  <2>2. Onward /\ up'[p] /\ (open'[p] => orders'[p][o].status = "SUBMITTING")
    BY <1>1, <2>1, PersistOnward DEF Sent
  <2>3. CASE open'[p]
    BY <1>1, <1>2, <1>5, <2>2, <2>3, GoOnKeeps DEF GoTo
  <2>4. CASE ~open'[p]
    BY <1>1, <1>5, <2>2, <2>4, ReturnKeeps DEF GoTo, Results
  <2> QED BY <2>3, <2>4
<1> QED BY <1>3, <1>4, <1>5 DEF Submit

LEMMA GiveUpKeeps ==
  ASSUME PInv, NEW p \in Process, Refused(p) \/ AnswerRaises(p), [PipelineNext]_pipeline
  PROVE  PInv'
<1>1. UNCHANGED vars /\ UNCHANGED plan /\ Return("RAISED")
  BY DEF Refused, AnswerRaises
<1> QED BY <1>1, QuietOnward, ReturnKeeps DEF Results

LEMMA AnswerLostKeeps ==
  ASSUME PInv, NEW p \in Process, AnswerLost(p), [PipelineNext]_pipeline
  PROVE  PInv'
<1> DEFINE o == Legs[leg]
<1>1. /\ o \in Order /\ UNCHANGED plan /\ orders[p][o].status = "SUBMITTING"
      /\ Persist(p, o, "UNKNOWN", orders[p][o].filled, orders[p][o].cancel, {})
      /\ Return(IF open'[p] THEN "AMBIGUOUS" ELSE "RAISED")
  BY LegAtWork DEF AnswerLost, MarkUnknown, Move, PInv, TaskIsSound
<1>2. Onward
  BY <1>1, PersistOnward DEF Sent
<1>3. (IF open'[p] THEN "AMBIGUOUS" ELSE "RAISED") \in Results \ {"COMPLETED", "COMPENSATED"}
  BY DEF Results
<1> QED BY <1>1, <1>2, <1>3, ReturnKeeps

(* A report is applied; if it was a fill, the leg is complete. *)
LEMMA AnswerKeeps ==
  ASSUME PInv, NEW p \in Process, NEW r \in Report, Answer(p, r), [PipelineNext]_pipeline
  PROVE  PInv'
<1> DEFINE o == Legs[leg]
           status == StatusOf(o, r.status, r.filled)
<1>1. /\ pc = "answer" /\ leg \in 1..Len(Legs) /\ o \in Order /\ Len(Legs) \in Nat
      /\ UNCHANGED plan /\ result = "none" /\ up[p] /\ r.order = o
      /\ orders[p][o].status = "SUBMITTING"
      /\ \A i \in 1..leg-1 : i \in 1..Len(Legs) /\ Complete(i)
  BY LegAtWork DEF Answer, PInv, TaskIsSound
<1>2. /\ Reportable("SUBMITTING", r.status)
      /\ Persist(p, o, status, r.filled, orders[p][o].cancel, {r})
  BY <1>1 DEF Answer, ApplyReport
<1>3. Sent(status)
  BY <1>2 DEF Sent, StatusOf, Reportable
<1>4. /\ Onward /\ up'[p]
      /\ open'[p] => orders'[p][o].status = status /\ Book'[o].status = status
  BY <1>1, <1>2, <1>3, PersistOnward
<1>5. \A i \in 1..leg-1 : Complete(i)'
  BY <1>1, <1>4, CompleteStays, PlanKept DEF Onward
<1>6. status = "FILLED" => venue[o].filled = Quantity[o]
  BY <1>1 DEF Answer, Honest, StatusOf
<1>7. CASE ~open'[p]
  BY <1>1, <1>4, <1>7, ReturnKeeps DEF Answer, Results
<1>8. CASE open'[p] /\ status # "FILLED"
  <2>1. \/ Return("STOPPED") \/ Return("MANUAL_INTERVENTION")
        \/ pc' = "compensate" /\ leg' = leg /\ UNCHANGED result
    BY <1>1, <1>4, <1>8 DEF Answer, GoesOn, GoTo
  <2>2. CASE Return("STOPPED") \/ Return("MANUAL_INTERVENTION")
    BY <1>1, <1>4, <2>2, ReturnKeeps DEF Results
  <2> QED BY <1>1, <1>4, <1>5, <2>1, <2>2, GoOnKeeps
<1>9. CASE open'[p] /\ status = "FILLED"
  <2>1. PICK n \in 1..Len(Legs) : n = leg
    BY <1>1
  <2>2. Complete(n)'
    BY <1>1, <1>4, <1>6, <1>9, <2>1 DEF Complete, plan
  <2>3. \A i \in 1..n : Complete(i)'
    BY <1>1, <1>5, <2>1, <2>2
  <2>4. CASE leg < Len(Legs) /\ pc' = "submit" /\ leg' = leg + 1 /\ UNCHANGED result
    <3>1. leg' \in 1..Len(Legs) /\ leg' - 1 = n
      BY <1>1, <2>1, <2>4
    <3> QED BY <1>1, <1>4, <2>3, <2>4, <3>1, GoOnKeeps
  <2>5. CASE leg = Len(Legs) /\ Return("COMPLETED")
    <3>1. pc' = "idle" /\ result' = "COMPLETED" /\ leg' = leg
      BY <2>5 DEF Return
    <3>2. PipelineTypeOK'
      BY <1>1, <1>4, <3>1 DEF PInv, PipelineTypeOK, Onward, IInv, plan, Results
    <3>3. TaskIsSound'
      BY <3>1 DEF TaskIsSound
    <3>4. ResultIsTrue'
      BY <1>1, <1>4, <2>1, <2>3, <2>5, <3>1, PlanKept DEF Onward, ResultIsTrue, Complete
    <3> QED BY <1>1, <1>4, <3>2, <3>3, <3>4, PlanKept DEF PInv, Onward
  <2> QED BY <1>1, <1>4, <1>9, <2>4, <2>5 DEF Answer, GoesOn, GoTo
<1> QED BY <1>7, <1>8, <1>9
-----------------------------------------------------------------------------
(* The venue may take the order that is sent. *)
LEMMA SendKeeps ==
  ASSUME PInv, NEW p \in Process, Send(p), [PipelineNext]_pipeline
  PROVE  PInv'
<1> DEFINE o == Legs[leg]
<1>1. /\ pc = "send" /\ pc' = "answer" /\ leg \in 1..Len(Legs) /\ o \in Order
      /\ Len(Legs) \in Nat /\ result = "none" /\ up[p]
      /\ UNCHANGED <<vars, wired, unwound, leg, result>>
      /\ orders[p][o].status = "SUBMITTING"
      /\ \A i \in 1..leg-1 : i \in 1..Len(Legs) /\ Complete(i)
  BY LegAtWork DEF Send, PInv, TaskIsSound
<1>2. Onward /\ Book' = Book /\ orders' = orders /\ up' = up
  BY <1>1, QuietOnward DEF vars
<1>3. Quantity[o] \in Nat \ {0}
  BY <1>1, PlanIsTyped
<1>4. \/ venue' = venue
      \/ /\ venue[o].state = "none"
         /\ \E v \in [state: {"live", "done"}, filled: 0..Quantity[o]] :
              venue' = [venue EXCEPT ![o] = v]
  <2>1. [state |-> "done", filled |-> 0] \in [state: {"live", "done"}, filled: 0..Quantity[o]]
    BY <1>3
  <2> QED BY <2>1 DEF Send
<1>5. VenueKeeps /\ Untouched' /\ venue' \in [Order -> [state: {"none", "live", "done"}, filled: Nat]]
      /\ \A i \in Order : venue'[i].filled <= Quantity[i] /\ (i # o => venue'[i] = venue[i])
  <2>1. CASE venue' = venue
    BY <2>1 DEF VenueKeeps, Untouched, PInv, PipelineTypeOK
  <2>2. CASE venue[o].state = "none" /\ \E v \in [state: {"live", "done"}, filled: 0..Quantity[o]] :
               venue' = [venue EXCEPT ![o] = v]
    <3>1. PICK v \in [state: {"live", "done"}, filled: 0..Quantity[o]] :
            venue' = [venue EXCEPT ![o] = v]
      BY <2>2
    <3>2. /\ venue'[o] = v /\ \A i \in Order : i # o => venue'[i] = venue[i]
          /\ v \in [state: {"none", "live", "done"}, filled: Nat]
          /\ v.filled <= Quantity[o] /\ v.state # "none"
      BY <1>1, <1>3, <3>1 DEF PInv, PipelineTypeOK
    <3>3. venue[o].filled = 0
      BY <1>1, <2>2 DEF PInv, Untouched
    <3> QED BY <1>1, <1>3, <3>1, <3>2, <3>3 DEF VenueKeeps, Untouched, PInv, PipelineTypeOK
  <2> QED BY <1>4, <2>1, <2>2
<1>6. \A i \in 1..leg-1 : Complete(i)'
  BY <1>1, <1>2, <1>5, CompleteStays DEF Onward
<1>7. Sent(Book'[o].status)
  <2>1. Sent(orders[p][o].status)
    BY <1>1 DEF Sent
  <2> QED BY <1>1, <1>2, <2>1 DEF PInv, Behind
<1>8. LegsInOrder'
  <2>1. ASSUME NEW k \in 1..Len(Legs), venue'[Legs[k]].state # "none",
               venue[Legs[k]].state = "none"
        PROVE  Sent(Book'[Legs[k]].status) /\ \A i \in 1..k-1 : Complete(i)'
    <3>1. Legs[k] = o
      BY <1>5, <2>1, PlanIsTyped
    <3>2. k = leg
      BY <1>1, <3>1, PipelineAssumption
    <3> QED BY <1>6, <1>7, <3>1, <3>2
  <2> QED BY <1>2, <1>5, <2>1, OrderStays DEF Onward
<1>9. PipelineTypeOK'
  BY <1>1, <1>2, <1>5 DEF PInv, PipelineTypeOK, Onward, IInv
<1>10. TaskIsSound'
  <2>1. \A q \in Process : q = p
    BY PipelineAssumption
  <2> QED BY <1>1, <1>2, <1>6, <2>1 DEF TaskIsSound
<1>11. ResultIsTrue'
  BY <1>1, <1>2, <1>5, UnwoundStays DEF ResultIsTrue, Onward
<1> QED BY <1>2, <1>5, <1>8, <1>9, <1>10, <1>11 DEF PInv, Onward

(* Only complete legs are taken back. *)
LEMMA CompensateKeeps ==
  ASSUME PInv, NEW p \in Process, Compensate(p), [PipelineNext]_pipeline
  PROVE  PInv'
<1> DEFINE filled == {Legs[k] : k \in 1..leg-1}
<1>1. /\ pc = "compensate" /\ leg \in 1..Len(Legs) /\ Len(Legs) \in Nat
      /\ UNCHANGED <<vars, wired, venue>>
      /\ \A i \in 1..leg-1 : i \in 1..Len(Legs) /\ Complete(i)
      /\ pc' = "idle" /\ leg' = leg
  BY LegAtWork DEF Compensate, PInv, TaskIsSound, Return
<1>2. Onward /\ Book' = Book
  BY <1>1, QuietOnward
<1>3. /\ unwound' \subseteq unwound \cup filled
      /\ result' \in {"COMPENSATED", "MANUAL_INTERVENTION"}
      /\ result' = "COMPENSATED" => filled \subseteq unwound'
  BY DEF Compensate, Return
<1>4. VenueKeeps /\ Untouched'
  BY <1>1 DEF VenueKeeps, PInv, Untouched
<1>5. LegsInOrder'
  BY <1>1, <1>2, <1>4, OrderStays DEF Onward
<1>6. filled \subseteq Order
  BY <1>1, PlanIsTyped
<1>7. PipelineTypeOK'
  BY <1>1, <1>2, <1>3, <1>6 DEF PInv, PipelineTypeOK, Onward, IInv, Results
<1>8. TaskIsSound'
  BY <1>1 DEF TaskIsSound
<1>9. ResultIsTrue'
  <2>1. \A o \in unwound : venue[o].filled = Quantity[o] /\ Book[o].status = "FILLED"
    BY DEF PInv, ResultIsTrue, Durable, Book
  <2>2. \A o \in filled : venue[o].filled = Quantity[o] /\ Book[o].status = "FILLED"
    BY <1>1 DEF Complete
  <2>3. \A o \in unwound' : venue'[o].filled = Quantity[o] /\ Durable(o)'.status = "FILLED"
    BY <1>1, <1>2, <1>3, <2>1, <2>2 DEF Durable, Book
  <2>4. result' = "COMPENSATED" => \A k \in 1..leg'-1 : Legs[k] \in unwound'
    BY <1>1, <1>3
  <2> QED BY <1>3, <2>3, <2>4 DEF ResultIsTrue
<1> QED BY <1>2, <1>4, <1>5, <1>7, <1>8, <1>9 DEF PInv, Onward

(* An order fills at its venue, or is closed there. *)
LEMMA VenueFillsKeeps ==
  ASSUME PInv, NEW o \in Order, VenueFills(o), [PipelineNext]_pipeline
  PROVE  PInv'
<1>1. /\ venue[o].state = "live" /\ UNCHANGED <<vars, wired, unwound, task>>
      /\ venue[o].filled \in Nat /\ venue[o].filled <= Quantity[o] /\ Quantity[o] \in Nat
  BY QuantityAssumption DEF VenueFills, PInv, PipelineTypeOK
<1>2. /\ IInv' /\ SeesAll' /\ Behind' /\ Keeps /\ Book' = Book /\ orders' = orders /\ up' = up
  BY <1>1, StepIsOMS, NextKeepsIInv
     DEF PInv, vars, SeesAll, Behind, Keeps, Book
<1>3. PICK v \in [state: {"live", "done"}, filled: Nat] :
        /\ venue' = [venue EXCEPT ![o] = v]
        /\ v.filled <= Quantity[o]
        /\ venue[o].filled = Quantity[o] => v.filled = Quantity[o]
  <2>1. CASE /\ venue[o].filled < Quantity[o]
             /\ venue' = [venue EXCEPT ![o] =
                  [state |-> IF @.filled + 1 = Quantity[o] THEN "done" ELSE "live",
                   filled |-> @.filled + 1]]
    <3> DEFINE v == [state |-> IF venue[o].filled + 1 = Quantity[o] THEN "done" ELSE "live",
                     filled |-> venue[o].filled + 1]
    <3>1. v \in [state: {"live", "done"}, filled: Nat] /\ v.filled <= Quantity[o]
      BY <1>1, <2>1
    <3>2. venue' = [venue EXCEPT ![o] = v]
      BY <2>1
    <3>3. venue[o].filled # Quantity[o]
      BY <1>1, <2>1
    <3> HIDE DEF v
    <3> QED BY <3>1, <3>2, <3>3
  <2>2. CASE venue' = [venue EXCEPT ![o].state = "done"]
    <3> DEFINE v == [venue[o] EXCEPT !.state = "done"]
    <3>1. venue[o] \in [state: {"none", "live", "done"}, filled: Nat]
      BY DEF PInv, PipelineTypeOK
    <3>2. v \in [state: {"live", "done"}, filled: Nat] /\ v.filled = venue[o].filled
      BY <3>1
    <3>3. venue' = [venue EXCEPT ![o] = v]
      BY <2>2
    <3> QED BY <1>1, <3>2, <3>3
  <2> QED BY <2>1, <2>2 DEF VenueFills
<1>4. /\ venue'[o] = v /\ \A i \in Order : i # o => venue'[i] = venue[i]
      /\ venue' \in [Order -> [state: {"none", "live", "done"}, filled: Nat]]
      /\ \A i \in Order : venue'[i].filled <= Quantity[i]
  BY <1>3 DEF PInv, PipelineTypeOK
<1>5. VenueKeeps /\ Untouched'
  BY <1>1, <1>3, <1>4 DEF VenueKeeps, PInv, Untouched
<1>6. LegsInOrder'
  <2>1. \A k \in 1..Len(Legs) : venue'[Legs[k]].state # "none" => venue[Legs[k]].state # "none"
    BY <1>1, <1>4, PlanIsTyped
  <2> QED BY <1>2, <1>5, <2>1, OrderStays
<1>7. PipelineTypeOK'
  BY <1>1, <1>2, <1>4 DEF PInv, PipelineTypeOK, IInv, task
<1>8. \A i \in 1..Len(Legs) : Complete(i) => Complete(i)'
  BY <1>2, <1>5, CompleteStays
<1>9. TaskIsSound'
  <2>1. pc \in {"submit", "send", "answer", "compensate"} => \A i \in 1..leg-1 : i \in 1..Len(Legs)
    BY LegAtWork
  <2> QED BY <1>1, <1>2, <1>8, <2>1 DEF PInv, TaskIsSound, task
<1>10. ResultIsTrue'
  <2>1. \A i \in Order : venue[i].filled = Quantity[i] => venue'[i].filled = Quantity[i]
    BY <1>5 DEF VenueKeeps
  <2>2. \A k \in 1..Len(Legs) : Legs[k] \in Order
    BY PlanIsTyped
  <2> QED BY <1>1, <1>2, <1>5, <2>1, <2>2, UnwoundStays DEF PInv, ResultIsTrue, task
<1> QED BY <1>2, <1>5, <1>6, <1>7, <1>9, <1>10 DEF PInv

LEMMA StopStartKeep ==
  ASSUME PInv, NEW p \in Process, Stop(p) \/ Start(p), [PipelineNext]_pipeline
  PROVE  PInv'
<1>1. Onward /\ UNCHANGED plan
  BY QuietOnward DEF Stop, Start
<1>2. CASE Stop(p)
  <2>1. pc' = "idle" /\ leg' = 0 /\ result' = "none" /\ 0 \in 0..Len(Legs)
    BY <1>2, PipelineAssumption DEF Stop
  <2>2. PipelineTypeOK'
    BY <1>1, <2>1 DEF PInv, PipelineTypeOK, Onward, IInv, plan, Results
  <2>3. TaskIsSound'
    BY <2>1 DEF TaskIsSound
  <2>4. ResultIsTrue'
    BY <1>1, <2>1, PlanKept DEF Onward, ResultIsTrue
  <2> QED BY <1>1, <2>2, <2>3, <2>4, PlanKept DEF PInv, Onward
<1>3. CASE Start(p)
  <2>1. pc = "idle" /\ UNCHANGED task
    BY <1>3 DEF Start, Restart, PInv, TaskIsSound
  <2>2. PipelineTypeOK'
    BY <1>1, <2>1 DEF PInv, PipelineTypeOK, Onward, IInv, plan, task
  <2>3. TaskIsSound'
    BY <2>1 DEF TaskIsSound, task
  <2>4. ResultIsTrue'
    BY <1>1, <2>1, PlanKept DEF PInv, Onward, ResultIsTrue, plan, task
  <2> QED BY <1>1, <2>2, <2>3, <2>4, PlanKept DEF PInv, Onward
<1> QED BY <1>2, <1>3

LEMMA StutterKeeps ==
  ASSUME PInv, UNCHANGED pipeline
  PROVE  PInv'
<1>1. /\ vars' = vars /\ wired' = wired /\ venue' = venue /\ unwound' = unwound
      /\ pc' = pc /\ leg' = leg /\ result' = result
  BY DEF pipeline, plan, task
<1>2. IInv'
  BY <1>1, NextKeepsIInv DEF PInv
<1>3. journal' = journal /\ orders' = orders /\ up' = up /\ open' = open /\ sequence' = sequence
  BY <1>1 DEF vars
<1> QED BY <1>1, <1>2, <1>3
        DEF PInv, SeesAll, Behind, PipelineTypeOK, TaskIsSound, Untouched, LegsInOrder,
            ResultIsTrue, Complete, Durable, Book, IInv

LEMMA PipelineKeeps ==
  ASSUME PInv, [PipelineNext]_pipeline
  PROVE  PInv'
<1>1. CASE UNCHANGED pipeline
  BY <1>1, StutterKeeps
<1>2. CASE PipelineNext
  BY <1>2, PrepareKeeps, CreateKeeps, SubmitKeeps, GiveUpKeeps, SendKeeps, AnswerLostKeeps,
     AnswerKeeps, CompensateKeeps, VenueFillsKeeps, StopStartKeep DEF PipelineNext
<1> QED BY <1>1, <1>2

LEMMA PipelineStarts == PipelineInit => PInv
<1> SUFFICES ASSUME PipelineInit PROVE PInv
  OBVIOUS
<1>1. IInv
  BY InitIInv DEF PipelineInit
<1>2. /\ pc = "idle" /\ leg = 0 /\ result = "none" /\ unwound = {}
      /\ venue = [o \in Order |-> [state |-> "none", filled |-> 0]]
      /\ wired \in [adapters: SUBSET Order, compensator: BOOLEAN]
  BY DEF PipelineInit
<1>3. SeesAll
  BY DEF PipelineInit, Init, SeesAll
<1>4. Behind
  BY DEF PipelineInit, Init, Behind, Sent, NoOrder
<1>5. PipelineTypeOK
  BY <1>1, <1>2, QuantityAssumption, PipelineAssumption DEF PipelineTypeOK, IInv, Results
<1>6. TaskIsSound /\ Untouched /\ ResultIsTrue
  BY <1>2 DEF TaskIsSound, Untouched, ResultIsTrue
<1>7. LegsInOrder
  BY <1>2, PlanIsTyped DEF LegsInOrder
<1> QED BY <1>1, <1>3, <1>4, <1>5, <1>6, <1>7 DEF PInv
-----------------------------------------------------------------------------
LEMMA PipelineInvariance == PipelineSpec => []PInv
BY PipelineStarts, PipelineKeeps, PTL DEF PipelineSpec

(* The pipeline is a user of DurableOMS like any other: what is proved of   *)
(* the order management holds of it. *)
THEOREM PipelineIsOMS == PipelineSpec => Spec
<1>1. PipelineInit => Init
  BY DEF PipelineInit
<1> QED BY <1>1, PipelineInvariance, StepIsOMS, PTL DEF PipelineSpec, Spec

(* PipelineTypeOK: with a leg at work the task is at one of the plan, and   *)
(* no venue fills more of an order than was ordered.                        *)
THEOREM PipelineTyped == PipelineSpec => []PipelineTypeOK
<1>1. PInv => PipelineTypeOK
  BY DEF PInv
<1> QED BY PipelineInvariance, <1>1, PTL

(* JournalLoads: the journal of a pipeline replays, whatever happened. *)
THEOREM PipelineJournalLoads == PipelineSpec => []JournalLoads
BY PipelineIsOMS, JournalAlwaysLoads, PTL

(* LegsInOrder: execute's loop never sends a leg before the ones before it  *)
(* are completely filled and durably known to be, in any execution. *)
THEOREM HedgesGoInOrder == PipelineSpec => []LegsInOrder
<1>1. PInv => LegsInOrder
  BY DEF PInv
<1> QED BY PipelineInvariance, <1>1, PTL

(* ResultIsTrue: what execute and _compensate return is so at the venues. *)
THEOREM ResultsAreTrue == PipelineSpec => []ResultIsTrue
<1>1. PInv => ResultIsTrue
  BY DEF PInv
<1> QED BY PipelineInvariance, <1>1, PTL

(* NeverRetried: prepare_submit lets an order go out again only while the   *)
(* journal has no outcome of it, unless that journal failed. *)
THEOREM OutcomesAreNotRetried == PipelineSpec => NeverRetried
<1> DEFINE Once ==
      \A p \in Process : pc = "send" /\ open[p] => Durable(Legs[leg]).status = "SUBMITTING"
<1>1. PInv => Once
  <2> SUFFICES ASSUME PInv, NEW p \in Process, pc = "send", open[p]
               PROVE  Durable(Legs[leg]).status = "SUBMITTING"
    OBVIOUS
  <2>1. orders[p] = Book
    BY OpenMemory DEF PInv
  <2> QED BY <2>1 DEF PInv, TaskIsSound, Durable, Book
<1> QED BY <1>1, PipelineInvariance, PTL DEF NeverRetried
=============================================================================
