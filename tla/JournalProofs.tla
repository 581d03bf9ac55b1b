---------------------------- MODULE JournalProofs ----------------------------
(***************************************************************************)
(* Proofs about the way of an event from the venue to the journal's        *)
(* readers: the writer (EventWriter), for any set of streams, any calls,    *)
(* any queue and batch size; the order book of a stream (BookFeed), for any *)
(* length of the venue's history and of the journal; the replication        *)
(* (JournalReplication), for any number of replicators.                     *)
(***************************************************************************)
EXTENDS EventWriter, BookFeed, JournalReplication, WellFoundedInduction, TLAPS

(* Induction over the naturals, by the least counterexample.                *)
LEMMA SetInduction ==
  ASSUME NEW S, 0 \in S, \A n \in Nat : n \in S => n + 1 \in S
  PROVE  \A n \in Nat : n \in S
<1> DEFINE Less == {ss \in Nat \X Nat : ss[1] < ss[2]}
           Missing == {n \in Nat : n \notin S}
<1>1. SUFFICES ASSUME Missing # {} PROVE FALSE
  OBVIOUS
<1>2. IsWellFoundedOn(Less, Nat)
  BY NatLessThanWellFounded, Zenon DEF OpToRel
<1>3. PICK x \in Missing : \A y \in Missing : ~(<<y, x>> \in Less)
  <2>1. Missing \subseteq Nat
    OBVIOUS
  <2> HIDE DEF Less, Missing
  <2> QED BY <1>1, <1>2, <2>1, WFMin
<1>4. x \in Nat /\ x # 0 /\ x - 1 \in Nat /\ x \notin S
  OBVIOUS
<1>5. <<x - 1, x>> \in Less
  BY <1>4
<1>6. x - 1 \in S
  BY <1>3, <1>4, <1>5
<1> QED BY <1>4, <1>6
-----------------------------------------------------------------------------
(* PART 1: the writer                                                       *)
(* An item of the queue stands for an event that its call has put there.     *)
Item == {x \in [stream: Stream, at: Nat, live: BOOLEAN] : x.at \in 1..Len(Events[x.stream])}

InJournal(e) == \E i \in 1..Len(journal) : journal[i] = e

InActive(e, n) == \E i \in 1..n : EventOf(active[i]) = e

InQueue(e, n) == \E i \in 1..n : queue[i] # Stop /\ EventOf(queue[i]) = e

WriterTyped ==
  /\ journal \in Seq(Event)
  /\ queue \in Seq(Item \cup {Stop}) /\ active \in Seq(Item)
  /\ lock \in SUBSET (Stream \cup {Stop})
  /\ accepting \in BOOLEAN /\ stopping \in BOOLEAN
  /\ worker \in {"off", "get", "collect", "append", "ended", "failed"}
  /\ publisher \in [Stream -> {"idle", "lock", "put", "wait", "hand", "ok", "failed", "cancelled"}]
  /\ put \in [Stream -> Nat] /\ handed \in [Stream -> Nat]
  /\ future \in [Stream -> Seq({"pending", "set", "failed"})]
  /\ stopper \in {"idle", "lock", "put", "await", "ok", "raised"}

Asked(s, k) == [stream |-> s, at |-> k, live |-> TRUE]

(* The worker still has the item of the k-th event of the call of s.        *)
Held(s, k) ==
  \/ \E i \in 1..Len(active) : active[i] = Asked(s, k)
  \/ \E i \in 1..Len(queue) : queue[i] = Asked(s, k)

(* A future is set only for a row, waits only while the worker has its      *)
(* item, and fails only with the worker.                                    *)
FuturesSound(s) ==
  /\ Len(future[s]) = put[s] /\ put[s] <= Len(Events[s])
  /\ \A k \in 1..put[s] :
       /\ future[s][k] = "set" => InJournal(Events[s][k])
       /\ future[s][k] = "pending" => Held(s, k)
       /\ future[s][k] = "failed" => worker = "failed"

(* Where a call is, against what it has put, handed over and been told.     *)
StageSound(s) ==
  /\ publisher[s] \in Over \cup {"lock"} => put[s] = 0 /\ handed[s] = 0
  /\ publisher[s] = "put" => put[s] < Len(Events[s]) /\ handed[s] = 0 /\ lock = {s}
  /\ publisher[s] \in {"wait", "hand"} => put[s] = Len(Events[s])
  /\ publisher[s] = "wait" => handed[s] = 0
  /\ publisher[s] = "hand" => handed[s] < put[s]
  /\ publisher[s] \in {"hand", "ok"} => \A k \in 1..Len(Events[s]) : InJournal(Events[s][k])

(* What comes before an event in its call comes before it here, too, or is   *)
(* in the journal: the reason why a call's rows are in the call's order.    *)
ActiveOrdered ==
  \A p \in 1..Len(active) : \A i \in 1..active[p].at - 1 :
    LET e == Events[active[p].stream][i]
    IN  InJournal(e) \/ InActive(e, p - 1)

QueueOrdered ==
  \A p \in 1..Len(queue) : queue[p] # Stop =>
    \A i \in 1..queue[p].at - 1 :
      LET e == Events[queue[p].stream][i]
      IN  InJournal(e) \/ InActive(e, Len(active)) \/ InQueue(e, p - 1)

(* The stop has told the worker, or is about to: nothing is put any more.   *)
Closed == stopping \/ worker = "ended" \/ \E i \in 1..Len(queue) : queue[i] = Stop

(* How a writer closes: Stop is the last item of the queue.                 *)
ClosingSound ==
  /\ accepting => worker \notin {"off", "ended", "failed"} /\ stopper \in {"idle", "lock"}
  /\ worker = "off" =>
       /\ queue = << >> /\ active = << >> /\ ~stopping /\ stopper = "idle" /\ lock = {}
       /\ \A s \in Stream : publisher[s] = "idle"
  /\ worker \in {"get", "ended", "failed"} => active = << >>
  /\ stopping \/ worker = "ended" => queue = << >>
  /\ Closed => lock = {} /\ stopper \in {"await", "ok", "raised"}
  /\ stopper = "put" => lock = {Stop}
  /\ stopper = "ok" => worker = "ended"
  /\ \A i \in 1..Len(queue) : queue[i] = Stop => i = Len(queue)

JournalOnce == \A p, q \in 1..Len(journal) : journal[p] = journal[q] => p = q

(* An event of one call alone has the earlier ones of the call before it.   *)
JournalOrdered ==
  \A s \in Stream : \A j \in 1..Len(Events[s]) : Own(s, j) =>
    \A p \in 1..Len(journal) : journal[p] = Events[s][j] =>
      \A i \in 1..j - 1 : \E q \in 1..p - 1 : journal[q] = Events[s][i]

(* The inductive invariant of the writer.                                   *)
WriterInv ==
  /\ WriterTyped
  /\ \A s \in Stream : FuturesSound(s) /\ StageSound(s)
  /\ worker # "failed" => ActiveOrdered /\ QueueOrdered
  /\ ClosingSound
  /\ JournalOnce /\ JournalOrdered
-----------------------------------------------------------------------------
(* The append of a batch (append_events).  g[k] is the journal with the     *)
(* first k events of the batch.                                             *)
With(r, e) == IF e \in ToSet(r) THEN r ELSE Append(r, e)

IsInserted(g, n) ==
  g = [k \in 0..n |-> IF k = 0 THEN journal ELSE With(g[k - 1], EventOf(active[k]))]

LEMMA InsertedAt ==
  ASSUME NEW g, NEW n \in Nat, IsInserted(g, n), NEW k \in 0..n
  PROVE  g[k] = IF k = 0 THEN journal ELSE With(g[k - 1], EventOf(active[k]))
BY DEF IsInserted

LEMMA InsertedExists ==
  ASSUME NEW n \in Nat
  PROVE  \E g : IsInserted(g, n)
<1> DEFINE Long == {m \in Nat : \E g : IsInserted(g, m)}
<1>1. 0 \in Long
  <2> DEFINE g == [k \in 0..0 |-> journal]
  <2>1. IsInserted(g, 0)
    BY DEF IsInserted
  <2> QED BY <2>1
<1>2. ASSUME NEW m \in Nat, m \in Long PROVE m + 1 \in Long
  <2>1. PICK g : IsInserted(g, m)
    BY <1>2
  <2> DEFINE h == [k \in 0..m + 1 |->
                    IF k = m + 1 THEN With(g[k - 1], EventOf(active[k])) ELSE g[k]]
             on(k) == IF k = 0 THEN journal ELSE With(h[k - 1], EventOf(active[k]))
  <2>2. ASSUME NEW k \in 0..m + 1 PROVE h[k] = on(k)
    <3>1. CASE k = m + 1
      <4>1. k - 1 \in 0..m + 1 /\ k - 1 # m + 1 /\ k # 0
        BY <3>1
      <4>2. h[k - 1] = g[k - 1]
        BY <4>1
      <4> QED BY <3>1, <4>1, <4>2
    <3>2. CASE k # m + 1
      <4>1. k \in 0..m /\ h[k] = g[k]
        BY <3>2
      <4>2. g[k] = IF k = 0 THEN journal ELSE With(g[k - 1], EventOf(active[k]))
        BY <2>1, <4>1 DEF IsInserted
      <4>3. k # 0 => h[k - 1] = g[k - 1]
        BY <3>2
      <4> QED BY <4>1, <4>2, <4>3
    <3> QED BY <3>1, <3>2
  <2>3. h = [k \in 0..m + 1 |-> on(k)]
    BY <2>2
  <2>4. IsInserted(h, m + 1)
    BY <2>3 DEF IsInserted
  <2> QED BY <2>4
<1>3. \A m \in Nat : m \in Long
  <2> HIDE DEF Long
  <2> QED BY <1>1, <1>2, SetInduction
<1> QED BY <1>3

(* What the append of the first k events must leave.                        *)
Inserts(r, k) ==
  /\ r \in Seq(Event)
  /\ Len(journal) <= Len(r) /\ \A i \in 1..Len(journal) : r[i] = journal[i]
  /\ \A j \in 1..k : \E i \in 1..Len(r) : r[i] = EventOf(active[j])
  /\ \A p, q \in 1..Len(r) : r[p] = r[q] => p = q
  /\ \A s \in Stream : \A j \in 1..Len(Events[s]) : Own(s, j) =>
       \A p \in 1..Len(r) : r[p] = Events[s][j] =>
         \A i \in 1..j - 1 : \E q \in 1..p - 1 : r[q] = Events[s][i]

LEMMA ItemHasEvent ==
  ASSUME NEW x \in Item
  PROVE  /\ x.stream \in Stream /\ x.at \in 1..Len(Events[x.stream]) /\ EventOf(x) \in Event
         /\ Events[x.stream] \in Seq(Event) /\ x # Stop /\ x.live \in BOOLEAN
         /\ x = [stream |-> x.stream, at |-> x.at, live |-> x.live]
<1>1. /\ x \in [stream: Stream, at: Nat, live: BOOLEAN] /\ x.at \in 1..Len(Events[x.stream])
  BY DEF Item
<1>2. x.stream \in Stream /\ Events[x.stream] \in Seq(Event)
  BY <1>1, WriterAssumption
<1> QED BY <1>1, <1>2, WriterAssumption DEF EventOf

LEMMA InsertsOne ==
  ASSUME WriterTyped, ActiveOrdered, NEW r, NEW k \in Nat, k + 1 <= Len(active), Inserts(r, k)
  PROVE  Inserts(With(r, EventOf(active[k + 1])), k + 1)
<1> DEFINE x == active[k + 1]
           e == EventOf(x)
<1>1. /\ active \in Seq(Item) /\ k + 1 \in 1..Len(active) /\ x \in Item
      /\ journal \in Seq(Event) /\ r \in Seq(Event)
  BY DEF WriterTyped, Inserts
<1>2. x.stream \in Stream /\ x.at \in 1..Len(Events[x.stream]) /\ e \in Event
  BY <1>1, ItemHasEvent
<1>3. e = Events[x.stream][x.at]
  BY DEF EventOf
<1>4. ASSUME NEW i \in 1..x.at - 1
      PROVE  InJournal(Events[x.stream][i]) \/ InActive(Events[x.stream][i], k)
  BY <1>1, <1>4 DEF ActiveOrdered
<1>5. \A j \in 1..k + 1 : j \in 1..k \/ j = k + 1
  OBVIOUS
<1>6. x = active[k + 1] /\ e = EventOf(active[k + 1])
  OBVIOUS
<1> HIDE DEF x, e
<1>7. CASE e \in ToSet(r)
  <2>1. With(r, e) = r
    BY <1>7 DEF With
  <2>2. \E i \in 1..Len(r) : r[i] = e
    BY <1>1, <1>7 DEF ToSet
  <2> QED BY <1>5, <1>6, <2>1, <2>2 DEF Inserts
<1>8. CASE e \notin ToSet(r)
  <2> DEFINE a == Append(r, e)
  <2>1. /\ With(r, e) = a /\ a \in Seq(Event) /\ Len(a) = Len(r) + 1 /\ a[Len(r) + 1] = e
        /\ Len(r) \in Nat /\ \A i \in 1..Len(r) : a[i] = r[i]
    BY <1>1, <1>2, <1>8 DEF With
  <2>2. \A i \in 1..Len(r) : r[i] # e
    BY <1>1, <1>8 DEF ToSet
  <2>3. Len(journal) \in Nat
    BY <1>1
  <2> HIDE DEF a
  <2>4. Len(journal) <= Len(a) /\ \A i \in 1..Len(journal) : a[i] = journal[i]
    BY <2>1, <2>3 DEF Inserts
  <2>5. \A j \in 1..k + 1 : \E i \in 1..Len(a) : a[i] = EventOf(active[j])
    <3>1. ASSUME NEW j \in 1..k PROVE \E i \in 1..Len(a) : a[i] = EventOf(active[j])
      BY <2>1 DEF Inserts
    <3>2. \E i \in 1..Len(a) : a[i] = EventOf(active[k + 1])
      BY <1>6, <2>1
    <3> QED BY <1>5, <3>1, <3>2
  <2>6. \A p, q \in 1..Len(a) : a[p] = a[q] => p = q
    <3>1. \A p \in 1..Len(a) : p \in 1..Len(r) \/ p = Len(r) + 1
      BY <2>1
    <3>2. \A p, q \in 1..Len(r) : r[p] = r[q] => p = q
      BY DEF Inserts
    <3>3. ASSUME NEW p \in 1..Len(a), NEW q \in 1..Len(a), a[p] = a[q] PROVE p = q
      <4>1. CASE p \in 1..Len(r) /\ q \in 1..Len(r)
        BY <2>1, <3>2, <3>3, <4>1
      <4>2. CASE p = Len(r) + 1 /\ q \in 1..Len(r)
        BY <2>1, <2>2, <3>3, <4>2
      <4>3. CASE p \in 1..Len(r) /\ q = Len(r) + 1
        BY <2>1, <2>2, <3>3, <4>3
      <4> QED BY <3>1, <4>1, <4>2, <4>3
    <3> QED BY <3>3
  <2>7. ASSUME NEW s \in Stream, NEW j \in 1..Len(Events[s]), Own(s, j),
               NEW p \in 1..Len(a), a[p] = Events[s][j], NEW i \in 1..j - 1
        PROVE  \E q \in 1..p - 1 : a[q] = Events[s][i]
    <3>1. CASE p \in 1..Len(r)
      <4>0. r[p] = Events[s][j]
        BY <2>1, <2>7, <3>1
      <4>1. \E q \in 1..p - 1 : r[q] = Events[s][i]
        BY <2>7, <3>1, <4>0 DEF Inserts
      <4> QED BY <2>1, <3>1, <4>1
    <3>2. CASE p = Len(r) + 1
      <4>1. x.stream = s /\ x.at = j
        BY <1>2, <1>3, <2>1, <2>7, <3>2 DEF Own
      <4>2. InJournal(Events[s][i]) \/ InActive(Events[s][i], k)
        BY <1>4, <4>1
      <4>3. \E q \in 1..Len(r) : r[q] = Events[s][i]
        <5>1. CASE InJournal(Events[s][i])
          <6>1. PICK q \in 1..Len(journal) : journal[q] = Events[s][i]
            BY <5>1 DEF InJournal
          <6>2. q \in 1..Len(r) /\ r[q] = journal[q]
            BY <2>1, <2>3 DEF Inserts
          <6> QED BY <6>1, <6>2
        <5>2. CASE InActive(Events[s][i], k)
          BY <5>2 DEF InActive, Inserts
        <5> QED BY <4>2, <5>1, <5>2
      <4> QED BY <2>1, <3>2, <4>3
    <3> QED BY <2>1, <3>1, <3>2
  <2>8. Inserts(a, k + 1)
    BY <2>1, <2>4, <2>5, <2>6, <2>7 DEF Inserts
  <2> QED BY <1>6, <2>1, <2>8
<1> QED BY <1>6, <1>7, <1>8

LEMMA CommittedInserts ==
  ASSUME WriterTyped, ActiveOrdered, JournalOnce, JournalOrdered
  PROVE  Inserts(Committed, Len(active))
<1> DEFINE n == Len(active)
           g == CHOOSE f : IsInserted(f, n)
           Good == {k \in Nat : k <= n => Inserts(g[k], k)}
<1>1. n \in Nat /\ journal \in Seq(Event) /\ Len(journal) \in Nat
  BY DEF WriterTyped
<1>2. IsInserted(g, n)
  BY <1>1, InsertedExists
<1>3. Committed = g[n]
  BY DEF Committed, IsInserted, With
<1> HIDE DEF g
<1>4. 0 \in Good
  <2>1. g[0] = journal
    BY <1>1, <1>2 DEF IsInserted
  <2>2. Inserts(journal, 0)
    BY <1>1 DEF Inserts, JournalOnce, JournalOrdered
  <2> QED BY <2>1, <2>2
<1>5. ASSUME NEW k \in Nat, k \in Good PROVE k + 1 \in Good
  <2>1. SUFFICES ASSUME k + 1 <= n PROVE Inserts(g[k + 1], k + 1)
    OBVIOUS
  <2>2. Inserts(g[k], k)
    BY <1>1, <1>5, <2>1
  <2>3. g[k + 1] = With(g[k], EventOf(active[k + 1]))
    <3>1. k + 1 \in 0..n /\ k + 1 # 0 /\ k + 1 - 1 = k
      BY <1>1, <2>1
    <3> HIDE DEF n
    <3>2. g[k + 1] = IF k + 1 = 0 THEN journal ELSE With(g[k + 1 - 1], EventOf(active[k + 1]))
      BY <1>1, <1>2, <3>1, InsertedAt
    <3> QED BY <3>1, <3>2
  <2> QED BY <2>1, <2>2, <2>3, InsertsOne
<1>6. \A k \in Nat : k \in Good
  <2> HIDE DEF Good
  <2> QED BY <1>4, <1>5, SetInduction
<1> QED BY <1>1, <1>3, <1>6
-----------------------------------------------------------------------------
(* What a step leaves alone.                                                *)
LEMMA JournalGrows ==
  ASSUME WriterInv, worker # "failed", journal' \in {journal, Committed}
  PROVE  /\ journal' \in Seq(Event) /\ JournalOnce' /\ JournalOrdered'
         /\ \A e : InJournal(e) => InJournal(e)'
         /\ journal' = Committed =>
              \A p \in 1..Len(active) : \A e : EventOf(active[p]) = e => InJournal(e)'
<1>1. WriterTyped /\ ActiveOrdered /\ JournalOnce /\ JournalOrdered
  BY DEF WriterInv
<1>2. CASE journal' = journal
  <2>1. Inserts(journal, 0) /\ journal \in Seq(Event)
    BY <1>1 DEF Inserts, WriterTyped, JournalOnce, JournalOrdered
  <2>2. JournalOnce' /\ JournalOrdered' /\ journal' \in Seq(Event)
    BY <1>1, <1>2, <2>1 DEF JournalOnce, JournalOrdered
  <2>3. ASSUME journal' = Committed, NEW p \in 1..Len(active), NEW e, EventOf(active[p]) = e
        PROVE  InJournal(e)'
    <3>1. Inserts(Committed, Len(active))
      BY <1>1, CommittedInserts
    <3>2. \E i \in 1..Len(journal') : journal'[i] = e
      BY <2>3, <3>1 DEF Inserts
    <3> QED BY <3>2 DEF InJournal
  <2> QED BY <1>2, <2>2, <2>3 DEF InJournal
<1>3. CASE journal' = Committed
  <2>1. Inserts(journal', Len(active))
    BY <1>1, <1>3, CommittedInserts
  <2>2. journal' \in Seq(Event) /\ JournalOnce' /\ JournalOrdered'
    BY <2>1 DEF Inserts, JournalOnce, JournalOrdered
  <2>3. ASSUME NEW e, InJournal(e) PROVE InJournal(e)'
    <3>1. PICK i \in 1..Len(journal) : journal[i] = e
      BY <2>3 DEF InJournal
    <3>2. Len(journal) <= Len(journal') /\ journal'[i] = e
      BY <2>1, <3>1 DEF Inserts
    <3>3. Len(journal) \in Nat /\ Len(journal') \in Nat
      BY <1>1, <2>2 DEF WriterTyped
    <3>4. i \in 1..Len(journal')
      BY <3>2, <3>3
    <3> QED BY <3>2, <3>4 DEF InJournal
  <2>4. ASSUME NEW p \in 1..Len(active)
        PROVE  \E i \in 1..Len(journal') : journal'[i] = EventOf(active[p])
    BY <2>1 DEF Inserts
  <2> QED BY <2>2, <2>3, <2>4 DEF InJournal
<1> QED BY <1>2, <1>3

LEMMA JournalStays ==
  ASSUME WriterInv, journal' = journal
  PROVE  /\ journal' \in Seq(Event) /\ JournalOnce' /\ JournalOrdered'
         /\ \A e : InJournal(e) <=> InJournal(e)'
BY DEF WriterInv, WriterTyped, JournalOnce, JournalOrdered, InJournal

(* Items that stay where they are stay in order when the journal grows.     *)
LEMMA OrderStays ==
  ASSUME ActiveOrdered, QueueOrdered, UNCHANGED <<queue, active>>,
         \A e : InJournal(e) => InJournal(e)'
  PROVE  ActiveOrdered' /\ QueueOrdered'
<1>1. \A e, n : (InActive(e, n) <=> InActive(e, n)') /\ (InQueue(e, n) <=> InQueue(e, n)')
  BY DEF InActive, InQueue
<1>2. ActiveOrdered'
  BY <1>1 DEF ActiveOrdered
<1>3. QueueOrdered'
  BY <1>1 DEF QueueOrdered
<1> QED BY <1>2, <1>3

(* A step that only moves the control of the tasks.                         *)
LEMMA ControlStep ==
  ASSUME WriterInv, UNCHANGED <<journal, queue, active, put, future>>,
         worker' = "failed" <=> worker = "failed"
  PROVE  /\ journal' \in Seq(Event) /\ JournalOnce' /\ JournalOrdered'
         /\ \A e : InJournal(e) <=> InJournal(e)'
         /\ \A s \in Stream : FuturesSound(s)'
         /\ worker' # "failed" => ActiveOrdered' /\ QueueOrdered'
<1>1. /\ journal' \in Seq(Event) /\ JournalOnce' /\ JournalOrdered'
      /\ \A e : InJournal(e) <=> InJournal(e)'
  BY JournalStays
<1>2. ASSUME NEW s \in Stream PROVE FuturesSound(s)'
  <2>1. \A k : Held(s, k) <=> Held(s, k)'
    BY DEF Held
  <2> QED BY <1>1, <2>1 DEF WriterInv, FuturesSound
<1>3. worker' # "failed" => ActiveOrdered' /\ QueueOrdered'
  BY <1>1, OrderStays DEF WriterInv
<1> QED BY <1>1, <1>2, <1>3

LEMMA OrphanedKeeps ==
  ASSUME NEW q \in Seq(Item \cup {Stop}), NEW s \in Stream, NEW o, o = Orphaned(q, s)
  PROVE  /\ o \in Seq(Item \cup {Stop}) /\ Len(o) = Len(q)
         /\ q \in Seq(Item) => o \in Seq(Item)
         /\ q = << >> => o = << >>
         /\ \A i \in 1..Len(q) :
              /\ o[i] = Stop <=> q[i] = Stop
              /\ q[i] # Stop => (/\ EventOf(o[i]) = EventOf(q[i]) /\ o[i].at = q[i].at
                                 /\ o[i].stream = q[i].stream)
              /\ \A t, k : (t # s /\ q[i] = Asked(t, k)) => o[i] = q[i]
<1>1. Len(q) \in Nat /\ DOMAIN q = 1..Len(q)
  OBVIOUS
<1>2. ASSUME NEW i \in 1..Len(q)
      PROVE  o[i] = IF q[i] # Stop /\ q[i].stream = s THEN [q[i] EXCEPT !.live = FALSE] ELSE q[i]
  BY DEF Orphaned
<1>3. ASSUME NEW x \in Item
      PROVE  /\ [x EXCEPT !.live = FALSE] \in Item
             /\ [x EXCEPT !.live = FALSE].stream = x.stream
             /\ [x EXCEPT !.live = FALSE].at = x.at
             /\ EventOf([x EXCEPT !.live = FALSE]) = EventOf(x)
             /\ [x EXCEPT !.live = FALSE] # Stop /\ x # Stop
  <2>1. [x EXCEPT !.live = FALSE] \in Item
    BY DEF Item
  <2>2. /\ [x EXCEPT !.live = FALSE].stream = x.stream
        /\ [x EXCEPT !.live = FALSE].at = x.at
    BY DEF Item
  <2> QED BY <2>1, <2>2, ItemHasEvent DEF EventOf
<1>4. ASSUME NEW i \in 1..Len(q)
      PROVE  /\ o[i] \in Item \cup {Stop} /\ (q[i] \in Item => o[i] \in Item)
             /\ o[i] = Stop <=> q[i] = Stop
             /\ q[i] # Stop => (/\ EventOf(o[i]) = EventOf(q[i]) /\ o[i].at = q[i].at
                                /\ o[i].stream = q[i].stream)
             /\ \A t, k : (t # s /\ q[i] = Asked(t, k)) => o[i] = q[i]
  <2>1. q[i] \in Item \cup {Stop}
    BY <1>1
  <2> QED BY <1>2, <1>3, <2>1 DEF Asked
<1>5. Len(o) = Len(q) /\ o = [i \in 1..Len(q) |-> o[i]]
  BY <1>1 DEF Orphaned
<1>6. o \in Seq(Item \cup {Stop})
  BY <1>1, <1>4, <1>5
<1>7. q \in Seq(Item) => o \in Seq(Item)
  <2>1. SUFFICES ASSUME q \in Seq(Item) PROVE o \in Seq(Item)
    OBVIOUS
  <2>2. \A i \in 1..Len(q) : o[i] \in Item
    BY <1>4, <2>1
  <2> QED BY <1>1, <1>5, <2>2
<1>8. q = << >> => o = << >>
  BY <1>5, <1>6
<1> QED BY <1>4, <1>5, <1>6, <1>7, <1>8
-----------------------------------------------------------------------------
(* publish_many *)
LEMMA EndsKeeps ==
  ASSUME WriterInv, NEW s \in Stream, NEW outcome \in {"ok", "failed", "cancelled"},
         Ends(s, outcome), worker # "off",
         outcome = "ok" => \A k \in 1..Len(Events[s]) : InJournal(Events[s][k]),
         UNCHANGED <<journal, accepting, worker, stopping, stopper>>
  PROVE  WriterInv'
<1>1. /\ queue \in Seq(Item \cup {Stop}) /\ active \in Seq(Item) /\ active \in Seq(Item \cup {Stop})
      /\ Len(queue) \in Nat /\ Len(active) \in Nat
      /\ queue' = Orphaned(queue, s) /\ active' = Orphaned(active, s)
  BY DEF WriterInv, WriterTyped, Ends
<1>q. /\ queue' \in Seq(Item \cup {Stop}) /\ Len(queue') = Len(queue)
      /\ queue = << >> => queue' = << >>
      /\ \A i \in 1..Len(queue) :
           /\ queue'[i] = Stop <=> queue[i] = Stop
           /\ queue[i] # Stop => (/\ EventOf(queue'[i]) = EventOf(queue[i])
                                  /\ queue'[i].at = queue[i].at
                                  /\ queue'[i].stream = queue[i].stream)
           /\ \A t, k : (t # s /\ queue[i] = Asked(t, k)) => queue'[i] = queue[i]
  BY <1>1, OrphanedKeeps
<1>a. /\ active' \in Seq(Item) /\ Len(active') = Len(active)
      /\ active = << >> => active' = << >>
      /\ \A i \in 1..Len(active) :
           /\ (/\ EventOf(active'[i]) = EventOf(active[i])
               /\ active'[i].at = active[i].at
               /\ active'[i].stream = active[i].stream)
           /\ \A t, k : (t # s /\ active[i] = Asked(t, k)) => active'[i] = active[i]
  <2>1. \A i \in 1..Len(active) : active[i] # Stop
    BY <1>1, ItemHasEvent
  <2> QED BY <1>1, <2>1, OrphanedKeeps
<1>2. /\ journal' \in Seq(Event) /\ JournalOnce' /\ JournalOrdered'
      /\ \A e : InJournal(e) <=> InJournal(e)'
  BY JournalStays
<1>3. /\ publisher' = [publisher EXCEPT ![s] = outcome] /\ put' = [put EXCEPT ![s] = 0]
      /\ future' = [future EXCEPT ![s] = << >>] /\ handed' = [handed EXCEPT ![s] = 0]
      /\ lock' = lock \ {s}
  BY DEF Ends
<1>4. WriterTyped'
  BY <1>1, <1>q, <1>a, <1>2, <1>3 DEF WriterInv, WriterTyped
<1>5. ASSUME NEW t \in Stream PROVE FuturesSound(t)' /\ StageSound(t)'
  <2>1. CASE t = s
    <3>1. publisher'[t] = outcome /\ put'[t] = 0 /\ handed'[t] = 0 /\ future'[t] = << >>
      BY <1>3, <2>1 DEF WriterInv, WriterTyped
    <3>2. Events[t] \in Seq(Event)
      BY WriterAssumption
    <3> QED BY <1>2, <2>1, <3>1, <3>2 DEF FuturesSound, StageSound
  <2>2. CASE t # s
    <3>1. /\ publisher'[t] = publisher[t] /\ put'[t] = put[t] /\ handed'[t] = handed[t]
          /\ future'[t] = future[t]
      BY <1>3, <2>2 DEF WriterInv, WriterTyped
    <3>2. lock = {t} => lock' = {t}
      BY <1>3, <2>2
    <3>3. ASSUME NEW k, Held(t, k) PROVE Held(t, k)'
      BY <1>q, <1>a, <2>2, <3>3 DEF Held
    <3>4. FuturesSound(t) /\ StageSound(t)
      BY DEF WriterInv
    <3>5. FuturesSound(t)'
      BY <1>2, <3>1, <3>3, <3>4 DEF FuturesSound
    <3>6. StageSound(t)'
      BY <1>2, <3>1, <3>2, <3>4 DEF StageSound
    <3> QED BY <3>5, <3>6
  <2> QED BY <2>1, <2>2
<1>6. ASSUME worker' # "failed" PROVE ActiveOrdered' /\ QueueOrdered'
  <2>1. ActiveOrdered /\ QueueOrdered
    BY <1>6 DEF WriterInv
  <2>2. \A e : \A n \in 0..Len(active) : InActive(e, n) => InActive(e, n)'
    BY <1>1, <1>a DEF InActive
  <2>3. \A e : \A n \in 0..Len(queue) : InQueue(e, n) => InQueue(e, n)'
    BY <1>1, <1>q DEF InQueue
  <2>4. ActiveOrdered'
    <3>1. ASSUME NEW p \in 1..Len(active'), NEW i \in 1..active'[p].at - 1,
                 NEW e, e = Events[active'[p].stream][i]
          PROVE  InJournal(e)' \/ InActive(e, p - 1)'
      <4>1. /\ p \in 1..Len(active) /\ active'[p].at = active[p].at
            /\ active'[p].stream = active[p].stream /\ p - 1 \in 0..Len(active)
        BY <1>1, <1>a, <3>1
      <4>2. InJournal(e) \/ InActive(e, p - 1)
        BY <2>1, <3>1, <4>1 DEF ActiveOrdered
      <4> QED BY <1>2, <2>2, <4>1, <4>2
    <3> QED BY <3>1 DEF ActiveOrdered, InJournal, InActive
  <2>5. QueueOrdered'
    <3>1. ASSUME NEW p \in 1..Len(queue'), queue'[p] # Stop, NEW i \in 1..queue'[p].at - 1,
                 NEW e, e = Events[queue'[p].stream][i]
          PROVE  \/ InJournal(e)' \/ InQueue(e, p - 1)'
                 \/ \E j \in 1..Len(active') : EventOf(active'[j]) = e
      <4>1. /\ p \in 1..Len(queue) /\ queue[p] # Stop /\ queue'[p].at = queue[p].at
            /\ queue'[p].stream = queue[p].stream /\ p - 1 \in 0..Len(queue)
            /\ Len(active) \in 0..Len(active)
        BY <1>1, <1>q, <3>1
      <4>2. InJournal(e) \/ InActive(e, Len(active)) \/ InQueue(e, p - 1)
        BY <2>1, <3>1, <4>1 DEF QueueOrdered
      <4>3. InActive(e, Len(active)) => \E j \in 1..Len(active') : EventOf(active'[j]) = e
        BY <1>a DEF InActive
      <4> QED BY <1>2, <2>3, <4>1, <4>2, <4>3
    <3> QED BY <3>1 DEF QueueOrdered, InJournal, InActive, InQueue
  <2> QED BY <2>4, <2>5
<1>7. ClosingSound'
  <2>1. ClosingSound /\ WriterTyped
    BY DEF WriterInv
  <2>2. Closed' => Closed
    BY <1>q DEF Closed
  <2>3. lock = {} => lock' = {}
    BY <1>3
  <2>4. lock = {Stop} => lock' = {Stop}
    BY <1>3, WriterAssumption
  <2>5. \A i \in 1..Len(queue') : queue'[i] = Stop => i = Len(queue')
    BY <1>q, <2>1 DEF ClosingSound
  <2> QED BY <1>q, <1>a, <2>1, <2>2, <2>3, <2>4, <2>5 DEF ClosingSound
<1> QED BY <1>2, <1>4, <1>5, <1>6, <1>7 DEF WriterInv

LEMMA ControlKeeps ==
  ASSUME WriterInv, UNCHANGED <<journal, queue, active, put, future>>,
         worker' = "failed" <=> worker = "failed",
         WriterTyped', \A s \in Stream : StageSound(s)', ClosingSound'
  PROVE  WriterInv'
BY ControlStep DEF WriterInv

LEMMA PublishKeeps ==
  ASSUME WriterInv, NEW s \in Stream, Publish(s)
  PROVE  WriterInv'
<1>1. /\ publisher[s] \in Over /\ worker # "off" /\ publisher' = [publisher EXCEPT ![s] = "lock"]
      /\ UNCHANGED <<journal, queue, active, lock, accepting, worker, stopping, put, future,
                     handed, stopper>>
  BY DEF Publish, items
<1>2. WriterTyped'
  BY <1>1 DEF WriterInv, WriterTyped
<1>3. ASSUME NEW t \in Stream PROVE StageSound(t)'
  BY <1>1, JournalStays DEF WriterInv, WriterTyped, StageSound
<1>4. ClosingSound'
  BY <1>1 DEF WriterInv, ClosingSound, Closed
<1> QED BY <1>1, <1>2, <1>3, <1>4, ControlKeeps

LEMMA AcquireKeeps ==
  ASSUME WriterInv, NEW s \in Stream, Acquire(s)
  PROVE  WriterInv'
<1>1. /\ publisher[s] = "lock" /\ lock = {}
      /\ UNCHANGED <<journal, accepting, worker, stopping, stopper>>
  BY DEF Acquire
<1>2. worker # "off"
  BY <1>1 DEF WriterInv, ClosingSound
<1>3. CASE worker # "failed" /\ accepting
  <2>1. /\ publisher' = [publisher EXCEPT ![s] = "put"] /\ lock' = {s}
        /\ UNCHANGED <<queue, active, put, future, handed>>
    BY <1>3 DEF Acquire, items
  <2>2. WriterTyped'
    BY <1>1, <2>1 DEF WriterInv, WriterTyped
  <2>3. ASSUME NEW t \in Stream PROVE StageSound(t)'
    <3>1. StageSound(t) /\ WriterTyped
      BY DEF WriterInv
    <3>2. \A e : InJournal(e) <=> InJournal(e)'
      BY <1>1, JournalStays
    <3>3. Events[s] \in Seq(Event) /\ Events[s] # << >>
      BY WriterAssumption
    <3>4. 0 < Len(Events[s])
      BY <3>3
    <3>5. CASE t = s
      BY <1>1, <2>1, <3>1, <3>4, <3>5 DEF StageSound, WriterTyped, Over
    <3>6. CASE t # s
      <4>1. publisher[t] # "put"
        BY <1>1, <3>1 DEF StageSound
      <4> QED BY <1>1, <2>1, <3>1, <3>2, <3>6, <4>1 DEF StageSound, WriterTyped
    <3> QED BY <3>5, <3>6
  <2>4. ~Closed /\ stopper \in {"idle", "lock"}
    BY <1>3 DEF WriterInv, ClosingSound
  <2>5. ClosingSound'
    BY <1>1, <1>2, <1>3, <2>1, <2>4 DEF WriterInv, ClosingSound, Closed
  <2> QED BY <1>1, <2>1, <2>2, <2>3, <2>5, ControlKeeps
<1>4. CASE ~(worker # "failed" /\ accepting)
  <2>1. Ends(s, "failed")
    BY <1>4 DEF Acquire
  <2> QED BY <1>1, <1>2, <2>1, EndsKeeps
<1> QED BY <1>3, <1>4

LEMMA AwaitKeeps ==
  ASSUME WriterInv, NEW s \in Stream, Await(s)
  PROVE  WriterInv'
<1>1. /\ publisher[s] = "wait" /\ UNCHANGED <<journal, accepting, worker, stopping, stopper>>
  BY DEF Await
<1>2. worker # "off"
  BY <1>1 DEF WriterInv, ClosingSound
<1>3. CASE AllSet(s) /\ Goes(s, "hand")
  <2>1. /\ publisher' = [publisher EXCEPT ![s] = "hand"]
        /\ UNCHANGED <<queue, active, lock, put, future, handed>>
    BY <1>3 DEF Goes, items
  <2>2. WriterTyped'
    BY <1>1, <2>1 DEF WriterInv, WriterTyped
  <2>3. ASSUME NEW t \in Stream PROVE StageSound(t)'
    <3>1. StageSound(t) /\ FuturesSound(t) /\ WriterTyped
      BY DEF WriterInv
    <3>2. \A e : InJournal(e) <=> InJournal(e)'
      BY <1>1, JournalStays
    <3>3. CASE t = s
      <4>1. put[s] = Len(Events[s]) /\ handed[s] = 0
        BY <1>1, <3>1, <3>3 DEF StageSound
      <4>2. \A k \in 1..Len(Events[s]) : InJournal(Events[s][k])
        BY <1>3, <3>1, <3>3, <4>1 DEF AllSet, FuturesSound
      <4>3. 0 < Len(Events[s])
        <5>1. Events[s] \in Seq(Event) /\ Events[s] # << >>
          BY WriterAssumption
        <5> QED BY <5>1
      <4>4. publisher'[s] = "hand"
        BY <2>1, <3>1 DEF WriterTyped
      <4> QED BY <2>1, <3>2, <3>3, <4>1, <4>2, <4>3, <4>4 DEF StageSound, Over
    <3>4. CASE t # s
      BY <2>1, <3>1, <3>2, <3>4 DEF StageSound, WriterTyped
    <3> QED BY <3>3, <3>4
  <2>4. ClosingSound'
    BY <1>1, <1>2, <2>1 DEF WriterInv, ClosingSound, Closed
  <2> QED BY <1>1, <2>1, <2>2, <2>3, <2>4, ControlKeeps
<1>4. CASE Ends(s, "failed")
  BY <1>1, <1>2, <1>4, EndsKeeps
<1> QED BY <1>3, <1>4 DEF Await

LEMMA HandKeeps ==
  ASSUME WriterInv, NEW s \in Stream, Hand(s)
  PROVE  WriterInv'
<1>1. /\ publisher[s] = "hand" /\ UNCHANGED <<journal, accepting, worker, stopping, stopper>>
  BY DEF Hand
<1>2. worker # "off"
  BY <1>1 DEF WriterInv, ClosingSound
<1>3. CASE /\ handed[s] + 1 < put[s] /\ handed' = [handed EXCEPT ![s] = @ + 1]
           /\ UNCHANGED <<items, lock, publisher, put, future>>
  <2>1. UNCHANGED <<queue, active, lock, put, future, publisher>>
    BY <1>3 DEF items
  <2>2. WriterTyped'
    BY <1>1, <1>3, <2>1 DEF WriterInv, WriterTyped
  <2>3. ASSUME NEW t \in Stream PROVE StageSound(t)'
    <3>1. StageSound(t) /\ WriterTyped
      BY DEF WriterInv
    <3>2. \A e : InJournal(e) <=> InJournal(e)'
      BY <1>1, JournalStays
    <3>3. handed'[t] = IF t = s THEN handed[s] + 1 ELSE handed[t]
      BY <1>3, <3>1 DEF WriterTyped
    <3> QED BY <1>1, <1>3, <2>1, <3>1, <3>2, <3>3 DEF StageSound, Over
  <2>4. ClosingSound'
    BY <1>1, <1>2, <2>1 DEF WriterInv, ClosingSound, Closed
  <2> QED BY <1>1, <2>1, <2>2, <2>3, <2>4, ControlKeeps
<1>4. CASE Ends(s, "ok")
  <2>1. \A k \in 1..Len(Events[s]) : InJournal(Events[s][k])
    BY <1>1 DEF WriterInv, StageSound
  <2> QED BY <1>1, <1>2, <1>4, <2>1, EndsKeeps
<1>5. CASE Ends(s, "failed")
  BY <1>1, <1>2, <1>5, EndsKeeps
<1> QED BY <1>3, <1>4, <1>5 DEF Hand

LEMMA CancelKeeps ==
  ASSUME WriterInv, NEW s \in Stream, Cancel(s)
  PROVE  WriterInv'
<1>1. publisher[s] # "idle"
  BY DEF Cancel, Waiting
<1>2. worker # "off"
  BY <1>1 DEF WriterInv, ClosingSound
<1> QED BY <1>2, EndsKeeps DEF Cancel

LEMMA EnqueueKeeps ==
  ASSUME WriterInv, NEW s \in Stream, Enqueue(s)
  PROVE  WriterInv'
<1>1. /\ publisher[s] = "put" /\ UNCHANGED <<journal, accepting, worker, stopping, stopper>>
  BY DEF Enqueue
<1>2. /\ worker # "off" /\ WriterTyped /\ ClosingSound /\ StageSound(s) /\ FuturesSound(s)
      /\ lock = {s} /\ ~Closed /\ put[s] < Len(Events[s]) /\ handed[s] = 0
  BY <1>1 DEF WriterInv, ClosingSound, StageSound
<1>3. CASE TaskDone /\ Ends(s, "failed")
  BY <1>1, <1>2, <1>3, EndsKeeps
<1> DEFINE x == [stream |-> s, at |-> put[s] + 1, live |-> TRUE]
<1>4. CASE /\ queue' = Append(queue, x)
           /\ put' = [put EXCEPT ![s] = @ + 1]
           /\ future' = [future EXCEPT ![s] = Append(@, "pending")]
           /\ IF put[s] + 1 = Len(Events[s])
              THEN publisher' = [publisher EXCEPT ![s] = "wait"] /\ lock' = {}
              ELSE UNCHANGED <<publisher, lock>>
           /\ UNCHANGED <<active, handed>>
  <2>1. /\ put[s] \in Nat /\ queue \in Seq(Item \cup {Stop}) /\ Len(queue) \in Nat
        /\ Events[s] \in Seq(Event) /\ Len(Events[s]) \in Nat /\ active \in Seq(Item)
        /\ Len(active) \in Nat
    BY <1>2, WriterAssumption DEF WriterTyped
  <2>2. x \in Item /\ x # Stop /\ x.at = put[s] + 1 /\ x.stream = s /\ x = Asked(s, put[s] + 1)
    <3>1. x \in Item
      BY <1>2, <2>1 DEF Item
    <3> QED BY <3>1, ItemHasEvent DEF Asked
  <2> HIDE DEF x
  <2>3. /\ Len(queue') = Len(queue) + 1 /\ queue'[Len(queue) + 1] = x
        /\ \A i \in 1..Len(queue) : queue'[i] = queue[i]
        /\ queue' \in Seq(Item \cup {Stop})
        /\ \A i \in 1..Len(queue') : i \in 1..Len(queue) \/ i = Len(queue) + 1
    BY <1>4, <2>1, <2>2
  <2>4. /\ journal' \in Seq(Event) /\ JournalOnce' /\ JournalOrdered'
        /\ \A e : InJournal(e) <=> InJournal(e)'
    BY <1>1, JournalStays
  <2>5. /\ put'[s] = put[s] + 1 /\ future'[s] = Append(future[s], "pending")
        /\ \A t \in Stream : t # s => (put'[t] = put[t] /\ future'[t] = future[t]
                                       /\ publisher'[t] = publisher[t])
        /\ publisher'[s] = IF put[s] + 1 = Len(Events[s]) THEN "wait" ELSE "put"
        /\ lock' = IF put[s] + 1 = Len(Events[s]) THEN {} ELSE {s}
    BY <1>1, <1>2, <1>4 DEF WriterTyped
  <2>6. WriterTyped'
    <3>1. future[s] \in Seq({"pending", "set", "failed"})
      BY <1>2 DEF WriterTyped
    <3>2. Append(future[s], "pending") \in Seq({"pending", "set", "failed"})
      BY <3>1
    <3>3. future' \in [Stream -> Seq({"pending", "set", "failed"})]
      BY <1>2, <1>4, <3>2 DEF WriterTyped
    <3>4. put' \in [Stream -> Nat]
      BY <1>2, <1>4, <2>1 DEF WriterTyped
    <3>5. /\ publisher' \in [Stream -> {"idle", "lock", "put", "wait", "hand", "ok", "failed",
                                      "cancelled"}]
          /\ lock' \in SUBSET (Stream \cup {Stop})
      BY <1>2, <1>4 DEF WriterTyped
    <3> QED BY <1>1, <1>2, <1>4, <2>3, <2>4, <3>3, <3>4, <3>5 DEF WriterTyped
  <2>7. \A t, k : Held(t, k) => Held(t, k)'
    BY <1>4, <2>1, <2>3 DEF Held
  <2>8. ASSUME NEW k, k = put[s] + 1 PROVE Held(s, k)'
    <3>1. \E i \in 1..Len(queue') : queue'[i] = Asked(s, k)
      BY <2>1, <2>2, <2>3, <2>8
    <3> QED BY <3>1 DEF Held
  <2>9. ASSUME NEW t \in Stream PROVE FuturesSound(t)' /\ StageSound(t)'
    <3>1. FuturesSound(t) /\ StageSound(t)
      BY DEF WriterInv
    <3>2. CASE t = s
      <4>1. /\ future[s] \in Seq({"pending", "set", "failed"}) /\ Len(future[s]) = put[s]
        BY <1>2 DEF WriterTyped, FuturesSound
      <4>2. /\ Len(future'[s]) = put[s] + 1 /\ future'[s][put[s] + 1] = "pending"
            /\ \A k \in 1..put[s] : future'[s][k] = future[s][k]
        BY <2>5, <4>1
      <4>3. FuturesSound(s)'
        <5>1. ASSUME NEW k \in 1..put'[s]
              PROVE  /\ future'[s][k] = "set" => InJournal(Events[s][k])'
                     /\ future'[s][k] = "pending" => Held(s, k)'
                     /\ future'[s][k] = "failed" => worker' = "failed"
          <6>1. CASE k = put[s] + 1
            BY <2>8, <4>2, <6>1
          <6>2. CASE k # put[s] + 1
            <7>1. k \in 1..put[s]
              BY <2>1, <2>5, <6>2
            <7> QED BY <1>1, <1>2, <2>4, <2>7, <4>2, <7>1 DEF FuturesSound
          <6> QED BY <6>1, <6>2
        <5> QED BY <1>2, <2>1, <2>5, <4>2, <5>1 DEF FuturesSound
      <4>4. StageSound(s)'
        BY <1>2, <1>4, <2>1, <2>5 DEF StageSound, Over
      <4> QED BY <3>2, <4>3, <4>4
    <3>3. CASE t # s
      <4>1. publisher[t] # "put"
        BY <1>2, <3>1, <3>3 DEF StageSound
      <4>2. FuturesSound(t)'
        BY <1>1, <2>4, <2>5, <2>7, <3>1, <3>3 DEF FuturesSound
      <4>3. StageSound(t)'
        BY <1>4, <2>4, <2>5, <3>1, <3>3, <4>1 DEF StageSound
      <4> QED BY <4>2, <4>3
    <3> QED BY <3>2, <3>3
  <2>10. ASSUME worker' # "failed" PROVE ActiveOrdered' /\ QueueOrdered'
    <3>1. ActiveOrdered /\ QueueOrdered /\ worker # "failed"
      BY <1>1, <2>10 DEF WriterInv
    <3>2. ActiveOrdered'
      <4>1. ASSUME NEW p \in 1..Len(active'), NEW i \in 1..active'[p].at - 1,
                   NEW e, e = Events[active'[p].stream][i]
            PROVE  InJournal(e)' \/ InActive(e, p - 1)'
        <5>1. p \in 1..Len(active) /\ active' = active
          BY <1>4, <4>1
        <5>2. InJournal(e) \/ InActive(e, p - 1)
          BY <3>1, <4>1, <5>1 DEF ActiveOrdered
        <5> QED BY <2>4, <5>1, <5>2 DEF InActive
      <4> QED BY <4>1 DEF ActiveOrdered, InJournal, InActive
    <3>3. \A e : \A n \in 0..Len(queue) : InQueue(e, n) => InQueue(e, n)'
      BY <2>1, <2>3 DEF InQueue
    <3>4. \A e : InActive(e, Len(active)) => \E j \in 1..Len(active') : EventOf(active'[j]) = e
      BY <1>4 DEF InActive
    <3>5. ASSUME NEW p \in 1..Len(queue'), queue'[p] # Stop, NEW i \in 1..queue'[p].at - 1,
                 NEW e, e = Events[queue'[p].stream][i]
          PROVE  \/ InJournal(e)' \/ InQueue(e, p - 1)'
                 \/ \E j \in 1..Len(active') : EventOf(active'[j]) = e
      <4>1. CASE p \in 1..Len(queue)
        <5>1. InJournal(e) \/ InActive(e, Len(active)) \/ InQueue(e, p - 1)
          BY <2>3, <3>1, <3>5, <4>1 DEF QueueOrdered
        <5>2. p - 1 \in 0..Len(queue)
          BY <2>1, <4>1
        <5> QED BY <2>4, <3>3, <3>4, <5>1, <5>2
      <4>2. CASE p = Len(queue) + 1
        <5>1. i \in 1..put[s] /\ e = Events[s][i]
          BY <2>1, <2>2, <2>3, <3>5, <4>2
        <5>2. future[s][i] \in {"pending", "set", "failed"}
          <6>1. future[s] \in Seq({"pending", "set", "failed"}) /\ Len(future[s]) = put[s]
            BY <1>2 DEF WriterTyped, FuturesSound
          <6> QED BY <5>1, <6>1
        <5>3. future[s][i] # "failed"
          BY <1>2, <3>1, <5>1 DEF FuturesSound
        <5>4. CASE future[s][i] = "set"
          BY <1>2, <2>4, <5>1, <5>4 DEF FuturesSound
        <5>5. CASE future[s][i] = "pending"
          <6>1. Held(s, i)
            BY <1>2, <5>1, <5>5 DEF FuturesSound
          <6>2. EventOf(Asked(s, i)) = e /\ Asked(s, i) # Stop
            <7>1. Asked(s, i) \in Item
              BY <1>2, <2>1, <5>1 DEF Asked, Item
            <7> QED BY <5>1, <7>1, ItemHasEvent DEF EventOf, Asked
          <6>3. InActive(e, Len(active)) \/ InQueue(e, Len(queue))
            BY <6>1, <6>2 DEF Held, InActive, InQueue
          <6>4. p - 1 = Len(queue) /\ Len(queue) \in 0..Len(queue)
            BY <2>1, <4>2
          <6> QED BY <3>3, <3>4, <6>3, <6>4
        <5> QED BY <5>2, <5>3, <5>4, <5>5
      <4> QED BY <2>3, <4>1, <4>2
    <3>6. QueueOrdered'
      BY <3>5 DEF QueueOrdered, InJournal, InActive, InQueue
    <3> QED BY <3>2, <3>6
  <2>11. ClosingSound'
    <3>1. ~Closed'
      BY <1>1, <1>2, <2>2, <2>3 DEF Closed
    <3>2. stopper # "put"
      BY <1>2, WriterAssumption DEF ClosingSound
    <3> QED BY <1>1, <1>2, <1>4, <3>1, <3>2 DEF ClosingSound, Closed
  <2> QED BY <2>4, <2>6, <2>9, <2>10, <2>11 DEF WriterInv
<1> QED BY <1>1, <1>3, <1>4 DEF Enqueue
-----------------------------------------------------------------------------
(* _run *)
TakesItem ==
  /\ worker \in {"get", "collect"} /\ worker' = "collect"
  /\ queue # << >> /\ Head(queue) # Stop
  /\ queue' = Tail(queue) /\ active' = Append(active, Head(queue))
  /\ UNCHANGED <<journal, lock, accepting, stopping, publisher, put, future, handed, stopper>>

LEMMA TakeKeeps ==
  ASSUME WriterInv, TakesItem
  PROVE  WriterInv'
<1> DEFINE x == Head(queue)
<1>0. /\ worker \in {"get", "collect"} /\ worker' = "collect" /\ queue # << >>
      /\ UNCHANGED <<journal, lock, accepting, stopping, publisher, put, future, handed, stopper>>
  BY DEF TakesItem
<1>1. /\ WriterTyped /\ ClosingSound /\ queue \in Seq(Item \cup {Stop}) /\ Len(queue) \in Nat \ {0}
      /\ active \in Seq(Item) /\ Len(active) \in Nat /\ 1 \in 1..Len(queue)
  BY <1>0 DEF WriterInv, WriterTyped
<1>2. x = queue[1] /\ x # Stop /\ x \in Item
  BY <1>1 DEF TakesItem
<1> HIDE DEF x
<1>3. /\ queue' \in Seq(Item \cup {Stop}) /\ Len(queue') = Len(queue) - 1 /\ Len(queue') \in Nat
      /\ \A i \in 1..Len(queue) - 1 : queue'[i] = queue[i + 1]
  BY <1>1 DEF TakesItem
<1>4. active' = Append(active, x)
  BY DEF x, TakesItem
<1>5. /\ active' \in Seq(Item) /\ Len(active') = Len(active) + 1 /\ active'[Len(active) + 1] = x
      /\ \A i \in 1..Len(active) : active'[i] = active[i]
  BY <1>1, <1>2, <1>4
<1>6. /\ journal' \in Seq(Event) /\ JournalOnce' /\ JournalOrdered'
      /\ \A e : InJournal(e) <=> InJournal(e)'
  BY <1>0, JournalStays
<1>7. WriterTyped'
  BY <1>0, <1>1, <1>3, <1>5, <1>6 DEF WriterTyped
<1>8. ASSUME NEW t, NEW k, Held(t, k) PROVE Held(t, k)'
  <2>1. CASE \E i \in 1..Len(active) : active[i] = Asked(t, k)
    BY <1>1, <1>5, <2>1 DEF Held
  <2>2. ASSUME NEW i \in 1..Len(queue), queue[i] = Asked(t, k) PROVE Held(t, k)'
    <3>1. CASE i = 1
      <4>1. Len(active) + 1 \in 1..Len(active') /\ active'[Len(active) + 1] = Asked(t, k)
        BY <1>1, <1>2, <1>5, <2>2, <3>1
      <4> QED BY <4>1 DEF Held
    <3>2. CASE i # 1
      <4>1. i - 1 \in 1..Len(queue') /\ queue'[i - 1] = queue[i - 1 + 1] /\ i - 1 + 1 = i
        BY <1>1, <1>3, <3>2
      <4> QED BY <2>2, <4>1 DEF Held
    <3> QED BY <3>1, <3>2
  <2> QED BY <1>8, <2>1, <2>2 DEF Held
<1>9. ASSUME NEW s \in Stream PROVE FuturesSound(s)' /\ StageSound(s)'
  <2>1. FuturesSound(s) /\ StageSound(s) /\ worker # "failed"
    BY <1>0 DEF WriterInv
  <2>2. FuturesSound(s)'
    BY <1>0, <1>6, <1>8, <2>1 DEF FuturesSound
  <2>3. StageSound(s)'
    BY <1>0, <1>6, <2>1 DEF StageSound
  <2> QED BY <2>2, <2>3
<1>10. ActiveOrdered /\ QueueOrdered
  BY <1>0 DEF WriterInv
<1>11. ActiveOrdered'
  <2>1. ASSUME NEW p \in 1..Len(active'), NEW i \in 1..active'[p].at - 1,
               NEW e, e = Events[active'[p].stream][i]
        PROVE  InJournal(e)' \/ \E j \in 1..p - 1 : EventOf(active'[j]) = e
    <3>1. CASE p \in 1..Len(active)
      <4>1. InJournal(e) \/ InActive(e, p - 1)
        BY <1>5, <1>10, <2>1, <3>1 DEF ActiveOrdered
      <4>2. ASSUME NEW j \in 1..p - 1, EventOf(active[j]) = e
            PROVE  \E l \in 1..p - 1 : EventOf(active'[l]) = e
        <5>1. j \in 1..Len(active)
          BY <1>1, <3>1
        <5> QED BY <1>5, <4>2, <5>1
      <4> QED BY <1>6, <4>1, <4>2 DEF InActive
    <3>2. CASE p = Len(active) + 1
      <4>1. InJournal(e) \/ InActive(e, Len(active)) \/ InQueue(e, 1 - 1)
        BY <1>1, <1>2, <1>5, <1>10, <2>1, <3>2 DEF QueueOrdered
      <4>2. ~InQueue(e, 1 - 1)
        BY DEF InQueue
      <4>3. p - 1 = Len(active) /\ \A j \in 1..Len(active) : active'[j] = active[j]
        BY <1>1, <1>5, <3>2
      <4> QED BY <1>6, <4>1, <4>2, <4>3 DEF InActive
    <3> QED BY <1>1, <1>5, <3>1, <3>2
  <2> QED BY <2>1 DEF ActiveOrdered, InJournal, InActive
<1>12. QueueOrdered'
  <2>1. ASSUME NEW p \in 1..Len(queue'), queue'[p] # Stop, NEW i \in 1..queue'[p].at - 1,
               NEW e, e = Events[queue'[p].stream][i]
        PROVE  \/ InJournal(e)' \/ InQueue(e, p - 1)'
               \/ \E j \in 1..Len(active') : EventOf(active'[j]) = e
    <3>1. p + 1 \in 1..Len(queue) /\ queue'[p] = queue[p + 1] /\ p + 1 - 1 = p /\ p \in Nat
      BY <1>1, <1>3, <2>1
    <3>2. InJournal(e) \/ InActive(e, Len(active)) \/ InQueue(e, p + 1 - 1)
      BY <1>10, <2>1, <3>1 DEF QueueOrdered
    <3>3. CASE InActive(e, Len(active))
      BY <1>1, <1>5, <3>3 DEF InActive
    <3>4. CASE InQueue(e, p)
      <4>1. PICK j \in 1..p : queue[j] # Stop /\ EventOf(queue[j]) = e
        BY <3>4 DEF InQueue
      <4>2. CASE j = 1
        <5>1. Len(active) + 1 \in 1..Len(active') /\ EventOf(active'[Len(active) + 1]) = e
          BY <1>1, <1>2, <1>5, <4>1, <4>2
        <5> QED BY <5>1
      <4>3. CASE j # 1
        <5>1. j - 1 \in 1..p - 1 /\ j - 1 \in 1..Len(queue) - 1 /\ j - 1 + 1 = j
          BY <1>1, <3>1, <4>1, <4>3
        <5>2. queue'[j - 1] = queue[j]
          BY <1>3, <5>1
        <5> QED BY <4>1, <5>1, <5>2 DEF InQueue
      <4> QED BY <4>2, <4>3
    <3> QED BY <1>6, <3>1, <3>2, <3>3, <3>4
  <2> QED BY <2>1 DEF QueueOrdered, InJournal, InActive, InQueue
<1>13. ClosingSound'
  <2>1. ASSUME NEW i \in 1..Len(queue') PROVE i + 1 \in 1..Len(queue) /\ queue'[i] = queue[i + 1]
    BY <1>1, <1>3
  <2>2. \A i \in 1..Len(queue') : queue'[i] = Stop => i = Len(queue')
    <3>1. ASSUME NEW i \in 1..Len(queue'), queue'[i] = Stop PROVE i = Len(queue')
      <4>1. i + 1 = Len(queue)
        BY <1>1, <2>1, <3>1 DEF ClosingSound
      <4> QED BY <1>1, <1>3, <4>1
    <3> QED BY <3>1
  <2>3. Closed' => Closed
    BY <1>0, <2>1 DEF Closed
  <2>4. ~stopping
    BY <1>0, <1>1 DEF ClosingSound
  <2> QED BY <1>0, <1>1, <2>2, <2>3, <2>4 DEF ClosingSound
<1> QED BY <1>6, <1>7, <1>9, <1>11, <1>12, <1>13 DEF WriterInv

(* The worker takes Stop: nothing is behind it.                             *)
TakesStop ==
  /\ queue # << >> /\ Head(queue) = Stop /\ queue' = Tail(queue)
  /\ \/ worker = "get" /\ worker' = "ended" /\ stopping' = stopping
     \/ worker = "collect" /\ worker' = "append" /\ stopping' = TRUE
  /\ UNCHANGED <<journal, active, lock, accepting, publisher, put, future, handed, stopper>>

LEMMA TakeStopKeeps ==
  ASSUME WriterInv, TakesStop
  PROVE  WriterInv'
<1>0. /\ \/ worker = "get" /\ worker' = "ended" /\ stopping' = stopping
         \/ worker = "collect" /\ worker' = "append" /\ stopping' = TRUE
      /\ UNCHANGED <<journal, active, lock, accepting, publisher, put, future, handed, stopper>>
  BY DEF TakesStop
<1>1. /\ WriterTyped /\ ClosingSound /\ queue \in Seq(Item \cup {Stop}) /\ Len(queue) \in Nat \ {0}
  BY DEF WriterInv, WriterTyped, TakesStop
<1>2. queue[1] = Stop /\ 1 \in 1..Len(queue)
  BY <1>1 DEF TakesStop
<1>3. Len(queue) = 1 /\ Closed
  BY <1>1, <1>2 DEF ClosingSound, Closed
<1>4. /\ queue' = << >> /\ \A i \in 1..Len(queue) : queue[i] = Stop
      /\ queue' \in Seq(Item \cup {Stop})
  BY <1>1, <1>2, <1>3 DEF TakesStop
<1>5. /\ journal' \in Seq(Event) /\ JournalOnce' /\ JournalOrdered'
      /\ \A e : InJournal(e) <=> InJournal(e)'
  BY <1>0, JournalStays
<1>6. WriterTyped'
  BY <1>0, <1>1, <1>4, <1>5 DEF WriterTyped
<1>7. ASSUME NEW s \in Stream PROVE FuturesSound(s)' /\ StageSound(s)'
  <2>1. FuturesSound(s) /\ StageSound(s) /\ worker # "failed"
    BY <1>0 DEF WriterInv
  <2>2. ASSUME NEW k \in 1..put[s], Held(s, k) PROVE Held(s, k)'
    <3>1. Asked(s, k) # Stop
      <4>1. k \in 1..Len(Events[s]) /\ k \in Nat
        <5>1. Len(Events[s]) \in Nat /\ put[s] \in Nat
          BY <1>1, WriterAssumption DEF WriterTyped
        <5> QED BY <2>1, <2>2, <5>1 DEF FuturesSound
      <4>2. Asked(s, k) \in Item
        BY <4>1 DEF Asked, Item
      <4> QED BY <4>2, ItemHasEvent
    <3> QED BY <1>0, <1>4, <2>2, <3>1 DEF Held
  <2>3. FuturesSound(s)'
    BY <1>0, <1>5, <2>1, <2>2 DEF FuturesSound
  <2>4. StageSound(s)'
    BY <1>0, <1>5, <2>1 DEF StageSound
  <2> QED BY <2>3, <2>4
<1>8. ActiveOrdered'
  <2>1. ActiveOrdered
    BY <1>0 DEF WriterInv
  <2>2. ASSUME NEW p \in 1..Len(active'), NEW i \in 1..active'[p].at - 1,
               NEW e, e = Events[active'[p].stream][i]
        PROVE  InJournal(e)' \/ InActive(e, p - 1)'
    <3>1. InJournal(e) \/ InActive(e, p - 1)
      BY <1>0, <2>1, <2>2 DEF ActiveOrdered
    <3> QED BY <1>0, <1>5, <3>1 DEF InActive
  <2> QED BY <2>2 DEF ActiveOrdered, InJournal, InActive
<1>9. QueueOrdered'
  BY <1>4 DEF QueueOrdered
<1>10. ClosingSound'
  <2>1. lock = {} /\ stopper \in {"await", "ok", "raised"} /\ ~accepting /\ stopper # "ok"
    BY <1>0, <1>1, <1>3 DEF ClosingSound
  <2>2. worker = "get" => active = << >>
    BY <1>1 DEF ClosingSound
  <2> QED BY <1>0, <1>4, <2>1, <2>2 DEF ClosingSound
<1> QED BY <1>5, <1>6, <1>7, <1>8, <1>9, <1>10 DEF WriterInv

LEMMA TakeFirstKeeps ==
  ASSUME WriterInv, TakeFirst
  PROVE  WriterInv'
<1>1. /\ worker = "get" /\ queue # << >> /\ queue' = Tail(queue) /\ active = << >>
      /\ UNCHANGED <<journal, lock, accepting, stopping, publisher, put, future, handed, stopper>>
  BY DEF TakeFirst, calls, WriterInv, ClosingSound
<1>2. CASE Head(queue) = Stop
  BY <1>1, <1>2, TakeStopKeeps DEF TakeFirst, TakesStop
<1>3. CASE Head(queue) # Stop
  <2>1. worker' = "collect" /\ active' = Append(active, Head(queue))
    BY <1>1, <1>3 DEF TakeFirst
  <2> QED BY <1>1, <1>3, <2>1, TakeKeeps DEF TakesItem
<1> QED BY <1>2, <1>3

LEMMA TakeMoreKeeps ==
  ASSUME WriterInv, TakeMore
  PROVE  WriterInv'
<1>1. /\ worker = "collect" /\ queue # << >> /\ queue' = Tail(queue)
      /\ UNCHANGED <<journal, lock, accepting, publisher, put, future, handed, stopper>>
  BY DEF TakeMore, calls
<1>2. CASE Head(queue) = Stop
  BY <1>1, <1>2, TakeStopKeeps DEF TakeMore, TakesStop
<1>3. CASE Head(queue) # Stop
  <2>1. worker' = "collect" /\ active' = Append(active, Head(queue)) /\ stopping' = stopping
    BY <1>1, <1>3 DEF TakeMore
  <2> QED BY <1>1, <1>3, <2>1, TakeKeeps DEF TakesItem
<1> QED BY <1>2, <1>3

LEMMA FlushKeeps ==
  ASSUME WriterInv, Flush
  PROVE  WriterInv'
<1>1. /\ worker = "collect" /\ worker' = "append"
      /\ UNCHANGED <<journal, queue, active, lock, accepting, stopping, publisher, put, future,
                     handed, stopper>>
  BY DEF Flush, items, calls
<1>2. WriterTyped'
  BY <1>1 DEF WriterInv, WriterTyped
<1>3. \A s \in Stream : StageSound(s)'
  BY <1>1, JournalStays DEF WriterInv, StageSound
<1>4. ClosingSound'
  BY <1>1 DEF WriterInv, ClosingSound, Closed
<1> QED BY <1>1, <1>2, <1>3, <1>4, ControlKeeps
-----------------------------------------------------------------------------
(* set_result and set_exception reach the pending futures of the items done. *)
LEMMA SettledKeeps ==
  ASSUME WriterTyped, NEW done, NEW outcome \in {"set", "failed"},
         NEW f, f = Settled(future, done, outcome)
  PROVE  /\ f \in [Stream -> Seq({"pending", "set", "failed"})]
         /\ \A s \in Stream : Len(f[s]) = Len(future[s])
         /\ \A s \in Stream : \A k \in 1..Len(future[s]) :
              f[s][k] = IF future[s][k] = "pending" /\ Asked(s, k) \in done
                        THEN outcome ELSE future[s][k]
<1>1. ASSUME NEW s \in Stream
      PROVE  /\ f[s] = [k \in 1..Len(future[s]) |->
                          IF future[s][k] = "pending" /\ Asked(s, k) \in done
                          THEN outcome ELSE future[s][k]]
             /\ future[s] \in Seq({"pending", "set", "failed"}) /\ Len(future[s]) \in Nat
  BY <1>1 DEF Settled, Asked, WriterTyped
<1>2. ASSUME NEW s \in Stream
      PROVE  f[s] \in Seq({"pending", "set", "failed"}) /\ Len(f[s]) = Len(future[s])
  <2> DEFINE Outcomes == {"pending", "set", "failed"}
  <2>1. outcome \in Outcomes /\ future[s] \in Seq(Outcomes) /\ Len(future[s]) \in Nat
    BY <1>1
  <2> HIDE DEF Outcomes
  <2>2. \A k \in 1..Len(future[s]) : future[s][k] \in Outcomes
    BY <2>1
  <2>3. f[s] = [k \in 1..Len(future[s]) |->
                  IF future[s][k] = "pending" /\ Asked(s, k) \in done
                  THEN outcome ELSE future[s][k]]
    BY <1>1
  <2>4. f[s] \in Seq(Outcomes) /\ Len(f[s]) = Len(future[s])
    BY <2>1, <2>2, <2>3
  <2> QED BY <2>4 DEF Outcomes
<1>3. f \in [Stream -> Seq({"pending", "set", "failed"})]
  <2>1. f = [s \in Stream |-> f[s]]
    BY DEF Settled
  <2> QED BY <1>2, <2>1
<1>4. ASSUME NEW s \in Stream, NEW k \in 1..Len(future[s])
      PROVE  f[s][k] = IF future[s][k] = "pending" /\ Asked(s, k) \in done
                       THEN outcome ELSE future[s][k]
  BY <1>1
<1> QED BY <1>2, <1>3, <1>4

LEMMA AskedIsItem ==
  ASSUME WriterInv, NEW s \in Stream, NEW k \in 1..put[s]
  PROVE  /\ Asked(s, k) \in Item /\ Asked(s, k) # Stop /\ EventOf(Asked(s, k)) = Events[s][k]
         /\ k \in 1..Len(future[s]) /\ future[s][k] \in {"pending", "set", "failed"}
         /\ k \in 1..Len(Events[s])
<1>1. /\ Events[s] \in Seq(Event) /\ Len(Events[s]) \in Nat /\ put[s] \in Nat
      /\ Len(future[s]) = put[s] /\ put[s] <= Len(Events[s])
      /\ future[s] \in Seq({"pending", "set", "failed"})
  BY WriterAssumption DEF WriterInv, WriterTyped, FuturesSound
<1>2. k \in 1..Len(Events[s]) /\ k \in Nat /\ k \in 1..Len(future[s])
  BY <1>1
<1>3. Asked(s, k) \in Item
  BY <1>2 DEF Asked, Item
<1>4. future[s][k] \in {"pending", "set", "failed"}
  <2>1. future[s] \in Seq({"pending", "set", "failed"}) /\ Len(future[s]) = put[s]
    BY <1>1
  <2> QED BY <2>1
<1>5. Asked(s, k) # Stop /\ EventOf(Asked(s, k)) = Events[s][k]
  BY <1>3, ItemHasEvent DEF EventOf, Asked
<1> QED BY <1>2, <1>3, <1>4, <1>5

LEMMA AppendCommitsKeeps ==
  ASSUME WriterInv, AppendCommits
  PROVE  WriterInv'
<1>1. /\ worker = "append" /\ journal' = Committed /\ active' = << >>
      /\ future' = Settled(future, Items(active), "set")
      /\ worker' = IF stopping THEN "ended" ELSE "get"
      /\ UNCHANGED <<queue, lock, accepting, stopping, publisher, put, handed, stopper>>
  BY DEF AppendCommits
<1>2. /\ WriterTyped /\ ClosingSound /\ ActiveOrdered /\ QueueOrdered
      /\ active \in Seq(Item) /\ Len(active) \in Nat
  BY <1>1 DEF WriterInv, WriterTyped
<1>3. /\ journal' \in Seq(Event) /\ JournalOnce' /\ JournalOrdered'
      /\ \A e : InJournal(e) => InJournal(e)'
      /\ \A p \in 1..Len(active) : \A e : EventOf(active[p]) = e => InJournal(e)'
  BY <1>1, JournalGrows
<1>4. /\ future' \in [Stream -> Seq({"pending", "set", "failed"})]
      /\ \A s \in Stream : Len(future'[s]) = Len(future[s])
      /\ \A s \in Stream : \A k \in 1..Len(future[s]) :
           future'[s][k] = IF future[s][k] = "pending" /\ Asked(s, k) \in Items(active)
                           THEN "set" ELSE future[s][k]
  <2>1. /\ WriterTyped /\ "set" \in {"set", "failed"}
        /\ future' = Settled(future, Items(active), "set")
    BY <1>1, <1>2
  <2> QED BY <2>1, SettledKeeps
<1>5. WriterTyped'
  BY <1>1, <1>2, <1>3, <1>4 DEF WriterTyped
<1>6. ASSUME NEW s \in Stream PROVE FuturesSound(s)' /\ StageSound(s)'
  <2>1. FuturesSound(s) /\ StageSound(s)
    BY DEF WriterInv
  <2>2. ASSUME NEW k \in 1..put[s]
        PROVE  /\ future'[s][k] = "set" => InJournal(Events[s][k])'
               /\ future'[s][k] = "pending" => Held(s, k)'
               /\ future'[s][k] = "failed" => worker' = "failed"
    <3>1. /\ Asked(s, k) # Stop /\ EventOf(Asked(s, k)) = Events[s][k] /\ k \in 1..Len(future[s])
      BY AskedIsItem
    <3>2. Asked(s, k) \in Items(active) <=> \E i \in 1..Len(active) : active[i] = Asked(s, k)
      BY <1>2, <3>1 DEF Items, ToSet
    <3>3. CASE future[s][k] = "pending" /\ Asked(s, k) \in Items(active)
      <4>1. future'[s][k] = "set"
        BY <1>4, <3>1, <3>3
      <4>2. InJournal(Events[s][k])'
        BY <1>3, <3>1, <3>2, <3>3
      <4> QED BY <4>1, <4>2
    <3>4. CASE future[s][k] = "pending" /\ Asked(s, k) \notin Items(active)
      <4>1. future'[s][k] = "pending"
        BY <1>4, <3>1, <3>4
      <4>2. \E i \in 1..Len(queue) : queue[i] = Asked(s, k)
        BY <2>1, <3>2, <3>4 DEF FuturesSound, Held
      <4>3. Held(s, k)'
        BY <1>1, <4>2 DEF Held
      <4> QED BY <4>1, <4>3
    <3>5. CASE future[s][k] # "pending"
      BY <1>1, <1>3, <1>4, <2>1, <3>1, <3>5 DEF FuturesSound
    <3> QED BY <3>3, <3>4, <3>5
  <2>3. FuturesSound(s)'
    BY <1>1, <1>4, <2>1, <2>2 DEF FuturesSound
  <2>4. StageSound(s)'
    BY <1>1, <1>3, <2>1 DEF StageSound
  <2> QED BY <2>3, <2>4
<1>7. ActiveOrdered'
  BY <1>1 DEF ActiveOrdered
<1>8. QueueOrdered'
  <2>1. ASSUME NEW p \in 1..Len(queue), queue[p] # Stop, NEW i \in 1..queue[p].at - 1,
               NEW e, e = Events[queue[p].stream][i]
        PROVE  InJournal(e)' \/ InQueue(e, p - 1)'
    <3>1. InJournal(e) \/ InActive(e, Len(active)) \/ InQueue(e, p - 1)
      BY <1>2, <2>1 DEF QueueOrdered
    <3>2. InActive(e, Len(active)) => InJournal(e)'
      BY <1>3 DEF InActive
    <3>3. InQueue(e, p - 1) => InQueue(e, p - 1)'
      BY <1>1 DEF InQueue
    <3> QED BY <1>3, <3>1, <3>2, <3>3
  <2>2. queue' = queue
    BY <1>1
  <2> HIDE <1>1
  <2> QED BY <2>1, <2>2 DEF QueueOrdered, InJournal, InQueue
<1>9. ClosingSound'
  <2>1. stopping => ~accepting /\ queue = << >>
    BY <1>2 DEF ClosingSound, Closed
  <2>2. Closed' => Closed
    BY <1>1 DEF Closed
  <2> QED BY <1>1, <1>2, <2>1, <2>2 DEF ClosingSound
<1> QED BY <1>3, <1>5, <1>6, <1>7, <1>8, <1>9 DEF WriterInv

LEMMA AppendRetriesKeeps ==
  ASSUME WriterInv, AppendRetries
  PROVE  WriterInv'
<1>1. /\ worker = "append" /\ journal' \in {journal, Committed}
      /\ UNCHANGED <<queue, active, lock, accepting, worker, stopping, publisher, put, future,
                     handed, stopper>>
  BY DEF AppendRetries, items, calls
<1>2. /\ journal' \in Seq(Event) /\ JournalOnce' /\ JournalOrdered'
      /\ \A e : InJournal(e) => InJournal(e)'
  BY <1>1, JournalGrows
<1>3. WriterTyped'
  BY <1>1, <1>2 DEF WriterInv, WriterTyped
<1>4. ASSUME NEW s \in Stream PROVE FuturesSound(s)' /\ StageSound(s)'
  <2>1. FuturesSound(s) /\ StageSound(s)
    BY DEF WriterInv
  <2>2. \A k : Held(s, k) => Held(s, k)'
    BY <1>1 DEF Held
  <2>3. FuturesSound(s)'
    BY <1>1, <1>2, <2>1, <2>2 DEF FuturesSound
  <2>4. StageSound(s)'
    BY <1>1, <1>2, <2>1 DEF StageSound
  <2> QED BY <2>3, <2>4
<1>5. ActiveOrdered' /\ QueueOrdered'
  BY <1>1, <1>2, OrderStays DEF WriterInv
<1>6. ClosingSound'
  BY <1>1 DEF WriterInv, ClosingSound, Closed
<1> QED BY <1>2, <1>3, <1>4, <1>5, <1>6 DEF WriterInv

(* The except branch: every future that waits is told, whatever the commit. *)
LEMMA FailKeeps ==
  ASSUME WriterInv, Fail, worker \notin {"off", "ended", "failed"},
         \/ UNCHANGED <<lock, stopper>>
         \/ lock' = lock \ {Stop} /\ stopper' = "raised"
  PROVE  WriterInv'
<1>1. /\ worker' = "failed" /\ accepting' = FALSE /\ queue' = << >> /\ active' = << >>
      /\ future' = Settled(future, Items(active) \cup Items(queue), "failed")
      /\ journal' \in {journal, Committed}
      /\ UNCHANGED <<stopping, publisher, put, handed>>
  BY DEF Fail
<1>2. /\ WriterTyped /\ ClosingSound /\ active \in Seq(Item) /\ queue \in Seq(Item \cup {Stop})
  BY DEF WriterInv, WriterTyped
<1>3. /\ journal' \in Seq(Event) /\ JournalOnce' /\ JournalOrdered'
      /\ \A e : InJournal(e) => InJournal(e)'
  BY <1>1, JournalGrows
<1>4. /\ future' \in [Stream -> Seq({"pending", "set", "failed"})]
      /\ \A s \in Stream : Len(future'[s]) = Len(future[s])
      /\ \A s \in Stream : \A k \in 1..Len(future[s]) :
           future'[s][k] = IF /\ future[s][k] = "pending"
                              /\ Asked(s, k) \in Items(active) \cup Items(queue)
                           THEN "failed" ELSE future[s][k]
  BY <1>1, <1>2, SettledKeeps
<1>5. WriterTyped'
  <2>1. queue' \in Seq(Item \cup {Stop}) /\ active' \in Seq(Item)
    BY <1>1
  <2>2. lock' \in SUBSET (Stream \cup {Stop})
    BY <1>2 DEF WriterTyped
  <2>3. stopper' \in {"idle", "lock", "put", "await", "ok", "raised"}
    BY <1>2 DEF WriterTyped
  <2>4. UNCHANGED <<stopping, publisher, put, handed>> /\ worker' = "failed" /\ accepting' = FALSE
    BY <1>1
  <2> QED BY <1>2, <1>3, <1>4, <2>1, <2>2, <2>3, <2>4 DEF WriterTyped
<1>6. ASSUME NEW s \in Stream PROVE FuturesSound(s)' /\ StageSound(s)'
  <2>1. FuturesSound(s) /\ StageSound(s)
    BY DEF WriterInv
  <2>2. ASSUME NEW k \in 1..put[s]
        PROVE  /\ future'[s][k] = "set" => InJournal(Events[s][k])'
               /\ future'[s][k] # "pending"
    <3>1. Asked(s, k) # Stop /\ k \in 1..Len(future[s])
      BY AskedIsItem
    <3>2. future[s][k] = "pending" => Asked(s, k) \in Items(active) \cup Items(queue)
      BY <1>2, <2>1, <3>1 DEF FuturesSound, Held, Items, ToSet
    <3> QED BY <1>3, <1>4, <2>1, <3>1, <3>2 DEF FuturesSound
  <2>3. FuturesSound(s)'
    BY <1>1, <1>4, <2>1, <2>2 DEF FuturesSound
  <2>4. lock = {s} => lock' = {s}
    BY WriterAssumption
  <2>5. StageSound(s)'
    BY <1>1, <1>3, <2>1, <2>4 DEF StageSound
  <2> QED BY <2>3, <2>5
<1>7. ClosingSound'
  <2>1. Closed' => Closed
    BY <1>1 DEF Closed
  <2>2. lock = {} => lock' = {}
    OBVIOUS
  <2>3. stopper # "ok"
    BY <1>2 DEF ClosingSound
  <2> QED BY <1>1, <1>2, <2>1, <2>2, <2>3 DEF ClosingSound
<1> QED BY <1>1, <1>3, <1>5, <1>6, <1>7 DEF WriterInv
-----------------------------------------------------------------------------
(* stop, and the end of the process *)
LEMMA StopBeginsKeeps ==
  ASSUME WriterInv, StopBegins
  PROVE  WriterInv'
<1>1. /\ stopper = "idle" /\ worker # "off" /\ stopper' = "lock"
      /\ UNCHANGED <<journal, queue, active, lock, accepting, worker, stopping, publisher, put,
                     future, handed>>
  BY DEF StopBegins, items, calls
<1>2. WriterTyped'
  BY <1>1 DEF WriterInv, WriterTyped
<1>3. \A s \in Stream : StageSound(s)'
  BY <1>1, JournalStays DEF WriterInv, StageSound
<1>4. ClosingSound'
  BY <1>1 DEF WriterInv, ClosingSound, Closed
<1> QED BY <1>1, <1>2, <1>3, <1>4, ControlKeeps

LEMMA StopAcquiresKeeps ==
  ASSUME WriterInv, StopAcquires
  PROVE  WriterInv'
<1>1. /\ stopper = "lock" /\ lock = {} /\ accepting' = FALSE
      /\ \/ TaskDone /\ stopper' = "await" /\ lock' = lock
         \/ ~TaskDone /\ stopper' = "put" /\ lock' = {Stop}
      /\ UNCHANGED <<journal, queue, active, worker, stopping, publisher, put, future, handed>>
  BY DEF StopAcquires, items, calls
<1>2. WriterTyped'
  BY <1>1 DEF WriterInv, WriterTyped
<1>3. ASSUME NEW s \in Stream PROVE StageSound(s)'
  <2>1. StageSound(s) /\ publisher[s] # "put"
    BY <1>1 DEF WriterInv, StageSound
  <2> QED BY <1>1, <2>1, JournalStays DEF StageSound
<1>4. ClosingSound'
  <2>1. ClosingSound /\ ~Closed /\ worker # "off"
    BY <1>1 DEF WriterInv, ClosingSound
  <2> QED BY <1>1, <2>1 DEF ClosingSound, Closed
<1> QED BY <1>1, <1>2, <1>3, <1>4, ControlKeeps

LEMMA StopEnqueuesKeeps ==
  ASSUME WriterInv, StopEnqueues
  PROVE  WriterInv'
<1>1. /\ stopper = "put" /\ lock' = {}
      /\ UNCHANGED <<journal, accepting, worker, active, stopping, publisher, put, future, handed>>
  BY DEF StopEnqueues, calls
<1>2. /\ WriterTyped /\ ClosingSound /\ lock = {Stop} /\ ~Closed /\ worker # "off" /\ ~accepting
      /\ queue \in Seq(Item \cup {Stop}) /\ Len(queue) \in Nat
  BY <1>1 DEF WriterInv, WriterTyped, ClosingSound
<1>3. ASSUME NEW s \in Stream PROVE StageSound(s)'
  <2>1. StageSound(s) /\ publisher[s] # "put"
    BY <1>2, WriterAssumption DEF WriterInv, StageSound
  <2> QED BY <1>1, <2>1, JournalStays DEF StageSound
<1>4. CASE stopper' = "raised" /\ queue' = queue
  <2>1. WriterTyped'
    BY <1>1, <1>2, <1>4 DEF WriterTyped
  <2>2. ClosingSound'
    BY <1>1, <1>2, <1>4 DEF ClosingSound, Closed
  <2> QED BY <1>1, <1>3, <1>4, <2>1, <2>2, ControlKeeps
<1>5. CASE stopper' = "await" /\ queue' = Append(queue, Stop)
  <2>1. /\ queue' \in Seq(Item \cup {Stop}) /\ Len(queue') = Len(queue) + 1
        /\ queue'[Len(queue) + 1] = Stop
        /\ \A i \in 1..Len(queue) : queue'[i] = queue[i]
        /\ \A i \in 1..Len(queue') : i \in 1..Len(queue) \/ i = Len(queue) + 1
    BY <1>2, <1>5
  <2>2. /\ journal' \in Seq(Event) /\ JournalOnce' /\ JournalOrdered'
        /\ \A e : InJournal(e) <=> InJournal(e)'
    BY <1>1, JournalStays
  <2>3. WriterTyped'
    BY <1>1, <1>2, <1>5, <2>1 DEF WriterTyped
  <2>4. ASSUME NEW s \in Stream PROVE FuturesSound(s)'
    <3>1. \A k : Held(s, k) => Held(s, k)'
      BY <1>1, <1>2, <2>1 DEF Held
    <3> QED BY <1>1, <2>2, <3>1 DEF WriterInv, FuturesSound
  <2>5. ASSUME worker' # "failed" PROVE ActiveOrdered' /\ QueueOrdered'
    <3>1. ActiveOrdered /\ QueueOrdered /\ active' = active
      BY <1>1, <2>5 DEF WriterInv
    <3>2. ASSUME NEW p \in 1..Len(active'), NEW i \in 1..active'[p].at - 1,
                 NEW e, e = Events[active'[p].stream][i]
          PROVE  InJournal(e)' \/ InActive(e, p - 1)'
      <4>1. InJournal(e) \/ InActive(e, p - 1)
        BY <3>1, <3>2 DEF ActiveOrdered
      <4> QED BY <2>2, <3>1, <4>1 DEF InActive
    <3>3. ASSUME NEW p \in 1..Len(queue'), queue'[p] # Stop, NEW i \in 1..queue'[p].at - 1,
                 NEW e, e = Events[queue'[p].stream][i]
          PROVE  \/ InJournal(e)' \/ InQueue(e, p - 1)'
                 \/ \E j \in 1..Len(active') : EventOf(active'[j]) = e
      <4>1. p \in 1..Len(queue) /\ queue'[p] = queue[p]
        BY <2>1, <3>3
      <4>2. InJournal(e) \/ InActive(e, Len(active)) \/ InQueue(e, p - 1)
        BY <3>1, <3>3, <4>1 DEF QueueOrdered
      <4>3. \A j \in 1..p - 1 : j \in 1..Len(queue)
        BY <1>2, <4>1
      <4>4. InQueue(e, p - 1) => InQueue(e, p - 1)'
        BY <2>1, <4>3 DEF InQueue
      <4> QED BY <2>2, <3>1, <4>2, <4>4 DEF InActive
    <3> HIDE <1>1, <1>5
    <3>4. ActiveOrdered'
      BY <3>2 DEF ActiveOrdered, InJournal, InActive
    <3>5. QueueOrdered'
      BY <3>3 DEF QueueOrdered, InJournal, InActive, InQueue
    <3> QED BY <3>4, <3>5
  <2>6. ClosingSound'
    <3>1. \A i \in 1..Len(queue') : queue'[i] = Stop => i = Len(queue')
      BY <1>2, <2>1 DEF Closed
    <3> QED BY <1>1, <1>2, <1>5, <3>1 DEF ClosingSound, Closed
  <2> QED BY <1>3, <2>2, <2>3, <2>4, <2>5, <2>6 DEF WriterInv
<1> QED BY <1>4, <1>5 DEF StopEnqueues

LEMMA StopReturnsKeeps ==
  ASSUME WriterInv, StopReturns
  PROVE  WriterInv'
<1>1. /\ stopper = "await" /\ TaskDone /\ stopper' = IF worker = "ended" THEN "ok" ELSE "raised"
      /\ UNCHANGED <<journal, queue, active, lock, accepting, worker, stopping, publisher, put,
                     future, handed>>
  BY DEF StopReturns, items, calls
<1>2. WriterTyped'
  BY <1>1 DEF WriterInv, WriterTyped
<1>3. \A s \in Stream : StageSound(s)'
  BY <1>1, JournalStays DEF WriterInv, StageSound
<1>4. ClosingSound'
  BY <1>1 DEF WriterInv, ClosingSound, Closed, TaskDone
<1> QED BY <1>1, <1>2, <1>3, <1>4, ControlKeeps

LEMMA StopTimesOutKeeps ==
  ASSUME WriterInv, StopTimesOut
  PROVE  WriterInv'
<1>1. stopper \in {"lock", "put", "await"} /\ stopper' = "raised" /\ lock' = lock \ {Stop}
  BY DEF StopTimesOut
<1>2. worker # "off"
  BY <1>1 DEF WriterInv, ClosingSound
<1>3. CASE TaskDone
  <2>1. UNCHANGED <<journal, queue, active, accepting, worker, stopping, publisher, put, future,
                    handed>>
    BY <1>3 DEF StopTimesOut, items, calls
  <2>2. WriterTyped'
    BY <1>1, <2>1 DEF WriterInv, WriterTyped
  <2>3. ASSUME NEW s \in Stream PROVE StageSound(s)'
    <3>1. StageSound(s) /\ (lock = {s} => lock' = {s})
      BY <1>1, WriterAssumption DEF WriterInv
    <3> QED BY <2>1, <3>1, JournalStays DEF StageSound
  <2>4. ClosingSound'
    <3>1. ClosingSound /\ ~accepting /\ (lock = {} => lock' = {})
      BY <1>1, <1>3 DEF WriterInv, ClosingSound, TaskDone
    <3> QED BY <1>1, <1>2, <2>1, <3>1 DEF ClosingSound, Closed
  <2> QED BY <1>1, <2>1, <2>2, <2>3, <2>4, ControlKeeps
<1>4. CASE ~TaskDone
  BY <1>1, <1>2, <1>4, FailKeeps DEF StopTimesOut, TaskDone
<1> QED BY <1>3, <1>4

LEMMA ProcessEndsKeeps ==
  ASSUME WriterInv, ProcessEnds
  PROVE  WriterInv'
<1>1. /\ worker' = "off" /\ accepting' = FALSE /\ queue' = << >> /\ lock' = {} /\ active' = << >>
      /\ stopping' = FALSE /\ publisher' = [s \in Stream |-> "idle"]
      /\ put' = [s \in Stream |-> 0] /\ future' = [s \in Stream |-> << >>]
      /\ handed' = [s \in Stream |-> 0] /\ stopper' = "idle"
  BY DEF ProcessEnds, Fresh
<1>2. journal' \in Seq(Event) /\ JournalOnce' /\ JournalOrdered'
  <2>1. CASE worker = "append"
    BY <2>1, JournalGrows DEF ProcessEnds
  <2>2. CASE worker # "append"
    BY <2>2, JournalStays DEF ProcessEnds
  <2> QED BY <2>1, <2>2
<1>3. WriterTyped'
  <2>1. << >> \in Seq({"pending", "set", "failed"})
    OBVIOUS
  <2>2. future' \in [Stream -> Seq({"pending", "set", "failed"})]
    BY <1>1, <2>1
  <2>3. queue' \in Seq(Item \cup {Stop}) /\ active' \in Seq(Item)
    BY <1>1
  <2> QED BY <1>1, <1>2, <2>2, <2>3 DEF WriterTyped
<1>4. ASSUME NEW s \in Stream PROVE FuturesSound(s)' /\ StageSound(s)'
  <2>1. Len(Events[s]) \in Nat
    BY WriterAssumption
  <2> QED BY <1>1, <2>1 DEF FuturesSound, StageSound
<1>5. ActiveOrdered' /\ QueueOrdered'
  BY <1>1 DEF ActiveOrdered, QueueOrdered
<1>6. ClosingSound'
  BY <1>1 DEF ClosingSound, Closed
<1> QED BY <1>2, <1>3, <1>4, <1>5, <1>6 DEF WriterInv

LEMMA StartKeeps ==
  ASSUME WriterInv, Start
  PROVE  WriterInv'
<1>1. /\ worker = "off" /\ worker' = "get" /\ accepting' = TRUE
      /\ UNCHANGED <<journal, queue, active, lock, stopping, publisher, put, future, handed,
                     stopper>>
  BY DEF Start, items, calls
<1>2. WriterTyped'
  BY <1>1 DEF WriterInv, WriterTyped
<1>3. \A s \in Stream : StageSound(s)'
  BY <1>1, JournalStays DEF WriterInv, StageSound
<1>4. ClosingSound'
  BY <1>1 DEF WriterInv, ClosingSound, Closed
<1> QED BY <1>1, <1>2, <1>3, <1>4, ControlKeeps
-----------------------------------------------------------------------------
LEMMA WriterStarts ==
  ASSUME WriterInit
  PROVE  WriterInv
<1>1. WriterTyped
  <2>1. << >> \in Seq({"pending", "set", "failed"})
    OBVIOUS
  <2>2. future \in [Stream -> Seq({"pending", "set", "failed"})]
    BY <2>1 DEF WriterInit
  <2>3. journal \in Seq(Event) /\ queue \in Seq(Item \cup {Stop}) /\ active \in Seq(Item)
    BY DEF WriterInit
  <2> QED BY <2>2, <2>3 DEF WriterInit, WriterTyped
<1>2. ASSUME NEW s \in Stream PROVE FuturesSound(s) /\ StageSound(s)
  <2>1. Len(Events[s]) \in Nat
    BY WriterAssumption
  <2> QED BY <2>1 DEF WriterInit, FuturesSound, StageSound
<1>3. ActiveOrdered /\ QueueOrdered /\ JournalOnce /\ JournalOrdered
  BY DEF WriterInit, ActiveOrdered, QueueOrdered, JournalOnce, JournalOrdered
<1>4. ClosingSound
  BY DEF WriterInit, ClosingSound, Closed
<1> QED BY <1>1, <1>2, <1>3, <1>4 DEF WriterInv

LEMMA WriterStutters ==
  ASSUME WriterInv, UNCHANGED writer
  PROVE  WriterInv'
<1>1. UNCHANGED <<journal, queue, lock, accepting, worker, active, stopping, publisher, put, future,
                  handed, stopper>>
  BY DEF writer
<1>2. WriterTyped'
  BY <1>1 DEF WriterInv, WriterTyped
<1>3. \A s \in Stream : StageSound(s)'
  BY <1>1, JournalStays DEF WriterInv, StageSound
<1>4. ClosingSound'
  BY <1>1 DEF WriterInv, ClosingSound, Closed
<1> QED BY <1>1, <1>2, <1>3, <1>4, ControlKeeps

LEMMA WriterStepKeeps == WriterInv /\ [WriterNext]_writer => WriterInv'
<1> SUFFICES ASSUME WriterInv, [WriterNext]_writer PROVE WriterInv'
  OBVIOUS
<1>1. ASSUME NEW s \in Stream,
             Publish(s) \/ Acquire(s) \/ Enqueue(s) \/ Await(s) \/ Hand(s) \/ Cancel(s)
      PROVE  WriterInv'
  BY <1>1, PublishKeeps, AcquireKeeps, EnqueueKeeps, AwaitKeeps, HandKeeps, CancelKeeps
<1>2. CASE TakeFirst \/ TakeMore \/ Flush \/ AppendCommits \/ AppendRetries
  BY <1>2, TakeFirstKeeps, TakeMoreKeeps, FlushKeeps, AppendCommitsKeeps, AppendRetriesKeeps
<1>3. CASE AppendFails
  BY <1>3, FailKeeps DEF AppendFails
<1>4. CASE StopBegins \/ StopAcquires \/ StopEnqueues \/ StopReturns \/ StopTimesOut
  BY <1>4, StopBeginsKeeps, StopAcquiresKeeps, StopEnqueuesKeeps, StopReturnsKeeps,
     StopTimesOutKeeps
<1>5. CASE ProcessEnds \/ Start
  BY <1>5, ProcessEndsKeeps, StartKeeps
<1>6. CASE UNCHANGED writer
  BY <1>6, WriterStutters
<1> QED BY <1>1, <1>2, <1>3, <1>4, <1>5, <1>6 DEF WriterNext

LEMMA WriterIsSound == WriterSpec => []WriterInv
<1>1. WriterInit => WriterInv
  BY WriterStarts
<1>2. WriterInv /\ [WriterNext]_writer => WriterInv'
  BY WriterStepKeeps
<1> QED BY <1>1, <1>2, PTL DEF WriterSpec

(* What publish_many answered and what the router handed over is in the     *)
(* journal, once, and behind the earlier events of its call.                *)
THEOREM ToldIsDurable == WriterSpec => []JournalIsTrue
<1>1. WriterInv => JournalIsTrue
  <2> SUFFICES ASSUME WriterInv PROVE JournalIsTrue
    OBVIOUS
  <2>1. journal \in Seq(Event) /\ Len(journal) \in Nat /\ JournalOnce /\ JournalOrdered
    BY DEF WriterInv, WriterTyped
  <2>2. \A e : InJournal(e) <=> e \in ToSet(journal)
    BY <2>1 DEF InJournal, ToSet
  <2>3. ASSUME NEW s \in Stream
        PROVE  /\ publisher[s] \in {"hand", "ok"} => ToSet(Events[s]) \subseteq ToSet(journal)
               /\ \A k \in 1..handed[s] : Events[s][k] \in ToSet(journal)
    <3>1. StageSound(s) /\ Events[s] \in Seq(Event) /\ Len(Events[s]) \in Nat
          /\ handed[s] \in Nat /\ put[s] \in Nat
      BY WriterAssumption DEF WriterInv, WriterTyped
    <3>2. publisher[s] \in {"hand", "ok"} => ToSet(Events[s]) \subseteq ToSet(journal)
      <4>1. ASSUME publisher[s] \in {"hand", "ok"}, NEW e \in ToSet(Events[s])
            PROVE  e \in ToSet(journal)
        <5>1. PICK k \in 1..Len(Events[s]) : Events[s][k] = e
          BY <3>1 DEF ToSet
        <5> QED BY <2>2, <3>1, <4>1, <5>1 DEF StageSound
      <4> QED BY <4>1
    <3>3. ASSUME NEW k \in 1..handed[s] PROVE Events[s][k] \in ToSet(journal)
      <4>1. handed[s] # 0
        BY <3>1
      <4>2. publisher[s] = "hand"
        BY <3>1, <4>1 DEF WriterInv, WriterTyped, StageSound, Over
      <4>3. k \in 1..Len(Events[s])
        BY <3>1, <4>2 DEF StageSound
      <4> QED BY <2>2, <3>1, <4>2, <4>3 DEF StageSound
    <3> QED BY <3>2, <3>3
  <2>4. IsInjective(journal)
    BY <2>1 DEF IsInjective, JournalOnce
  <2>5. ASSUME NEW s \in Stream, NEW i \in 1..Len(Events[s]), NEW j \in 1..Len(Events[s]),
               i < j, Own(s, j), Events[s][j] \in ToSet(journal)
        PROVE  /\ Events[s][i] \in ToSet(journal)
               /\ Position(Events[s][i]) < Position(Events[s][j])
    <3>1. PICK p \in 1..Len(journal) : journal[p] = Events[s][j]
      BY <2>2, <2>5 DEF InJournal
    <3>2. i \in 1..j - 1
      BY <2>5
    <3>3. PICK q \in 1..p - 1 : journal[q] = Events[s][i]
      BY <2>1, <2>5, <3>1, <3>2 DEF JournalOrdered
    <3>4. q \in 1..Len(journal) /\ q < p
      BY <2>1, <3>1, <3>3
    <3>5. Position(Events[s][j]) = p
      BY <2>1, <3>1 DEF Position, JournalOnce
    <3>6. Position(Events[s][i]) = q
      BY <2>1, <3>3, <3>4 DEF Position, JournalOnce
    <3> QED BY <2>2, <3>3, <3>4, <3>5, <3>6 DEF InJournal
  <2> QED BY <2>3, <2>4, <2>5 DEF JournalIsTrue
<1> QED BY <1>1, WriterIsSound, PTL

(* A stop that returns normally leaves no accepted event behind.            *)
THEOREM StopDrains == WriterSpec => []CleanStop
<1>1. WriterInv => CleanStop
  <2> SUFFICES ASSUME WriterInv, stopper = "ok" PROVE CleanStop
    BY DEF CleanStop
  <2>1. worker = "ended" /\ queue = << >> /\ active = << >>
    BY DEF WriterInv, ClosingSound
  <2>2. ASSUME NEW s \in Stream, NEW k \in 1..Len(Events[s]), k <= put[s]
        PROVE  future[s][k] = "set" /\ Events[s][k] \in ToSet(journal)
    <3>1. k \in 1..put[s] /\ FuturesSound(s) /\ journal \in Seq(Event)
      BY <2>2 DEF WriterInv, WriterTyped
    <3>2. future[s][k] \in {"pending", "set", "failed"}
      BY <3>1, AskedIsItem
    <3>3. ~Held(s, k)
      BY <2>1 DEF Held
    <3>4. future[s][k] = "set" /\ InJournal(Events[s][k])
      BY <2>1, <3>1, <3>2, <3>3 DEF FuturesSound
    <3> QED BY <3>1, <3>4 DEF InJournal, ToSet
  <2> QED BY <2>1, <2>2 DEF CleanStop
<1> QED BY <1>1, WriterIsSound, PTL
-----------------------------------------------------------------------------
(* PART 2: the book of a stream                                             *)
Version == 1..LastVersion

Snapshot == [kind: {"snapshot"}, last: Version, ahead: BOOLEAN, time: Nat]

Row == [event: Snapshot \cup Delta, quality: Quality]

Book == [sequence: 0..LastVersion, time: Nat, quality: {"VALID", "CROSSED", "GAP", "RECOVERING"},
         image: -1..LastVersion, seen: SUBSET Delta]

Usable == {"VALID", "CROSSED"}

(* What comes from the venue: a delta names the version before its first or *)
(* none, and the time of a message is its version's, unless its clock ran   *)
(* ahead.                                                                   *)
Genuine(e) ==
  /\ e.kind = "delta" => (e.first <= e.last /\ e.prev \in {None, e.first - 1})
  /\ ~e.ahead => e.time = Time[e.last]

(* A usable book has the levels of its sequence; what it has seen is in it. *)
BookSound(b) ==
  /\ b.quality \in Usable => (b.image = b.sequence /\ b.sequence # None)
  /\ \A d \in b.seen : d.last <= b.sequence

(* The journal's row i is a delta that must be in the book of the runtime.  *)
Needed(i) ==
  /\ rows[i].event.kind = "delta" /\ rows[i].quality = "VALID"
  /\ rows[i].event.time >= engine.since
  /\ \A j \in i+1..engine.read : rows[j].event.kind # "snapshot"

FeedTyped ==
  /\ shape \in Shapes /\ shape \in [Version -> Usable]
  /\ linked \in BOOLEAN /\ conn \in {"down", "bare", "live"}
  /\ local \in Book
  /\ monitor \in [quality: Quality, last: 0..LastVersion, time: Nat]
  /\ rows \in Seq(Row)
  /\ engine \in [book: Book, quality: Quality, time: Nat, read: Nat, since: Nat]
  /\ engine.read <= Len(rows)

RowsSound ==
  \A i \in 1..Len(rows) :
    Genuine(rows[i].event) /\ (rows[i].quality = "VALID" => ~rows[i].event.ahead)

(* The runtime's book is as old as the last row it took, and that row is    *)
(* not younger than the book's version.                                     *)
EngineSound ==
  /\ BookSound(engine.book)
  /\ engine.book.time <= engine.time
  /\ engine.time # None =>
       (engine.book.sequence # None /\ engine.time <= Time[engine.book.sequence])
  /\ engine.quality = "VALID" => engine.book.quality = "VALID"
  /\ engine.book.quality \in Usable =>
       \A i \in 1..engine.read : Needed(i) => rows[i].event.last <= engine.book.sequence

FeedInv == FeedTyped /\ BookSound(local) /\ RowsSound /\ EngineSound
-----------------------------------------------------------------------------
(* A snapshot leaves a sound book, whose sequence is the snapshot's or      *)
(* which it leaves as it is but for its quality.                            *)
SnapshotTaken(b, s, out) ==
  /\ out.book \in Book /\ BookSound(out.book)
  /\ out.status \in {"APPLIED", "DUPLICATE", "REJECTED", "GAP"}
  /\ out.quality \in {"VALID", "CROSSED", "GAP", "RECOVERING", "INVALID"}
  /\ out.status = "APPLIED" => (out.book.sequence = s.last /\ out.book.time = s.time)
  /\ out.status = "DUPLICATE" => (out.book = b /\ s.last = b.sequence)
  /\ out.status \in {"REJECTED", "GAP"} =>
       (out.book.time = b.time /\ out.book.sequence = b.sequence)
  /\ out.status = "GAP" => out.book.quality = "GAP"
  /\ out.status = "REJECTED" => (out.book = b /\ s.time < b.time)
  /\ out.quality = "VALID" => out.book.quality = "VALID"

LEMMA SnapshotSound ==
  ASSUME NEW b \in Book, BookSound(b), NEW s \in Snapshot, NEW sh \in [Version -> Usable]
  PROVE  SnapshotTaken(b, s, ApplySnapshot(b, s, sh))
<1> USE DEF None, Wrong
<1>1. /\ s.last \in Version /\ s.time \in Nat /\ b.sequence \in 0..LastVersion
      /\ b.time \in Nat /\ s.last # Wrong /\ s.last # None /\ s.last \in 0..LastVersion
      /\ b.quality \in {"VALID", "CROSSED", "GAP", "RECOVERING"} /\ s.last \in -1..LastVersion
  BY FeedAssumption DEF Snapshot, Book, Version
<1>g. SnapshotTaken(b, s, Gap(b))
  <2>1. /\ Gap(b).book = [b EXCEPT !.quality = "GAP"]
        /\ Gap(b).status = "GAP" /\ Gap(b).quality = "GAP"
    BY DEF Gap, Outcome
  <2>2. [b EXCEPT !.quality = "GAP"] \in Book
    BY DEF Book
  <2> QED BY <1>1, <2>1, <2>2 DEF SnapshotTaken, BookSound, Book, Usable
<1>2. CASE s.time < b.time
  BY <1>1, <1>2 DEF ApplySnapshot, Outcome, SnapshotTaken
<1>3. CASE ~(s.time < b.time) /\ s.last = b.sequence /\ s.time = b.time /\ b.image = s.last
  <2>1. ApplySnapshot(b, s, sh) = Outcome(b, "DUPLICATE", b.quality)
    BY <1>3 DEF ApplySnapshot
  <2> QED BY <1>1, <1>3, <2>1 DEF Outcome, SnapshotTaken
<1>4. CASE ~(s.time < b.time) /\ s.last = b.sequence /\ s.time = b.time /\ b.image # s.last
  BY <1>4, <1>g DEF ApplySnapshot
<1>5. CASE ~(s.time < b.time) /\ ~(s.last = b.sequence /\ s.time = b.time)
  <2> DEFINE quality == Refreshed(s.last, sh)
             new == [sequence |-> s.last, time |-> s.time, image |-> s.last, seen |-> {},
                     quality |-> quality]
  <2>1. ApplySnapshot(b, s, sh) = Outcome(new, "APPLIED", quality)
    BY <1>5 DEF ApplySnapshot
  <2>2. quality \in Usable
    BY <1>1 DEF Refreshed
  <2>3. /\ new.sequence = s.last /\ new.time = s.time /\ new.image = s.last
        /\ new.seen = {} /\ new.quality = quality
    OBVIOUS
  <2>4. new \in Book
    BY <1>1, <2>2 DEF Book, Usable
  <2> HIDE DEF new, quality
  <2>5. BookSound(new)
    BY <1>1, <2>3 DEF BookSound
  <2>6. SnapshotTaken(b, s, [book |-> new, status |-> "APPLIED", quality |-> quality])
    BY <1>1, <2>2, <2>3, <2>4, <2>5 DEF SnapshotTaken, Usable
  <2> QED BY <2>1, <2>6 DEF Outcome
<1> QED BY <1>2, <1>3, <1>4, <1>5

(* What a delta may make of a book: it never takes the sequence back, and   *)
(* what is reported applied or repeated is in the book.                     *)
DeltaTaken(b, d, out) ==
  /\ out.book \in Book /\ BookSound(out.book)
  /\ out.status \in {"APPLIED", "DUPLICATE", "REJECTED", "GAP"}
  /\ out.quality \in {"VALID", "CROSSED", "GAP", "RECOVERING", "INVALID"}
  /\ out.status = "APPLIED" =>
       (/\ out.book.sequence = d.last /\ out.book.time = d.time
        /\ b.sequence < d.last /\ b.quality \in Usable)
  /\ out.status = "DUPLICATE" =>
       (out.book = b /\ d.last <= b.sequence /\ b.sequence # None)
  /\ out.status \in {"REJECTED", "GAP"} =>
       (out.book.time = b.time /\ out.book.sequence = b.sequence)
  /\ out.status = "GAP" => out.book.quality = "GAP"
  /\ out.status = "REJECTED" => (out.book = b /\ d.time < b.time)
  /\ out.quality = "VALID" => out.book.quality = "VALID"

LEMMA DeltaSound ==
  ASSUME NEW b \in Book, BookSound(b), NEW d \in Delta, Genuine(d),
         NEW sh \in [Version -> Usable]
  PROVE  DeltaTaken(b, d, ApplyDelta(b, d, sh))
<1> USE DEF None, Wrong
<1>1. /\ d.last \in 2..LastVersion /\ d.first \in 2..LastVersion /\ d.time \in Nat
      /\ d.prev \in 0..LastVersion /\ d.kind = "delta"
      /\ b.sequence \in 0..LastVersion /\ b.time \in Nat /\ b.image \in -1..LastVersion
      /\ b.quality \in {"VALID", "CROSSED", "GAP", "RECOVERING"} /\ LastVersion \in Nat
      /\ b.seen \in SUBSET Delta
  BY FeedAssumption DEF Delta, Book
<1>2. d.first <= d.last /\ d.prev \in {0, d.first - 1}
  BY <1>1 DEF Genuine
<1>3. \A e \in b.seen : e.last <= b.sequence /\ e.last \in Nat
  BY <1>1 DEF BookSound, Delta
<1>g. DeltaTaken(b, d, Gap(b))
  <2>1. /\ Gap(b).book = [b EXCEPT !.quality = "GAP"]
        /\ Gap(b).status = "GAP" /\ Gap(b).quality = "GAP"
    BY DEF Gap, Outcome
  <2>2. [b EXCEPT !.quality = "GAP"] \in Book
    BY DEF Book
  <2> QED BY <1>1, <1>3, <2>1, <2>2 DEF DeltaTaken, BookSound, Book, Usable
<1>d. ASSUME d.last <= b.sequence PROVE DeltaTaken(b, d, Outcome(b, "DUPLICATE", b.quality))
  BY <1>1, <1>d DEF DeltaTaken, Outcome
<1>r. ASSUME d.time < b.time PROVE DeltaTaken(b, d, Outcome(b, "REJECTED", "INVALID"))
  BY <1>1, <1>r DEF DeltaTaken, Outcome
<1> DEFINE image == Patched(b.image, d)
           quality == Refreshed(image, sh)
           new == [sequence |-> d.last, time |-> d.time, image |-> image,
                   seen |-> b.seen \cup {d}, quality |-> quality]
<1>a. ASSUME Contiguous(b, d), b.quality \in Usable
      PROVE  DeltaTaken(b, d, Outcome(new, "APPLIED", quality))
  <2>1. b.image = b.sequence
    BY <1>a DEF BookSound
  <2>2. b.sequence \in d.first - 1 .. d.last - 1
    BY <1>1, <1>2, <1>a DEF Contiguous
  <2>3. image = d.last
    BY <1>1, <2>1, <2>2 DEF Patched
  <2>4. quality \in Usable
    BY <1>1, <2>3 DEF Refreshed, Version
  <2>5. /\ new.sequence = d.last /\ new.time = d.time /\ new.image = d.last
        /\ new.seen = b.seen \cup {d} /\ new.quality = quality
    BY <2>3
  <2>6. new \in Book
    BY <1>1, <2>3, <2>4 DEF Book, Usable
  <2>7. BookSound(new)
    BY <1>1, <1>3, <2>2, <2>5 DEF BookSound
  <2> HIDE DEF new, quality, image
  <2>8. DeltaTaken(b, d, [book |-> new, status |-> "APPLIED", quality |-> quality])
    BY <1>1, <1>a, <2>2, <2>4, <2>5, <2>6, <2>7 DEF DeltaTaken, Usable
  <2> QED BY <2>8 DEF Outcome
<1> HIDE DEF new, quality, image
<1>4. CASE b.sequence = None \/ b.quality \in {"GAP", "INVALID", "RECOVERING", "UNAVAILABLE"}
  BY <1>4, <1>g DEF ApplyDelta
<1>5. CASE ~(b.sequence = None \/ b.quality \in {"GAP", "INVALID", "RECOVERING", "UNAVAILABLE"})
  <2>1. b.quality \in Usable
    BY <1>1, <1>5 DEF Usable
  <2>2. CASE d \in b.seen
    BY <1>3, <1>5, <1>d, <2>2 DEF ApplyDelta
  <2>3. CASE /\ d \notin b.seen
             /\ d.last <= b.sequence /\ ~(d.prev = b.sequence /\ d.last < b.sequence)
    BY <1>5, <1>d, <1>g, <2>3 DEF ApplyDelta
  <2>4. CASE /\ d \notin b.seen
             /\ ~(d.last <= b.sequence /\ ~(d.prev = b.sequence /\ d.last < b.sequence))
    <3>1. CASE d.time < b.time
      BY <1>5, <1>r, <2>4, <3>1 DEF ApplyDelta
    <3>2. CASE ~(d.time < b.time) /\ ~Contiguous(b, d)
      BY <1>5, <1>g, <2>4, <3>2 DEF ApplyDelta
    <3>3. CASE ~(d.time < b.time) /\ Contiguous(b, d)
      <4>1. ApplyDelta(b, d, sh) = Outcome(new, "APPLIED", quality)
        BY <1>5, <2>4, <3>3 DEF ApplyDelta, new, quality, image
      <4> QED BY <1>a, <2>1, <3>3, <4>1
    <3> QED BY <3>1, <3>2, <3>3
  <2> QED BY <2>2, <2>3, <2>4
<1> QED BY <1>4, <1>5
-----------------------------------------------------------------------------
(* A message is judged by what it is; nothing from the future is VALID.     *)
LEMMA ObservedSound ==
  ASSUME FeedTyped, NEW e \in Snapshot \cup Delta, NEW source \in Quality
  PROVE  /\ Observe(monitor, e, source).quality \in Quality
         /\ Observe(monitor, e, source).state
              \in [quality: Quality, last: 0..LastVersion, time: Nat]
         /\ Observe(monitor, e, source).quality = "VALID" => ~e.ahead
<1> DEFINE State == [quality: Quality, last: 0..LastVersion, time: Nat]
<1>1. /\ e.last \in Version /\ e.last \in 0..LastVersion /\ e.time \in Nat
      /\ e.ahead \in BOOLEAN /\ monitor \in State
      /\ shape[e.last] \in Quality
  <2>1. e.last \in Version /\ e.time \in Nat /\ e.ahead \in BOOLEAN
    BY FeedAssumption DEF Snapshot, Delta, Version
  <2>2. shape[e.last] \in Usable
    BY <2>1 DEF FeedTyped
  <2> QED BY <2>1, <2>2, FeedAssumption DEF Version, Usable, Quality, FeedTyped
<1>2. monitor.quality \in Quality /\ monitor.last \in 0..LastVersion
  BY <1>1
<1>3. ASSUME NEW q \in Quality, NEW l \in 0..LastVersion
      PROVE  /\ Observed(monitor, q, l, e.time).quality = q
             /\ Observed(monitor, q, l, e.time).state \in State
  <2>1. [quality |-> q, last |-> l, time |-> e.time] \in State
    BY <1>1
  <2> QED BY <2>1 DEF Observed
<1>4. DeltaQuality(monitor, e) \in Quality /\ "INVALID" \in Quality
  BY DEF DeltaQuality, Quality
<1> HIDE DEF State
<1>5. CASE e.ahead
  <2>1. Observe(monitor, e, source) = Observed(monitor, "INVALID", monitor.last, e.time)
    BY <1>5 DEF Observe
  <2> QED BY <1>2, <1>3, <1>4, <2>1 DEF State
<1>6. CASE ~e.ahead /\ e.time < monitor.time
  <2>1. Observe(monitor, e, source) = [quality |-> "INVALID", state |-> monitor]
    BY <1>6 DEF Observe
  <2>2. /\ Observe(monitor, e, source).quality = "INVALID"
        /\ Observe(monitor, e, source).state = monitor
    BY <2>1
  <2> QED BY <1>1, <1>4, <2>2 DEF State
<1>7. CASE ~e.ahead /\ ~(e.time < monitor.time) /\ source # "VALID"
  <2>1. Observe(monitor, e, source) = Observed(monitor, source, monitor.last, e.time)
    BY <1>7 DEF Observe
  <2> QED BY <1>2, <1>3, <1>7, <2>1 DEF State
<1>8. CASE ~e.ahead /\ ~(e.time < monitor.time) /\ source = "VALID" /\ e.kind = "snapshot"
  <2>1. Observe(monitor, e, source) = Observed(monitor, shape[e.last], e.last, e.time)
    BY <1>8 DEF Observe
  <2>2. e.last \in 0..LastVersion /\ shape[e.last] \in Quality
    BY <1>1
  <2>3. /\ Observed(monitor, shape[e.last], e.last, e.time).quality = shape[e.last]
        /\ Observed(monitor, shape[e.last], e.last, e.time).state \in State
    BY <1>3, <2>2
  <2> QED BY <1>8, <2>1, <2>2, <2>3 DEF State
<1>9. CASE ~e.ahead /\ ~(e.time < monitor.time) /\ source = "VALID" /\ e.kind # "snapshot"
  <2> DEFINE q == DeltaQuality(monitor, e)
             l == IF q = "VALID" THEN e.last ELSE monitor.last
  <2>1. Observe(monitor, e, source) = Observed(monitor, q, l, e.time)
    BY <1>9 DEF Observe
  <2>2. l \in 0..LastVersion
    BY <1>1, <1>2
  <2> QED BY <1>3, <1>4, <1>9, <2>1, <2>2 DEF State
<1> QED BY <1>5, <1>6, <1>7, <1>8, <1>9

(* What both kinds of message have in common for who applies them. *)
Taken(b, e, out) ==
  /\ out.book \in Book /\ BookSound(out.book)
  /\ out.status \in {"APPLIED", "DUPLICATE", "REJECTED", "GAP"}
  /\ out.quality \in {"VALID", "CROSSED", "GAP", "RECOVERING", "INVALID"}
  /\ out.status = "APPLIED" =>
       (/\ out.book.sequence = e.last /\ out.book.time = e.time
        /\ e.kind = "delta" => (b.sequence < e.last /\ b.quality \in Usable))
  /\ out.status = "DUPLICATE" =>
       (out.book = b /\ e.last <= b.sequence /\ b.sequence # None)
  /\ out.status \in {"REJECTED", "GAP"} =>
       (out.book.time = b.time /\ out.book.sequence = b.sequence)
  /\ out.status = "GAP" => out.book.quality = "GAP"
  /\ out.status = "REJECTED" => (out.book = b /\ e.time < b.time)
  /\ out.quality = "VALID" => out.book.quality = "VALID"

LEMMA ApplySound ==
  ASSUME NEW b \in Book, BookSound(b), NEW e \in Snapshot \cup Delta, Genuine(e),
         NEW sh \in [Version -> Usable]
  PROVE  Taken(b, e, Apply(b, e, sh))
<1>1. CASE e \in Snapshot
  <2>1. e.kind = "snapshot" /\ e.last \in Version
    BY <1>1 DEF Snapshot
  <2>2. SnapshotTaken(b, e, Apply(b, e, sh))
    BY <1>1, <2>1, SnapshotSound DEF Apply
  <2>3. b.sequence \in Int
    BY FeedAssumption DEF Book
  <2> QED BY <2>1, <2>2, <2>3, FeedAssumption DEF SnapshotTaken, Taken, Version, None
<1>2. CASE e \in Delta
  <2>1. e.kind = "delta"
    BY <1>2 DEF Delta
  <2>2. DeltaTaken(b, e, Apply(b, e, sh))
    BY <1>2, <2>1, DeltaSound DEF Apply
  <2> QED BY <2>1, <2>2 DEF DeltaTaken, Taken
<1> QED BY <1>1, <1>2

LEMMA NewBookSound ==
  NewBook \in Book /\ BookSound(NewBook)
BY FeedAssumption DEF NewBook, Book, BookSound, None, Wrong, Usable
-----------------------------------------------------------------------------
(* The journal only grows: what the runtime has read stays as it is.        *)
LEMMA EngineStays ==
  ASSUME FeedTyped, EngineSound, NEW r \in Row, rows' = rows \/ rows' = Append(rows, r),
         engine' = engine
  PROVE  EngineSound'
<1>1. /\ engine.read \in Nat /\ engine.read <= Len(rows) /\ rows \in Seq(Row)
  BY DEF FeedTyped
<1>2. ASSUME NEW i \in 1..engine.read PROVE rows'[i] = rows[i]
  BY <1>1
<1>3. ASSUME NEW i \in 1..engine.read, Needed(i)' PROVE Needed(i)
  BY <1>1, <1>2, <1>3 DEF Needed
<1> QED BY <1>2, <1>3 DEF EngineSound

LEMMA DeliverKeeps ==
  ASSUME FeedInv, NEW e \in Snapshot \cup Delta, Genuine(e), Deliver(e)
  PROVE  FeedInv'
<1> DEFINE out == Apply(local, e, shape)
<1>1. /\ local \in Book /\ BookSound(local) /\ shape \in [Version -> Usable]
      /\ rows \in Seq(Row)
  BY DEF FeedInv, FeedTyped
<1>2. Taken(local, e, out)
  BY <1>1, ApplySound
<1> HIDE DEF out
<1>3. local' = out.book /\ local' \in Book /\ BookSound(local')
  BY <1>2 DEF Deliver, Taken, out
<1>4. UNCHANGED <<shape, linked, engine>> /\ conn' \in {"down", "bare", "live"}
  BY DEF Deliver, market
<1>5. Published(e, out.quality) \/ UNCHANGED <<monitor, rows>>
  BY DEF Deliver, out
<1>6. out.quality \in Quality
  BY <1>2 DEF Taken, Quality
<1> DEFINE seen == Observe(monitor, e, out.quality)
           r == [event |-> e, quality |-> seen.quality]
<1>7. /\ seen.quality \in Quality
      /\ seen.state \in [quality: Quality, last: 0..LastVersion, time: Nat]
      /\ seen.quality = "VALID" => ~e.ahead
  BY <1>6, ObservedSound DEF FeedInv
<1>8. /\ monitor' = seen.state \/ monitor' = monitor
      /\ rows' = rows \/ rows' = Append(rows, r)
  BY <1>5 DEF Published
<1>9. r \in Row
  BY <1>7 DEF Row
<1>10. r.event = e /\ r.quality = seen.quality
  OBVIOUS
<1> HIDE DEF r, seen
<1>11. FeedTyped'
  <2>1. rows' \in Seq(Row) /\ Len(rows) <= Len(rows')
    BY <1>1, <1>8, <1>9
  <2>2. engine.read <= Len(rows) /\ engine.read \in Nat /\ Len(rows) \in Nat /\ Len(rows') \in Nat
    BY <1>1, <2>1 DEF FeedInv, FeedTyped
  <2>3. engine'.read <= Len(rows')
    BY <1>4, <2>1, <2>2
  <2>4. monitor' \in [quality: Quality, last: 0..LastVersion, time: Nat]
    BY <1>7, <1>8 DEF FeedInv, FeedTyped
  <2> QED BY <1>3, <1>4, <2>1, <2>3, <2>4 DEF FeedInv, FeedTyped
<1>12. RowsSound'
  <2>1. ASSUME NEW i \in 1..Len(rows'), rows' = Append(rows, r)
        PROVE  IF i \in 1..Len(rows) THEN rows'[i] = rows[i] ELSE rows'[i] = r
    BY <1>1, <1>9, <2>1
  <2>2. CASE rows' = Append(rows, r)
    BY <1>7, <1>10, <2>1, <2>2 DEF FeedInv, RowsSound, Genuine
  <2>3. CASE rows' = rows
    BY <2>3 DEF FeedInv, RowsSound
  <2> QED BY <1>8, <2>2, <2>3
<1>13. EngineSound'
  BY <1>4, <1>8, <1>9, EngineStays DEF FeedInv
<1> QED BY <1>3, <1>11, <1>12, <1>13 DEF FeedInv

LEMMA SnapshotGenuine ==
  ASSUME NEW v \in Version, NEW ahead \in BOOLEAN
  PROVE  SnapshotOf(v, ahead) \in Snapshot /\ Genuine(SnapshotOf(v, ahead))
BY FeedAssumption DEF SnapshotOf, Snapshot, Genuine, Version

LEMMA DeltaGenuine ==
  ASSUME NEW f \in 2..LastVersion, NEW l \in 2..LastVersion, f <= l, NEW ahead \in BOOLEAN,
         NEW d, d = [kind |-> "delta", first |-> f, last |-> l, ahead |-> ahead,
                     prev |-> IF linked THEN f - 1 ELSE None,
                     time |-> IF ahead THEN Time[LastVersion] + 1 ELSE Time[l]]
  PROVE  d \in Delta /\ Genuine(d)
<1>1. /\ Time[LastVersion] + 1 \in Nat /\ Time[l] \in Nat
      /\ f - 1 \in 0..LastVersion /\ 0 \in 0..LastVersion
  BY FeedAssumption
<1>2. d \in Delta
  BY <1>1 DEF Delta, None
<1> QED BY <1>2 DEF Genuine
-----------------------------------------------------------------------------
(* The runtime reads a row: a book that is usable stays complete, since a   *)
(* row it skips as too old is of a version it has.                          *)
LEMMA ReadRowKeeps ==
  ASSUME FeedInv, ReadRow
  PROVE  FeedInv'
<1> DEFINE n == engine.read + 1
           row == rows[n]
           e == row.event
           g == IF e.time < engine.since THEN engine ELSE Processed(engine, row)
           b == engine.book
           out == Apply(b, e, shape)
<1>1. /\ shape \in [Version -> Usable] /\ rows \in Seq(Row)
      /\ engine \in [book: Book, quality: Quality, time: Nat, read: Nat, since: Nat]
      /\ engine.read \in Nat /\ n \in Nat /\ n <= Len(rows) /\ n = engine.read + 1
      /\ UNCHANGED <<shape, skewed, linked, conn, local, monitor, rows>>
  BY DEF FeedInv, FeedTyped, ReadRow, market
<1>2. row = rows[n] /\ e = row.event /\ b = engine.book /\ engine' = [g EXCEPT !.read = @ + 1]
  BY DEF ReadRow
<1>3. \/ (e.time < engine.since /\ g = engine)
      \/ (~(e.time < engine.since) /\ g = Processed(engine, row))
  OBVIOUS
<1> HIDE DEF n, row, g
<1>4. n \in 1..Len(rows) /\ row \in Row
  BY <1>1, <1>2
<1>5. /\ e \in Snapshot \cup Delta /\ row.quality \in Quality
      /\ Genuine(e) /\ (row.quality = "VALID" => ~e.ahead)
  BY <1>2, <1>4 DEF FeedInv, RowsSound, Row
<1> HIDE DEF e
<1>6. /\ b \in Book /\ BookSound(b)
  BY <1>1 DEF FeedInv, EngineSound
<1>7. Taken(b, e, out)
  BY <1>1, <1>5, <1>6, ApplySound
<1>8. \/ e.time < engine.time /\ Processed(engine, row) = engine
      \/ /\ ~(e.time < engine.time) /\ row.quality # "VALID"
         /\ Processed(engine, row) = [engine EXCEPT !.quality = row.quality]
      \/ /\ ~(e.time < engine.time) /\ row.quality = "VALID"
         /\ Processed(engine, row) =
              [engine EXCEPT !.book = out.book, !.quality = out.quality,
                             !.time = IF out.status \in {"APPLIED", "DUPLICATE"}
                                      THEN e.time ELSE @]
  BY <1>2 DEF Processed
<1> HIDE DEF b, out
<1>9. /\ e.time \in Nat /\ engine.time \in Nat /\ engine.since \in Nat /\ b.time \in Nat
      /\ b.sequence \in 0..LastVersion /\ b.sequence \in Int
      /\ e.last \in Version /\ e.last \in Int /\ e.kind \in {"snapshot", "delta"}
  <2>1. e.time \in Nat /\ e.last \in Version /\ e.kind \in {"snapshot", "delta"}
    BY <1>5, FeedAssumption DEF Snapshot, Delta, Version
  <2> QED BY <1>1, <1>6, <2>1, FeedAssumption DEF Book, Version
<1>10. b.time <= engine.time
  BY <1>2 DEF FeedInv, EngineSound
(* What is needed of the rows before, and of this one.                      *)
<1>11. ASSUME engine'.read = n, engine'.since = engine.since
       PROVE  /\ \A i \in 1..engine.read : Needed(i)' => (Needed(i) /\ e.kind = "delta")
              /\ \A i \in 1..n : (i = n /\ Needed(i)') =>
                   (e.kind = "delta" /\ row.quality = "VALID" /\ ~(e.time < engine.since))
              /\ \A i \in 1..n : i \in 1..engine.read \/ i = n
  <2>1. ASSUME NEW i \in 1..engine.read, Needed(i)' PROVE Needed(i) /\ e.kind = "delta"
    <3>1. /\ rows[i].event.kind = "delta" /\ rows[i].quality = "VALID"
          /\ rows[i].event.time >= engine.since
          /\ \A j \in i+1..n : rows[j].event.kind # "snapshot"
      BY <1>1, <1>11, <2>1 DEF Needed
    <3>2. n \in i+1..n /\ \A j \in i+1..engine.read : j \in i+1..n
      BY <1>1
    <3> QED BY <1>2, <1>9, <3>1, <3>2 DEF Needed
  <2>2. ASSUME NEW i \in 1..n, i = n, Needed(i)'
        PROVE  e.kind = "delta" /\ row.quality = "VALID" /\ ~(e.time < engine.since)
    <3>1. /\ rows'[i].event.kind = "delta" /\ rows'[i].quality = "VALID"
          /\ rows'[i].event.time >= engine'.since
      BY <2>2 DEF Needed
    <3>2. rows'[i] = row /\ engine'.since = engine.since
      BY <1>1, <1>2, <1>11, <2>2
    <3> QED BY <1>2, <1>9, <3>1, <3>2
  <2> QED BY <1>1, <2>1, <2>2
<1> DEFINE Before == \A i \in 1..engine.read : Needed(i)' => (Needed(i) /\ e.kind = "delta")
           This == \A i \in 1..n : (i = n /\ Needed(i)') =>
                     (e.kind = "delta" /\ row.quality = "VALID" /\ ~(e.time < engine.since))
           Cut == \A i \in 1..n : i \in 1..engine.read \/ i = n
           Complete == b.quality \in Usable =>
                         \A i \in 1..engine.read : Needed(i) => rows[i].event.last <= b.sequence
<1>c. Complete
  BY <1>2 DEF FeedInv, EngineSound
<1>12. CASE g = engine /\ (e.time < engine.since \/ e.time < engine.time)
  <2>1. /\ engine'.read = n /\ engine'.since = engine.since /\ engine'.book = b
        /\ engine'.time = engine.time /\ engine'.quality = engine.quality
        /\ engine' \in [book: Book, quality: Quality, time: Nat, read: Nat, since: Nat]
    BY <1>1, <1>2, <1>12
  <2>2. ASSUME NEW i \in 1..n, i = n, Needed(i)' PROVE e.last <= b.sequence
    <3>0. row.quality = "VALID" /\ ~(e.time < engine.since)
      BY <1>11, <2>1, <2>2
    <3>1. e.time < engine.time /\ ~e.ahead /\ e.time = Time[e.last]
      BY <1>5, <1>12, <3>0 DEF Genuine
    <3>2. b.sequence \in Version /\ engine.time <= Time[b.sequence]
      BY <1>2, <1>9, <3>1, FeedAssumption DEF FeedInv, EngineSound, None, Version
    <3>3. Time[e.last] \in Nat /\ Time[b.sequence] \in Nat
      BY <1>9, <3>2, FeedAssumption DEF Version
    <3>4. b.sequence < e.last => Time[b.sequence] <= Time[e.last]
      BY <1>9, <3>2, FeedAssumption DEF Version
    <3> QED BY <1>9, <3>1, <3>2, <3>3, <3>4
  <2>3. ASSUME b.quality \in Usable, NEW i \in 1..n, Needed(i)'
        PROVE  rows[i].event.last <= b.sequence
    <3>1. Before /\ Cut
      BY <1>11, <2>1
    <3> QED BY <1>2, <1>c, <2>2, <2>3, <3>1
  <2>4. EngineSound'
    BY <1>1, <1>2, <2>1, <2>3 DEF FeedInv, EngineSound
  <2> QED BY <1>1, <2>1, <2>4 DEF FeedInv, FeedTyped, RowsSound
<1>13. CASE g = [engine EXCEPT !.quality = row.quality] /\ row.quality # "VALID"
  <2>1. /\ engine'.read = n /\ engine'.since = engine.since /\ engine'.book = b
        /\ engine'.time = engine.time /\ engine'.quality = row.quality
        /\ engine' \in [book: Book, quality: Quality, time: Nat, read: Nat, since: Nat]
    BY <1>1, <1>2, <1>5, <1>13
  <2>2. ASSUME b.quality \in Usable, NEW i \in 1..n, Needed(i)'
        PROVE  rows[i].event.last <= b.sequence
    <3>1. Before /\ Cut /\ This
      BY <1>11, <2>1
    <3> QED BY <1>2, <1>c, <1>13, <2>2, <3>1
  <2>3. EngineSound'
    BY <1>1, <1>2, <1>13, <2>1, <2>2 DEF FeedInv, EngineSound
  <2> QED BY <1>1, <2>1, <2>3 DEF FeedInv, FeedTyped, RowsSound
<1> DEFINE t == IF out.status \in {"APPLIED", "DUPLICATE"} THEN e.time ELSE engine.time
<1>14. CASE /\ ~(e.time < engine.time) /\ row.quality = "VALID"
            /\ g = [engine EXCEPT !.book = out.book, !.quality = out.quality, !.time = t]
  <2>1. out.book \in Book /\ out.quality \in Quality /\ t \in Nat
    BY <1>7, <1>9 DEF Taken, Quality
  <2>2. /\ engine'.read = n /\ engine'.since = engine.since /\ engine'.book = out.book
        /\ engine'.time = t /\ engine'.quality = out.quality
        /\ engine' \in [book: Book, quality: Quality, time: Nat, read: Nat, since: Nat]
    BY <1>1, <1>2, <1>14, <2>1
  <2>3. e.time = Time[e.last] /\ out.status \in {"APPLIED", "DUPLICATE", "GAP"}
    BY <1>5, <1>7, <1>9, <1>10, <1>14 DEF Genuine, Taken
  <2>4. out.book.time <= t
    BY <1>7, <1>9, <1>10, <1>14 DEF Taken
  <2>5. ASSUME t # None
        PROVE  out.book.sequence # None /\ t <= Time[out.book.sequence]
    <3>1. CASE out.status = "APPLIED"
      BY <1>7, <1>9, <2>3, <3>1, FeedAssumption DEF Taken, Version, None
    <3>2. CASE out.status = "DUPLICATE"
      <4>1. t = e.time /\ out.book = b /\ e.last <= b.sequence /\ b.sequence \in Version
        BY <1>7, <1>9, <3>2 DEF Taken, None, Version
      <4>2. Time[e.last] \in Nat /\ (e.last < b.sequence => Time[e.last] <= Time[b.sequence])
        BY <1>9, <4>1, FeedAssumption DEF Version
      <4> QED BY <1>9, <2>3, <4>1, <4>2 DEF None, Version
    <3>3. CASE out.status = "GAP"
      <4>1. t = engine.time /\ out.book.sequence = b.sequence
        BY <1>7, <3>3 DEF Taken
      <4> QED BY <1>2, <2>5, <4>1 DEF FeedInv, EngineSound
    <3> QED BY <2>3, <3>1, <3>2, <3>3
  <2>6. ASSUME out.book.quality \in Usable, NEW i \in 1..n, Needed(i)'
        PROVE  rows[i].event.last <= out.book.sequence
    <3>0. Before /\ Cut /\ This
      BY <1>11, <2>2
    <3>1. e.kind = "delta" /\ out.status \in {"APPLIED", "DUPLICATE"}
      BY <1>7, <2>3, <2>6, <3>0 DEF Taken, Usable
    <3>2. e.last <= out.book.sequence /\ b.sequence <= out.book.sequence /\ b.quality \in Usable
      BY <1>7, <1>9, <2>6, <3>1 DEF Taken
    <3>3. CASE i = n
      BY <1>2, <3>2, <3>3
    <3>4. CASE i \in 1..engine.read
      <4>1. rows[i].event.last <= b.sequence
        BY <1>c, <2>6, <3>0, <3>2, <3>4
      <4>2. rows[i] \in Row
        BY <1>1, <3>4
      <4>3. rows[i].event.last \in Int /\ out.book.sequence \in Int
        <5>1. rows[i].event \in Snapshot \cup Delta
          BY <4>2 DEF Row
        <5>2. rows[i].event.last \in Int
          BY <5>1, FeedAssumption DEF Snapshot, Delta, Version
        <5> QED BY <2>1, <5>2, FeedAssumption DEF Book
      <4> QED BY <1>9, <3>2, <4>1, <4>3
    <3> QED BY <2>6, <3>0, <3>3, <3>4
  <2>7. EngineSound'
    BY <1>1, <1>7, <2>2, <2>4, <2>5, <2>6 DEF EngineSound, Taken
  <2> QED BY <1>1, <2>2, <2>7 DEF FeedInv, FeedTyped, RowsSound
<1> QED BY <1>3, <1>8, <1>12, <1>13, <1>14
-----------------------------------------------------------------------------
LEMMA FeedNextKeeps ==
  ASSUME FeedInv, [FeedNext]_feed
  PROVE  FeedInv'
<1>1. CASE Connect
  BY <1>1, NewBookSound DEF Connect, FeedInv, FeedTyped, RowsSound, EngineSound, Needed, market
<1>2. CASE ReceiveSnapshot
  <2>1. PICK v \in 1..LastVersion, ahead \in BOOLEAN : Deliver(SnapshotOf(v, ahead))
    BY <1>2 DEF ReceiveSnapshot
  <2> QED BY <2>1, SnapshotGenuine, DeliverKeeps DEF Version
<1>3. CASE ReceiveDelta
  <2>1. PICK f \in 2..LastVersion, l \in 2..LastVersion, ahead \in BOOLEAN :
               /\ f <= l
               /\ Deliver([kind |-> "delta", first |-> f, last |-> l, ahead |-> ahead,
                           prev |-> IF linked THEN f - 1 ELSE None,
                           time |-> IF ahead THEN Time[LastVersion] + 1 ELSE Time[l]])
    BY <1>3 DEF ReceiveDelta
  <2> QED BY <2>1, DeltaGenuine, DeliverKeeps
<1>4. CASE Disconnect
  BY <1>4 DEF Disconnect, FeedInv, FeedTyped, RowsSound, EngineSound, Needed, market
<1>5. CASE ReadRow
  BY <1>5, ReadRowKeeps
<1>6. CASE ServiceRestarts
  <2>1. PICK since \in {0, Time[LastVersion]} : engine' = [NewEngine EXCEPT !.since = since]
    BY <1>6 DEF ServiceRestarts
  <2>2. since \in Nat
    BY FeedAssumption
  <2>3. /\ engine'.book = NewBook /\ engine'.quality = "UNAVAILABLE" /\ engine'.time = 0
        /\ engine'.read = 0
        /\ engine' \in [book: Book, quality: Quality, time: Nat, read: Nat, since: Nat]
    BY <2>1, <2>2, NewBookSound DEF NewEngine, None, Quality
  <2>4. NewMonitor \in [quality: Quality, last: 0..LastVersion, time: Nat]
    BY FeedAssumption DEF NewMonitor, None, Quality
  <2>5. NewBook.time = 0 /\ NewBook.quality = "RECOVERING"
    BY DEF NewBook, None
  <2>6. EngineSound'
    BY <2>3, <2>5, NewBookSound DEF EngineSound, None
  <2> QED BY <1>6, <2>3, <2>4, <2>6, NewBookSound
          DEF ServiceRestarts, FeedInv, FeedTyped, RowsSound, market
<1>7. CASE UNCHANGED feed
  BY <1>7 DEF feed, market, FeedInv, FeedTyped, RowsSound, EngineSound, Needed
<1> QED BY <1>1, <1>2, <1>3, <1>4, <1>5, <1>6, <1>7 DEF FeedNext

LEMMA FeedInitSound ==
  FeedInit => FeedInv
<1> SUFFICES ASSUME FeedInit PROVE FeedInv
  OBVIOUS
<1>1. shape \in Shapes /\ shape \in [Version -> Usable]
  BY FeedAssumption DEF FeedInit, Version, Usable
<1>2. NewMonitor \in [quality: Quality, last: 0..LastVersion, time: Nat]
  BY FeedAssumption DEF NewMonitor, None, Quality
<1>3. /\ NewEngine.book = NewBook /\ NewEngine.quality = "UNAVAILABLE" /\ NewEngine.time = 0
      /\ NewEngine.read = 0
      /\ NewEngine \in [book: Book, quality: Quality, time: Nat, read: Nat, since: Nat]
  BY NewBookSound DEF NewEngine, None, Quality
<1>4. NewBook.time = 0 /\ NewBook.quality = "RECOVERING"
  BY DEF NewBook, None
<1>5. EngineSound
  BY <1>3, <1>4, NewBookSound DEF FeedInit, EngineSound, None
<1> QED BY <1>1, <1>2, <1>3, <1>5, NewBookSound DEF FeedInit, FeedInv, FeedTyped, RowsSound

(* Every variable of the feed keeps its type. *)
THEOREM FeedIsTyped == FeedSpec => []FeedTypeOK
<1>1. ASSUME FeedInv PROVE FeedTypeOK
  <2>1. /\ shape \in Shapes /\ linked \in BOOLEAN /\ conn \in {"down", "bare", "live"}
        /\ local \in Book /\ engine.book \in Book /\ engine.read \in 0..Len(rows)
        /\ engine.quality \in Quality /\ monitor.quality \in Quality
        /\ monitor.last \in 0..LastVersion
    BY <1>1 DEF FeedInv, FeedTyped
  <2>2. ASSUME NEW i \in 1..Len(rows)
        PROVE  rows[i].quality \in Quality /\ rows[i].event.last \in 1..LastVersion
    <3>1. rows[i] \in Row
      BY <1>1 DEF FeedInv, FeedTyped
    <3>2. rows[i].quality \in Quality /\ rows[i].event \in Snapshot \cup Delta
      BY <3>1 DEF Row
    <3> QED BY <3>2, FeedAssumption DEF Snapshot, Delta, Version
  <2>3. \A b \in Book : /\ b.quality \in Quality /\ b.sequence \in 0..LastVersion
                        /\ b.image \in -1..LastVersion
    BY DEF Book, Quality
  <2> QED BY <2>1, <2>2, <2>3 DEF FeedTypeOK
<1> QED BY <1>1, FeedInitSound, FeedNextKeeps, PTL DEF FeedSpec

(* However messages are lost, repeated, reordered or late, connections      *)
(* break and the service restarts: a book that calls itself VALID, the      *)
(* adapter's or the runtime's, has the levels of its sequence, and the      *)
(* runtime's misses nothing that the monitor let through.                   *)
THEOREM UsableBooksAreExact == FeedSpec => []BooksAreExact
<1>1. FeedInv => BooksAreExact
  BY DEF FeedInv, FeedTyped, EngineSound, BookSound, BooksAreExact, NothingMissed, Needed, Usable
<1> QED BY <1>1, FeedInitSound, FeedNextKeeps, PTL DEF FeedSpec
-----------------------------------------------------------------------------
(* PART 3: the replication                                                  *)
(* A pass under way knows a cursor the durable one has reached; the rows    *)
(* between it and the batch were deleted, and a batch that was written is   *)
(* in the sink.                                                             *)
PassIsSound(r) ==
  replica[r].at # "idle" =>
    /\ replica[r].cursor <= checkpoint
    /\ replica[r].cursor < replica[r].first
    /\ replica[r].first <= replica[r].last
    /\ replica[r].last <= stored
    /\ replica[r].first - 1 <= replica[r].cursor \/ replica[r].first - 1 <= trimmed
    /\ replica[r].at = "written" => Rows(r) \subseteq typed

(* The inductive invariant. *)
ReplicationInv == ReplicationTypeOK /\ NothingSkipped /\ \A r \in Replicator : PassIsSound(r)
-----------------------------------------------------------------------------
(* The journal and the sink grow, the cursor does not go back: a pass that  *)
(* is not touched stays sound.                                              *)
LEMMA SoundStays ==
  ASSUME ReplicationTypeOK, NEW r \in Replicator, PassIsSound(r),
         replica'[r] = replica[r],
         stored' \in Nat, trimmed' \in Nat, checkpoint' \in Nat,
         stored' >= stored, trimmed' >= trimmed, checkpoint' >= checkpoint,
         typed \subseteq typed'
  PROVE  PassIsSound(r)'
<1>1. /\ stored \in Nat /\ trimmed \in Nat /\ checkpoint \in Nat
      /\ replica[r].cursor \in Nat /\ replica[r].first \in Nat /\ replica[r].last \in Nat
  BY ReplicationAssumption DEF ReplicationTypeOK, Pass
<1> QED BY <1>1 DEF PassIsSound, Rows

(* The rows below the cursor stay where they are. *)
LEMMA SkippedStays ==
  ASSUME ReplicationTypeOK, NothingSkipped, trimmed' \in Nat, trimmed' >= trimmed,
         typed \subseteq typed', checkpoint' = checkpoint
  PROVE  NothingSkipped'
BY ReplicationAssumption DEF ReplicationTypeOK, NothingSkipped

(* A pass that ends leaves nothing to be sound about. *)
LEMMA IdleIsSound ==
  ASSUME NEW r \in Replicator, replica'[r] = Idle
  PROVE  PassIsSound(r)'
BY DEF PassIsSound, Idle

LEMMA IdleIsPass == Idle \in Pass
BY ReplicationAssumption DEF Idle, Pass
-----------------------------------------------------------------------------
LEMMA ReplicationStarts == ReplicationInit => ReplicationInv
<1> SUFFICES ASSUME ReplicationInit PROVE ReplicationInv
  OBVIOUS
<1>1. ReplicationTypeOK
  BY IdleIsPass, ReplicationAssumption DEF ReplicationInit, ReplicationTypeOK
<1>2. NothingSkipped
  BY DEF ReplicationInit, NothingSkipped
<1>3. ASSUME NEW r \in Replicator PROVE PassIsSound(r)
  BY DEF ReplicationInit, PassIsSound, Idle
<1> QED BY <1>1, <1>2, <1>3 DEF ReplicationInv

(* A row is appended, or rows are deleted. *)
LEMMA JournalKeeps ==
  ASSUME ReplicationInv, AppendRow \/ TrimRows
  PROVE  ReplicationInv' /\ checkpoint' >= checkpoint
<1>1. /\ stored' \in Nat /\ stored' >= stored /\ stored' <= MaxStored
      /\ trimmed' \in 0..stored' /\ trimmed' >= trimmed
  BY ReplicationAssumption DEF ReplicationInv, ReplicationTypeOK, AppendRow, TrimRows
<1>2. checkpoint' = checkpoint /\ raw' = raw /\ typed' = typed /\ replica' = replica
  BY DEF AppendRow, TrimRows
<1>3. ReplicationTypeOK'
  BY <1>1, <1>2, ReplicationAssumption DEF ReplicationInv, ReplicationTypeOK
<1>4. checkpoint' >= checkpoint /\ checkpoint' \in Nat
  BY <1>2, ReplicationAssumption DEF ReplicationInv, ReplicationTypeOK
<1>5. NothingSkipped'
  BY <1>1, <1>2, SkippedStays DEF ReplicationInv
<1>6. ASSUME NEW r \in Replicator PROVE PassIsSound(r)'
  BY <1>1, <1>2, <1>4, SoundStays DEF ReplicationInv
<1> QED BY <1>3, <1>4, <1>5, <1>6 DEF ReplicationInv

(* A pass begins behind the cursor, or behind what was deleted. *)
LEMMA LoadKeeps ==
  ASSUME ReplicationInv, NEW r \in Replicator, Load(r)
  PROVE  ReplicationInv' /\ checkpoint' >= checkpoint
<1> DEFINE first == (IF trimmed > checkpoint THEN trimmed ELSE checkpoint) + 1
           last == IF first + Batch - 1 < stored THEN first + Batch - 1 ELSE stored
           begun == [at |-> "loaded", cursor |-> checkpoint, first |-> first, last |-> last]
<1>1. /\ stored \in 0..MaxStored /\ trimmed \in 0..stored /\ checkpoint \in 0..stored
      /\ MaxStored \in Nat /\ Batch \in Nat \ {0}
  BY ReplicationAssumption DEF ReplicationInv, ReplicationTypeOK
<1>2. UNCHANGED durable
  BY DEF Load
<1>3. ASSUME NEW s \in Replicator, replica'[s] = replica[s] PROVE PassIsSound(s)'
  BY <1>1, <1>2, <1>3, SoundStays DEF ReplicationInv, durable
<1>4. NothingSkipped'
  BY <1>1, <1>2, SkippedStays DEF ReplicationInv, durable
<1>5. CASE replica' = replica
  BY <1>1, <1>2, <1>3, <1>4, <1>5 DEF ReplicationInv, ReplicationTypeOK, durable
<1>6. CASE first <= stored /\ replica' = [replica EXCEPT ![r] = begun]
  <2>1. first \in 1..MaxStored /\ last \in 0..MaxStored /\ first <= last /\ last <= stored
    BY <1>1, <1>6
  <2>2. begun \in Pass
    BY <1>1, <2>1 DEF Pass
  <2>3. ReplicationTypeOK'
    BY <1>2, <1>6, <2>2 DEF ReplicationInv, ReplicationTypeOK, durable
  <2>4. replica'[r] = begun
    BY <1>6 DEF ReplicationInv, ReplicationTypeOK
  <2>5. PassIsSound(r)'
    BY <1>1, <1>2, <2>1, <2>4 DEF PassIsSound, durable
  <2>6. ASSUME NEW s \in Replicator PROVE PassIsSound(s)'
    BY <1>3, <1>6, <2>5 DEF ReplicationInv, ReplicationTypeOK
  <2> QED BY <1>1, <1>2, <1>4, <2>3, <2>6 DEF ReplicationInv, durable
<1> QED BY <1>1, <1>5, <1>6 DEF Load

(* Rows reach the sink; those of a pass that goes on reach all of it. *)
LEMMA WriteKeeps ==
  ASSUME ReplicationInv, NEW r \in Replicator, Write(r) \/ WriteFails(r)
  PROVE  ReplicationInv' /\ checkpoint' >= checkpoint
<1>1. /\ replica[r].at = "loaded" /\ replica[r] \in Pass
      /\ UNCHANGED <<stored, trimmed, checkpoint>>
  BY DEF ReplicationInv, ReplicationTypeOK, Write, WriteFails
<1>2. /\ stored \in Nat /\ trimmed \in Nat /\ checkpoint \in Nat /\ MaxStored \in Nat
      /\ replica[r].first \in Nat /\ replica[r].last \in Nat /\ replica[r].cursor \in Nat
  BY <1>1, ReplicationAssumption DEF ReplicationInv, ReplicationTypeOK, Pass
<1>3. Rows(r) \subseteq 1..stored
  BY <1>1, <1>2 DEF ReplicationInv, PassIsSound, Rows
<1>4. /\ typed \subseteq typed' /\ raw' \subseteq 1..stored /\ typed' \subseteq raw'
      /\ Write(r) => typed' = typed \cup Rows(r)
  BY <1>3 DEF ReplicationInv, ReplicationTypeOK, Write, WriteFails
<1>5. replica' \in [Replicator -> Pass]
  <2>1. CASE Write(r)
    <3>1. [replica[r] EXCEPT !.at = "written"] \in Pass
      BY <1>1 DEF Pass
    <3> QED BY <2>1, <3>1 DEF Write, ReplicationInv, ReplicationTypeOK
  <2>2. CASE WriteFails(r)
    BY <2>2, IdleIsPass DEF WriteFails, ReplicationInv, ReplicationTypeOK
  <2> QED BY <2>1, <2>2
<1>6. ReplicationTypeOK'
  BY <1>1, <1>4, <1>5 DEF ReplicationInv, ReplicationTypeOK
<1>7. NothingSkipped'
  BY <1>1, <1>2, <1>4, SkippedStays DEF ReplicationInv
<1>8. PassIsSound(r)'
  <2>1. CASE Write(r)
    <3>1. replica'[r] = [replica[r] EXCEPT !.at = "written"]
      BY <2>1 DEF Write, ReplicationInv, ReplicationTypeOK
    <3>2. /\ replica'[r].cursor = replica[r].cursor /\ replica'[r].first = replica[r].first
          /\ replica'[r].last = replica[r].last
      BY <1>1, <3>1 DEF Pass
    <3> QED BY <1>1, <1>4, <2>1, <3>2 DEF ReplicationInv, PassIsSound, Rows
  <2>2. CASE WriteFails(r)
    BY <2>2, IdleIsSound DEF WriteFails, ReplicationInv, ReplicationTypeOK
  <2> QED BY <2>1, <2>2
<1>9. ASSUME NEW s \in Replicator PROVE PassIsSound(s)'
  <2>1. s # r => replica'[s] = replica[s]
    BY DEF Write, WriteFails, ReplicationInv, ReplicationTypeOK
  <2> QED BY <1>1, <1>2, <1>4, <1>8, <2>1, SoundStays DEF ReplicationInv
<1> QED BY <1>1, <1>2, <1>6, <1>7, <1>9 DEF ReplicationInv

(* The cursor moves over a batch the sink has, from where the pass began. *)
LEMMA AdvanceKeeps ==
  ASSUME ReplicationInv, NEW r \in Replicator, Advance(r) \/ PassFails(r)
  PROVE  ReplicationInv' /\ checkpoint' >= checkpoint
<1>1. /\ replica[r].at # "idle" /\ replica[r] \in Pass
      /\ UNCHANGED <<stored, trimmed, raw, typed>>
      /\ replica' = [replica EXCEPT ![r] = Idle]
  BY DEF ReplicationInv, ReplicationTypeOK, Advance, PassFails, durable
<1>2. /\ stored \in Nat /\ trimmed \in Nat /\ checkpoint \in 0..stored /\ MaxStored \in Nat
      /\ replica[r].first \in Nat /\ replica[r].last \in Nat /\ replica[r].cursor \in Nat
  BY <1>1, ReplicationAssumption DEF ReplicationInv, ReplicationTypeOK, Pass
<1>3. \/ checkpoint' = checkpoint
      \/ /\ checkpoint = replica[r].cursor /\ checkpoint' = replica[r].last
         /\ replica[r].at = "written"
  BY DEF Advance, PassFails, durable
<1>4. checkpoint' \in 0..stored /\ checkpoint' >= checkpoint
  BY <1>1, <1>2, <1>3 DEF ReplicationInv, PassIsSound
<1>5. ReplicationTypeOK'
  BY <1>1, <1>4, IdleIsPass DEF ReplicationInv, ReplicationTypeOK
<1>6. NothingSkipped'
  <2>1. CASE checkpoint' = checkpoint
    BY <1>1, <1>2, <2>1, SkippedStays DEF ReplicationInv
  <2>2. CASE /\ checkpoint = replica[r].cursor /\ checkpoint' = replica[r].last
             /\ replica[r].at = "written"
    <3> SUFFICES ASSUME NEW i \in 1..checkpoint' PROVE i \in typed \/ i <= trimmed
      BY <1>1 DEF NothingSkipped
    <3>1. CASE i <= checkpoint
      BY <1>2, <3>1 DEF ReplicationInv, NothingSkipped
    <3>2. CASE i > checkpoint /\ i < replica[r].first
      BY <1>1, <1>2, <2>2, <3>2 DEF ReplicationInv, PassIsSound
    <3>3. CASE i >= replica[r].first
      BY <1>1, <1>2, <2>2, <3>3 DEF ReplicationInv, PassIsSound, Rows
    <3> QED BY <1>2, <1>4, <3>1, <3>2, <3>3
  <2> QED BY <1>3, <2>1, <2>2
<1>7. ASSUME NEW s \in Replicator PROVE PassIsSound(s)'
  <2>1. replica'[r] = Idle /\ (s # r => replica'[s] = replica[s])
    BY <1>1 DEF ReplicationInv, ReplicationTypeOK
  <2> QED BY <1>1, <1>2, <1>4, <2>1, IdleIsSound, SoundStays DEF ReplicationInv
<1> QED BY <1>4, <1>5, <1>6, <1>7 DEF ReplicationInv

LEMMA ReplicationKeeps ==
  ASSUME ReplicationInv, [ReplicationNext]_replication
  PROVE  ReplicationInv' /\ checkpoint' >= checkpoint
<1>1. CASE UNCHANGED replication
  <2>1. /\ stored' = stored /\ trimmed' = trimmed /\ checkpoint' = checkpoint
        /\ raw' = raw /\ typed' = typed /\ replica' = replica
    BY <1>1 DEF replication, durable
  <2> QED BY <2>1, ReplicationAssumption
        DEF ReplicationInv, ReplicationTypeOK, NothingSkipped, PassIsSound, Rows
<1> QED BY <1>1, JournalKeeps, LoadKeeps, WriteKeeps, AdvanceKeeps DEF ReplicationNext
-----------------------------------------------------------------------------
LEMMA ReplicationSound == ReplicationSpec => []ReplicationInv
<1>1. ReplicationInv /\ [ReplicationNext]_replication => ReplicationInv'
  BY ReplicationKeeps
<1> QED BY ReplicationStarts, <1>1, PTL DEF ReplicationSpec

(* ReplicationTypeOK: the cursor and the sink never run ahead of the        *)
(* journal. *)
THEOREM ReplicationTyped == ReplicationSpec => []ReplicationTypeOK
<1>1. ReplicationInv => ReplicationTypeOK
  BY DEF ReplicationInv
<1> QED BY ReplicationSound, <1>1, PTL

(* NothingSkipped: whatever fails, and however many replicators run, the    *)
(* durable cursor (_advance_cursor) never passes a row the sink does not    *)
(* have in every table, but for rows that retention deleted. *)
THEOREM SinkIsComplete == ReplicationSpec => []NothingSkipped
<1>1. ReplicationInv => NothingSkipped
  BY DEF ReplicationInv
<1> QED BY ReplicationSound, <1>1, PTL

(* CursorMovesOn: the compare and swap keeps a slow replicator from setting *)
(* the cursor back. *)
THEOREM CursorNeverGoesBack == ReplicationSpec => CursorMovesOn
<1>1. ReplicationInv /\ [ReplicationNext]_replication => [checkpoint' >= checkpoint]_replication
  BY ReplicationKeeps
<1> QED BY ReplicationSound, <1>1, PTL DEF ReplicationSpec, CursorMovesOn
=============================================================================
