------------------------------ MODULE BookFeed ------------------------------
(***************************************************************************)
(* One instrument's order book from the venue to the strategies.  The       *)
(* adapter's client keeps a LocalOrderBook per connection                  *)
(* (exchanges, orderbook.py) and publishes every message with the quality *)
(* that book found; the router asks the DataQualityMonitor, writes the     *)
(* event to the journal and lets the monitor observe it; the multi-regime  *)
(* runtime reads the journal by row id and rebuilds a book of its own.     *)
(* Messages are lost, repeated and overtaken; connections break and start  *)
(* from a snapshot that may be older than what was already seen; clocks    *)
(* run ahead; the journal refuses a write; the service restarts.           *)
(***************************************************************************)
EXTENDS LocalOrderBook, Sequences

CONSTANTS
  LastVersion,  \* bound: versions of the venue's book
  MaxRows,     \* bound: rows of this stream in the journal
  MaxSkewed,   \* bound: of the messages, how many are from the future
  Time,        \* Time[v]: the venue's timestamp of version v; equal ones happen
  Shapes       \* which versions may be crossed

ASSUME FeedAssumption ==
  /\ LastVersion \in Nat \ {0}
  /\ MaxRows \in Nat /\ MaxSkewed \in Nat
  /\ Time \in [1..LastVersion -> Nat \ {0}]
  /\ \A v, w \in 1..LastVersion : v < w => Time[v] <= Time[w]
  /\ Shapes \subseteq [1..LastVersion -> {"VALID", "CROSSED"}]

VARIABLES
  shape,    \* what the venue's versions look like
  skewed,   \* messages whose clock ran ahead so far
  linked,   \* deltas name the sequence before them (OKX, Bybit, MEXC, Binance futures)
  conn,     \* the client's connection: "down", "bare" until the snapshot, "live"
  local,    \* the adapter's LocalOrderBook
  monitor,  \* the DataQualityMonitor's state of the stream
  rows,     \* the stream's rows in the canonical journal
  engine    \* the runtime's state of the instrument and its place in the journal

market == <<shape, linked>>
feed == <<market, skewed, conn, local, monitor, rows, engine>>

Delta == [kind: {"delta"}, first: 2..LastVersion, last: 2..LastVersion, prev: 0..LastVersion,
          time: Nat, ahead: BOOLEAN]

FeedTypeOK ==
  /\ shape \in Shapes
  /\ linked \in BOOLEAN
  /\ conn \in {"down", "bare", "live"}
  /\ local.quality \in Quality /\ local.sequence \in 0..LastVersion /\ local.image \in -1..LastVersion
  /\ monitor.quality \in Quality /\ monitor.last \in 0..LastVersion
  /\ \A i \in 1..Len(rows) : rows[i].quality \in Quality /\ rows[i].event.last \in 1..LastVersion
  /\ engine.quality \in Quality /\ engine.read \in 0..Len(rows)
  /\ engine.book.sequence \in 0..LastVersion /\ engine.book.image \in -1..LastVersion
-----------------------------------------------------------------------------
(* DataQualityMonitor                                                       *)
NewMonitor == [quality |-> "RECOVERING", last |-> None, time |-> None]

(* Plausible bug: a repeated delta's status is returned for its quality. *)
DeltaQualityOrStatus(m, d) ==
  IF m.quality \in {"GAP", "CROSSED", "INVALID"} \/ m.last = None THEN "RECOVERING"
  ELSE IF d.last <= m.last THEN "DUPLICATE"
  ELSE IF d.prev # None /\ d.prev # m.last THEN "GAP"
  ELSE IF d.prev = None /\ d.first > m.last + 1 THEN "GAP"
  ELSE "VALID"

(* _delta_quality *)
DeltaQuality(m, d) ==
  IF m.quality \in {"GAP", "CROSSED", "INVALID"} \/ m.last = None THEN "RECOVERING"
  ELSE IF d.last <= m.last THEN "VALID"
  ELSE IF d.prev # None /\ d.prev # m.last THEN "GAP"
  ELSE IF d.prev = None /\ d.first > m.last + 1 THEN "GAP"
  ELSE "VALID"

Observed(m, quality, last, time) ==
  [quality |-> quality, state |-> [quality |-> quality, last |-> last, time |-> time]]

(* Plausible bug: the source's own quality is not looked at. *)
ObserveOnlySequence(m, e, source) ==
  IF e.time < m.time THEN [quality |-> "INVALID", state |-> m]
  ELSE IF e.kind = "snapshot" THEN Observed(m, shape[e.last], e.last, e.time)
  ELSE LET q == DeltaQuality(m, e)
       IN  Observed(m, q, IF q = "VALID" THEN e.last ELSE m.last, e.time)

(* _observe_state: an event from the future, one older than the last, one   *)
(* whose source had doubts, and then snapshots and deltas.                  *)
Observe(m, e, source) ==
  IF e.ahead THEN Observed(m, "INVALID", m.last, e.time)
  ELSE IF e.time < m.time THEN [quality |-> "INVALID", state |-> m]
  ELSE IF source # "VALID" THEN Observed(m, source, m.last, e.time)
  ELSE IF e.kind = "snapshot" THEN Observed(m, shape[e.last], e.last, e.time)
  ELSE LET q == DeltaQuality(m, e)
       IN  Observed(m, q, IF q = "VALID" THEN e.last ELSE m.last, e.time)
-----------------------------------------------------------------------------
(* CanonicalEventRouter.publish_many and the idempotent append: the row has *)
(* the previewed quality; a delta the journal already has (its id is        *)
(* derived from what it says) is observed, and not stored again.            *)
AlreadyStored(e) == e.kind = "delta" /\ \E i \in 1..Len(rows) : rows[i].event = e

Published(e, source) ==
  LET seen == Observe(monitor, e, source)
  IN  /\ monitor' = seen.state
      /\ rows' = IF AlreadyStored(e) THEN rows
                 ELSE Append(rows, [event |-> e, quality |-> seen.quality])

(* The client applies a message to its book and publishes it; a gap, and on *)
(* Binance and MEXC a rejection, ends the connection; so does an event the  *)
(* writer could not make durable.                                           *)
Deliver(e) ==
  /\ Len(rows) < MaxRows
  /\ skewed' = skewed + (IF e.ahead THEN 1 ELSE 0)
  /\ skewed' <= MaxSkewed
  /\ LET out == Apply(local, e, shape)
         bad == {"GAP"} \cup (IF linked THEN {} ELSE {"REJECTED"})
     IN  /\ local' = out.book
         /\ \/ /\ Published(e, out.quality)
               /\ conn' = IF out.status \in bad THEN "down" ELSE "live"
            \/ conn' = "down" /\ UNCHANGED <<monitor, rows>>
  /\ UNCHANGED <<market, engine>>

SnapshotOf(v, ahead) ==
  [kind |-> "snapshot", last |-> v, ahead |-> ahead,
   time |-> IF ahead THEN Time[LastVersion] + 1 ELSE Time[v]]

(* A new connection has a new book and begins with a snapshot: fetched by   *)
(* REST, or the first frame.  It may be a version already passed.           *)
Connect ==
  /\ conn = "down"
  /\ conn' = "bare"
  /\ local' = NewBook
  /\ UNCHANGED <<market, skewed, monitor, rows, engine>>

ReceiveSnapshot ==
  /\ conn = "bare"
  /\ \E v \in 1..LastVersion, ahead \in BOOLEAN : Deliver(SnapshotOf(v, ahead))

(* Deltas of the past, in whatever order the network has made of them.      *)
ReceiveDelta ==
  /\ conn = "live" \/ (conn = "bare" /\ linked)
  /\ \E f, l \in 2..LastVersion, ahead \in BOOLEAN :
       /\ f <= l
       /\ Deliver([kind |-> "delta", first |-> f, last |-> l, ahead |-> ahead,
                   prev |-> IF linked THEN f - 1 ELSE None,
                   time |-> IF ahead THEN Time[LastVersion] + 1 ELSE Time[l]])

Disconnect ==
  /\ conn # "down"
  /\ conn' = "down"
  /\ UNCHANGED <<market, skewed, local, monitor, rows, engine>>
-----------------------------------------------------------------------------
(* MultiRegimeEngine._process of one row of this stream.                    *)
NewEngine == [book |-> NewBook, quality |-> "UNAVAILABLE", time |-> None, read |-> 0,
              since |-> 0]

Processed(g, row) ==
  IF row.event.time < g.time THEN g
  ELSE IF row.quality # "VALID" THEN [g EXCEPT !.quality = row.quality]
  ELSE LET out == Apply(g.book, row.event, shape)
       IN  [g EXCEPT !.book = out.book, !.quality = out.quality,
                     !.time = IF out.status \in {"APPLIED", "DUPLICATE"}
                              THEN row.event.time ELSE @]

(* _catch_up, or restore_features from the start of its window.             *)
ReadRow ==
  /\ engine.read < Len(rows)
  /\ LET row == rows[engine.read + 1]
     IN  engine' = [(IF row.event.time < engine.since THEN engine ELSE Processed(engine, row))
                    EXCEPT !.read = @ + 1]
  /\ UNCHANGED <<market, skewed, conn, local, monitor, rows>>

(* The service restarts: only the journal is left.                          *)
ServiceRestarts ==
  /\ \E since \in {0, Time[LastVersion]} : engine' = [NewEngine EXCEPT !.since = since]
  /\ monitor' = NewMonitor
  /\ conn' = "down"
  /\ local' = NewBook
  /\ UNCHANGED <<market, skewed, rows>>
-----------------------------------------------------------------------------
FeedInit ==
  /\ shape \in Shapes
  /\ skewed = 0
  /\ linked \in BOOLEAN
  /\ conn = "down"
  /\ local = NewBook
  /\ monitor = NewMonitor
  /\ rows = << >>
  /\ engine = NewEngine

FeedNext ==
  \/ Connect \/ ReceiveSnapshot \/ ReceiveDelta \/ Disconnect
  \/ ReadRow \/ ServiceRestarts

FeedSpec == FeedInit /\ [][FeedNext]_feed
-----------------------------------------------------------------------------
(* The runtime has every delta the monitor let through that it read after   *)
(* the last snapshot.                                                       *)
NothingMissed ==
  \A i \in 1..engine.read :
    (/\ rows[i].event.kind = "delta" /\ rows[i].quality = "VALID"
     /\ rows[i].event.time >= engine.since
     /\ \A j \in i+1..engine.read : rows[j].event.kind # "snapshot")
    => rows[i].event.last <= engine.book.sequence

(* A book that calls itself VALID holds the levels the venue had at the     *)
(* book's sequence, in the adapter and in the runtime, whatever was lost,   *)
(* repeated or overtaken on the way; and the runtime's has every delta in   *)
(* it that passed the monitor and was read after the last snapshot, none    *)
(* refused for its time or skipped while the book goes on calling itself    *)
(* VALID. *)
BooksAreExact ==
  /\ local.quality = "VALID" => local.image = local.sequence
  /\ engine.quality = "VALID" =>
       /\ engine.book.image = engine.book.sequence /\ engine.book.sequence # None
       /\ NothingMissed
=============================================================================
