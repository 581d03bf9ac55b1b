---------------------------- MODULE OrderLedger ----------------------------
(***************************************************************************)
(* What the order management system promises about an order, whatever      *)
(* happens to the processes that run it: the durable book holds one        *)
(* snapshot per order, a step changes one order along an edge of the       *)
(* lifecycle, the cumulative fill never moves back, a request to cancel is *)
(* never forgotten, and FILLED, REJECTED and EXPIRED are final.  Processes, *)
(* journals, crashes and duplicated reports do not appear here; DurableOMS *)
(* implements this module under the replay of its journal.                 *)
(***************************************************************************)
EXTENDS Orders

VARIABLE book  \* book[o]: the durable snapshot of order o

(* The edges a reader of the book may see: an order starts as NEW, is       *)
(* submitted only from NEW, expires only while it rests, and once CANCELLED *)
(* can only turn out to be filled or unknown.                               *)
Edge(from, to) ==
  /\ from \notin Final
  /\ from = "ABSENT" => to = "NEW"
  /\ from = "CANCELLED" => to \in {"FILLED", "UNKNOWN"}
  /\ to = "NEW" => from \in {"ABSENT", "RECONCILING"}
  /\ to = "SUBMITTING" => from = "NEW"
  /\ to = "RECONCILING" => from \in {"UNKNOWN", "CANCEL_PENDING"}
  /\ to = "EXPIRED" => from \in {"NEW", "ACKNOWLEDGED", "PARTIALLY_FILLED", "RECONCILING"}

(* The next snapshots of an order: one version later, never less filled,    *)
(* still asked to cancel if it was, and FILLED as soon as nothing remains.  *)
Advance(o, s, t) ==
  /\ t.version = s.version + 1
  /\ Edge(s.status, t.status)
  /\ t \in Snapshot(o)
  /\ t.filled >= s.filled
  /\ s.cancel => t.cancel
  /\ t.filled = Quantity[o] => t.status = "FILLED"

Init == book = [o \in Order |-> NoOrder]

Next == \E o \in Order :
          /\ Advance(o, book[o], book'[o])
          /\ book' = [book EXCEPT ![o] = book'[o]]

Spec == Init /\ [][Next]_book
=============================================================================
