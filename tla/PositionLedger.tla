--------------------------- MODULE PositionLedger ---------------------------
(***************************************************************************)
(* What the live runner promises about a position, whatever happens to the *)
(* process that trades it: its row in live_positions moves along the edges *)
(* of one life, the venues buy for it and sell for it only while the row   *)
(* says so, and a row that says OPEN, FAILED or CLOSED is right about what *)
(* the venues hold.  Orders, answers, memory, crashes and the kill switch  *)
(* do not appear here; LiveRunner implements this module.                  *)
(***************************************************************************)
EXTENDS Integers

CONSTANTS Position, Key, Quantity

VARIABLES
  book,    \* the state and key of each position's row
  bought,  \* what its opening orders filled, on each leg
  sold,    \* what the orders that reduce it filled
  taken    \* what was closed by somebody else

Leg == {"a", "b"}
NoRow == [state |-> "none"]

Held(p, leg) == bought[p][leg] - sold[p][leg] - taken[p][leg]

Flat(p) == \A leg \in Leg : Held(p, leg) = 0

Hedged(p) ==
  /\ bought[p]["a"] = bought[p]["b"] /\ bought[p]["a"] > 0
  /\ \A leg \in Leg : sold[p][leg] = 0

(* The states a row may be given, and what must be true at the venues.      *)
Edge(from, to) ==
  \/ from = "OPENING" /\ to \in {"OPEN", "FAILED", "MANUAL_INTERVENTION"}
  \/ from = "OPEN" /\ to = "CLOSING"
  \/ from = "CLOSING" /\ to \in {"CLOSED", "MANUAL_INTERVENTION"}

Enter(p) ==
  /\ book[p] = NoRow
  /\ \A leg \in Leg : bought[p][leg] = 0
  /\ \E k \in Key : book' = [book EXCEPT ![p] = [state |-> "OPENING", key |-> k]]
  /\ UNCHANGED <<bought, sold, taken>>

Settle(p) ==
  /\ \E to \in {"OPEN", "CLOSING", "CLOSED", "FAILED", "MANUAL_INTERVENTION"} :
       /\ Edge(book[p].state, to)
       /\ to = "OPEN" => Hedged(p)
       /\ to \in {"FAILED", "CLOSED"} => Flat(p)
       /\ book' = [book EXCEPT ![p].state = to]
  /\ UNCHANGED <<bought, sold, taken>>

(* Each leg is bought once, the second behind the first and no more of it,  *)
(* and nothing is bought once a leg is being sold.                          *)
Buy(p, leg) ==
  /\ book[p].state = "OPENING"
  /\ bought[p][leg] = 0 /\ bought[p]["b"] = 0
  /\ \A g \in Leg : sold[p][g] = 0
  /\ \E n \in 1..(IF leg = "a" THEN Quantity ELSE bought[p]["a"]) :
       bought' = [bought EXCEPT ![p][leg] = n]
  /\ UNCHANGED <<book, sold, taken>>

Sell(p, leg) ==
  /\ book[p].state \in {"OPENING", "CLOSING"}
  /\ \E n \in 1..Held(p, leg) : sold' = [sold EXCEPT ![p][leg] = @ + n]
  /\ UNCHANGED <<book, bought, taken>>

(* The venue reduces a leg by itself.                                       *)
Take(p, leg) ==
  /\ Held(p, leg) > 0
  /\ taken' = [taken EXCEPT ![p][leg] = @ + Held(p, leg)]
  /\ UNCHANGED <<book, bought, sold>>

(* The operator flattens what is active and settles its row.                *)
Resolve(p) ==
  /\ book[p].state \in {"OPENING", "OPEN", "CLOSING", "MANUAL_INTERVENTION"}
  /\ book' = [book EXCEPT ![p].state = "FAILED"]
  /\ taken' = [taken EXCEPT ![p] = [leg \in Leg |-> @[leg] + Held(p, leg)]]
  /\ UNCHANGED <<bought, sold>>

Nothing == [p \in Position |-> [leg \in Leg |-> 0]]

Init ==
  /\ book = [p \in Position |-> NoRow]
  /\ bought = Nothing /\ sold = Nothing /\ taken = Nothing

Next ==
  \E p \in Position :
    \/ Enter(p) \/ Settle(p) \/ Resolve(p)
    \/ \E leg \in Leg : Buy(p, leg) \/ Sell(p, leg) \/ Take(p, leg)

Spec == Init /\ [][Next]_<<book, bought, sold, taken>>
=============================================================================
