------------------------------- MODULE Orders -------------------------------
(***************************************************************************)
(* The vocabulary of the order management system: order ids, the statuses  *)
(* of domain/events.py and the snapshots of execution/oms.py, restricted   *)
(* to the fields that change during the life of an order.                  *)
(***************************************************************************)
EXTENDS Integers

CONSTANTS
  Order,       \* client order ids (signal, decision and leg, hashed)
  Quantity     \* Quantity[o]: the requested quantity of order o

ASSUME QuantityAssumption == Quantity \in [Order -> Nat \ {0}]

Status == { "NEW", "SUBMITTING", "ACKNOWLEDGED", "PARTIALLY_FILLED", "FILLED",
            "CANCEL_PENDING", "CANCELLED", "REJECTED", "EXPIRED", "UNKNOWN",
            "RECONCILING" }

Snapshot(o) ==
  [status: Status, filled: 0..Quantity[o], cancel: BOOLEAN, version: Nat \ {0}]

(* Every snapshot of every order, whatever its requested quantity. *)
AnySnapshot ==
  [status: Status \cup {"ABSENT"}, filled: Nat, cancel: BOOLEAN, version: Nat]

(* The place of an order that was never created. *)
NoOrder == [status |-> "ABSENT", filled |-> 0, cancel |-> FALSE, version |-> 0]

Slot(o) == Snapshot(o) \cup {NoOrder}

(* No operation, report or reconciliation moves an order out of these. *)
Final == {"FILLED", "REJECTED", "EXPIRED"}
=============================================================================
