-------------------------- MODULE MCProtectedOrders --------------------------
(* The journals of orders, which have no state in common: that of the       *)
(* order management, a SQLite file which two processes share; that of the   *)
(* protective stops over the paper positions; and the rows of the paper     *)
(* broker of plans with several legs.  A behaviour explores one of them.    *)
EXTENDS DurableOMS, RuntimeProtection, AdvancedPaper

CONSTANTS p1, p2, i1, i2, pair, single, near, far, lone

VARIABLE part

(* Two units, so that an order can be partially filled. *)
MCQuantity == [o \in Order |-> 2]

(* Two positions of one instrument. *)
TwoOfOne == p1 :> i1 @@ p2 :> i1

(* A pair that enters at time 0, its near leg of two units, and a plan on   *)
(* the market of its far leg, which enters a time later; the entries of     *)
(* both lapse when the plans are to be left.                                *)
MCPlanOf == near :> pair @@ far :> pair @@ lone :> single
MCMarketOf == near :> i1 @@ far :> i2 @@ lone :> i2
MCSize == near :> 2 @@ far :> 1 @@ lone :> 1
MCCreatedAt == pair :> 0 @@ single :> 1
MCExpiresAt == pair :> 1 @@ single :> 1
MCExitAt == pair :> 1 @@ single :> 1

(* The positions are of one instrument. *)
Alike == Permutations(Position)

OrdersInit == part \in {"orders", "stops", "legs"} /\ Init /\ ProtectionInit /\ AdvancedInit

OrdersNext ==
  /\ \/ part = "orders" /\ Next /\ UNCHANGED <<protection, advanced>>
     \/ part = "stops" /\ ProtectionNext /\ UNCHANGED <<vars, advanced>>
     \/ part = "legs" /\ AdvancedNext /\ UNCHANGED <<vars, protection>>
  /\ UNCHANGED part

OrdersSpec == OrdersInit /\ [][OrdersNext]_<<vars, protection, advanced, part>>
=============================================================================
