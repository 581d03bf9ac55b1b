------------------------ MODULE MCRuntimeProtection ------------------------
(* Instances of RuntimeProtection for TLC. *)
EXTENDS RuntimeProtection

CONSTANTS p1, p2, p3, i1, i2

TwoOfOne == p1 :> i1 @@ p2 :> i1 @@ p3 :> i2
=============================================================================
