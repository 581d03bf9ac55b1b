--------------------------- MODULE MCWithdrawals ---------------------------
(* Instances of Withdrawals for TLC. *)
EXTENDS Withdrawals, TLC

Alike == Permutations(Person) \cup Permutations(Role) \cup Permutations(Request)
=============================================================================
