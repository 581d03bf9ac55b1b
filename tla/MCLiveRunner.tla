---------------------------- MODULE MCLiveRunner ----------------------------
(* Instances of LiveRunner for TLC. *)
EXTENDS LiveRunner, TLC

Keys == Permutations(Key)
=============================================================================
