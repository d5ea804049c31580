-------------------------- MODULE MCLocalTokenFile --------------------------
(* Constants of LocalTokenFile for TLC. *)
EXTENDS LocalTokenFile, TLC

CallSymmetry == Permutations(Call)
=============================================================================
