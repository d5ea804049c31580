------------------------- MODULE MCSharedTokenFile -------------------------
(* Constants of SharedTokenFile for TLC. *)
EXTENDS SharedTokenFile, TLC

ProcSymmetry == Permutations(Proc)
=============================================================================
