----------------------------- MODULE MCPageWalk -----------------------------
(* Constants of PageWalk for TLC. *)
EXTENDS PageWalk
=============================================================================
