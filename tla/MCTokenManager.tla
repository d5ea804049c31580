--------------------------- MODULE MCTokenManager ---------------------------
(* Constants of TokenManager for TLC. *)
EXTENDS TokenManager
=============================================================================
