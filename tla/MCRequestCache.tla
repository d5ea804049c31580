--------------------------- MODULE MCRequestCache ---------------------------
(* Constants of RequestCache for TLC. *)
EXTENDS RequestCache
=============================================================================
