--------------------------- MODULE MCSingleFetch ---------------------------
(* Constants of SingleFetch for TLC. *)
EXTENDS SingleFetch

OneGroup == [c \in Call |-> "market"]
=============================================================================
