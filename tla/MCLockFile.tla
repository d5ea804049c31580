----------------------------- MODULE MCLockFile -----------------------------
(* Constants of LockFile for TLC. *)
EXTENDS LockFile
=============================================================================
