---------------------------- MODULE MCLorieMutex ----------------------------
(* Small instances of LorieMutex for TLC. *)
EXTENDS LorieMutex

CONSTANTS srv, a1, a2, a3, c1, c2
=============================================================================
