---------------------------- MODULE MCConnection ----------------------------
(* A small instance of Connection for TLC. *)
EXTENDS Connection

CONSTANTS c1, c2, b1, b2
=============================================================================
