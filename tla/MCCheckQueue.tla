----------------------------- MODULE MCCheckQueue -----------------------------
(* CheckQueue for TLC. *)
EXTENDS CheckQueue

CONSTANTS w1, w2, m1
=============================================================================
