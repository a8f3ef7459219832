-------------------------- MODULE MCValidationSignals --------------------------
(* ValidationSignals for TLC. *)
EXTENDS ValidationSignals

CONSTANTS t1, t2

MCEvents == {Block(n) : n \in 1..(MaxBlocks + 2)} \cup {Sync(c) : c \in Clients}
=============================================================================
