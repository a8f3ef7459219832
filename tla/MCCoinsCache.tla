----------------------------- MODULE MCCoinsCache -----------------------------
(* CoinsCache for TLC. *)
EXTENDS CoinsCache, TLC

\* No operation compares outpoints, coins or blocks with anything but equality.
Symmetry == Permutations(Outpoints) \cup Permutations(Coins) \cup Permutations(Blocks)
=============================================================================
