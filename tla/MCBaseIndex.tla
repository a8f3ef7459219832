----------------------------- MODULE MCBaseIndex -----------------------------
(* BaseIndex for TLC: two branches of two blocks on top of genesis. *)
EXTENDS BaseIndex, TLC

CONSTANTS g, a1, a2, b1, b2
MCPath == (g :> <<g>>) @@ (a1 :> <<g, a1>>) @@ (a2 :> <<g, a1, a2>>)
          @@ (b1 :> <<g, b1>>) @@ (b2 :> <<g, b1, b2>>)
=============================================================================
