----------------------------- MODULE MCCoinsDB -----------------------------
(***************************************************************************)
(* An instance of CoinsDB: a funding block f and above it the branches     *)
(* a1, a2 and b1.  x is the output of the coinbase of f.  T1 spends it to  *)
(* make y, T2 spends y to make z; T3 conflicts with T1 and makes w, which  *)
(* T4 spends to make z.  The settings choose among these.  In one T1 is    *)
(* confirmed on both branches, at different heights, and a2 spends what it *)
(* makes itself; in another the branches conflict and a2 spends what a1    *)
(* makes; the third has few coins.                                         *)
(***************************************************************************)
EXTENDS CoinsDB

CONSTANTS g, f, a1, a2, b1, x, y, z, w

MCParent == (f :> g) @@ (a1 :> f) @@ (a2 :> a1) @@ (b1 :> f)

Coinbase(out) == [vin |-> {}, vout |-> {out}]
T1 == [vin |-> {x}, vout |-> {y}]
T2 == [vin |-> {y}, vout |-> {z}]
T3 == [vin |-> {x}, vout |-> {w}]
T4 == [vin |-> {w}, vout |-> {z}]

Body(onA1, onA2) ==
    (g :> <<>>) @@ (f :> <<Coinbase(x)>>) @@ (a1 :> onA1) @@ (a2 :> onA2) @@ (b1 :> <<T1>>)
TwiceConfirmed == Body(<<>>, <<T1, T2>>)
Conflicting == Body(<<T3>>, <<T4>>)

\* The coins batches of a Flush may fail; or, with contents that matter less, the
\* batches of the block index.
Recovery ==
    {[body |-> TwiceConfirmed, keep |-> 1, fail |-> {"Flush"}],
     [body |-> Conflicting, keep |-> 2, fail |-> {"Flush"}],
     [body |-> Body(<<>>, <<>>), keep |-> 2, fail |-> {"Index"}]}

\* Without pruning, any coins batch may fail, also one of a Sync.
WriteErrors ==
    {[body |-> t, keep |-> 4, fail |-> {"Flush", "Sync"}] : t \in {TwiceConfirmed, Conflicting}}
=============================================================================
