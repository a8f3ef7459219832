------------------------------ MODULE UtxoStore ------------------------------
(***************************************************************************)
(* What the hierarchy of coin views promises (the comments of CCoinsView   *)
(* and CCoinsViewCache, coins.h): three complete sets of unspent outputs,  *)
(* each with the block it is the state of.  `disk' survives a crash, `tip' *)
(* is the state of the active chain, `view' is the state being prepared    *)
(* by ConnectBlock or DisconnectBlock.  There are no caches and no flags.  *)
(***************************************************************************)
CONSTANTS
    Outpoints,  \* transaction outputs
    Coins,      \* unspent coins that can be stored under an outpoint
    Blocks,     \* block hashes
    NoCoin,     \* no unspent coin
    Null        \* the null hash

VARIABLES disk, tip, view

vars == <<disk, tip, view>>

States == [coins : [Outpoints -> Coins \cup {NoCoin}], best : Blocks \cup {Null}]

Init ==
    /\ disk = [coins |-> [o \in Outpoints |-> NoCoin], best |-> Null]
    /\ tip = disk
    /\ view = disk

SetViewCoin(o, c) ==
    /\ view' = [view EXCEPT !.coins[o] = c]
    /\ UNCHANGED <<disk, tip>>

SetViewBest(b) ==
    /\ view' = [view EXCEPT !.best = b]
    /\ UNCHANGED <<disk, tip>>

\* A coin of a snapshot enters the state of the tip while no view is prepared.
LoadCoin(o, c) ==
    /\ view = tip
    /\ tip' = [tip EXCEPT !.coins[o] = c]
    /\ view' = tip'
    /\ UNCHANGED disk

Commit  == tip' = view /\ UNCHANGED <<disk, view>>
Discard == view' = tip /\ UNCHANGED <<disk, tip>>
Persist == disk' = tip /\ UNCHANGED <<tip, view>>
Crash   == tip' = disk /\ view' = disk /\ UNCHANGED disk

Next ==
    \/ \E o \in Outpoints, c \in Coins \cup {NoCoin} : SetViewCoin(o, c)
    \/ \E o \in Outpoints, c \in Coins : LoadCoin(o, c)
    \/ \E b \in Blocks : SetViewBest(b)
    \/ Commit \/ Discard \/ Persist \/ Crash

Spec == Init /\ [][Next]_vars
=============================================================================
