---------------------------- MODULE MCTxRequest ----------------------------
(***************************************************************************)
(* Three peers announce t1: p1 and p2 are preferred, p3 is not although it *)
(* has the highest hash.  p1 announces t2 as well.                         *)
(***************************************************************************)
EXTENDS TxRequest

CONSTANTS p1, p2, p3, t1, t2

MCInvs == {<<p1, t1, TRUE>>, <<p2, t1, TRUE>>, <<p3, t1, FALSE>>, <<p1, t2, TRUE>>}

MCLowBits == [t \in TxHashes |-> [p \in Peers |->
                 CASE p = p1 -> 1 [] p = p2 -> 2 [] p = p3 -> 3]]
============================================================================
