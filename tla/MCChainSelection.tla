-------------------------- MODULE MCChainSelection --------------------------
(***************************************************************************)
(* Instances of ChainSelection: the branch a1, a2 competes with b1, b2,    *)
(* b3.  A configuration takes the scenarios it needs.                      *)
(***************************************************************************)
EXTENDS ChainSelection, TLC

CONSTANTS g, a1, a2, b1, b2, b3

MCBlocks == {g, a1, a2, b1, b2, b3}
MCParent == (a1 :> g) @@ (a2 :> a1) @@ (b1 :> g) @@ (b2 :> b1) @@ (b3 :> b2)
MCAddr == (g :> 1) @@ (a1 :> 2) @@ (a2 :> 7) @@ (b1 :> 4) @@ (b2 :> 5) @@ (b3 :> 6)

\* Every block adds the same work.
EvenWork == [b \in MCBlocks |-> Height(b)]
\* The second branch has the higher difficulty after its first block.
UnevenWork == [b \in MCBlocks |-> CASE b = b2 -> 4
                                    [] b = b3 -> 6
                                    [] OTHER -> Height(b)]

\* Two branches of equal work, no pruning, and the calls of a user.
CallsScenario ==
    [blocks |-> MCBlocks \ {b3}, work |-> EvenWork,
     contextInvalid |-> {}, connectInvalid |-> {b2},
     keepBlocks |-> 9, maxRestarts |-> 0, userCalls |-> 2]
\* The same with a restart, and a block that is rejected when it arrives.
RestartScenario ==
    [CallsScenario EXCEPT !.contextInvalid = {a2}, !.maxRestarts = 1, !.userCalls = 1]
\* One branch, three blocks deep, that is invalidated and reconsidered while its
\* blocks arrive.
ReconsiderScenario ==
    [blocks |-> {g, b1, b2, b3}, work |-> EvenWork,
     contextInvalid |-> {}, connectInvalid |-> {},
     keepBlocks |-> 9, maxRestarts |-> 1, userCalls |-> 2]
\* A branch with more work of which the first block can be pruned.
PrunedScenario ==
    [blocks |-> MCBlocks, work |-> UnevenWork,
     contextInvalid |-> {}, connectInvalid |-> {b3},
     keepBlocks |-> 1, maxRestarts |-> 1, userCalls |-> 0]

PassingScenarios == {CallsScenario, RestartScenario, ReconsiderScenario, PrunedScenario}
KeysScenarios == {[PrunedScenario EXCEPT !.connectInvalid = {}, !.maxRestarts = 0]}
=============================================================================
