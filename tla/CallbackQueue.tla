----------------------------- MODULE CallbackQueue -----------------------------
(***************************************************************************)
(* What SerialTaskRunner promises (scheduler.h): callbacks run one at a    *)
(* time and in the order in which they were inserted, each of them once.   *)
(***************************************************************************)
EXTENDS Sequences

CONSTANT Events
VARIABLES pending, current   \* callbacks waiting, and the set of those running

Init == pending = <<>> /\ current = {}

Insert == \E e \in Events : pending' = Append(pending, e) /\ UNCHANGED current

Begin ==
    /\ pending # <<>> /\ current = {}
    /\ current' = {Head(pending)}
    /\ pending' = Tail(pending)

End == current # {} /\ current' = {} /\ UNCHANGED pending

Next == Insert \/ Begin \/ End

Spec == Init /\ [][Next]_<<pending, current>>
=============================================================================
