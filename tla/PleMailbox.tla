----------------------------- MODULE PleMailbox ------------------------------
(***************************************************************************)
(* What the exchange of PLE outputs promises: every rank has, for every    *)
(* layer, a box for one result.  The CPU worker fills it with the results  *)
(* of the batches, in order and without a gap; a result stays until the    *)
(* model stream takes it, and is taken once.  The placeholder of a dummy   *)
(* forward may stand in an empty box, and only a placeholder is dropped.   *)
(***************************************************************************)
EXTENDS Naturals

CONSTANTS
    Boxes,          \* one per rank and layer
    Empty,          \* neither of the two is the number of a batch: 1, 2, ...
    Placeholder

VARIABLES
    box,    \* the batch whose result a box holds
    taken   \* the last batch whose result was taken from it

vars == <<box, taken>>

Init ==
    /\ box = [b \in Boxes |-> Empty]
    /\ taken = [b \in Boxes |-> 0]

Publish(b) ==
    /\ box[b] = Empty
    /\ box' = [box EXCEPT ![b] = taken[b] + 1]
    /\ UNCHANGED taken

Arm(b) ==
    /\ box[b] = Empty
    /\ box' = [box EXCEPT ![b] = Placeholder]
    /\ UNCHANGED taken

Drop(b) ==
    /\ box[b] = Placeholder
    /\ box' = [box EXCEPT ![b] = Empty]
    /\ UNCHANGED taken

Take(b) ==
    /\ box[b] \notin {Empty, Placeholder}
    /\ taken' = [taken EXCEPT ![b] = box[b]]
    /\ box' = [box EXCEPT ![b] = Empty]

Next == \E b \in Boxes : Publish(b) \/ Arm(b) \/ Drop(b) \/ Take(b)

Spec == Init /\ [][Next]_vars
=============================================================================
