------------------------------ MODULE MpscQueue ------------------------------
(***************************************************************************)
(* What lock_free_queue promises: items are taken in the order in which    *)
(* their places were reserved, each once.  A reserved item is pending until*)
(* its enqueue has linked it, and no later item is taken before it.        *)
(***************************************************************************)
EXTENDS Sequences

CONSTANT Item

VARIABLES
    queue,    \* the items to be taken, in order
    pending,  \* the items of queue whose enqueue is not finished
    taken     \* history: the items dequeue returned

vars == <<queue, pending, taken>>

Init == queue = <<>> /\ pending = {} /\ taken = <<>>

Reserve(x) ==
    /\ queue' = Append(queue, x)
    /\ pending' = pending \cup {x}
    /\ UNCHANGED taken

Publish(x) ==
    /\ x \in pending
    /\ pending' = pending \ {x}
    /\ UNCHANGED <<queue, taken>>

Take ==
    /\ queue # <<>> /\ Head(queue) \notin pending
    /\ taken' = Append(taken, Head(queue))
    /\ queue' = Tail(queue)
    /\ UNCHANGED pending

Next == Take \/ \E x \in Item : Reserve(x) \/ Publish(x)

Spec == Init /\ [][Next]_vars
=============================================================================
