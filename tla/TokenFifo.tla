------------------------------ MODULE TokenFifo ------------------------------
(***************************************************************************)
(* What the hugepage token ring promises its two users: a bounded FIFO.    *)
(* A writer appends tokens at the back, the reactor takes some from the    *)
(* front, and every token taken was put, once, in that order.              *)
(***************************************************************************)
EXTENDS Naturals, Sequences

CONSTANT Capacity      \* how many tokens the queue holds at most

VARIABLES
    queue,             \* the tokens put and not yet taken, oldest first
    delivered          \* everything taken so far, in the order it was taken

Init ==
    /\ queue = <<>>
    /\ delivered = <<>>

\* One write lands: its tokens appear at the back, together.
Put ==
    /\ Len(queue) < Len(queue')
    /\ Len(queue') <= Capacity
    /\ SubSeq(queue', 1, Len(queue)) = queue
    /\ UNCHANGED delivered

\* One poll of the reactor: the n oldest tokens are handed over, together.
Take ==
    \E n \in 1..Len(queue) :
        /\ delivered' = delivered \o SubSeq(queue, 1, n)
        /\ queue' = SubSeq(queue, n + 1, Len(queue))

Next == Put \/ Take

Spec == Init /\ [][Next]_<<queue, delivered>>
=============================================================================
