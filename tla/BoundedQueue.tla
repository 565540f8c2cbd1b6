---------------------------- MODULE BoundedQueue -----------------------------
(***************************************************************************)
(* What the two ends of an SpscRingBuffer (cpp/include/spsc_ring.h) may    *)
(* rely on: a first-in first-out queue of at most Bound items, to which    *)
(* push() adds and from which pop() takes in one step each, whatever their *)
(* loads and stores interleave with.                                       *)
(***************************************************************************)
EXTENDS Naturals, Sequences

CONSTANTS
    Bound,  \* items the queue holds at most
    Item

VARIABLE queue

Init == queue = <<>>

Push == \E item \in Item : Len(queue) < Bound /\ queue' = Append(queue, item)

Pop == queue # <<>> /\ queue' = Tail(queue)

Spec == Init /\ [][Push \/ Pop]_queue
==============================================================================
