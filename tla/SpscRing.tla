------------------------------ MODULE SpscRing -------------------------------
(***************************************************************************)
(* The single-producer single-consumer ring (cpp/include/spsc_ring.h) and  *)
(* the two threads at its ends (cpp/tests/test_threaded.cpp): one pushes   *)
(* every item of its work, retrying while the ring is full, and raises     *)
(* producer_done; the other pops until the ring is empty and the flag is   *)
(* up.  Every atomic load or store and every access to a slot is a step of *)
(* its own.                                                                *)
(*                                                                         *)
(* Items are numbered in the order they are pushed.  The release stores    *)
(* and acquire loads of head_ and tail_ make what one thread did to a slot *)
(* visible before the index that hands it over, so interleaving the steps  *)
(* in program order covers what the build can do, as long as no two        *)
(* threads are ever at the same slot at once: see NoRace.                  *)
(***************************************************************************)
EXTENDS Integers, Sequences

CONSTANTS
    Capacity,   \* capacity_pow2; the ring holds one item less
    Total       \* items the producer has to push

\* For a power of two "& mask_" is "% Capacity".
ASSUME RingAssumption ==
    /\ Capacity \in Nat \ {0, 1}
    /\ \E k \in 1 .. Capacity : Capacity = 2 ^ k
    /\ Total \in Nat

VARIABLES
    head,       \* head_, written by the consumer
    tail,       \* tail_, written by the producer
    buf,        \* buf_; 0 is the value-initialised item
    pushing,    \* where the producer is
    pushed,     \* items whose push() has returned true
    done,       \* producer_done
    popping,    \* where the consumer is
    popped      \* what the consumer took, in order

ring == <<head, tail, buf>>
producer == <<pushing, pushed, done>>
consumer == <<popping, popped>>
vars == <<head, tail, buf, pushing, pushed, done, popping, popped>>

Slot == 0 .. (Capacity - 1)

Init ==
    /\ head = 0
    /\ tail = 0
    /\ buf = [i \in Slot |-> 0]
    /\ pushing = "check"
    /\ pushed = 0
    /\ done = FALSE
    /\ popping = "check"
    /\ popped = <<>>

\* As Following, without wrapping.
FollowingUnwrapped(i) == i + 1

Following(i) == (i + 1) % Capacity

\* As IsFull, with no slot kept free.
IsNeverFull == FALSE

IsFull == Following(tail) = head
------------------------------------------------------------------------------
(* push(), in the producer's loop *)

\* The ring is full: push() returns false, and the producer yields and retries.
PushFull ==
    /\ pushing = "check"
    /\ pushed < Total
    /\ IsFull
    /\ UNCHANGED vars

PushCheck ==
    /\ pushing = "check"
    /\ pushed < Total
    /\ ~IsFull
    /\ pushing' = "write"
    /\ UNCHANGED <<ring, pushed, done, consumer>>

PushWrite ==
    /\ pushing = "write"
    /\ buf' = [buf EXCEPT ![tail] = pushed + 1]
    /\ pushing' = "publish"
    /\ UNCHANGED <<head, tail, pushed, done, consumer>>

PushPublish ==
    /\ pushing = "publish"
    /\ tail' = Following(tail)
    /\ pushed' = pushed + 1
    /\ pushing' = "check"
    /\ UNCHANGED <<head, buf, done, consumer>>

\* As RaiseDone, with the flag forgotten.
EndSilently ==
    /\ pushing = "check"
    /\ pushed = Total
    /\ pushing' = "ended"
    /\ UNCHANGED <<ring, pushed, done, consumer>>

\* All items are pushed: the producer raises its flag and ends.
RaiseDone ==
    /\ pushing = "check"
    /\ pushed = Total
    /\ done' = TRUE
    /\ pushing' = "ended"
    /\ UNCHANGED <<ring, pushed, consumer>>

Producer == PushFull \/ PushCheck \/ PushWrite \/ PushPublish \/ RaiseDone
------------------------------------------------------------------------------
(* pop(), in the consumer's loop *)

PopCheck ==
    /\ popping = "check"
    /\ popping' = IF head = tail THEN "flag" ELSE "read"
    /\ UNCHANGED <<ring, producer, popped>>

PopRead ==
    /\ popping = "read"
    /\ popped' = Append(popped, buf[head])
    /\ popping' = "release"
    /\ UNCHANGED <<ring, producer>>

PopRelease ==
    /\ popping = "release"
    /\ head' = Following(head)
    /\ popping' = "check"
    /\ UNCHANGED <<tail, buf, producer, popped>>

\* As SeeDone, taking pop()'s word for it that the ring is empty.
SeeDoneAtOnce ==
    /\ popping = "flag"
    /\ popping' = IF done THEN "ended" ELSE "check"
    /\ UNCHANGED <<ring, producer, popped>>

\* pop() found nothing: the consumer looks whether more can come, and only
\* then again whether the ring is empty.
SeeDone ==
    /\ popping = "flag"
    /\ popping' = IF done THEN "empty" ELSE "check"
    /\ UNCHANGED <<ring, producer, popped>>

SeeEmpty ==
    /\ popping = "empty"
    /\ popping' = IF head = tail THEN "ended" ELSE "check"
    /\ UNCHANGED <<ring, producer, popped>>

Consumer == PopCheck \/ PopRead \/ PopRelease \/ SeeDone \/ SeeEmpty

\* Both threads ended.
Ended == pushing = "ended" /\ popping = "ended" /\ UNCHANGED vars

Next == Producer \/ Consumer \/ Ended

\* The scheduler runs both threads.
Spec == Init /\ [][Next]_vars /\ WF_vars(Producer) /\ WF_vars(Consumer)
------------------------------------------------------------------------------
\* The items between head_ and tail_.
Waiting == (tail - head) % Capacity

\* What each thread has published or taken: popped counts the item whose slot
\* is not handed back yet.
Taken == Len(popped) - (IF popping = "release" THEN 1 ELSE 0)

\* Indexes are slots, counts are within the work, and the threads are where
\* their code can be.
TypeOK ==
    /\ head \in Slot
    /\ tail \in Slot
    /\ buf \in [Slot -> 0 .. Total]
    /\ pushing \in {"check", "write", "publish", "ended"}
    /\ pushed \in 0 .. Total
    /\ done \in BOOLEAN
    /\ popping \in {"check", "read", "release", "flag", "empty", "ended"}
    /\ popped \in Seq(0 .. Total)

\* push() never writes the slot pop() is reading: a full ring keeps one slot
\* free between tail_ and head_.
NoRace == pushing = "write" /\ popping = "read" => tail # head

\* The ring holds exactly the items pushed and not yet taken, oldest first:
\* none is overwritten, skipped or seen twice.
HoldsTheRest ==
    /\ Waiting = pushed - Taken
    /\ \A i \in 0 .. (Waiting - 1) : buf[(head + i) % Capacity] = Taken + i + 1

\* The consumer takes the items in the order they were pushed, and stops only
\* when it has them all, though the last one may arrive between its failed
\* pop() and its look at producer_done.
NothingLeftBehind ==
    /\ \A i \in DOMAIN popped : popped[i] = i
    /\ popping = "ended" => Len(popped) = Total

Queue == INSTANCE BoundedQueue WITH
    Bound <- Capacity - 1,
    Item <- 1 .. Total,
    queue <- [i \in 1 .. Waiting |-> buf[(head + i - 1) % Capacity]]

\* Seen from its two ends the ring is a bounded queue: push() takes effect when
\* it stores tail_ and pop() when it stores head_, and no other access to the
\* indexes or the slots shows.
ImplementsQueue == Queue!Spec
==============================================================================
