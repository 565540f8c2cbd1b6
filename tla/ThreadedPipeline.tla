-------------------------- MODULE ThreadedPipeline ---------------------------
(***************************************************************************)
(* The three threads of cpp/tests/test_threaded.cpp: the producer pushes   *)
(* operations into in_ring, the matcher takes each, applies it to the book *)
(* only it touches, and pushes the trades it makes into out_ring, from     *)
(* which the main thread takes them.  Both rings are modelled access by    *)
(* access: in_ring by the variables of SpscRing, out_ring by an instance.  *)
(*                                                                         *)
(* What the book does is a matter of OrderBookV2; here an operation is     *)
(* known by the number of trades it makes, and trades by their number in   *)
(* the order the sequential run makes them.                                *)
(***************************************************************************)
EXTENDS SpscRing

CONSTANTS
    OutCapacity,    \* capacity_pow2 of out_ring
    TradesOf        \* how many trades each operation makes, in order

ASSUME PipelineAssumption ==
    /\ OutCapacity \in Nat \ {0, 1}
    /\ \E k \in 1 .. OutCapacity : OutCapacity = 2 ^ k
    /\ TradesOf \in [1 .. Total -> Nat]

VARIABLES
    outHead, outTail, outBuf,   \* out_ring
    emitting, emitted,          \* the matcher as its producer
    matcherDone,                \* matcher_done
    receiving, received         \* the main thread, and the trades it took

out == <<outHead, outTail, outBuf, emitting, emitted, matcherDone, receiving, received>>
pipeline == <<vars, out>>

\* The trades of the first n operations.
TradesUpTo[n \in 0 .. Total] == IF n = 0 THEN 0 ELSE TradesUpTo[n - 1] + TradesOf[n]

Out == INSTANCE SpscRing WITH
    Capacity <- OutCapacity, Total <- TradesUpTo[Total],
    head <- outHead, tail <- outTail, buf <- outBuf,
    pushing <- emitting, pushed <- emitted, done <- matcherDone,
    popping <- receiving, popped <- received

PipelineInit == Init /\ Out!Init

\* The matcher looks at in_ring again once it has handed on every trade of the
\* operations it took.
MayPop == popping = "release" \/ emitted = TradesUpTo[Len(popped)]

ProducerStep == Producer /\ UNCHANGED out

MatcherTakes == MayPop /\ Consumer /\ UNCHANGED out

MatcherEmits ==
    /\ popping = "check"
    /\ emitted < TradesUpTo[Len(popped)]
    /\ Out!PushFull \/ Out!PushCheck \/ Out!PushWrite \/ Out!PushPublish
    /\ UNCHANGED vars

MatcherEnds ==
    /\ popping = "ended"
    /\ Out!RaiseDone
    /\ UNCHANGED vars

Matcher == MatcherTakes \/ MatcherEmits \/ MatcherEnds

Main == Out!Consumer /\ UNCHANGED vars

\* All threads are joined.
Joined == Ended /\ Out!Ended

PipelineNext == ProducerStep \/ Matcher \/ Main \/ Joined

\* The scheduler runs all three threads.
PipelineSpec ==
    /\ PipelineInit
    /\ [][PipelineNext]_pipeline
    /\ WF_pipeline(ProducerStep)
    /\ WF_pipeline(Matcher)
    /\ WF_pipeline(Main)
------------------------------------------------------------------------------
\* Each ring is a bounded queue to its two threads, out_ring too, whose producer
\* works in bursts between its looks at in_ring.
RingsAreQueues == ImplementsQueue /\ Out!ImplementsQueue

\* The main thread takes the trades of the sequential run, in its order: never
\* one of an operation the matcher has not taken, and all of them by the time
\* it stops, whichever of the two done flags comes between whose last look.
TradesAsSequential ==
    /\ \A i \in DOMAIN received : received[i] = i
    /\ Len(received) <= TradesUpTo[Len(popped)]
    /\ receiving = "ended" => Len(received) = TradesUpTo[Total]

\* All three threads end: the matcher's wait for room in out_ring and the
\* producer's wait for room in in_ring never close a circle.
AllThreadsEnd == <>(pushing = "ended" /\ popping = "ended" /\ emitting = "ended" /\ receiving = "ended")
==============================================================================
