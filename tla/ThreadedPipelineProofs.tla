----------------------- MODULE ThreadedPipelineProofs ------------------------
(***************************************************************************)
(* ThreadedPipeline for every capacity of the two rings, any number of     *)
(* operations and any number of trades of each.  What SpscRingProofs shows *)
(* of a ring is used twice: for in_ring, whose variables the pipeline      *)
(* extends, and for out_ring, an instance.                                 *)
(***************************************************************************)
EXTENDS ThreadedPipeline, SpscRingProofs, WellFoundedInduction

\* A nonempty set of natural numbers has a least element.
LEMMA LeastNat ==
    ASSUME NEW S \in SUBSET Nat, S # {}
    PROVE  \E x \in S : \A y \in S : x <= y
<1> DEFINE R == OpToRel(<, Nat)
<1>1. \E x \in S : \A y \in S : ~(<<y, x>> \in R)
  <2>1. IsWellFoundedOn(R, Nat) BY NatLessThanWellFounded
  <2> HIDE DEF R
  <2> QED BY <2>1, WFMin
<1>2. PICK x \in S : \A y \in S : ~(<<y, x>> \in R) BY <1>1
<1>3. \A y \in S : ~(y < x) BY <1>2 DEF OpToRel
<1> QED BY <1>3

OutRing == INSTANCE SpscRingProofs WITH
    Capacity <- OutCapacity, Total <- TradesUpTo[Total],
    head <- outHead, tail <- outTail, buf <- outBuf,
    pushing <- emitting, pushed <- emitted, done <- matcherDone,
    popping <- receiving, popped <- received
------------------------------------------------------------------------------
(* How many trades there are *)

\* The recursive definition of TradesUpTo has the value it describes: it adds up.
LEMMA TradesUpToIs ==
    /\ TradesUpTo \in [0 .. Total -> Nat]
    /\ TradesUpTo[0] = 0
    /\ \A n \in 1 .. Total : TradesUpTo[n] = TradesUpTo[n - 1] + TradesOf[n]
<1> USE RingAssumption, PipelineAssumption
<1> DEFINE IsRunningTotal(f, n) == f = [i \in 0 .. n |-> IF i = 0 THEN 0 ELSE f[i - 1] + TradesOf[i]]
           Missing == {x \in 0 .. Total : ~\E f : IsRunningTotal(f, x)}
<1>1. Missing = {}
  <2> SUFFICES ASSUME Missing # {} PROVE FALSE OBVIOUS
  <2>1. Missing \in SUBSET Nat OBVIOUS
  <2>2. PICK x \in Missing : \A y \in Missing : x <= y BY <2>1, LeastNat
  <2>3. x # 0
    <3>1. IsRunningTotal([i \in 0 .. 0 |-> 0], 0) OBVIOUS
    <3> QED BY <3>1
  <2>4. x \in 0 .. Total /\ x - 1 \in 0 .. Total /\ ~(x <= x - 1) BY <2>3
  <2>5. x - 1 \in 0 .. Total /\ x - 1 \notin Missing BY <2>4, <2>2
  <2>6. PICK f : IsRunningTotal(f, x - 1) BY <2>5
  <2> DEFINE g == [i \in 0 .. x |-> IF i = x THEN f[x - 1] + TradesOf[x] ELSE f[i]]
  <2>7. \A i \in 0 .. (x - 1) : f[i] = IF i = 0 THEN 0 ELSE f[i - 1] + TradesOf[i] BY <2>6
  <2>8. \A i \in 0 .. x : g[i] = IF i = 0 THEN 0 ELSE g[i - 1] + TradesOf[i]
    <3> TAKE i \in 0 .. x
    <3>1. CASE i = x BY <3>1, <2>3, <2>5
    <3>2. CASE i # x
      <4>1. i \in 0 .. (x - 1) /\ g[i] = f[i] BY <3>2, <2>5
      <4>2. i # 0 => g[i - 1] = f[i - 1] BY <4>1, <2>5
      <4> QED BY <4>1, <4>2, <2>7
    <3> QED BY <3>1, <3>2
  <2>9. IsRunningTotal(g, x) BY <2>8
  <2> QED BY <2>9
<1> HIDE DEF IsRunningTotal
<1>2. \E f : IsRunningTotal(f, Total)
  <2>1. Total \in 0 .. Total OBVIOUS
  <2> QED BY <2>1, <1>1
<1> USE DEF IsRunningTotal
<1>3. IsRunningTotal(TradesUpTo, Total) BY <1>2 DEF TradesUpTo
<1>4. /\ DOMAIN TradesUpTo = 0 .. Total
      /\ \A i \in 0 .. Total : TradesUpTo[i] = IF i = 0 THEN 0 ELSE TradesUpTo[i - 1] + TradesOf[i]
  BY <1>3
<1> HIDE DEF IsRunningTotal
<1> DEFINE Bad == {i \in 0 .. Total : TradesUpTo[i] \notin Nat}
<1>5. Bad = {}
  <2> SUFFICES ASSUME Bad # {} PROVE FALSE OBVIOUS
  <2>1. Bad \in SUBSET Nat OBVIOUS
  <2>2. PICK x \in Bad : \A y \in Bad : x <= y BY <2>1, LeastNat
  <2>3. x # 0 BY <1>4
  <2>4. x - 1 \in 0 .. Total /\ TradesUpTo[x - 1] \in Nat /\ TradesOf[x] \in Nat BY <2>2, <2>3
  <2> QED BY <2>3, <2>4, <1>4
<1>6. 0 \in 0 .. Total /\ \A n \in 1 .. Total : n \in 0 .. Total OBVIOUS
<1>7. TradesUpTo = [i \in 0 .. Total |-> TradesUpTo[i]] BY <1>3 DEF IsRunningTotal
<1> HIDE DEF Bad
<1>8. \A i \in 0 .. Total : TradesUpTo[i] \in Nat BY <1>5 DEF Bad
<1>9. TradesUpTo \in [0 .. Total -> Nat] BY <1>7, <1>8
<1>10. TradesUpTo[0] = 0 BY <1>4, <1>6
<1>11. \A n \in 1 .. Total : TradesUpTo[n] = TradesUpTo[n - 1] + TradesOf[n] BY <1>4, <1>6
<1> QED BY <1>9, <1>10, <1>11

\* out_ring meets what is assumed of a ring.
LEMMA OutAssumption == OutRing!RingAssumption
BY TradesUpToIs, RingAssumption, PipelineAssumption DEF OutRing!RingAssumption

\* The pipeline's out_ring and the one the lemmas are about are the same.
LEMMA SameRing ==
    /\ Out!Init => OutRing!Init
    /\ Out!Producer \/ Out!Consumer => OutRing!Next
<1> USE DEF Out!Slot, OutRing!Slot, Out!IsFull, OutRing!IsFull, Out!Following, OutRing!Following,
        Out!vars, OutRing!vars, Out!ring, OutRing!ring, Out!producer, OutRing!producer,
        Out!consumer, OutRing!consumer
<1>1. Out!Init => OutRing!Init BY DEF Out!Init, OutRing!Init
<1>2. Out!Producer => OutRing!Producer
  BY DEF Out!Producer, OutRing!Producer, Out!PushFull, OutRing!PushFull, Out!PushCheck, OutRing!PushCheck,
    Out!PushWrite, OutRing!PushWrite, Out!PushPublish, OutRing!PushPublish, Out!RaiseDone, OutRing!RaiseDone
<1>3. Out!Consumer => OutRing!Consumer
  BY DEF Out!Consumer, OutRing!Consumer, Out!PopCheck, OutRing!PopCheck, Out!PopRead, OutRing!PopRead,
    Out!PopRelease, OutRing!PopRelease, Out!SeeDone, OutRing!SeeDone, Out!SeeEmpty, OutRing!SeeEmpty
<1> QED BY <1>1, <1>2, <1>3 DEF OutRing!Next

\* So each step of the pipeline is a step of in_ring or none, and a step of
\* out_ring or none.
LEMMA RingSteps ==
    ASSUME [PipelineNext]_pipeline
    PROVE  [Next]_vars /\ [OutRing!Next]_(OutRing!vars)
<1>1. UNCHANGED out => UNCHANGED OutRing!vars BY DEF out, OutRing!vars
<1>2. CASE UNCHANGED pipeline BY <1>1, <1>2 DEF pipeline
<1>3. CASE ProducerStep BY <1>1, <1>3 DEF ProducerStep, Next
<1>4. CASE MatcherTakes BY <1>1, <1>4 DEF MatcherTakes, Next
<1>5. CASE MatcherEmits BY <1>5, SameRing DEF MatcherEmits, Out!Producer
<1>6. CASE MatcherEnds BY <1>6, SameRing DEF MatcherEnds, Out!Producer
<1>7. CASE Main BY <1>7, SameRing DEF Main
<1>8. CASE Joined BY <1>8 DEF Joined, Ended, Out!Ended, Out!vars, OutRing!vars
<1> QED BY <1>2, <1>3, <1>4, <1>5, <1>6, <1>7, <1>8 DEF PipelineNext, Matcher
------------------------------------------------------------------------------
(* The matcher between the rings *)

\* Between its looks at in_ring the matcher has handed on what it made: only at
\* the start of a round may trades be outstanding, and the operation it is just
\* taking has made none yet.
TradesHandedOn ==
    /\ emitted <= TradesUpTo[Len(popped)]
    /\ popping \in {"read", "flag", "empty", "ended"} => emitted = TradesUpTo[Len(popped)]
    /\ emitting \in {"write", "publish"} => popping = "check" /\ emitted < TradesUpTo[Len(popped)]
    /\ emitting = "ended" => popping = "ended"

PInv == IInv /\ OutRing!IInv /\ TradesHandedOn

\* The number of operations taken is one, and more operations make no fewer
\* trades.
LEMMA TakenOperations ==
    ASSUME IInv
    PROVE  /\ Len(popped) \in 0 .. Total
           /\ TradesUpTo[Len(popped)] \in Nat
           /\ popping = "read" => Len(popped) + 1 \in 1 .. Total
<1>1. pushed \in 0 .. Total BY DEF IInv, TypeOK
<1>2. Len(popped) \in 0 .. Total /\ (popping = "read" => Len(popped) + 1 \in 1 .. Total)
  BY <1>1, TakesWhatWasPushed, RingAssumption
<1> QED BY <1>2, TradesUpToIs

\* It holds when the program starts.
LEMMA InitPInv == PipelineInit => PInv
<1> SUFFICES ASSUME PipelineInit PROVE PInv OBVIOUS
<1>1. IInv BY InitIInv DEF PipelineInit
<1>2. OutRing!IInv BY SameRing, OutAssumption, OutRing!InitIInv DEF PipelineInit
<1>3. TradesHandedOn BY TradesUpToIs DEF PipelineInit, Init, Out!Init, TradesHandedOn
<1> QED BY <1>1, <1>2, <1>3 DEF PInv

\* The matcher's steps at in_ring: MayPop keeps it away while trades are
\* outstanding.
LEMMA MatcherTakesHandedOn ==
    ASSUME PInv, MatcherTakes
    PROVE  TradesHandedOn'
<1> USE DEF PInv
<1>1. UNCHANGED <<emitting, emitted>> BY DEF MatcherTakes, out
<1>2. emitted \in Nat BY TradesUpToIs, RingAssumption DEF OutRing!IInv, OutRing!TypeOK
<1>3. TradesUpTo[Len(popped)] \in Nat /\ Len(popped) \in 0 .. Total BY TakenOperations
<1>4. emitting \notin {"write", "publish", "ended"}
  BY <1>2, <1>3 DEF MatcherTakes, MayPop, TradesHandedOn, Consumer, PopCheck, PopRead, PopRelease,
    SeeDone, SeeEmpty
<1>5. CASE PopRead
  <2>1. popped' = Append(popped, buf[head]) /\ popping' = "release" /\ popping = "read"
    BY <1>5 DEF PopRead
  <2>2. popped \in Seq(0 .. Total) BY DEF IInv, TypeOK
  <2>3. Len(popped') = Len(popped) + 1 BY <2>1, <2>2
  <2>4. Len(popped) + 1 \in 1 .. Total BY <2>1, TakenOperations
  <2>5. TradesUpTo[Len(popped')] = TradesUpTo[Len(popped)] + TradesOf[Len(popped')]
        /\ TradesOf[Len(popped')] \in Nat
    BY <2>3, <2>4, <1>3, TradesUpToIs, PipelineAssumption
  <2> QED BY <2>1, <2>5, <1>1, <1>2, <1>3, <1>4 DEF TradesHandedOn
<1>6. CASE PopCheck \/ PopRelease \/ SeeDone \/ SeeEmpty
  <2>1. popped' = popped BY <1>6 DEF PopCheck, PopRelease, SeeDone, SeeEmpty
  <2>2. popping' \in {"read", "flag", "empty", "ended"} => emitted = TradesUpTo[Len(popped)]
    BY <1>6 DEF PopCheck, PopRelease, SeeDone, SeeEmpty, MatcherTakes, MayPop
  <2> QED BY <2>1, <2>2, <1>1, <1>4 DEF TradesHandedOn
<1> QED BY <1>5, <1>6 DEF MatcherTakes, Consumer

\* The matcher's steps at out_ring.
LEMMA MatcherEmitsHandedOn ==
    ASSUME PInv, MatcherEmits \/ MatcherEnds
    PROVE  TradesHandedOn'
<1> USE DEF PInv
<1>1. UNCHANGED <<popping, popped>> BY DEF MatcherEmits, MatcherEnds, vars
<1>2. emitted \in Nat BY TradesUpToIs, RingAssumption DEF OutRing!IInv, OutRing!TypeOK
<1>3. TradesUpTo[Len(popped)] \in Nat BY TakenOperations
<1>4. CASE MatcherEmits
  <2>1. popping = "check" /\ emitted < TradesUpTo[Len(popped)] BY <1>4 DEF MatcherEmits
  <2>2. emitted' \in {emitted, emitted + 1} /\ emitting' # "ended"
        /\ (emitting' \in {"write", "publish"} => emitted' = emitted)
    BY <1>4, <2>1 DEF MatcherEmits, Out!PushFull, Out!PushCheck, Out!PushWrite, Out!PushPublish,
        Out!vars, Out!ring, Out!consumer, TradesHandedOn
  <2> QED BY <2>1, <2>2, <1>1, <1>2, <1>3 DEF TradesHandedOn
<1>5. CASE MatcherEnds
  BY <1>1, <1>5 DEF MatcherEnds, Out!RaiseDone, TradesHandedOn
<1> QED BY <1>4, <1>5

\* Every action keeps it.
LEMMA NextPInv == PInv /\ [PipelineNext]_pipeline => PInv'
<1> SUFFICES ASSUME PInv, [PipelineNext]_pipeline PROVE PInv' OBVIOUS
<1>1. IInv' BY RingSteps, NextIInv DEF PInv
<1>2. OutRing!IInv' BY RingSteps, OutAssumption, OutRing!NextIInv DEF PInv
<1>3. ASSUME UNCHANGED <<popping, popped, emitting, emitted>> PROVE TradesHandedOn'
  BY <1>3 DEF PInv, TradesHandedOn
<1>4. TradesHandedOn'
  <2>1. CASE UNCHANGED pipeline BY <2>1, <1>3 DEF pipeline, vars, out
  <2>2. CASE ProducerStep
    BY <2>2, <1>3 DEF ProducerStep, Producer, PushFull, PushCheck, PushWrite, PushPublish, RaiseDone,
        vars, consumer, out
  <2>3. CASE Main
    BY <2>3, <1>3 DEF Main, Out!Consumer, Out!PopCheck, Out!PopRead, Out!PopRelease, Out!SeeDone,
        Out!SeeEmpty, Out!producer, vars
  <2>4. CASE Joined BY <2>4, <1>3 DEF Joined, Ended, Out!Ended, vars, Out!vars
  <2> QED BY <2>1, <2>2, <2>3, <2>4, MatcherTakesHandedOn, MatcherEmitsHandedOn
        DEF PipelineNext, Matcher
<1> QED BY <1>1, <1>2, <1>4 DEF PInv

\* So it holds always.
LEMMA PipelineInductive == PipelineSpec => []PInv
BY InitPInv, NextPInv, PTL DEF PipelineSpec
------------------------------------------------------------------------------
(* What follows *)

\* In the pipeline too, where the matcher stops popping while it emits, in_ring
\* has no race on a slot, holds exactly the rest, and loses nothing.
THEOREM InRingSound == PipelineSpec => [](TypeOK /\ NoRace /\ HoldsTheRest /\ NothingLeftBehind)
<1>1. IInv => TypeOK /\ NoRace BY DEF IInv, ConsumerSaw, NoRace
<1>2. IInv => HoldsTheRest /\ NothingLeftBehind BY RingContents, EndedTookAll DEF HoldsTheRest
<1> QED BY <1>1, <1>2, PipelineInductive, PTL DEF PInv

\* The main thread receives the trades of the sequential run, in order, never
\* one of an operation the matcher has not taken, and all of them: for every
\* capacity of the rings and every number of trades an operation makes.
THEOREM SequentialTrades == PipelineSpec => []TradesAsSequential
<1>1. ASSUME PInv PROVE TradesAsSequential
  <2>1. \A i \in DOMAIN received : received[i] = i BY <1>1 DEF PInv, OutRing!IInv, OutRing!PoppedInOrder
  <2>2. emitted \in Nat /\ Len(received) \in 0 .. emitted
    BY <1>1, OutRing!TakesWhatWasPushed, OutAssumption, TradesUpToIs, RingAssumption
        DEF PInv, OutRing!IInv, OutRing!TypeOK
  <2>3. TradesUpTo[Len(popped)] \in Nat /\ emitted <= TradesUpTo[Len(popped)]
    BY <1>1, TakenOperations DEF PInv, TradesHandedOn
  <2>4. receiving = "ended" => Len(received) = TradesUpTo[Total]
    BY <1>1, OutRing!EndedTookAll, OutAssumption DEF PInv, OutRing!NothingLeftBehind
  <2> QED BY <2>1, <2>2, <2>3, <2>4 DEF TradesAsSequential
<1> QED BY <1>1, PipelineInductive, PTL

\* Each of the two rings is a bounded first-in first-out queue to the threads at
\* its ends.
THEOREM BothRingsAreQueues == PipelineSpec => RingsAreQueues
<1>1. PipelineSpec => ImplementsQueue
  <2>1. PipelineInit => Init BY DEF PipelineInit
  <2>2. [PipelineNext]_pipeline => [Next]_vars BY RingSteps
  <2> QED BY <2>1, <2>2, QueueRefinement, PTL DEF PipelineSpec
<1>2. PipelineSpec => OutRing!ImplementsQueue
  <2>1. PipelineInit => OutRing!Init BY SameRing DEF PipelineInit
  <2>2. [PipelineNext]_pipeline => [OutRing!Next]_(OutRing!vars) BY RingSteps
  <2> QED BY <2>1, <2>2, OutRing!QueueRefinement, OutAssumption, PTL DEF PipelineSpec
<1>3. OutRing!ImplementsQueue => Out!ImplementsQueue
  <2> DEFINE slots(waiting) == [i \in 1 .. waiting |-> outBuf[(outHead + i - 1) % OutCapacity]]
  <2>1. OutRing!Waiting = Out!Waiting BY DEF OutRing!Waiting, Out!Waiting
  <2>2. OutRing!Waiting' = Out!Waiting' BY DEF OutRing!Waiting, Out!Waiting
  <2>3. OutRing!Queue!Init => Out!Queue!Init BY <2>1 DEF OutRing!Queue!Init, Out!Queue!Init
  <2>4. [OutRing!Queue!Push \/ OutRing!Queue!Pop]_(slots(OutRing!Waiting))
           => [Out!Queue!Push \/ Out!Queue!Pop]_(slots(Out!Waiting))
    BY <2>1, <2>2 DEF OutRing!Queue!Push, Out!Queue!Push, OutRing!Queue!Pop, Out!Queue!Pop
  <2> QED BY <2>3, <2>4, PTL
        DEF OutRing!ImplementsQueue, Out!ImplementsQueue, OutRing!Queue!Spec, Out!Queue!Spec
<1> QED BY <1>1, <1>2, <1>3, PTL DEF RingsAreQueues
==============================================================================
