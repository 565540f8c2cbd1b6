--------------------------- MODULE SpscRingProofs ----------------------------
(***************************************************************************)
(* SpscRing for every capacity and any number of items: no race on a slot, *)
(* nothing lost, and the ring as a bounded queue.                          *)
(*                                                                         *)
(* Counting modulo Capacity is kept out of the induction: Ahead(j) is the  *)
(* distance from head_ to slot j without "%", and the lemmas on Mod tie it *)
(* to the definitions of the specification.                                *)
(***************************************************************************)
EXTENDS SpscRing, TLAPS

\* Steps from head_ to slot j, the way the indexes advance.
Ahead(j) == IF j >= head THEN j - head ELSE j - head + Capacity

\* Every slot between head_ and tail_ holds the item its distance says.
SlotsInOrder ==
    /\ Ahead(tail) = pushed - Taken
    /\ \A j \in Slot : Ahead(j) < Ahead(tail) => buf[j] = Taken + Ahead(j) + 1

\* What the producer found out stays true until it acts on it: only it can
\* take the free slot it saw.
ProducerSaw ==
    /\ pushing \in {"write", "publish"} => Ahead(tail) < Capacity - 1 /\ pushed < Total
    /\ pushing = "publish" => buf[tail] = pushed + 1
    /\ done <=> pushing = "ended"
    /\ done => pushed = Total

\* Likewise the consumer: only it can take the item it saw, and after the flag
\* no item comes any more.
ConsumerSaw ==
    /\ popping \in {"read", "release"} => head # tail
    /\ popping = "release" => Len(popped) > 0
    /\ popping \in {"empty", "ended"} => done
    /\ popping = "ended" => head = tail

PoppedInOrder == \A i \in DOMAIN popped : popped[i] = i

IInv == TypeOK /\ SlotsInOrder /\ ProducerSaw /\ ConsumerSaw /\ PoppedInOrder
------------------------------------------------------------------------------
(* Counting modulo the capacity *)

\* What "%" does on the numbers the ring's indexes can lead to.
LEMMA ModCapacity ==
    ASSUME NEW a \in Int
    PROVE  /\ a \in 0 .. (Capacity - 1) => a % Capacity = a
           /\ a \in Capacity .. (2 * Capacity - 1) => a % Capacity = a - Capacity
           /\ a \in (0 - Capacity) .. (-1) => a % Capacity = a + Capacity
<1>1. Capacity \in Nat /\ Capacity > 1 BY RingAssumption
<1> DEFINE C == Capacity
<1>2. C \in Nat /\ C > 1 BY <1>1
<1> HIDE DEF C
<1>3. a \in 0 .. (C - 1) => a % C = a BY <1>2
<1>4. a \in C .. (2 * C - 1) => a % C = a - C BY <1>2
<1>5. a \in (0 - C) .. (-1) => a % C = a + C BY <1>2
<1> QED BY <1>3, <1>4, <1>5 DEF C

\* The specification's indexes and counts, without "%".
LEMMA WithoutMod ==
    ASSUME head \in Slot, tail \in Slot
    PROVE  /\ Waiting = Ahead(tail)
           /\ \A i \in Slot : Following(i) = IF i = Capacity - 1 THEN 0 ELSE i + 1
           /\ \A j \in Slot : Ahead(j) \in Slot /\ (head + Ahead(j)) % Capacity = j
           /\ IsFull <=> Ahead(tail) = Capacity - 1
           /\ Ahead(tail) = 0 <=> head = tail
<1> USE RingAssumption DEF Slot
<1>1. tail - head \in Int BY DEF Slot
<1>2. Waiting = Ahead(tail) BY <1>1, ModCapacity DEF Waiting, Ahead
<1>3. \A i \in Slot : Following(i) = IF i = Capacity - 1 THEN 0 ELSE i + 1
  BY ModCapacity DEF Following
<1>4. ASSUME NEW j \in Slot
      PROVE  Ahead(j) \in Slot /\ (head + Ahead(j)) % Capacity = j
  <2>1. Ahead(j) \in Slot BY DEF Ahead
  <2>2. head + Ahead(j) \in Int /\ (head + Ahead(j) = j \/ head + Ahead(j) = j + Capacity)
    BY DEF Ahead
  <2> QED BY <2>1, <2>2, ModCapacity
<1>5. IsFull <=> Ahead(tail) = Capacity - 1 BY <1>3 DEF IsFull, Ahead
<1>6. Ahead(tail) = 0 <=> head = tail BY DEF Ahead
<1> QED BY <1>2, <1>3, <1>4, <1>5, <1>6

\* Taken is a number of items, and counts the item being handed back as still
\* there.
LEMMA TakenIsNat ==
    ASSUME TypeOK, ConsumerSaw
    PROVE  Taken \in Nat
BY DEF Taken, TypeOK, ConsumerSaw
------------------------------------------------------------------------------
(* The invariant is inductive *)

\* It holds when the program starts.
LEMMA InitIInv == Init => IInv
BY RingAssumption DEF Init, IInv, TypeOK, SlotsInOrder, ProducerSaw, ConsumerSaw, PoppedInOrder,
    Ahead, Taken, Slot

\* A step that leaves the ring's indexes and counts alone leaves the distances
\* alone.
LEMMA PushCheckIInv == IInv /\ PushCheck => IInv'
<1> SUFFICES ASSUME IInv, PushCheck PROVE IInv' OBVIOUS
<1> USE RingAssumption DEF IInv, PushCheck, ring, producer, consumer
<1>1. TypeOK' BY DEF TypeOK
<1>2. SlotsInOrder' BY DEF SlotsInOrder, Ahead, Taken
<1>3. ProducerSaw'
  <2>1. Ahead(tail) \in Slot /\ Ahead(tail) # Capacity - 1 BY WithoutMod DEF TypeOK
  <2> QED BY <2>1 DEF ProducerSaw, TypeOK, Ahead, Slot
<1>4. ConsumerSaw' BY DEF ConsumerSaw
<1>5. PoppedInOrder' BY DEF PoppedInOrder
<1> QED BY <1>1, <1>2, <1>3, <1>4, <1>5

\* The producer writes the slot it saw free, which holds no item.
LEMMA PushWriteIInv == IInv /\ PushWrite => IInv'
<1> SUFFICES ASSUME IInv, PushWrite PROVE IInv' OBVIOUS
<1> USE RingAssumption DEF IInv, PushWrite, ring, producer, consumer
<1>1. TypeOK' BY DEF TypeOK, ProducerSaw
<1>2. SlotsInOrder' BY DEF SlotsInOrder, Ahead, Taken, TypeOK
<1>3. ProducerSaw' BY DEF ProducerSaw, TypeOK, Ahead
<1>4. ConsumerSaw' BY DEF ConsumerSaw
<1>5. PoppedInOrder' BY DEF PoppedInOrder
<1> QED BY <1>1, <1>2, <1>3, <1>4, <1>5

\* The item just written becomes the last of those between head_ and tail_.
LEMMA PushPublishIInv == IInv /\ PushPublish => IInv'
<1> SUFFICES ASSUME IInv, PushPublish PROVE IInv' OBVIOUS
<1> USE RingAssumption DEF IInv, PushPublish, ring, producer, consumer
<1>1. tail' = IF tail = Capacity - 1 THEN 0 ELSE tail + 1 BY WithoutMod DEF TypeOK
<1>2. Ahead(tail) < Capacity - 1 BY DEF ProducerSaw
<1>3. head \in Slot /\ tail \in Slot /\ head' = head /\ tail' \in Slot BY <1>1 DEF TypeOK, Slot
<1>4. Ahead(tail)' = Ahead(tail) + 1 BY <1>1, <1>2, <1>3 DEF Ahead, Slot
<1>5. \A j \in Slot : Ahead(j)' = Ahead(j) BY <1>3 DEF Ahead
<1>6. \A j \in Slot : Ahead(j) = Ahead(tail) => j = tail BY <1>3 DEF Ahead, Slot
<1>7. Taken' = Taken /\ Taken \in Nat BY TakenIsNat DEF Taken
<1>8. TypeOK' BY <1>3 DEF TypeOK, ProducerSaw
<1>9. SlotsInOrder'
  <2>1. Ahead(tail)' = (pushed - Taken)' BY <1>4, <1>7 DEF SlotsInOrder, TypeOK
  <2>2. ASSUME NEW j \in Slot, Ahead(j)' < Ahead(tail)' PROVE buf'[j] = (Taken + Ahead(j) + 1)'
    <3>1. Ahead(j) \in Slot /\ Ahead(tail) \in Slot BY <1>3, WithoutMod
    <3>2. CASE j = tail BY <3>2, <1>5, <1>7 DEF SlotsInOrder, ProducerSaw, TypeOK, Slot
    <3>3. CASE j # tail
      <4>1. Ahead(j) < Ahead(tail) BY <3>3, <3>1, <2>2, <1>4, <1>5, <1>6 DEF Slot
      <4> QED BY <4>1, <1>5, <1>7 DEF SlotsInOrder
    <3> QED BY <3>2, <3>3
  <2> QED BY <2>1, <2>2 DEF SlotsInOrder, Slot
<1>10. ProducerSaw' BY DEF ProducerSaw
<1>11. ConsumerSaw'
  <2>1. Ahead(tail)' # 0 BY <1>3, <1>4, WithoutMod DEF Slot
  <2>2. head' # tail' BY <2>1 DEF Ahead, TypeOK, Slot
  <2> QED BY <2>2 DEF ConsumerSaw, ProducerSaw
<1>12. PoppedInOrder' BY DEF PoppedInOrder
<1> QED BY <1>8, <1>9, <1>10, <1>11, <1>12

\* The producer raises its flag after its last item.
LEMMA RaiseDoneIInv == IInv /\ RaiseDone => IInv'
<1> SUFFICES ASSUME IInv, RaiseDone PROVE IInv' OBVIOUS
<1> USE RingAssumption DEF IInv, RaiseDone, ring, producer, consumer
<1>1. TypeOK' BY DEF TypeOK
<1>2. SlotsInOrder' BY DEF SlotsInOrder, Ahead, Taken
<1>3. ProducerSaw' BY DEF ProducerSaw
<1>4. ConsumerSaw' BY DEF ConsumerSaw
<1>5. PoppedInOrder' BY DEF PoppedInOrder
<1> QED BY <1>1, <1>2, <1>3, <1>4, <1>5

\* The consumer's looks at the indexes and the flag; popping "empty" to "ended"
\* is the case for which the flag is read before the ring.
LEMMA LookIInv == IInv /\ (PopCheck \/ SeeDone \/ SeeEmpty) => IInv'
<1> SUFFICES ASSUME IInv, PopCheck \/ SeeDone \/ SeeEmpty PROVE IInv' OBVIOUS
<1> USE DEF IInv, PopCheck, SeeDone, SeeEmpty, ring, producer, consumer
<1>1. TypeOK' BY DEF TypeOK
<1>2. Taken' = Taken BY DEF Taken
<1>3. SlotsInOrder' BY <1>2 DEF SlotsInOrder, Ahead
<1>4. ProducerSaw' BY DEF ProducerSaw, Ahead
<1>5. ConsumerSaw' BY DEF ConsumerSaw
<1>6. PoppedInOrder' BY DEF PoppedInOrder
<1> QED BY <1>1, <1>3, <1>4, <1>5, <1>6

\* The consumer reads the oldest item.
LEMMA PopReadIInv == IInv /\ PopRead => IInv'
<1> SUFFICES ASSUME IInv, PopRead PROVE IInv' OBVIOUS
<1> USE RingAssumption DEF IInv, PopRead, ring, producer, consumer
<1>1. buf[head] = Len(popped) + 1 /\ buf[head] \in 0 .. Total
  <2>1. head \in Slot /\ tail \in Slot /\ head # tail BY DEF TypeOK, ConsumerSaw
  <2>2. Ahead(head) = 0 /\ Ahead(tail) \in Slot /\ Ahead(tail) # 0
    BY <2>1, WithoutMod DEF Ahead, Slot
  <2>3. Taken = Len(popped) /\ Taken \in Nat BY TakenIsNat DEF Taken, TypeOK
  <2>4. Ahead(head) < Ahead(tail) BY <2>2 DEF Slot
  <2>5. buf[head] = Taken + Ahead(head) + 1 BY <2>1, <2>4 DEF SlotsInOrder
  <2> QED BY <2>1, <2>2, <2>3, <2>5 DEF TypeOK
<1>2. TypeOK' BY <1>1 DEF TypeOK
<1>3. popped \in Seq(0 .. Total) /\ Len(popped') = Len(popped) + 1 BY <1>1 DEF TypeOK
<1>4. Taken' = Taken BY <1>3 DEF Taken
<1>5. SlotsInOrder' BY <1>4 DEF SlotsInOrder, Ahead
<1>6. ProducerSaw' BY DEF ProducerSaw, Ahead
<1>7. ConsumerSaw' BY <1>3 DEF ConsumerSaw
<1>8. PoppedInOrder' BY <1>1, <1>3 DEF PoppedInOrder
<1> QED BY <1>2, <1>5, <1>6, <1>7, <1>8

\* The oldest item leaves: every other one is a step nearer to head_.
LEMMA PopReleaseIInv == IInv /\ PopRelease => IInv'
<1> SUFFICES ASSUME IInv, PopRelease PROVE IInv' OBVIOUS
<1> USE RingAssumption DEF IInv, PopRelease, ring, producer, consumer
<1>1. head' = IF head = Capacity - 1 THEN 0 ELSE head + 1 BY WithoutMod DEF TypeOK
<1>2. head \in Slot /\ tail \in Slot /\ head # tail /\ head' \in Slot /\ tail' = tail
  BY <1>1 DEF TypeOK, ConsumerSaw, Slot
<1>3. \A j \in Slot : j # head => Ahead(j)' = Ahead(j) - 1 BY <1>1, <1>2 DEF Ahead, Slot
<1>4. \A j \in Slot : j = head => Ahead(j)' = Capacity - 1 BY <1>1, <1>2 DEF Ahead, Slot
<1>5. Taken' = Taken + 1 /\ Taken \in Nat BY TakenIsNat DEF Taken, TypeOK
<1>6. Ahead(tail)' = Ahead(tail) - 1 /\ Ahead(tail) \in Slot
  <2>1. Ahead(tail)' = IF tail >= head' THEN tail - head' ELSE tail - head' + Capacity
    BY <1>2 DEF Ahead
  <2>2. Ahead(tail) \in Slot BY <1>2, WithoutMod
  <2> QED BY <2>1, <2>2, <1>1, <1>2 DEF Ahead, Slot
<1>7. TypeOK' BY <1>2 DEF TypeOK
<1>8. SlotsInOrder'
  <2>1. Ahead(tail)' = (pushed - Taken)' BY <1>5, <1>6 DEF SlotsInOrder, TypeOK
  <2>2. ASSUME NEW j \in Slot, Ahead(j)' < Ahead(tail)' PROVE buf'[j] = (Taken + Ahead(j) + 1)'
    <3>1. j # head BY <2>2, <1>4, <1>6 DEF Slot
    <3>2. Ahead(j)' = Ahead(j) - 1 /\ Ahead(j) \in Slot BY <3>1, <1>2, <1>3, WithoutMod
    <3>3. Ahead(j) < Ahead(tail) BY <3>2, <2>2, <1>6 DEF Slot
    <3> QED BY <3>2, <3>3, <1>5 DEF SlotsInOrder, Slot
  <2> QED BY <2>1, <2>2 DEF SlotsInOrder, Slot
<1>9. ProducerSaw'
  <2>1. Ahead(tail)' < Ahead(tail) BY <1>6 DEF Slot
  <2> QED BY <2>1, <1>6 DEF ProducerSaw, Slot
<1>10. ConsumerSaw' BY DEF ConsumerSaw
<1>11. PoppedInOrder' BY DEF PoppedInOrder
<1> QED BY <1>7, <1>8, <1>9, <1>10, <1>11

\* IInv is inductive: Producer and Consumer step by step, and stuttering.
LEMMA NextIInv == IInv /\ [Next]_vars => IInv'
<1> SUFFICES ASSUME IInv, [Next]_vars PROVE IInv' OBVIOUS
<1>1. CASE UNCHANGED vars
  BY <1>1 DEF IInv, TypeOK, SlotsInOrder, ProducerSaw, ConsumerSaw, PoppedInOrder, Ahead, Taken, vars
<1>2. CASE Producer
  <2>1. CASE PushFull BY <2>1, <1>1 DEF PushFull
  <2> QED BY <2>1, <1>2, PushCheckIInv, PushWriteIInv, PushPublishIInv, RaiseDoneIInv DEF Producer
<1>3. CASE Consumer BY <1>3, LookIInv, PopReadIInv, PopReleaseIInv DEF Consumer
<1>4. CASE Ended BY <1>4, <1>1 DEF Ended
<1> QED BY <1>1, <1>2, <1>3, <1>4 DEF Next

\* So it holds always.
LEMMA Inductive == Spec => []IInv
BY InitIInv, NextIInv, PTL DEF Spec
------------------------------------------------------------------------------
(* What follows *)

\* Indexes, counts and places in the code keep their types, for every capacity.
THEOREM TypeCorrect == Spec => []TypeOK
BY Inductive, PTL DEF IInv

\* push() never writes the slot pop() reads at that moment, which is what makes
\* buf_[] safe without atomics.
THEOREM NoRaceSafe == Spec => []NoRace
<1>1. IInv => NoRace BY DEF IInv, ConsumerSaw, NoRace
<1> QED BY <1>1, Inductive, PTL

\* The offsets the specification counts with are distances from head_.
LEMMA RingContents ==
    ASSUME IInv
    PROVE  /\ Waiting = pushed - Taken
           /\ Waiting \in Slot
           /\ \A i \in 0 .. (Waiting - 1) : buf[(head + i) % Capacity] = Taken + i + 1
<1> USE RingAssumption DEF IInv
<1>1. head \in Slot /\ tail \in Slot BY DEF TypeOK
<1>2. Waiting = Ahead(tail) /\ Waiting \in Slot BY <1>1, WithoutMod
<1>3. ASSUME NEW i \in 0 .. (Waiting - 1)
      PROVE  buf[(head + i) % Capacity] = Taken + i + 1
  <2> DEFINE j == IF head + i < Capacity THEN head + i ELSE head + i - Capacity
  <2>1. j \in Slot /\ Ahead(j) = i BY <1>1, <1>2 DEF Ahead, Slot
  <2>2. (head + i) % Capacity = j BY <2>1, <1>1, WithoutMod
  <2>3. Ahead(j) < Ahead(tail) BY <2>1, <1>2 DEF Slot
  <2>4. buf[j] = Taken + Ahead(j) + 1 BY <2>1, <2>3 DEF SlotsInOrder
  <2> HIDE DEF j
  <2> QED BY <2>1, <2>2, <2>4
<1> QED BY <1>2, <1>3 DEF SlotsInOrder

\* No more is taken than was pushed; an item being read is still counted in.
LEMMA TakesWhatWasPushed ==
    ASSUME IInv
    PROVE  /\ Len(popped) \in 0 .. pushed
           /\ popping = "read" => Len(popped) < pushed
<1> USE DEF IInv
<1>1. Len(popped) \in Nat /\ pushed \in 0 .. Total BY DEF TypeOK
<1>2. Taken \in Nat /\ Waiting = pushed - Taken /\ Waiting \in Slot BY TakenIsNat, RingContents
<1>3. popping \in {"read", "release"} => Waiting > 0
  <2>1. Waiting = Ahead(tail) /\ (Ahead(tail) = 0 <=> head = tail) BY WithoutMod DEF TypeOK
  <2> QED BY <2>1, <1>2, RingAssumption DEF ConsumerSaw, Slot
<1>4. Len(popped) = Taken + (IF popping = "release" THEN 1 ELSE 0) BY <1>1 DEF Taken
<1> QED BY <1>1, <1>2, <1>3, <1>4, RingAssumption DEF Slot

\* The ring holds exactly what was pushed and not yet popped, oldest first.
THEOREM ContentsExact == Spec => []HoldsTheRest
<1>1. IInv => HoldsTheRest BY RingContents DEF HoldsTheRest
<1> QED BY <1>1, Inductive, PTL

\* A consumer that ended saw the flag, which is raised after the last push, and
\* then the ring empty.
LEMMA EndedTookAll ==
    ASSUME IInv
    PROVE  NothingLeftBehind
<1> USE DEF IInv
<1>1. ASSUME popping = "ended" PROVE Len(popped) = Total
  <2>1. head = tail /\ pushed = Total BY <1>1 DEF ConsumerSaw, ProducerSaw
  <2>2. Ahead(tail) = 0 BY <2>1, WithoutMod DEF TypeOK
  <2>3. Taken = Len(popped) BY <1>1 DEF Taken, TypeOK
  <2> QED BY <2>1, <2>2, <2>3 DEF SlotsInOrder, TypeOK
<1> QED BY <1>1 DEF PoppedInOrder, NothingLeftBehind

\* The consumer takes every item once and in order, and does not end early.
THEOREM NothingLost == Spec => []NothingLeftBehind
BY EndedTookAll, Inductive, PTL
------------------------------------------------------------------------------
(* The ring implements the bounded queue *)

\* The queue the ring stands for.
queue == [i \in 1 .. Waiting |-> buf[(head + i - 1) % Capacity]]

\* It is the run of numbers from the oldest item to the youngest.
LEMMA QueueIs ==
    ASSUME IInv
    PROVE  queue = [i \in 1 .. (pushed - Taken) |-> Taken + i]
<1>1. Waiting \in Nat /\ Waiting = pushed - Taken BY RingContents, RingAssumption DEF Slot
<1>2. ASSUME NEW i \in 1 .. Waiting PROVE buf[(head + i - 1) % Capacity] = Taken + i
  <2>1. i - 1 \in 0 .. (Waiting - 1) /\ Taken \in Nat BY <1>1, TakenIsNat DEF IInv
  <2>2. buf[(head + (i - 1)) % Capacity] = Taken + (i - 1) + 1 BY <2>1, RingContents
  <2>3. head + (i - 1) = head + i - 1 BY RingAssumption DEF IInv, TypeOK, Slot
  <2> QED BY <2>1, <2>2, <2>3
<1> QED BY <1>1, <1>2 DEF queue

\* The store to tail_ appends the item, the store to head_ takes the oldest, and
\* no other step shows.
LEMMA StepOfQueue ==
    ASSUME IInv, IInv', [Next]_vars
    PROVE  \/ Len(queue) < Capacity - 1 /\ pushed + 1 \in 1 .. Total /\ queue' = Append(queue, pushed + 1)
           \/ queue # <<>> /\ queue' = Tail(queue)
           \/ queue' = queue
<1> DEFINE run(a, b) == [i \in 1 .. (b - a) |-> a + i]
<1>1. queue = run(Taken, pushed) /\ queue' = run(Taken', pushed')
  <2>1. queue = run(Taken, pushed) BY QueueIs
  <2>2. (IInv => queue = run(Taken, pushed))' BY QueueIs, PTL
  <2> QED BY <2>1, <2>2
<1>2. pushed \in 0 .. Total /\ Taken \in Nat /\ pushed - Taken \in 0 .. (Capacity - 1)
  BY RingAssumption, RingContents, TakenIsNat DEF IInv, TypeOK, Slot
<1>3. Len(run(Taken, pushed)) = pushed - Taken BY <1>2
<1>4. CASE PushPublish
  <2>1. pushed' = pushed + 1 /\ Taken' = Taken BY <1>4 DEF PushPublish, consumer, Taken
  <2>2. pushed - Taken < Capacity - 1 /\ pushed < Total
    BY <1>4 DEF PushPublish, IInv, ProducerSaw, SlotsInOrder
  <2>3. run(Taken, pushed + 1) = Append(run(Taken, pushed), pushed + 1) BY <1>2
  <2> HIDE DEF run
  <2>4. queue' = Append(queue, pushed + 1) BY <2>1, <2>3, <1>1
  <2>5. Len(queue) < Capacity - 1 BY <2>2, <1>1, <1>3
  <2>6. pushed + 1 \in 1 .. Total BY <2>2, <1>2, RingAssumption
  <2> QED BY <2>4, <2>5, <2>6
<1>5. CASE PopRelease
  <2>1. pushed' = pushed /\ Taken' = Taken + 1
    BY <1>2, <1>5 DEF PopRelease, producer, Taken, IInv, TypeOK
  <2>2. pushed - Taken > 0
    <3>1. Ahead(tail) # 0 BY <1>5, WithoutMod DEF PopRelease, IInv, TypeOK, ConsumerSaw
    <3> QED BY <3>1, <1>2 DEF IInv, SlotsInOrder
  <2>3. run(Taken + 1, pushed) = Tail(run(Taken, pushed)) BY <1>2, <2>2
  <2>4. queue # <<>> BY <2>2, <1>1, <1>2, <1>3
  <2> HIDE DEF run
  <2>5. queue' = Tail(queue) BY <2>1, <2>3, <1>1
  <2> QED BY <2>4, <2>5
<1>6. CASE ~PushPublish /\ ~PopRelease
  <2>1. UNCHANGED <<head, tail, pushed>> /\ Taken' = Taken
    BY <1>6 DEF Next, Producer, Consumer, PushFull, PushCheck, PushWrite, RaiseDone, PopCheck,
        PopRead, SeeDone, SeeEmpty, Ended, vars, ring, producer, consumer, Taken, IInv, TypeOK
  <2> QED BY <2>1, <1>1
<1> QED BY <1>4, <1>5, <1>6

\* The steps alone make the ring a queue, whatever the scheduler does.
LEMMA QueueRefinement == Init /\ [][Next]_vars => ImplementsQueue
<1>1. Init => Queue!Init
  <2> SUFFICES ASSUME Init PROVE queue = <<>> BY DEF Queue!Init, queue
  <2>1. IInv /\ pushed = 0 /\ Taken = 0 BY InitIInv DEF Init, Taken
  <2> QED BY <2>1, QueueIs
<1>2. IInv /\ IInv' /\ [Next]_vars => [Queue!Push \/ Queue!Pop]_queue
  BY StepOfQueue DEF Queue!Push, Queue!Pop, queue
<1> QED BY <1>1, <1>2, InitIInv, NextIInv, PTL DEF ImplementsQueue, Queue!Spec, queue

\* Whatever the loads and stores of the two threads interleave with, the ring
\* is a first-in first-out queue of at most Capacity - 1 items.
THEOREM RingImplementsQueue == Spec => ImplementsQueue
BY QueueRefinement, PTL DEF Spec
==============================================================================
