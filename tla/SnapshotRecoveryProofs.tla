----------------------- MODULE SnapshotRecoveryProofs ------------------------
(***************************************************************************)
(* MoldSession for every feed, every way to cut it into packets and every  *)
(* network: what reaches the subscriber, what is held, and that the        *)
(* re-request server can answer what a subscriber asks for.  Then          *)
(* SnapshotRecovery: the book of a subscriber that joins late.             *)
(***************************************************************************)
EXTENDS SnapshotRecovery, FiniteSetTheorems, SequenceTheorems, WellFoundedInduction, TLAPS

\* A nonempty set of natural numbers has a least element.
LEMMA LeastNat ==
    ASSUME NEW S \in SUBSET Nat, S # {}
    PROVE  \E x \in S : \A y \in S : x <= y
<1> DEFINE R == OpToRel(<, Nat)
<1>1. \E x \in S : \A y \in S : ~(<<y, x>> \in R)
  <2>1. IsWellFoundedOn(R, Nat) BY NatLessThanWellFounded
  <2> HIDE DEF R
  <2> QED BY <2>1, WFMin
<1>2. PICK x \in S : \A y \in S : ~(<<y, x>> \in R) BY <1>1
<1>3. \A y \in S : ~(y < x) BY <1>2 DEF OpToRel
<1> QED BY <1>3

\* The least of a set of natural numbers.
LEMMA MinOfNats ==
    ASSUME NEW S \in SUBSET Nat, S # {}
    PROVE  Min(S) \in S /\ \A y \in S : Min(S) <= y
BY LeastNat DEF Min

(* The session *)
\* Before the session exists nothing has happened to it.
BeforeJoin ==
    start = 0 =>
        /\ nextExpected = 0
        /\ DOMAIN pending = {}
        /\ requests = {}
        /\ delivered = <<>>

\* Where packets start, and the end of the feed.
Boundary == Starts \cup {FeedLength + 1}

\* The numbers of D come as whole packets: a number at which no packet starts
\* is in D when the one before it is.
Whole(D) == \A s \in (2 .. FeedLength) \ Starts : s \in D <=> s - 1 \in D

\* A subscriber that joined between two packets stays between packets.
Aligned == start \in Boundary => nextExpected \in Boundary /\ Whole(DOMAIN pending)

IInv ==
    /\ TypeOK
    /\ DeliveredInOrder
    /\ HeldBehindGap
    /\ RequestsCanBeAnswered
    /\ BeforeJoin
    /\ Aligned
------------------------------------------------------------------------------
(* Packets *)

\* A packet ends after it starts, where the next one starts or the feed ends.
LEMMA EndOfPacket ==
    ASSUME NEW s \in Starts
    PROVE  /\ EndOf(s) \in Boundary
           /\ EndOf(s) \in (s + 1) .. (FeedLength + 1)
           /\ \A t \in Starts : t > s => EndOf(s) <= t
<1> DEFINE S == {t \in Starts : t > s} \cup {FeedLength + 1}
<1>1. \A t \in Starts : t \in Nat /\ t <= FeedLength BY SessionAssumption
<1>2. FeedLength \in Nat /\ \A x \in S : x \in Nat BY <1>1, SessionAssumption
<1>3. S \in SUBSET Nat /\ S # {} BY <1>2
<1>4. Min(S) \in S /\ \A y \in S : Min(S) <= y BY <1>3, MinOfNats
<1>5. EndOf(s) = Min(S) BY DEF EndOf
<1>6. EndOf(s) \in S /\ \A y \in S : EndOf(s) <= y BY <1>4, <1>5
<1>7. \A t \in Starts : t > s => EndOf(s) <= t BY <1>6
<1>8. EndOf(s) \in (s + 1) .. (FeedLength + 1) BY <1>6, <1>1, <1>2
<1> QED BY <1>6, <1>7, <1>8 DEF Boundary

\* What a packet with messages looks like.
LEMMA DataPacket ==
    ASSUME NEW p \in Packet, p.kind = "data"
    PROVE  /\ p.seq \in Starts
           /\ Len(p.blocks) = EndOf(p.seq) - p.seq
           /\ \A i \in 1 .. Len(p.blocks) : p.blocks[i] = p.seq + i - 1
<1>1. PICK s \in Starts : p = Data(s)
  BY DEF Packet, Heartbeat, EndOfSession
<1>2. EndOf(s) - s \in Nat BY EndOfPacket, SessionAssumption
<1> QED BY <1>1, <1>2 DEF Data

\* Every packet's number is one of the feed or the one after it.
LEMMA PacketNumber ==
    ASSUME NEW p \in Packet
    PROVE  p.seq \in 1 .. (FeedLength + 1)
BY SessionAssumption DEF Packet, Data, Heartbeat, EndOfSession
------------------------------------------------------------------------------
(* Operations *)

\* maybe_request_gap_() asks for one run of messages, of a size a request can
\* carry, from the first one that is missing.
LEMMA RequestFits ==
    ASSUME IInv, start # 0, NEW observed \in 1 .. (FeedLength + 1)
    PROVE  /\ GapRequest(observed) \subseteq Request
           /\ start \in Boundary => \A r \in GapRequest(observed) : r.seq \in Starts
<1> USE SessionAssumption
<1>1. nextExpected \in 1 .. (FeedLength + 1) BY DEF IInv, TypeOK
<1>2. CASE observed <= nextExpected
  <2>1. GapRequest(observed) = {} BY <1>1, <1>2 DEF GapRequest
  <2> QED BY <2>1
<1>3. CASE observed > nextExpected
  <2> DEFINE S == {observed - nextExpected, RequestLimit}
  <2>1. S \in SUBSET Nat /\ S # {} BY <1>1, <1>3
  <2>2. Min(S) \in S /\ \A y \in S : Min(S) <= y BY <2>1, MinOfNats
  <2>3. Min(S) \in 1 .. RequestLimit BY <2>2, <1>1, <1>3
  <2>4. GapRequest(observed) = {[seq |-> nextExpected, count |-> Min(S)]} BY <1>3 DEF GapRequest
  <2> HIDE DEF S
  <2>5. GapRequest(observed) \subseteq Request BY <2>3, <2>4, <1>1 DEF Request
  <2>6. start \in Boundary => nextExpected \in Starts BY <1>1, <1>3 DEF IInv, Aligned, Boundary
  <2> QED BY <2>4, <2>5, <2>6
<1> QED BY <1>1, <1>2, <1>3

\* What is held once the messages of p joined pending_: each under its number.
LEMMA HeldIs ==
    ASSUME IInv, start # 0, NEW p \in Packet, p.kind = "data"
    PROVE  LET new == {t \in p.seq .. (EndOf(p.seq) - 1) : t >= nextExpected} IN
           /\ DOMAIN Held(p) = DOMAIN pending \cup new
           /\ DOMAIN Held(p) \subseteq nextExpected .. FeedLength
           /\ \A s \in DOMAIN Held(p) : Held(p)[s] = s
<1> USE SessionAssumption
<1>1. /\ p.seq \in Starts
      /\ Len(p.blocks) = EndOf(p.seq) - p.seq
      /\ \A i \in 1 .. Len(p.blocks) : p.blocks[i] = p.seq + i - 1
  BY DataPacket
<1>2. EndOf(p.seq) \in (p.seq + 1) .. (FeedLength + 1) /\ p.seq \in 1 .. FeedLength
  BY <1>1, EndOfPacket
<1>3. p.seq + Len(p.blocks) - 1 = EndOf(p.seq) - 1 BY <1>1, <1>2
<1> DEFINE new == {t \in p.seq .. (EndOf(p.seq) - 1) : t >= nextExpected}
<1>4. DOMAIN Held(p) = DOMAIN pending \cup new BY <1>3 DEF Held
<1>5. DOMAIN pending \subseteq nextExpected .. FeedLength /\ nextExpected \in 0 .. (FeedLength + 1)
  BY DEF IInv, TypeOK, HeldBehindGap
<1>6. new \subseteq nextExpected .. FeedLength BY <1>2, <1>5
<1>7. ASSUME NEW s \in DOMAIN Held(p) PROVE Held(p)[s] = s
  <2>1. CASE s \in DOMAIN pending BY <2>1, <1>4 DEF Held, IInv, HeldBehindGap
  <2>2. CASE s \notin DOMAIN pending
    <3>1. s \in new /\ s - p.seq + 1 \in 1 .. Len(p.blocks) BY <1>4, <1>1, <1>2, <2>2
    <3>2. p.blocks[s - p.seq + 1] = s BY <3>1, <1>1, <1>2
    <3>3. Held(p)[s] = p.blocks[s - p.seq + 1] BY <2>2, <1>4, <1>7 DEF Held
    <3> QED BY <3>2, <3>3
  <2> QED BY <2>1, <2>2
<1> QED BY <1>4, <1>5, <1>6, <1>7

\* deliver_ready_() stops at a number that is not held and passes only numbers
\* that are.
LEMMA FirstMissingIs ==
    ASSUME IInv, start # 0, NEW held, DOMAIN held \subseteq nextExpected .. FeedLength
    PROVE  /\ FirstMissing(held) \in nextExpected .. (FeedLength + 1)
           /\ FirstMissing(held) \notin DOMAIN held
           /\ \A t \in nextExpected .. (FirstMissing(held) - 1) : t \in DOMAIN held
<1> USE SessionAssumption
<1> DEFINE S == {s \in nextExpected .. (FeedLength + 1) : s \notin DOMAIN held}
<1>1. nextExpected \in 0 .. (FeedLength + 1) BY DEF IInv, TypeOK
<1>2. S \in SUBSET Nat /\ FeedLength + 1 \in S BY <1>1
<1>3. Min(S) \in S /\ \A y \in S : Min(S) <= y BY <1>2, MinOfNats
<1>4. FirstMissing(held) = Min(S) BY DEF FirstMissing
<1> HIDE DEF S
<1>5. FirstMissing(held) \in S /\ \A y \in S : FirstMissing(held) <= y BY <1>3, <1>4
<1> QED BY <1>5, <1>1 DEF S

\* Whole packets join what is held, so delivery stops between packets.
LEMMA StaysAligned ==
    ASSUME IInv, start # 0, start \in Boundary, NEW p \in Packet, p.kind = "data"
    PROVE  /\ Whole(DOMAIN Held(p))
           /\ FirstMissing(Held(p)) \in Boundary
           /\ Whole({t \in DOMAIN Held(p) : t > FirstMissing(Held(p))})
<1> USE SessionAssumption
<1> DEFINE new == {t \in p.seq .. (EndOf(p.seq) - 1) : t >= nextExpected}
           D == DOMAIN Held(p)
           m == FirstMissing(Held(p))
<1>1. D = DOMAIN pending \cup new /\ D \subseteq nextExpected .. FeedLength BY HeldIs
<1>2. p.seq \in Starts /\ p.seq \in 1 .. FeedLength BY DataPacket
<1>3. /\ EndOf(p.seq) \in Boundary /\ EndOf(p.seq) \in (p.seq + 1) .. (FeedLength + 1)
      /\ \A t \in Starts : t > p.seq => EndOf(p.seq) <= t
  BY <1>2, EndOfPacket
<1>4. /\ nextExpected \in Boundary /\ nextExpected \in 1 .. (FeedLength + 1)
      /\ Whole(DOMAIN pending)
  BY DEF IInv, Aligned, TypeOK
<1>5. nextExpected <= p.seq \/ nextExpected >= EndOf(p.seq) BY <1>2, <1>3, <1>4 DEF Boundary
<1>6. new = {} \/ new = p.seq .. (EndOf(p.seq) - 1) BY <1>2, <1>3, <1>4, <1>5
<1>7. Whole(new)
  <2> SUFFICES ASSUME NEW s \in (2 .. FeedLength) \ Starts PROVE s \in new <=> s - 1 \in new
    BY DEF Whole
  <2>1. s # p.seq /\ s # EndOf(p.seq) BY <1>2, <1>3 DEF Boundary
  <2> QED BY <2>1, <1>2, <1>3, <1>6
<1>8. Whole(D) BY <1>1, <1>4, <1>7 DEF Whole
<1>9. /\ m \in nextExpected .. (FeedLength + 1) /\ m \notin D
      /\ \A t \in nextExpected .. (m - 1) : t \in D
  BY <1>1, FirstMissingIs
<1> HIDE DEF m, D, new
<1>10. m \in Boundary
  <2> SUFFICES ASSUME m \notin Boundary PROVE FALSE OBVIOUS
  <2>1. m # nextExpected /\ m \in 2 .. FeedLength BY <1>4, <1>9 DEF Boundary
  <2>2. m - 1 \in D BY <2>1, <1>4, <1>9
  <2> QED BY <2>1, <2>2, <1>8, <1>9 DEF Whole, Boundary
<1>11. Whole({t \in D : t > m})
  <2> SUFFICES ASSUME NEW s \in (2 .. FeedLength) \ Starts
               PROVE  (s \in D /\ s > m) <=> (s - 1 \in D /\ s - 1 > m)
    BY DEF Whole
  <2>1. s \in D <=> s - 1 \in D BY <1>8 DEF Whole
  <2> QED BY <2>1, <1>4, <1>9
<1> QED BY <1>8, <1>10, <1>11 DEF m, D
------------------------------------------------------------------------------
(* The session's invariant is inductive *)

\* It holds when the program starts.
LEMMA InitIInv == Init => IInv
<1> SUFFICES ASSUME Init PROVE IInv OBVIOUS
<1> USE SessionAssumption DEF Init
<1>1. DOMAIN pending = {} OBVIOUS
<1>2. TypeOK
  <2>1. pending \in [DOMAIN pending -> 1 .. FeedLength] BY <1>1
  <2>2. <<>> \in Seq(1 .. FeedLength) OBVIOUS
  <2>3. 1 \in Boundary /\ 0 \in 0 .. (FeedLength + 1) BY DEF Boundary
  <2> QED BY <1>1, <2>1, <2>2, <2>3 DEF TypeOK, Boundary
<1>3. 0 \notin Boundary BY DEF Boundary
<1> QED BY <1>1, <1>2, <1>3
    DEF IInv, DeliveredInOrder, HeldBehindGap, RequestsCanBeAnswered, BeforeJoin, Aligned

\* on_packet() of a packet with messages.
LEMMA TakeMessagesIInv ==
    ASSUME IInv, start # 0, NEW p \in Packet, TakeMessages(p),
           UNCHANGED <<position, closed>>, wire' \subseteq wire
    PROVE  IInv'
<1> USE SessionAssumption
<1> DEFINE held == Held(p)
           m == FirstMissing(held)
<1>1. p.kind = "data" BY DEF TakeMessages
<1>2. DOMAIN held \subseteq nextExpected .. FeedLength /\ \A s \in DOMAIN held : held[s] = s
  BY <1>1, HeldIs
<1>3. /\ m \in nextExpected .. (FeedLength + 1) /\ m \notin DOMAIN held
      /\ \A t \in nextExpected .. (m - 1) : t \in DOMAIN held
  BY <1>2, FirstMissingIs
<1>4. nextExpected \in 1 .. (FeedLength + 1) /\ start \in 1 .. nextExpected /\ start \in Joins
  BY DEF IInv, TypeOK
<1>5. nextExpected' = m /\ start' = start /\ ended' = ended BY DEF TakeMessages
<1>6. /\ delivered' = delivered \o [i \in 1 .. (m - nextExpected) |-> held[nextExpected + i - 1]]
      /\ pending' = [s \in {t \in DOMAIN held : t > m \/ t < nextExpected} |-> held[s]]
      /\ requests' = requests \cup GapRequest(p.seq)
  BY DEF TakeMessages
<1>7. /\ start \in Boundary => m \in Boundary
      /\ start \in Boundary => Whole({t \in DOMAIN held : t > m})
  BY <1>1, StaysAligned
<1> HIDE DEF held, m
<1>8. [i \in 1 .. (m - nextExpected) |-> held[nextExpected + i - 1]]
        = [i \in 1 .. (m - nextExpected) |-> nextExpected + i - 1]
  <2>1. \A i \in 1 .. (m - nextExpected) : nextExpected + i - 1 \in DOMAIN held BY <1>3, <1>4
  <2> QED BY <2>1, <1>2
<1>9. /\ DOMAIN pending' = {t \in DOMAIN held : t > m}
      /\ \A s \in DOMAIN pending' : pending'[s] = s
  BY <1>2, <1>3, <1>4, <1>6
<1>10. /\ delivered' \in Seq(1 .. FeedLength)
       /\ Len(delivered') = m - start
       /\ \A i \in 1 .. (m - start) : delivered'[i] = start + i - 1
  <2> DEFINE n == m - nextExpected
             more == [i \in 1 .. n |-> nextExpected + i - 1]
  <2>1. delivered \in Seq(1 .. FeedLength) /\ Len(delivered) = nextExpected - start
    BY DEF IInv, TypeOK, DeliveredInOrder
  <2>2. n \in Nat /\ m \in Nat BY <1>3, <1>4
  <2>3. \A i \in 1 .. n : nextExpected + i - 1 \in 1 .. FeedLength BY <1>3, <1>4
  <2>4. more \in Seq(1 .. FeedLength) /\ Len(more) = n BY <2>2, <2>3
  <2>5. delivered' = delivered \o more BY <1>6, <1>8
  <2>6. \A i \in 1 .. n : more[i] = nextExpected + i - 1 OBVIOUS
  <2> HIDE DEF more
  <2>7. delivered' \in Seq(1 .. FeedLength) /\ Len(delivered') = Len(delivered) + n
    BY <2>1, <2>4, <2>5, ConcatProperties
  <2>8. ASSUME NEW i \in 1 .. (m - start) PROVE delivered'[i] = start + i - 1
    <3>1. delivered'[i] = IF i <= Len(delivered) THEN delivered[i] ELSE more[i - Len(delivered)]
      BY <2>1, <2>2, <2>4, <2>5, <1>3, <1>4
    <3>2. CASE i <= Len(delivered)
      <4>1. delivered[i] = start + i - 1 BY <3>2, <2>1 DEF IInv, DeliveredInOrder
      <4> QED BY <3>1, <3>2, <4>1
    <3>3. CASE i > Len(delivered)
      <4>1. i - Len(delivered) \in 1 .. n BY <3>3, <2>1, <1>3, <1>4
      <4>2. more[i - Len(delivered)] = nextExpected + (i - Len(delivered)) - 1 BY <4>1, <2>6
      <4> QED BY <3>1, <3>3, <4>2, <2>1, <1>4
    <3> QED BY <3>2, <3>3, <2>1, <1>4
  <2> QED BY <2>1, <2>2, <2>7, <2>8, <1>3, <1>4
<1>11. GapRequest(p.seq) \subseteq Request
       /\ (start \in Boundary => \A r \in GapRequest(p.seq) : r.seq \in Starts)
  <2>1. p.seq \in 1 .. (FeedLength + 1) BY PacketNumber
  <2> QED BY <2>1, RequestFits
<1>12. TypeOK'
  <2>1. DOMAIN pending' \subseteq 1 .. FeedLength BY <1>2, <1>4, <1>9
  <2>2. pending' \in [DOMAIN pending' -> 1 .. FeedLength] BY <2>1, <1>6, <1>9
  <2> QED BY <2>1, <2>2, <1>3, <1>4, <1>5, <1>6, <1>10, <1>11 DEF IInv, TypeOK
<1>13. DeliveredInOrder' BY <1>3, <1>4, <1>5, <1>10 DEF DeliveredInOrder
<1>14. HeldBehindGap' BY <1>5, <1>9 DEF HeldBehindGap
<1>15. RequestsCanBeAnswered' BY <1>5, <1>6, <1>11 DEF IInv, RequestsCanBeAnswered, Boundary
<1>16. BeforeJoin' BY <1>5 DEF BeforeJoin
<1>17. Aligned' BY <1>5, <1>7, <1>9 DEF Aligned
<1> QED BY <1>12, <1>13, <1>14, <1>15, <1>16, <1>17 DEF IInv

\* on_packet() of a heartbeat or end-of-session packet.
LEMMA TakeControlIInv ==
    ASSUME IInv, start # 0, NEW p \in Packet, TakeControl(p),
           UNCHANGED <<position, closed>>, wire' \subseteq wire
    PROVE  IInv'
<1>1. UNCHANGED <<start, nextExpected, pending, delivered>> /\ ended' \in BOOLEAN
  BY DEF TakeControl, IInv, TypeOK
<1>2. requests' = requests \cup GapRequest(p.seq) BY DEF TakeControl
<1>3. GapRequest(p.seq) \subseteq Request
      /\ (start \in Boundary => \A r \in GapRequest(p.seq) : r.seq \in Starts)
  <2>1. p.seq \in 1 .. (FeedLength + 1) BY PacketNumber
  <2> QED BY <2>1, RequestFits
<1>4. TypeOK' BY <1>1, <1>2, <1>3 DEF IInv, TypeOK
<1>5. DeliveredInOrder' /\ HeldBehindGap' BY <1>1 DEF IInv, DeliveredInOrder, HeldBehindGap
<1>6. RequestsCanBeAnswered' BY <1>1, <1>2, <1>3 DEF IInv, RequestsCanBeAnswered, Boundary
<1>7. BeforeJoin' /\ Aligned' BY <1>1 DEF IInv, BeforeJoin, Aligned
<1> QED BY <1>4, <1>5, <1>6, <1>7 DEF IInv

\* The session is constructed: nothing is held, delivered or asked for yet.
LEMMA JoinIInv ==
    ASSUME IInv, NEW s \in Joins, Join(s)
    PROVE  IInv'
<1> USE SessionAssumption
<1>1. start = 0 /\ start' = s /\ nextExpected' = s BY DEF Join
<1>2. UNCHANGED <<position, closed, wire, requests, pending, ended, delivered>> BY DEF Join
<1>3. DOMAIN pending = {} /\ requests = {} /\ delivered = <<>> BY <1>1 DEF IInv, BeforeJoin
<1>4. s \in 1 .. (FeedLength + 1) OBVIOUS
<1>5. TypeOK' BY <1>1, <1>2, <1>4 DEF IInv, TypeOK
<1>6. DeliveredInOrder' BY <1>1, <1>2, <1>3, <1>4 DEF DeliveredInOrder
<1>7. HeldBehindGap' /\ RequestsCanBeAnswered'
  BY <1>2, <1>3 DEF HeldBehindGap, RequestsCanBeAnswered
<1>8. BeforeJoin' BY <1>1, <1>4 DEF BeforeJoin
<1>9. Aligned' BY <1>1, <1>2, <1>3 DEF Aligned, Whole
<1> QED BY <1>5, <1>6, <1>7, <1>8, <1>9 DEF IInv

\* Steps of the publisher, the server and the network: the session stays as it
\* is, and nothing new is asked for.
LEMMA OutsideIInv ==
    ASSUME IInv, UNCHANGED session, requests' \subseteq requests,
           position' \in Boundary, closed' \in BOOLEAN, wire' \subseteq Packet
    PROVE  IInv'
<1>1. UNCHANGED <<start, nextExpected, pending, ended, delivered>> BY DEF session
<1>2. TypeOK' BY <1>1 DEF IInv, TypeOK, Boundary
<1>3. DeliveredInOrder' /\ HeldBehindGap' BY <1>1 DEF IInv, DeliveredInOrder, HeldBehindGap
<1>4. RequestsCanBeAnswered' BY <1>1 DEF IInv, RequestsCanBeAnswered
<1>5. BeforeJoin' /\ Aligned' BY <1>1 DEF IInv, BeforeJoin, Aligned
<1> QED BY <1>2, <1>3, <1>4, <1>5 DEF IInv

\* Every action keeps it, and so does a step that changes nothing.
LEMMA NextIInv == IInv /\ [Next]_vars => IInv'
<1> SUFFICES ASSUME IInv, [Next]_vars PROVE IInv' OBVIOUS
<1> USE SessionAssumption
<1>1. /\ position \in Boundary /\ position \in 1 .. (FeedLength + 1)
      /\ closed \in BOOLEAN /\ wire \subseteq Packet
  BY DEF IInv, TypeOK, Boundary
<1>2. CASE UNCHANGED vars BY <1>1, <1>2, OutsideIInv DEF vars, session
<1>3. CASE Publish
  <2>1. position' \in Boundary BY <1>3, EndOfPacket DEF Publish
  <2>2. wire' \subseteq Packet BY <1>1, <1>3 DEF Publish, Packet
  <2> QED BY <2>1, <2>2, <1>1, <1>3, OutsideIInv DEF Publish
<1>4. CASE SendHeartbeat
  <2>1. wire' \subseteq Packet BY <1>1, <1>4 DEF SendHeartbeat, Packet
  <2> QED BY <2>1, <1>1, <1>4, OutsideIInv DEF SendHeartbeat
<1>5. CASE Close
  <2>1. wire' \subseteq Packet BY <1>1, <1>5 DEF Close, Packet
  <2> QED BY <2>1, <1>1, <1>5, OutsideIInv DEF Close
<1>6. CASE \E s \in Joins : Join(s) BY <1>6, JoinIInv
<1>7. CASE \E p \in Packet : Receive(p) \/ ReceiveCopy(p)
  <2>1. PICK p \in Packet : Receive(p) \/ ReceiveCopy(p) BY <1>7
  <2>2. wire' \subseteq wire /\ OnPacket(p) BY <2>1 DEF Receive, ReceiveCopy
  <2> QED BY <2>2, TakeMessagesIInv, TakeControlIInv DEF OnPacket
<1>8. CASE \E r \in Request : Answer(r)
  <2>1. PICK r \in Request : Answer(r) BY <1>8
  <2>2. wire' \subseteq Packet BY <2>1, <1>1 DEF Answer, Packet
  <2> QED BY <2>1, <2>2, <1>1, OutsideIInv DEF Answer
<1>9. CASE Lose BY <1>1, <1>9, OutsideIInv DEF Lose
<1> QED BY <1>2, <1>3, <1>4, <1>5, <1>6, <1>7, <1>8, <1>9 DEF Next

\* So it holds always.
LEMMA Inductive == Spec => []IInv
BY InitIInv, NextIInv, PTL DEF Spec
------------------------------------------------------------------------------
(* What follows for the session *)

\* Packets and requests under way stay well-formed: no request is empty or
\* asks for more than its count can say.
THEOREM TypeCorrect == Spec => []TypeOK
BY Inductive, PTL DEF IInv

\* Whatever the network loses, repeats or reorders, and however the feed is cut
\* into packets, on_message_ sees every message from start_seq on once and in
\* order.
THEOREM InOrderDelivery == Spec => []DeliveredInOrder
BY Inductive, PTL DEF IInv

\* Between packets pending_ holds only messages behind a gap, each under its own
\* number: nothing stays in it for ever.
THEOREM PendingBehindGap == Spec => []HeldBehindGap
BY Inductive, PTL DEF IInv

\* The server, which looks requests up by the exact number a packet starts at,
\* has an answer to every request of a subscriber that joined at such a number,
\* though requests are cut off at RequestLimit messages and packets overtake
\* each other.
THEOREM ServerCanAnswer == Spec => []RequestsCanBeAnswered
BY Inductive, PTL DEF IInv
------------------------------------------------------------------------------
(* Applying events *)

\* after is what the subscriber has after each of the first n events.
IsApplying(after, sh, events, n) ==
    after = [i \in 0 .. n |-> IF i = 0 THEN sh ELSE Apply(after[i - 1], events[i])]

\* There is such a function: a least n without one is not 0, and what there is
\* for n - 1 goes one event further.
LEMMA ApplyingExists ==
    ASSUME NEW sh, NEW events, NEW n \in Nat
    PROVE  \E after : IsApplying(after, sh, events, n)
<1> DEFINE Missing == {x \in Nat : ~\E after : IsApplying(after, sh, events, x)}
<1> SUFFICES ASSUME Missing # {} PROVE FALSE OBVIOUS
<1>1. PICK x \in Missing : \A y \in Missing : x <= y BY LeastNat
<1>2. x # 0
  <2>1. IsApplying([i \in 0 .. 0 |-> sh], sh, events, 0) BY DEF IsApplying
  <2> QED BY <2>1
<1>3. x - 1 \in Nat /\ x - 1 \notin Missing BY <1>1, <1>2
<1>4. PICK f : IsApplying(f, sh, events, x - 1) BY <1>3
<1> DEFINE g == [i \in 0 .. x |-> IF i = x THEN Apply(f[x - 1], events[x]) ELSE f[i]]
<1>5. \A i \in 0 .. (x - 1) : f[i] = IF i = 0 THEN sh ELSE Apply(f[i - 1], events[i])
  BY <1>4 DEF IsApplying
<1>6. \A i \in 0 .. x : g[i] = IF i = 0 THEN sh ELSE Apply(g[i - 1], events[i])
  <2> TAKE i \in 0 .. x
  <2>1. CASE i = x BY <2>1, <1>2, <1>3
  <2>2. CASE i # x
    <3>1. i \in 0 .. (x - 1) /\ g[i] = f[i] BY <2>2, <1>3
    <3>2. i # 0 => g[i - 1] = f[i - 1] BY <3>1, <1>3
    <3> QED BY <3>1, <3>2, <1>5
  <2> QED BY <2>1, <2>2
<1>7. IsApplying(g, sh, events, x) BY <1>6 DEF IsApplying
<1> QED BY <1>7

\* There is only one, so Applied is its last value.
LEMMA AppliedIs ==
    ASSUME NEW sh, NEW events, Len(events) \in Nat, NEW f, IsApplying(f, sh, events, Len(events))
    PROVE  Applied(sh, events) = f[Len(events)]
<1> DEFINE n == Len(events)
           g == CHOOSE after : IsApplying(after, sh, events, n)
           Differ == {i \in 0 .. n : f[i] # g[i]}
<1>1. IsApplying(g, sh, events, n) /\ n \in Nat BY ApplyingExists
<1>2. Applied(sh, events) = g[n] BY DEF Applied, IsApplying
<1> HIDE DEF g, n
<1>3. Differ = {}
  <2> SUFFICES ASSUME Differ # {} PROVE FALSE OBVIOUS
  <2>1. Differ \in SUBSET Nat OBVIOUS
  <2>2. PICK x \in Differ : \A y \in Differ : x <= y BY <2>1, LeastNat
  <2>3. f[x] = IF x = 0 THEN sh ELSE Apply(f[x - 1], events[x]) BY DEF IsApplying, n
  <2>4. g[x] = IF x = 0 THEN sh ELSE Apply(g[x - 1], events[x]) BY <1>1 DEF IsApplying
  <2>5. x # 0 BY <2>3, <2>4
  <2>6. x - 1 \in 0 .. n /\ x - 1 \notin Differ BY <1>1, <2>2, <2>5
  <2> QED BY <2>3, <2>4, <2>5, <2>6
<1>4. n \in 0 .. n BY <1>1
<1> QED BY <1>2, <1>3, <1>4 DEF n

\* A subscriber's orders, all with a quantity.
Counted(sh) ==
    /\ sh = [id \in DOMAIN sh |-> sh[id]]
    /\ \A id \in DOMAIN sh : "qty" \in DOMAIN sh[id] /\ sh[id].qty \in Nat

\* Two books with the same orders, those with nothing left apart.
SameOrders(a, b) ==
    /\ \A id \in DOMAIN a : a[id].qty > 0 => id \in DOMAIN b /\ b[id] = a[id]
    /\ \A id \in DOMAIN b : b[id].qty > 0 => id \in DOMAIN a /\ a[id] = b[id]

\* That is what equal rows of two snapshots mean.
LEMMA SameRows ==
    ASSUME NEW a, NEW b
    PROVE  SameOrders(a, b) <=> Rows(a) = Rows(b)
<1>1. ASSUME SameOrders(a, b) PROVE Rows(a) = Rows(b)
  <2>1. \A id \in DOMAIN a : a[id].qty > 0 => b[id].qty > 0 /\ <<id, a[id]>> = <<id, b[id]>> /\ id \in DOMAIN b
    BY <1>1 DEF SameOrders
  <2>2. \A id \in DOMAIN b : b[id].qty > 0 => a[id].qty > 0 /\ <<id, a[id]>> = <<id, b[id]>> /\ id \in DOMAIN a
    BY <1>1 DEF SameOrders
  <2> QED BY <2>1, <2>2 DEF Rows
<1>2. ASSUME Rows(a) = Rows(b) PROVE SameOrders(a, b)
  <2>1. \A id \in DOMAIN a : a[id].qty > 0 => <<id, a[id]>> \in Rows(b) BY <1>2 DEF Rows
  <2>2. \A id \in DOMAIN b : b[id].qty > 0 => <<id, b[id]>> \in Rows(a) BY <1>2 DEF Rows
  <2> QED BY <2>1, <2>2 DEF Rows, SameOrders
<1> QED BY <1>1, <1>2

\* An event leaves every order with a quantity: none is taken below 0.
LEMMA ApplyCounted ==
    ASSUME NEW sh, Counted(sh), NEW ev, IsEvent(ev)
    PROVE  Counted(Apply(sh, ev))
<1>1. ASSUME NEW id PROVE Counted(Drop(sh, id))
  BY DEF Drop, Counted
<1>2. ASSUME NEW s, Counted(s), NEW id, NEW e, "qty" \in DOMAIN e, e.qty \in Nat PROVE Counted(Put(s, id, e))
  BY <1>2 DEF Put, Counted
<1>3. CASE ev.type = "Add"
  <2>1. Apply(sh, ev) = Put(sh, ev.new, ev.entry) BY <1>3 DEF Apply
  <2> QED BY <1>2, <1>3, <2>1 DEF IsEvent
<1>4. CASE ev.type = "Replace"
  <2>1. Apply(sh, ev) = Put(Drop(sh, ev.id), ev.new, ev.entry) BY <1>4 DEF Apply
  <2> QED BY <1>1, <1>2, <1>4, <2>1 DEF IsEvent
<1>5. CASE ev.type = "Delete" BY <1>1, <1>5 DEF Apply
<1>6. CASE ev.type = "Take" /\ ev.id \notin DOMAIN sh BY <1>6 DEF Apply
<1>7. CASE ev.type = "Take" /\ ev.id \in DOMAIN sh /\ ev.shares >= sh[ev.id].qty
  BY <1>1, <1>7 DEF Apply
<1>8. CASE ev.type = "Take" /\ ev.id \in DOMAIN sh /\ ~(ev.shares >= sh[ev.id].qty)
  <2> DEFINE less == [sh[ev.id] EXCEPT !.qty = sh[ev.id].qty - ev.shares]
  <2>1. Apply(sh, ev) = [sh EXCEPT ![ev.id].qty = @ - ev.shares] BY <1>8 DEF Apply
  <2>2. ev.shares \in Nat /\ sh[ev.id].qty \in Nat /\ "qty" \in DOMAIN sh[ev.id]
    BY <1>8 DEF IsEvent, Counted
  <2>3. sh[ev.id].qty - ev.shares \in Nat BY <1>8, <2>2
  <2>4. "qty" \in DOMAIN less /\ less.qty \in Nat BY <2>2, <2>3
  <2>5. Apply(sh, ev) = [o \in DOMAIN sh |-> IF o = ev.id THEN less ELSE sh[o]] BY <1>8, <2>1
  <2> HIDE DEF less
  <2> QED BY <2>4, <2>5 DEF Counted
<1> QED BY <1>3, <1>4, <1>5, <1>6, <1>7, <1>8 DEF IsEvent

\* An event does the same to both: orders with nothing left take no part.
LEMMA ApplySame ==
    ASSUME NEW a, Counted(a), NEW b, Counted(b), SameOrders(a, b), NEW ev, IsEvent(ev)
    PROVE  SameOrders(Apply(a, ev), Apply(b, ev))
<1>1. ASSUME NEW id PROVE SameOrders(Drop(a, id), Drop(b, id))
  BY DEF Drop, SameOrders
<1>2. ASSUME NEW s, NEW t, SameOrders(s, t), NEW id, NEW e PROVE SameOrders(Put(s, id, e), Put(t, id, e))
  BY <1>2 DEF Put, SameOrders
<1>3. CASE ev.type = "Add"
  <2>1. Apply(a, ev) = Put(a, ev.new, ev.entry) /\ Apply(b, ev) = Put(b, ev.new, ev.entry)
    BY <1>3 DEF Apply
  <2> QED BY <1>2, <2>1
<1>4. CASE ev.type = "Replace"
  <2>1. /\ Apply(a, ev) = Put(Drop(a, ev.id), ev.new, ev.entry)
        /\ Apply(b, ev) = Put(Drop(b, ev.id), ev.new, ev.entry)
    BY <1>4 DEF Apply
  <2> QED BY <1>1, <1>2, <2>1
<1>5. CASE ev.type = "Delete" BY <1>1, <1>5 DEF Apply
<1>6. CASE ev.type = "Take"
  <2> DEFINE id == ev.id
             Left(sh) == id \in DOMAIN sh /\ sh[id].qty > ev.shares
             Less(e) == [e EXCEPT !.qty = e.qty - ev.shares]
  <2>1. ev.shares \in Nat BY <1>6 DEF IsEvent
  <2>2. ASSUME NEW sh, Counted(sh), Left(sh)
        PROVE  /\ Apply(sh, ev) = [o \in DOMAIN sh |-> IF o = id THEN Less(sh[id]) ELSE sh[o]]
               /\ sh[id].qty > 0
    <3>1. sh[id].qty \in Nat /\ ~(ev.shares >= sh[id].qty) /\ id \in DOMAIN sh BY <2>1, <2>2 DEF Counted
    <3>2. Apply(sh, ev) = [sh EXCEPT ![id].qty = @ - ev.shares] BY <1>6, <3>1 DEF Apply
    <3>3. [sh EXCEPT ![id].qty = @ - ev.shares]
            = [o \in DOMAIN sh |-> IF o = id THEN [sh[id] EXCEPT !.qty = sh[id].qty - ev.shares] ELSE sh[o]]
      BY <3>1
    <3>4. sh[id].qty > 0 BY <2>1, <3>1
    <3> QED BY <3>2, <3>3, <3>4
  <2>3. ASSUME NEW sh, Counted(sh), ~Left(sh)
        PROVE  Apply(sh, ev) = Drop(sh, id)
    <3>1. CASE id \notin DOMAIN sh
      <4>1. Apply(sh, ev) = sh BY <1>6, <3>1 DEF Apply
      <4>2. Drop(sh, id) = sh BY <2>3, <3>1 DEF Drop, Counted
      <4> QED BY <4>1, <4>2
    <3>2. CASE id \in DOMAIN sh
      <4>1. ev.shares >= sh[id].qty BY <2>1, <2>3, <3>2 DEF Counted
      <4> QED BY <1>6, <3>2, <4>1 DEF Apply
    <3> QED BY <3>1, <3>2
  <2>4. Left(a) <=> Left(b)
    <3>1. Left(a) => a[id].qty > 0 BY <2>1 DEF Counted
    <3>2. Left(b) => b[id].qty > 0 BY <2>1 DEF Counted
    <3> QED BY <3>1, <3>2 DEF SameOrders
  <2>5. CASE Left(a)
    <3> DEFINE le == Less(a[id])
    <3>1. a[id] = b[id] /\ id \in DOMAIN a /\ id \in DOMAIN b BY <2>2, <2>5 DEF SameOrders
    <3>2. Apply(a, ev) = [o \in DOMAIN a |-> IF o = id THEN le ELSE a[o]] BY <2>2, <2>5
    <3>3. Apply(b, ev) = [o \in DOMAIN b |-> IF o = id THEN le ELSE b[o]] BY <2>2, <2>4, <2>5, <3>1
    <3> HIDE DEF le, id
    <3> QED BY <3>1, <3>2, <3>3 DEF SameOrders
  <2>6. CASE ~Left(a)
    <3>1. Apply(a, ev) = Drop(a, id) /\ Apply(b, ev) = Drop(b, id) BY <2>3, <2>4, <2>6
    <3> QED BY <1>1, <3>1
  <2> QED BY <2>5, <2>6
<1> QED BY <1>3, <1>4, <1>5, <1>6 DEF IsEvent

\* The orders after events n .. of a feed, from those before them.
LEMMA AppliedPart ==
    ASSUME NEW sh, NEW events, NEW n \in Nat, NEW f, IsApplying(f, sh, events, n),
           NEW a \in 0 .. n, NEW k \in Nat, a + k <= n,
           NEW part, Len(part) = k, \A i \in 1 .. k : part[i] = events[a + i]
    PROVE  Applied(f[a], part) = f[a + k]
<1> DEFINE g == [i \in 0 .. k |-> f[a + i]]
<1>1. \A i \in 0 .. n : f[i] = IF i = 0 THEN sh ELSE Apply(f[i - 1], events[i]) BY DEF IsApplying
<1>2. \A i \in 0 .. k : g[i] = IF i = 0 THEN f[a] ELSE Apply(g[i - 1], part[i])
  <2> TAKE i \in 0 .. k
  <2>1. CASE i = 0 BY <2>1
  <2>2. CASE i # 0
    <3>1. a + i \in 0 .. n /\ a + i # 0 /\ i - 1 \in 0 .. k /\ a + i - 1 = a + (i - 1) BY <2>2
    <3>2. f[a + i] = Apply(f[a + i - 1], events[a + i]) BY <3>1, <1>1
    <3>3. part[i] = events[a + i] BY <2>2
    <3> QED BY <2>2, <3>1, <3>2, <3>3
  <2> QED BY <2>1, <2>2
<1>3. IsApplying(g, f[a], part, k) BY <1>2 DEF IsApplying
<1>4. g[k] = f[a + k] OBVIOUS
<1> HIDE DEF g
<1> QED BY <1>3, <1>4, AppliedIs

\* What holds of a book and is kept by every event holds once all are applied.
LEMMA AppliedSame ==
    ASSUME NEW a, Counted(a), NEW b, Counted(b), SameOrders(a, b),
           NEW events, Len(events) \in Nat, \A i \in 1 .. Len(events) : IsEvent(events[i])
    PROVE  /\ Counted(Applied(a, events))
           /\ SameOrders(Applied(a, events), Applied(b, events))
<1> DEFINE n == Len(events)
<1>1. PICK f : IsApplying(f, a, events, n) BY ApplyingExists
<1>2. PICK g : IsApplying(g, b, events, n) BY ApplyingExists
<1>3. \A i \in 0 .. n : f[i] = IF i = 0 THEN a ELSE Apply(f[i - 1], events[i]) BY <1>1 DEF IsApplying
<1>4. \A i \in 0 .. n : g[i] = IF i = 0 THEN b ELSE Apply(g[i - 1], events[i]) BY <1>2 DEF IsApplying
<1> DEFINE Bad == {i \in 0 .. n : ~(Counted(f[i]) /\ Counted(g[i]) /\ SameOrders(f[i], g[i]))}
<1>5. Bad = {}
  <2> SUFFICES ASSUME Bad # {} PROVE FALSE OBVIOUS
  <2>1. Bad \in SUBSET Nat OBVIOUS
  <2>2. PICK i \in Bad : \A j \in Bad : i <= j BY <2>1, LeastNat
  <2>3. i # 0 BY <1>3, <1>4, <2>2
  <2>4. i - 1 \in 0 .. n /\ i \in 1 .. n /\ i - 1 \notin Bad BY <2>2, <2>3
  <2>5. Counted(f[i - 1]) /\ Counted(g[i - 1]) /\ SameOrders(f[i - 1], g[i - 1]) BY <2>4
  <2>6. f[i] = Apply(f[i - 1], events[i]) /\ g[i] = Apply(g[i - 1], events[i])
    BY <1>3, <1>4, <2>3, <2>4
  <2>7. Counted(f[i]) /\ Counted(g[i]) /\ SameOrders(f[i], g[i])
    BY <2>4, <2>5, <2>6, ApplyCounted, ApplySame
  <2> QED BY <2>2, <2>7
<1>6. n \in 0 .. n OBVIOUS
<1>7. Counted(f[n]) /\ SameOrders(f[n], g[n]) BY <1>5, <1>6
<1>8. Applied(a, events) = f[n] /\ Applied(b, events) = g[n] BY <1>1, <1>2, AppliedIs
<1> QED BY <1>7, <1>8

\* A snapshot loaded is the book it was taken of.
LEMMA LoadRows ==
    ASSUME NEW sh, Counted(sh)
    PROVE  Counted(Load(Rows(sh))) /\ SameOrders(Load(Rows(sh)), sh)
<1> DEFINE rows == Rows(sh)
           l == Load(rows)
<1>1. \A row \in rows : row[1] \in DOMAIN sh /\ sh[row[1]].qty > 0 /\ row = <<row[1], sh[row[1]]>>
  BY DEF Rows
<1>2. \A id \in DOMAIN sh : sh[id].qty > 0 => <<id, sh[id]>> \in rows BY DEF Rows
<1> HIDE DEF rows
<1>3. l = [id \in {row[1] : row \in rows} |-> (CHOOSE row \in rows : row[1] = id)[2]] BY DEF Load
<1>4. \A id \in DOMAIN l : id \in DOMAIN sh /\ sh[id].qty > 0 /\ l[id] = sh[id]
  <2> SUFFICES ASSUME NEW id \in DOMAIN l PROVE id \in DOMAIN sh /\ sh[id].qty > 0 /\ l[id] = sh[id]
    OBVIOUS
  <2>1. PICK row \in rows : row[1] = id BY <1>3
  <2> DEFINE c == CHOOSE x \in rows : x[1] = id
  <2>2. c \in rows /\ c[1] = id BY <2>1
  <2>3. l[id] = c[2] BY <1>3
  <2> HIDE DEF c, l
  <2> QED BY <1>1, <2>2, <2>3
<1>5. \A id \in DOMAIN sh : sh[id].qty > 0 => id \in DOMAIN l
  <2> TAKE id \in DOMAIN sh
  <2> HAVE sh[id].qty > 0
  <2>1. <<id, sh[id]>> \in rows /\ <<id, sh[id]>>[1] = id BY <1>2
  <2> QED BY <2>1, <1>3
<1>6. l = [id \in DOMAIN l |-> l[id]] BY <1>3
<1> HIDE DEF l
<1> QED BY <1>4, <1>5, <1>6 DEF Counted, SameOrders, l, rows
------------------------------------------------------------------------------
(* Recovery *)

\* The book a replay of the first n messages would give.
Replay(n) == Applied(NoOrders, SubSeq(feed, 1, n))

\* The snapshot service has applied the messages up to its sequence number.
ServiceFollows ==
    /\ service.seq \in 0 .. (position - 1)
    /\ service.orders = Replay(service.seq)

\* So has whoever was sent its snapshot.
SnapshotIsTrue ==
    snapshot # NotSent =>
        /\ snapshot.seq \in 0 .. FeedLength
        /\ snapshot.rows = Rows(Replay(snapshot.seq))

\* RecoversBook, order by order.
BookFollows ==
    start # 0 => Counted(book) /\ SameOrders(book, Replay(nextExpected - 1))

\* The session's invariant, and the three replays side by side.
RInv ==
    /\ IInv
    /\ feed \in Feeds
    /\ ServiceFollows
    /\ SnapshotIsTrue
    /\ BookFollows

\* Replays, one after the other.
LEMMA ReplayIs ==
    ASSUME feed \in Feeds
    PROVE  /\ Replay(0) = NoOrders
           /\ \A n \in 1 .. FeedLength : Replay(n) = Apply(Replay(n - 1), feed[n])
           /\ \A n \in 0 .. FeedLength : Counted(Replay(n))
           /\ \A n \in 0 .. FeedLength, k \in Nat : \A part :
                n + k <= FeedLength /\ Len(part) = k /\ (\A i \in 1 .. k : part[i] = feed[n + i])
                    => Applied(Replay(n), part) = Replay(n + k)
<1> USE SessionAssumption, RecoveryAssumption
<1>1. PICK f : IsApplying(f, NoOrders, feed, FeedLength) BY ApplyingExists
<1>2. \A i \in 0 .. FeedLength : f[i] = IF i = 0 THEN NoOrders ELSE Apply(f[i - 1], feed[i])
  BY <1>1 DEF IsApplying
<1>3. feed \in Seq({feed[s] : s \in 1 .. FeedLength}) /\ Len(feed) = FeedLength
  <2>1. feed = [s \in 1 .. FeedLength |-> feed[s]] OBVIOUS
  <2> QED BY <2>1
<1>4. ASSUME NEW n \in 0 .. FeedLength PROVE Replay(n) = f[n]
  <2> DEFINE part == SubSeq(feed, 1, n)
  <2>1. Len(part) = n /\ \A i \in 1 .. n : part[i] = feed[0 + i] BY <1>3, SubSeqProperties
  <2>2. f[0] = NoOrders /\ 0 \in 0 .. FeedLength /\ 0 + n = n BY <1>2
  <2> HIDE DEF part
  <2>3. Applied(f[0], part) = f[0 + n] BY <1>1, <2>1, <2>2, AppliedPart
  <2> QED BY <2>2, <2>3 DEF Replay, part
<1>5. ASSUME NEW n \in 0 .. FeedLength, NEW k \in Nat, NEW part,
             n + k <= FeedLength, Len(part) = k, \A i \in 1 .. k : part[i] = feed[n + i]
      PROVE  Applied(Replay(n), part) = Replay(n + k)
  <2>1. Applied(f[n], part) = f[n + k] BY <1>1, <1>5, AppliedPart
  <2>2. n + k \in 0 .. FeedLength BY <1>5
  <2> QED BY <1>4, <2>1, <2>2
<1>6. \A n \in 1 .. FeedLength : Replay(n) = Apply(Replay(n - 1), feed[n])
  <2> TAKE n \in 1 .. FeedLength
  <2>1. n \in 0 .. FeedLength /\ n - 1 \in 0 .. FeedLength /\ n # 0 OBVIOUS
  <2> QED BY <1>2, <1>4, <2>1
<1>7. Replay(0) = NoOrders
  <2>1. 0 \in 0 .. FeedLength OBVIOUS
  <2> QED BY <1>2, <1>4, <2>1
<1>8. \A n \in 0 .. FeedLength : Counted(Replay(n))
  <2> DEFINE Bad == {n \in 0 .. FeedLength : ~Counted(Replay(n))}
  <2> SUFFICES ASSUME Bad # {} PROVE FALSE OBVIOUS
  <2>1. Bad \in SUBSET Nat OBVIOUS
  <2>2. PICK n \in Bad : \A m \in Bad : n <= m BY <2>1, LeastNat
  <2>3. n # 0 BY <1>7, <2>2 DEF NoOrders, Counted
  <2>4. n \in 1 .. FeedLength /\ n - 1 \in 0 .. FeedLength /\ n - 1 \notin Bad BY <2>2, <2>3
  <2>5. Counted(Replay(n - 1)) /\ IsEvent(feed[n]) BY <2>4
  <2>6. Counted(Replay(n)) BY <1>6, <2>4, <2>5, ApplyCounted
  <2> QED BY <2>2, <2>6
<1> QED BY <1>5, <1>6, <1>7, <1>8

\* It holds when the program starts.
LEMMA InitRInv == RecoveryInit => RInv
<1> SUFFICES ASSUME RecoveryInit PROVE RInv OBVIOUS
<1>1. IInv /\ feed \in Feeds BY InitIInv DEF RecoveryInit
<1>2. position = 1 /\ start = 0 BY DEF RecoveryInit, Init
<1>3. ServiceFollows BY <1>1, <1>2, ReplayIs DEF RecoveryInit, ServiceFollows
<1>4. SnapshotIsTrue /\ BookFollows BY <1>2 DEF RecoveryInit, SnapshotIsTrue, BookFollows
<1> QED BY <1>1, <1>3, <1>4 DEF RInv

\* Whatever a packet makes deliverable comes next.
LEMMA PacketMovesOn ==
    ASSUME IInv, NEW p \in Packet, OnPacket(p)
    PROVE  start' = start /\ nextExpected' \in nextExpected .. (FeedLength + 1)
<1> USE SessionAssumption
<1>1. nextExpected \in 1 .. (FeedLength + 1) BY DEF IInv, TypeOK, OnPacket
<1>2. CASE TakeMessages(p)
  <2>1. p.kind = "data" /\ start # 0 BY <1>2 DEF TakeMessages, OnPacket
  <2>2. DOMAIN Held(p) \subseteq nextExpected .. FeedLength BY <2>1, HeldIs
  <2>3. FirstMissing(Held(p)) \in nextExpected .. (FeedLength + 1) BY <2>1, <2>2, FirstMissingIs
  <2> QED BY <1>2, <2>3 DEF TakeMessages
<1>3. CASE TakeControl(p) BY <1>1, <1>3 DEF TakeControl
<1> QED BY <1>2, <1>3 DEF OnPacket

\* Every step of the recovery is one of the session, or none of its business.
LEMMA RecoveryStep ==
    ASSUME RInv, [RecoveryNext]_recoveryVars
    PROVE  [Next]_vars
<1> USE SessionAssumption, RecoveryAssumption
<1>1. CASE Bootstrap
  <2>1. snapshot.seq + 1 \in Joins /\ Join(snapshot.seq + 1)
    BY <1>1 DEF Bootstrap, RInv, SnapshotIsTrue
  <2> QED BY <2>1 DEF Next
<1>2. CASE ServiceApply \/ Serve \/ UNCHANGED recoveryVars
  BY <1>2 DEF ServiceApply, Serve, recoveryVars, vars
<1>3. CASE \E p \in Packet : ReceiveAndApply(p) BY <1>3 DEF ReceiveAndApply, Next
<1>4. CASE Elsewhere BY <1>4 DEF Elsewhere, Next
<1> QED BY <1>1, <1>2, <1>3, <1>4 DEF RecoveryNext

\* What is left of a sequence after its first elements.
LEMMA RestOfSequence ==
    ASSUME NEW S, NEW d \in Seq(S), NEW a \in Nat, NEW n \in Nat, Len(d) = a + n
    PROVE  LET r == SubSeq(d, a + 1, Len(d)) IN
           /\ Len(r) = n
           /\ DOMAIN r = 1 .. n
           /\ \A i \in 1 .. n : r[i] = d[a + i]
<1> DEFINE b == Len(d)
           r == SubSeq(d, a + 1, b)
<1>1. a + 1 \in Int /\ b \in Int /\ b = a + n OBVIOUS
<1>2. \A i \in (a + 1) .. b : d[i] \in S BY <1>1
<1>3. /\ r \in Seq(S)
      /\ Len(r) = IF a + 1 <= b THEN b - (a + 1) + 1 ELSE 0
      /\ \A i \in 1 .. (b - (a + 1) + 1) : r[i] = d[a + 1 + i - 1]
  <2> HIDE DEF b
  <2> QED BY <1>1, <1>2, SubSeqProperties
<1> HIDE DEF r
<1>4. Len(r) = n /\ DOMAIN r = 1 .. n BY <1>1, <1>3
<1>5. \A i \in 1 .. n : r[i] = d[a + i]
  <2> TAKE i \in 1 .. n
  <2>1. i \in 1 .. (b - (a + 1) + 1) /\ a + 1 + i - 1 = a + i BY <1>1
  <2> QED BY <1>3, <2>1
<1> QED BY <1>4, <1>5 DEF r

\* on_message_ applies what a packet makes deliverable: the events from the next
\* expected one on.
LEMMA ReceiveFollows ==
    ASSUME RInv, IInv', NEW p \in Packet, ReceiveAndApply(p)
    PROVE  BookFollows'
<1> DEFINE ready == SubSeq(delivered', Len(delivered) + 1, Len(delivered'))
           events == [i \in DOMAIN ready |-> feed[ready[i]]]
<1>1. OnPacket(p) /\ start # 0 BY DEF ReceiveAndApply, Receive, ReceiveCopy, OnPacket
<1>2. start' = start /\ nextExpected' \in nextExpected .. (FeedLength + 1)
  BY <1>1, PacketMovesOn DEF RInv
<1>3. nextExpected \in Nat /\ start \in Nat /\ 1 <= start /\ start <= nextExpected
  BY <1>1, SessionAssumption DEF RInv, IInv, TypeOK
\* a messages were delivered before, and there are k to apply now.
<1>4. PICK first \in Nat, a \in Nat, k \in Nat :
          /\ start = first /\ nextExpected = first + a /\ nextExpected' = first + a + k
          /\ 1 <= first /\ first + a + k <= FeedLength + 1
  <2> DEFINE m == nextExpected'
             a == nextExpected - start
             k == m - nextExpected
  <2>1. m \in Int /\ nextExpected <= m /\ m <= FeedLength + 1 BY <1>2, <1>3, SessionAssumption
  <2> HIDE DEF m
  <2>2. a \in Nat /\ k \in Nat /\ nextExpected = start + a /\ m = start + a + k BY <2>1, <1>3
  <2> HIDE DEF a, k
  <2> QED BY <1>3, <2>1, <2>2 DEF m
<1>5. Len(delivered) = a BY <1>4 DEF RInv, IInv, DeliveredInOrder
<1>6. /\ delivered' \in Seq(1 .. FeedLength)
      /\ Len(delivered') = a + k
      /\ \A i \in 1 .. (a + k) : delivered'[i] = first + i - 1
  <2>1. /\ delivered' \in Seq(1 .. FeedLength)
        /\ Len(delivered') = nextExpected' - start'
        /\ \A i \in 1 .. Len(delivered') : delivered'[i] = start' + i - 1
    BY DEF IInv, TypeOK, DeliveredInOrder
  <2>2. nextExpected' - start' = a + k BY <1>2, <1>4
  <2> QED BY <1>2, <1>4, <2>1, <2>2
<1>7. Len(ready) = k /\ DOMAIN ready = 1 .. k /\ \A i \in 1 .. k : ready[i] = first + a + i - 1
  <2> DEFINE d == delivered'
             r == SubSeq(d, a + 1, Len(d))
  <2>1. ready = r BY <1>5
  <2>2. d \in Seq(1 .. FeedLength) /\ Len(d) = a + k /\ \A i \in 1 .. (a + k) : d[i] = first + i - 1
    BY <1>6
  <2> HIDE DEF d
  <2>3. Len(r) = k /\ DOMAIN r = 1 .. k /\ \A i \in 1 .. k : r[i] = d[a + i]
    BY <2>2, RestOfSequence
  <2> HIDE DEF r, ready
  <2>4. \A i \in 1 .. k : d[a + i] = first + a + i - 1
    <3> TAKE i \in 1 .. k
    <3>1. a + i \in 1 .. (a + k) OBVIOUS
    <3> QED BY <2>2, <3>1
  <2> QED BY <2>1, <2>3, <2>4
<1> HIDE DEF ready
<1>8. Len(events) = k /\ \A i \in 1 .. k : events[i] = feed[first + a - 1 + i]
  <2>1. events = [i \in 1 .. k |-> feed[ready[i]]] BY <1>7
  <2>2. \A i \in 1 .. k : ready[i] = first + a - 1 + i BY <1>7
  <2> QED BY <2>1, <2>2
<1>9. book' = Applied(book, events) /\ feed' = feed
  BY DEF ReceiveAndApply, ApplyDelivered, ready
<1> HIDE DEF events
<1>10. PICK n \in Nat : n = first + a - 1 /\ n + k <= FeedLength BY <1>4, SessionAssumption
<1>11. nextExpected - 1 = n /\ nextExpected' - 1 = n + k BY <1>4, <1>10
<1>12. Counted(book) /\ SameOrders(book, Replay(n)) BY <1>1, <1>11 DEF RInv, BookFollows
<1>13. \A i \in 1 .. k : events[i] = feed[n + i] BY <1>8, <1>10
<1>14. \A i \in 1 .. k : IsEvent(events[i])
  <2> TAKE i \in 1 .. k
  <2>1. n + i \in 1 .. FeedLength BY <1>10, SessionAssumption
  <2> QED BY <2>1, <1>13, RecoveryAssumption DEF RInv
<1>15. Counted(Replay(n)) /\ Applied(Replay(n), events) = Replay(n + k)
  <2>1. n \in 0 .. FeedLength BY <1>10, SessionAssumption
  <2> QED BY <2>1, <1>8, <1>10, <1>13, ReplayIs DEF RInv
<1>16. Counted(book') /\ SameOrders(book', Replay(n + k))
  BY <1>8, <1>9, <1>12, <1>14, <1>15, AppliedSame
<1>17. BookFollows' <=> (start' # 0 => Counted(book') /\ SameOrders(book', Replay(n + k)))
  BY <1>9, <1>11 DEF BookFollows, Replay
<1> QED BY <1>16, <1>17

\* Every action keeps it, and so does a step that changes nothing.
LEMMA NextRInv == RInv /\ [RecoveryNext]_recoveryVars => RInv'
<1> SUFFICES ASSUME RInv, [RecoveryNext]_recoveryVars PROVE RInv' OBVIOUS
<1> USE SessionAssumption, RecoveryAssumption
<1>1. IInv' BY RecoveryStep, NextIInv DEF RInv
<1>2. position \in 1 .. (FeedLength + 1) /\ feed \in Feeds BY DEF RInv, IInv, TypeOK
<1>3. feed' = feed
  BY DEF RecoveryNext, recoveryVars, ServiceApply, Serve, Bootstrap, ReceiveAndApply, Elsewhere
<1>4. \A n : Replay(n)' = Replay(n) BY <1>3 DEF Replay
<1>5. position' \in Nat /\ position <= position'
  <2>1. CASE Publish
    <3>1. position \in Starts /\ position' = EndOf(position) BY <2>1 DEF Publish
    <3>2. EndOf(position) \in (position + 1) .. (FeedLength + 1) BY <3>1, EndOfPacket
    <3> QED BY <3>1, <3>2, <1>2
  <2>2. CASE UNCHANGED position BY <2>2, <1>2
  <2>3. Publish \/ UNCHANGED position
    BY DEF RecoveryNext, recoveryVars, vars, ServiceApply, Serve, Bootstrap, Join, ReceiveAndApply,
      Receive, ReceiveCopy, OnPacket, Elsewhere, SendHeartbeat, Close, Lose, Answer
  <2> QED BY <2>1, <2>2, <2>3
<1>6. ServiceFollows'
  <2>1. CASE ServiceApply
    <3>1. service.seq \in 0 .. (position - 1) /\ service.seq + 1 < position
      BY <2>1 DEF ServiceApply, RInv, ServiceFollows
    <3>2. /\ service'.seq = service.seq + 1
          /\ service'.orders = Apply(Replay(service.seq), feed[service.seq + 1])
      BY <2>1 DEF ServiceApply, RInv, ServiceFollows
    <3>3. service.seq + 1 \in 1 .. FeedLength /\ service.seq + 1 - 1 = service.seq BY <3>1, <1>2
    <3>4. PICK n \in 1 .. FeedLength : n = service.seq + 1 BY <3>3
    <3>5. n - 1 = service.seq /\ n \in 0 .. (position' - 1) BY <3>1, <3>4, <1>2, <1>5
    <3>6. service'.seq = n /\ service'.orders = Apply(Replay(n - 1), feed[n]) BY <3>2, <3>4, <3>5
    <3>7. Replay(n) = Apply(Replay(n - 1), feed[n]) BY <1>2, ReplayIs
    <3>8. service'.seq = n /\ service'.orders = Replay(n) BY <3>6, <3>7
    <3>9. Replay(service.seq)' = Replay(n) BY <3>8, <1>3 DEF Replay
    <3> QED BY <3>5, <3>8, <3>9 DEF ServiceFollows
  <2>2. CASE UNCHANGED service BY <2>2, <1>2, <1>4, <1>5 DEF RInv, ServiceFollows
  <2> QED BY <2>1, <2>2
      DEF RecoveryNext, recoveryVars, Serve, Bootstrap, ReceiveAndApply, Elsewhere
<1>7. SnapshotIsTrue'
  <2>1. CASE Serve
    <3>1. service.seq \in 0 .. FeedLength /\ service.orders = Replay(service.seq)
      BY <1>2 DEF RInv, ServiceFollows
    <3>2. snapshot'.seq = service.seq /\ snapshot'.rows = Rows(service.orders)
      BY <2>1 DEF Serve, Snapshot
    <3> QED BY <3>1, <3>2, <1>4 DEF SnapshotIsTrue
  <2>2. CASE UNCHANGED snapshot BY <2>2, <1>4 DEF RInv, SnapshotIsTrue
  <2> QED BY <2>1, <2>2
      DEF RecoveryNext, recoveryVars, ServiceApply, Bootstrap, ReceiveAndApply, Elsewhere
<1>8. BookFollows'
  <2>1. CASE \E p \in Packet : ReceiveAndApply(p) BY <2>1, <1>1, ReceiveFollows
  <2>2. CASE Bootstrap
    <3>1. snapshot.seq \in 0 .. FeedLength /\ snapshot.rows = Rows(Replay(snapshot.seq))
      BY <2>2 DEF Bootstrap, RInv, SnapshotIsTrue
    <3>2. book' = Load(Rows(Replay(snapshot.seq))) /\ nextExpected' = snapshot.seq + 1
      BY <2>2, <3>1 DEF Bootstrap, Join
    <3>3. Counted(Replay(snapshot.seq)) BY <3>1, <1>2, ReplayIs
    <3>4. Counted(book') /\ SameOrders(book', Replay(snapshot.seq)) BY <3>2, <3>3, LoadRows
    <3>5. nextExpected' - 1 = snapshot.seq BY <3>1, <3>2
    <3>6. BookFollows' <=> (start' # 0 => Counted(book') /\ SameOrders(book', Replay(nextExpected' - 1)))
      BY <1>3 DEF BookFollows, Replay
    <3> QED BY <3>4, <3>5, <3>6
  <2>3. CASE UNCHANGED <<start, nextExpected, book>>
    BY <2>3, <1>4 DEF RInv, BookFollows
  <2>4. \/ \E p \in Packet : ReceiveAndApply(p)
        \/ Bootstrap
        \/ UNCHANGED <<start, nextExpected, book>>
    BY DEF RecoveryNext, recoveryVars, vars, session, ServiceApply, Serve, Elsewhere, Publish,
      SendHeartbeat, Close, Lose, Answer
  <2> QED BY <2>1, <2>2, <2>3, <2>4
<1> QED BY <1>1, <1>2, <1>3, <1>6, <1>7, <1>8 DEF RInv

\* So it holds always.
LEMMA RecoveryInductive == RecoverySpec => []RInv
BY InitRInv, NextRInv, PTL DEF RecoverySpec

\* The session's properties hold of a session that starts after a snapshot, too.
THEOREM RecoveryDelivers ==
    RecoverySpec => [](TypeOK /\ DeliveredInOrder /\ HeldBehindGap /\ RequestsCanBeAnswered)
<1>1. RInv => TypeOK /\ DeliveredInOrder /\ HeldBehindGap /\ RequestsCanBeAnswered
  BY DEF RInv, IInv
<1> QED BY <1>1, RecoveryInductive, PTL

\* A subscriber that loads a snapshot, wherever it was cut, and applies what the
\* session delivers from one past it on has the book of one that was there from
\* the first event, at every moment and for every feed.
THEOREM LateBookIsTheBook == RecoverySpec => []RecoversBook
<1>1. ASSUME RInv PROVE RecoversBook
  BY <1>1, SameRows DEF RInv, BookFollows, RecoversBook, Replay
<1> QED BY <1>1, RecoveryInductive, PTL
==============================================================================
