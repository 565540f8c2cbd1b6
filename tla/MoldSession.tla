----------------------------- MODULE MoldSession -----------------------------
(***************************************************************************)
(* One MoldUDP64 session (cpp/feed/moldudp64_session.h) between the        *)
(* publisher of the market data feed, the re-request server and one        *)
(* subscriber.  Datagrams are lost, duplicated and reordered: the wire and *)
(* the requests under way are sets, from which any member may arrive,      *)
(* arrive again, or vanish.  A datagram that decode_downstream() or        *)
(* decode_request() refuses counts as lost.                                *)
(*                                                                         *)
(* A message is known by its sequence number in the feed.  The session     *)
(* keeps what it received under the number it computed for it, so a        *)
(* message filed under the wrong number is seen.  gaps_detected(), a       *)
(* statistic nothing reads back, is left out.                              *)
(***************************************************************************)
EXTENDS Integers, Sequences, FiniteSetsExt

CONSTANTS
    FeedLength,     \* messages in the session, numbered from 1
    Starts,         \* the numbers at which the publisher's packets start
    Joins,          \* start_seq of the subscriber: 1, or one past a snapshot
    RequestLimit,   \* most messages one request asks for (0xFFFF)
    Heartbeats,     \* whether the publisher sends heartbeats while idle
    Closes          \* whether the publisher ends the session

ASSUME SessionAssumption ==
    /\ FeedLength \in Nat
    /\ Starts \subseteq 1 .. FeedLength
    /\ 1 \in Starts
    /\ Joins \subseteq 1 .. (FeedLength + 1)
    /\ RequestLimit \in Nat \ {0}
    /\ Heartbeats \in BOOLEAN
    /\ Closes \in BOOLEAN

VARIABLES
    position,       \* the publisher's next sequence number
    closed,         \* the publisher sent its end-of-session packet
    wire,           \* downstream packets under way, multicast or retransmitted
    requests,       \* request packets under way to the re-request server
    start,          \* start_seq, 0 while there is no session yet
    nextExpected,   \* next_expected_
    pending,        \* pending_: messages held behind a gap, by number
    ended,          \* ended_
    delivered       \* what on_message_ was called with, in order

session == <<start, nextExpected, pending, ended, delivered>>
vars == <<position, closed, wire, requests, start, nextExpected, pending, ended, delivered>>

\* Where the packet that starts at s ends: the next packet's start.
EndOf(s) == Min({t \in Starts : t > s} \cup {FeedLength + 1})

\* encode_downstream(), encode_heartbeat() and encode_end_of_session().
Data(s) == [kind |-> "data", seq |-> s, blocks |-> [i \in 1 .. (EndOf(s) - s) |-> s + i - 1]]
Heartbeat(s) == [kind |-> "heartbeat", seq |-> s, blocks |-> <<>>]
EndOfSession(s) == [kind |-> "end", seq |-> s, blocks |-> <<>>]

Packet ==
    {Data(s) : s \in Starts}
        \cup {Heartbeat(s) : s \in 1 .. (FeedLength + 1)}
        \cup {EndOfSession(FeedLength + 1)}

Request == [seq: 1 .. (FeedLength + 1), count: 1 .. RequestLimit]

Init ==
    /\ position = 1
    /\ closed = FALSE
    /\ wire = {}
    /\ requests = {}
    /\ start = 0
    /\ nextExpected = 0
    /\ pending = [s \in {} |-> 0]
    /\ ended = FALSE
    /\ delivered = <<>>
------------------------------------------------------------------------------
(* The publisher *)

Publish ==
    /\ position \in Starts
    /\ wire' = wire \cup {Data(position)}
    /\ position' = EndOf(position)
    /\ UNCHANGED <<closed, requests, session>>

SendHeartbeat ==
    /\ Heartbeats
    /\ ~closed
    /\ wire' = wire \cup {Heartbeat(position)}
    /\ UNCHANGED <<position, closed, requests, session>>

\* End-of-session is sent once, after the last message.
Close ==
    /\ Closes
    /\ ~closed
    /\ position = FeedLength + 1
    /\ closed' = TRUE
    /\ wire' = wire \cup {EndOfSession(position)}
    /\ UNCHANGED <<position, requests, session>>
------------------------------------------------------------------------------
(* The subscriber *)

\* The session is constructed, at any point of the feed.
Join(s) ==
    /\ start = 0
    /\ start' = s
    /\ nextExpected' = s
    /\ UNCHANGED <<position, closed, wire, requests, pending, ended, delivered>>

\* As GapRequest, for a packet on time too, and from the end of the gap.
GapRequestOnTime(observed) ==
    IF observed >= nextExpected
    THEN {[seq |-> nextExpected, count |-> Min({observed - nextExpected, RequestLimit})]}
    ELSE {}
GapRequestAtEnd(observed) ==
    IF observed > nextExpected
    THEN LET count == Min({observed - nextExpected, RequestLimit}) IN
         {[seq |-> observed - count, count |-> count]}
    ELSE {}

\* maybe_request_gap_(): the requests a packet at number observed calls for.
GapRequest(observed) ==
    IF observed > nextExpected
    THEN {[seq |-> nextExpected, count |-> Min({observed - nextExpected, RequestLimit})]}
    ELSE {}

\* As Held, with messages delivered before held again, and with a message
\* filed one number too high.
HeldTwice(p) ==
    [s \in DOMAIN pending \cup (p.seq .. (p.seq + Len(p.blocks) - 1)) |->
        IF s \in DOMAIN pending THEN pending[s] ELSE p.blocks[s - p.seq + 1]]
HeldTooHigh(p) ==
    [s \in DOMAIN pending \cup {t \in (p.seq + 1) .. (p.seq + Len(p.blocks)) : t >= nextExpected} |->
        IF s \in DOMAIN pending THEN pending[s] ELSE p.blocks[s - p.seq]]

\* pending_ once the new messages of data packet p joined it; emplace() keeps
\* what it holds.
Held(p) ==
    [s \in DOMAIN pending \cup {t \in p.seq .. (p.seq + Len(p.blocks) - 1) : t >= nextExpected} |->
        IF s \in DOMAIN pending THEN pending[s] ELSE p.blocks[s - p.seq + 1]]

\* deliver_ready_() stops at the first number from nextExpected on not held.
FirstMissing(held) == Min({s \in nextExpected .. (FeedLength + 1) : s \notin DOMAIN held})

\* on_packet() of a packet with messages.
TakeMessages(p) ==
    LET held == Held(p)
        missing == FirstMissing(held)
    IN
    /\ p.kind = "data"
    /\ requests' = requests \cup GapRequest(p.seq)
    /\ nextExpected' = missing
    /\ delivered' = delivered \o [i \in 1 .. (missing - nextExpected) |-> held[nextExpected + i - 1]]
    /\ pending' = [s \in {t \in DOMAIN held : t > missing \/ t < nextExpected} |-> held[s]]
    /\ UNCHANGED <<start, ended>>

\* As TakeControl, with the position the packet carries ignored.
IgnoreControl(p) ==
    /\ p.kind # "data"
    /\ ended' = (ended \/ p.kind = "end")
    /\ UNCHANGED <<requests, start, nextExpected, pending, delivered>>

\* on_packet() of a heartbeat or end-of-session packet.
TakeControl(p) ==
    /\ p.kind # "data"
    /\ requests' = requests \cup GapRequest(p.seq)
    /\ ended' = (ended \/ p.kind = "end")
    /\ UNCHANGED <<start, nextExpected, pending, delivered>>

OnPacket(p) ==
    /\ start # 0
    /\ TakeMessages(p) \/ TakeControl(p)
    /\ UNCHANGED <<position, closed>>

Receive(p) == p \in wire /\ OnPacket(p) /\ wire' = wire \ {p}

\* The network delivers the packet and keeps a copy of it.
ReceiveCopy(p) == p \in wire /\ OnPacket(p) /\ UNCHANGED wire
------------------------------------------------------------------------------
(* The re-request server and the network *)

\* The server looks a request up by the exact number a packet starts at, and
\* answers with that one packet whatever count was asked for.
Answer(r) ==
    /\ r \in requests
    /\ requests' = requests \ {r}
    /\ wire' = IF r.seq \in Starts THEN wire \cup {Data(r.seq)} ELSE wire
    /\ UNCHANGED <<position, closed, session>>

Lose ==
    \/ /\ \E p \in wire : wire' = wire \ {p}
       /\ UNCHANGED <<position, closed, requests, session>>
    \/ /\ \E r \in requests : requests' = requests \ {r}
       /\ UNCHANGED <<position, closed, wire, session>>

Next ==
    \/ Publish
    \/ SendHeartbeat
    \/ Close
    \/ \E s \in Joins : Join(s)
    \/ \E p \in Packet : Receive(p) \/ ReceiveCopy(p)
    \/ \E r \in Request : Answer(r)
    \/ Lose

Spec == Init /\ [][Next]_vars

\* The publisher's thread runs on, and the network is fair: messages, control
\* packets and requests that are sent again and again do not all get lost.
\* Nothing says when the session ends.
Fairness ==
    /\ WF_vars(Publish)
    /\ WF_vars(SendHeartbeat)
    /\ SF_vars(\E p \in Packet : p.kind = "data" /\ Receive(p))
    /\ SF_vars(\E p \in Packet : p.kind # "data" /\ Receive(p))
    /\ SF_vars(\E r \in Request : Answer(r))

FairSpec == Spec /\ Fairness
------------------------------------------------------------------------------
\* Every packet and request under way is well-formed, no request is empty or
\* beyond the limit, and the session's numbers stay within the feed.
TypeOK ==
    /\ position \in Starts \cup {FeedLength + 1}
    /\ closed \in BOOLEAN
    /\ wire \subseteq Packet
    /\ requests \subseteq Request
    /\ start \in Joins \cup {0}
    /\ nextExpected \in start .. (FeedLength + 1)
    /\ DOMAIN pending \subseteq 1 .. FeedLength
    /\ pending \in [DOMAIN pending -> 1 .. FeedLength]
    /\ ended \in BOOLEAN
    /\ delivered \in Seq(1 .. FeedLength)

\* on_message_ is called once for each message from start_seq on, in order and
\* with that message, however the datagrams that carried it were lost,
\* repeated, overlapped or reordered.
DeliveredInOrder ==
    /\ Len(delivered) = nextExpected - start
    /\ \A i \in DOMAIN delivered : delivered[i] = start + i - 1

\* Between packets pending_ holds only messages beyond a gap: nothing that was
\* delivered already, which would never leave it, and nothing that could be
\* delivered now.
HeldBehindGap == \A s \in DOMAIN pending : s > nextExpected /\ pending[s] = s

\* A subscriber that joined where a packet starts only ever asks for a number
\* at which a packet starts: the server, which looks up exact starts, has an
\* answer to every request.
RequestsCanBeAnswered ==
    start \in Starts \cup {FeedLength + 1} => \A r \in requests : r.seq \in Starts

\* As long as the session is open every message reaches a subscriber that
\* joined where a packet starts: each heartbeat that finds it behind makes it
\* ask again.
AllDelivered == (start \in Starts) ~> (closed \/ nextExpected = FeedLength + 1)

\* A subscriber that saw the end of the session gets all that came before it.
EndedThenComplete == ended ~> (nextExpected = FeedLength + 1)
==============================================================================
