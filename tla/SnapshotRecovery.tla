-------------------------- MODULE SnapshotRecovery ---------------------------
(***************************************************************************)
(* A subscriber that joins the feed late                                   *)
(* (cpp/feed/tests/test_snapshot_recovery.cpp): the snapshot service has   *)
(* applied the feed up to some event, sends that book once over TCP, and   *)
(* the subscriber loads it and starts its MoldUDP64 session one past it,   *)
(* while the publisher goes on.  What was multicast before the session     *)
(* starts is lost to the subscriber unless it is still under way.          *)
(*                                                                         *)
(* TCP delivers the snapshot whole or the subscriber stops, so sending it  *)
(* and loading it are the two steps.                                       *)
(***************************************************************************)
EXTENDS MoldSession, MarketData, SequencesExt

CONSTANT Feeds      \* the event sequences the sequencer may have published

\* A feed has an event for every sequence number, and a snapshot may be cut
\* after any of them.
ASSUME RecoveryAssumption ==
    /\ \A f \in Feeds :
        /\ f = [s \in 1 .. FeedLength |-> f[s]]
        /\ \A s \in 1 .. FeedLength : IsEvent(f[s])
    /\ Joins = 1 .. (FeedLength + 1)

VARIABLES
    feed,       \* the session's messages
    service,    \* snap_builder: its orders and sequence()
    snapshot,   \* the snapshot sent, as of a sequence number
    book        \* subscriber_book

recoveryVars == <<position, closed, wire, requests, start, nextExpected, pending, ended, delivered,
                  feed, service, snapshot, book>>

\* No snapshot was sent yet.
NotSent == [seq |-> -1, rows |-> {}]

RecoveryInit ==
    /\ Init
    /\ feed \in Feeds
    /\ service = [seq |-> 0, orders |-> NoOrders]
    /\ snapshot = NotSent
    /\ book = NoOrders
------------------------------------------------------------------------------
(* The snapshot service follows the feed, then serves one connection *)

ServiceApply ==
    /\ snapshot = NotSent
    /\ service.seq + 1 < position
    /\ service' = [seq |-> service.seq + 1, orders |-> Apply(service.orders, feed[service.seq + 1])]
    /\ UNCHANGED <<vars, feed, snapshot, book>>

\* encode_snapshot(): the last event applied and the orders it left.
Snapshot(seq, orders) == [seq |-> seq, rows |-> Rows(orders)]

\* As Serve, naming the next event instead of the last.
ServeAhead ==
    /\ snapshot = NotSent
    /\ snapshot' = Snapshot(service.seq + 1, service.orders)
    /\ UNCHANGED <<vars, feed, service, book>>

Serve ==
    /\ snapshot = NotSent
    /\ snapshot' = Snapshot(service.seq, service.orders)
    /\ UNCHANGED <<vars, feed, service, book>>
------------------------------------------------------------------------------
(* The subscriber *)

Bootstrap ==
    /\ snapshot # NotSent
    /\ book' = Load(snapshot.rows)
    /\ Join(snapshot.seq + 1)
    /\ UNCHANGED <<feed, service, snapshot>>

\* on_message_: decode() and apply() of the messages a packet makes deliverable.
ApplyDelivered ==
    LET ready == SubSeq(delivered', Len(delivered) + 1, Len(delivered'))
    IN book' = Applied(book, [i \in DOMAIN ready |-> feed[ready[i]]])

ReceiveAndApply(p) ==
    /\ Receive(p) \/ ReceiveCopy(p)
    /\ ApplyDelivered
    /\ UNCHANGED <<feed, service, snapshot>>

\* The other steps of the session's publisher, server and network.
Elsewhere ==
    /\ Publish \/ SendHeartbeat \/ Close \/ Lose \/ \E r \in Request : Answer(r)
    /\ UNCHANGED <<feed, service, snapshot, book>>

RecoveryNext ==
    \/ ServiceApply
    \/ Serve
    \/ Bootstrap
    \/ \E p \in Packet : ReceiveAndApply(p)
    \/ Elsewhere

\* The session's fairness; whether and when a subscriber asks for a snapshot is
\* left open.
RecoverySpec == RecoveryInit /\ [][RecoveryNext]_recoveryVars /\ Fairness
------------------------------------------------------------------------------
\* At every moment after it joined, the subscriber's book is the one a replay of
\* the whole feed up to the next expected message would give, wherever the
\* snapshot was cut (inside a packet, or between the Add of a remainder and the
\* Trades that come after it) and however the packets since arrived: no event is
\* applied twice, skipped, or applied to a book that already holds it.
RecoversBook ==
    start # 0 => Rows(book) = Rows(Applied(NoOrders, SubSeq(feed, 1, nextExpected - 1)))
==============================================================================
