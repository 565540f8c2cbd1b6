----------------------------- MODULE OrderBookV1 -----------------------------
(***************************************************************************)
(* The reference book (cpp/src/order_book.cpp), the oracle of the          *)
(* differential fuzzer: per side a sorted map from price to a FIFO of      *)
(* orders, and an index from order id to side and price.  Prices are       *)
(* doubles in the code and only compared, so ticks stand for them.  The    *)
(* book has no reduce() and no capacity.                                   *)
(*                                                                         *)
(* As in OrderBookV2 add() is several steps of one writer.  Two history    *)
(* variables say what its caller knows of the book: view changes when a    *)
(* call ends, asked is the request as it was submitted.                    *)
(***************************************************************************)
EXTENDS OrderTypes, FiniteSetsExt, SequencesExt

ASSUME IdAssumption == IsFiniteSet(OrderId)    \* ids have 64 bits

VARIABLES
    queues,     \* bids_ and asks_: side -> price -> sequence of [id, qty]
    index,      \* index_: order id -> [side, price]
    call,       \* where the writer is: "idle", "check" or "match"
    taker,      \* the request add() is working on, its qty counting down
    reply,      \* the trades so far, and how the last call ended
    view,       \* history: the book as the last call to end left it
    asked       \* history: what add() was called with, NoRequest between calls

book == <<queues, index>>
vars == <<queues, index, call, taker, reply, view, asked>>

Resting == DOMAIN index

Prices(s) == DOMAIN queues[s]

\* begin()->first of a side that has orders.
BestPrice(s) == IF s = "Buy" THEN Max(Prices(s)) ELSE Min(Prices(s))

\* A side's map with queue q at price p; a level is erased with its last order.
WithQueue(s, p, q) ==
    [queues EXCEPT ![s] =
        [x \in (Prices(s) \cup {p}) \ (IF q = <<>> THEN {p} ELSE {}) |->
            IF x = p THEN q ELSE queues[s][x]]]

\* As QueueAt, taking every level for a new one.
QueueAtNew(s, p) == <<>>

QueueAt(s, p) == IF p \in Prices(s) THEN queues[s][p] ELSE <<>>

\* Queue q without the orders of that id, as std::remove_if leaves it: the place
\* of an order is the number of those kept up to it.
Erased(q, id) ==
    LET kept == {i \in DOMAIN q : q[i].id # id}
        PlaceOf(i) == Cardinality({j \in kept : j <= i})
    IN [n \in 1 .. Cardinality(kept) |-> q[CHOOSE i \in kept : PlaceOf(i) = n]]

\* can_fully_fill(): walks every order the limit reaches.
CanFullyFill(r) ==
    LET s == Opposite(r.side)
        levels == {p \in Prices(s) : Reaches(r.side, r.price, p)}
        places == UNION {{p} \X DOMAIN queues[s][p] : p \in levels}
    IN /\ levels # {}
       /\ SumFunctionOnSet([x \in places |-> queues[s][x[1]][x[2]].qty], places) >= r.qty

\* As WouldCross, compared with the worst price of the other side.
WouldCrossAll(r) ==
    /\ Prices(Opposite(r.side)) # {}
    /\ \A p \in Prices(Opposite(r.side)) : Reaches(r.side, r.price, p)

WouldCross(r) ==
    LET s == Opposite(r.side) IN
    Prices(s) # {} /\ Reaches(r.side, r.price, BestPrice(s))

RejectedOnArrival(r) ==
    \/ r.type = "FOK" /\ ~CanFullyFill(r)
    \/ r.type = "PostOnly" /\ WouldCross(r)
------------------------------------------------------------------------------
\* Where order id stands in the queue that the index says it is in.
Places(id) ==
    LET q == QueueAt(index[id].side, index[id].price) IN {i \in DOMAIN q : q[i].id = id}

\* The book in the promise's terms.
RestingOrders ==
    [id \in Resting |->
        LET q == QueueAt(index[id].side, index[id].price) IN
        [side |-> index[id].side, price |-> index[id].price,
         qty |-> IF Places(id) = {} THEN -1 ELSE q[Min(Places(id))].qty]]

QueueOrder ==
    {pair \in Resting \X Resting :
        /\ index[pair[1]] = index[pair[2]]
        /\ \E i \in Places(pair[1]), j \in Places(pair[2]) : i < j}

ViewOfBook == [resting |-> RestingOrders, before |-> QueueOrder, reply |-> reply]

Init ==
    /\ queues = [s \in Side |-> [p \in {} |-> <<>>]]
    /\ index = [id \in {} |-> NoReply]
    /\ call = "idle"
    /\ taker = NoRequest
    /\ reply = NoReply
    /\ view = ViewOfBook
    /\ asked = NoRequest

EndCall(trades, status) ==
    /\ call' = "idle"
    /\ taker' = NoRequest
    /\ reply' = Reply(trades, status)
    /\ view' = ViewOfBook'
    /\ asked' = NoRequest

Submit(r) ==
    /\ call = "idle"
    /\ r.id \notin Resting
    /\ call' = "check"
    /\ taker' = r
    /\ reply' = NoReply
    /\ asked' = r
    /\ UNCHANGED <<book, view>>

Reject ==
    /\ call = "check"
    /\ RejectedOnArrival(taker)
    /\ UNCHANGED book
    /\ EndCall(<<>>, "ok")

Accept ==
    /\ call = "check"
    /\ ~RejectedOnArrival(taker)
    /\ call' = "match"
    /\ UNCHANGED <<book, taker, reply, view, asked>>

CanMatch ==
    LET s == Opposite(taker.side) IN
    /\ taker.type # "PostOnly"
    /\ taker.qty > 0
    /\ Prices(s) # {}
    /\ Takes(taker, BestPrice(s))

\* One iteration of match_against()'s inner loop: the front order of the best
\* level trades, and leaves when used up.
Fill ==
    /\ call = "match"
    /\ CanMatch
    /\ LET s == Opposite(taker.side)
           p == BestPrice(s)
           q == queues[s][p]
           maker == Head(q)
           fill == Min({taker.qty, maker.qty})
       IN
       /\ taker' = [taker EXCEPT !.qty = @ - fill]
       /\ reply' = [reply EXCEPT !.trades = Append(@, TradeOf(maker.id, taker.id, p, fill))]
       /\ IF fill = maker.qty
          THEN /\ queues' = WithQueue(s, p, Tail(q))
               /\ index' = [id \in Resting \ {maker.id} |-> index[id]]
          ELSE /\ queues' = [queues EXCEPT ![s][p][1].qty = @ - fill]
               /\ UNCHANGED index
    /\ UNCHANGED <<call, view, asked>>

\* The remainder joins the back of its price, or is discarded.
Finish ==
    /\ call = "match"
    /\ ~CanMatch
    /\ IF Rests(taker)
       THEN /\ queues' = WithQueue(taker.side, taker.price,
                            Append(QueueAt(taker.side, taker.price),
                                   [id |-> taker.id, qty |-> taker.qty]))
            /\ index' = [id \in Resting \cup {taker.id} |->
                            IF id = taker.id THEN [side |-> taker.side, price |-> taker.price]
                            ELSE index[id]]
       ELSE UNCHANGED book
    /\ EndCall(reply.trades, "ok")

\* cancel(), which also returns false when the level is gone.
Cancel(id) ==
    /\ call = "idle"
    /\ id \in Resting
    /\ LET s == index[id].side
           p == index[id].price
       IN
       IF p \in Prices(s)
       THEN /\ queues' = WithQueue(s, p, Erased(queues[s][p], id))
            /\ index' = [o \in Resting \ {id} |-> index[o]]
            /\ EndCall(<<>>, "ok")
       ELSE UNCHANGED book /\ EndCall(<<>>, "unknown")

NotFound(id) ==
    /\ call = "idle"
    /\ id \notin Resting
    /\ UNCHANGED book
    /\ EndCall(<<>>, "unknown")

Next ==
    \/ \E r \in Request : Submit(r)
    \/ Reject
    \/ Accept
    \/ Fill
    \/ Finish
    \/ \E id \in OrderId : Cancel(id) \/ NotFound(id)

Spec == Init /\ [][Next]_vars
------------------------------------------------------------------------------
\* Index and queues list the same orders, each once and where the index says:
\* otherwise cancel() misses an order or erases the wrong level.
IndexMatchesQueues ==
    LET Slots == UNION {UNION {{s} \X {p} \X DOMAIN queues[s][p] : p \in Prices(s)} : s \in Side}
        At(slot) == queues[slot[1]][slot[2]][slot[3]].id
    IN /\ \A x, y \in Slots : At(x) = At(y) => x = y
       /\ {At(x) : x \in Slots} = Resting
       /\ \A x \in Slots : index[At(x)] = [side |-> x[1], price |-> x[2]]
       /\ \A s \in Side : \A p \in Prices(s) : queues[s][p] # <<>>

Promise == INSTANCE BookPromise WITH
    Capacity <- Cardinality(OrderId),
    resting <- view.resting,
    before <- view.before,
    asked <- asked,
    reply <- view.reply

\* The oracle itself keeps the promise the optimised book is compared against.
ImplementsPromise == Promise!Spec
==============================================================================
