----------------------------- MODULE BookPromise -----------------------------
(***************************************************************************)
(* What any of the repository's books promises its caller, one atomic step *)
(* for the whole effect of a call: price-time priority matching of a       *)
(* request against the resting orders.  OrderBookV2 and the v1 reference   *)
(* book implement it.                                                      *)
(***************************************************************************)
EXTENDS PriceTimePriority

CONSTANT Capacity   \* orders that can rest at once

VARIABLES
    resting,    \* order id -> [side, price, qty]
    before,     \* <<a, b>>: a rests ahead of b at one side and price
    asked,      \* the request add() was called with, NoRequest between calls
    reply       \* the trades and the ending of the last call

vars == <<resting, before, asked, reply>>

Init ==
    /\ resting = [id \in {} |-> NoReply]
    /\ before = {}
    /\ asked = NoRequest
    /\ reply = NoReply

Resting == DOMAIN resting

\* The book, for the operators of price-time priority.
Book == [resting |-> resting, before |-> before]

IsFullAfterTrades(r) == Cardinality(DOMAIN AfterTrades(Book, r)) >= Capacity
------------------------------------------------------------------------------
\* A call of add().  Callers never submit an id that still rests.
Ask(r) ==
    /\ asked = NoRequest
    /\ r.id \notin Resting
    /\ asked' = r
    /\ UNCHANGED <<resting, before, reply>>

\* The request trades what it can and the rest of it is dropped.
Take(r) ==
    /\ ~Killed(Book, r)
    /\ ~Remains(Book, r)
    /\ resting' = AfterTrades(Book, r)
    /\ before' = Among(Book, DOMAIN resting')
    /\ reply' = Reply(Trades(Book, r), "ok")

Kill(r) ==
    /\ Killed(Book, r)
    /\ reply' = NoReply
    /\ UNCHANGED <<resting, before>>

Rest(r) ==
    /\ ~Killed(Book, r)
    /\ Remains(Book, r)
    /\ ~IsFullAfterTrades(r)
    /\ resting' = AfterRest(Book, r)
    /\ before' = QueuesAfterRest(Book, r)
    /\ reply' = Reply(Trades(Book, r), "ok")

\* The remainder is refused: the book is full, or (a promise does not say when)
\* the price is too far out.  The fills already made stand.
Refuse(r, status) ==
    /\ ~Killed(Book, r)
    /\ Remains(Book, r)
    /\ status = "arena" => IsFullAfterTrades(r)
    /\ resting' = AfterTrades(Book, r)
    /\ before' = Among(Book, DOMAIN resting')
    /\ reply' = Reply(Trades(Book, r), status)

\* add() returns, or throws.
Answer ==
    /\ asked # NoRequest
    /\ asked' = NoRequest
    /\ \/ Take(asked)
       \/ Kill(asked)
       \/ Rest(asked)
       \/ \E status \in {"window", "arena"} : Refuse(asked, status)

Idle == asked = NoRequest /\ UNCHANGED asked

Cancel(id) ==
    /\ Idle
    /\ id \in Resting
    /\ resting' = [o \in Resting \ {id} |-> resting[o]]
    /\ before' = Among(Book, Resting \ {id})
    /\ reply' = NoReply

Reduce(id, delta) ==
    /\ Idle
    /\ id \in Resting
    /\ delta < resting[id].qty
    /\ resting' = [resting EXCEPT ![id].qty = @ - delta]
    /\ reply' = NoReply
    /\ UNCHANGED before

ReduceAll(id, delta) ==
    /\ id \in Resting
    /\ delta >= resting[id].qty
    /\ Cancel(id)

NotFound(id) ==
    /\ Idle
    /\ id \notin Resting
    /\ reply' = Reply(<<>>, "unknown")
    /\ UNCHANGED <<resting, before>>

Next ==
    \/ \E r \in Request : Ask(r)
    \/ Answer
    \/ \E id \in OrderId : Cancel(id) \/ NotFound(id)
    \/ \E id \in OrderId, delta \in Quantity : Reduce(id, delta) \/ ReduceAll(id, delta)

Spec == Init /\ [][Next]_vars
==============================================================================
