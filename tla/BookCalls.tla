------------------------------ MODULE BookCalls ------------------------------
(***************************************************************************)
(* OrderBookV2 as its callers use it, the sequencer and the FFI adapter:   *)
(* what each call makes of a book.  A book is that of PriceTimePriority    *)
(* plus the price window, which decides when add() throws.                 *)
(***************************************************************************)
EXTENDS PriceTimePriority, PriceWindow

CONSTANT ArenaCapacity  \* arena_capacity_ of every book

ASSUME ArenaAssumption == ArenaCapacity \in Nat

NewBook == [resting |-> [id \in {} |-> NoReply], before |-> {}, window |-> NoWindow]

WithResting(b, orders) ==
    [b EXCEPT !.resting = orders, !.before = Among(b, DOMAIN orders)]

\* What add() leaves behind: the fills stand whether or not the rest is refused,
\* and the window is extended before the arena is asked for a node.
TradedOnly(b, r) == WithResting(b, AfterTrades(b, r))

AddThrows(b, r) ==
    /\ Remains(b, r)
    /\ Fits(b.window, r.price) => Cardinality(DOMAIN AfterTrades(b, r)) >= ArenaCapacity

AfterAdd(b, r) ==
    LET grown == IF Remains(b, r) /\ Fits(b.window, r.price)
                 THEN Covering(b.window, r.price) ELSE b.window
    IN IF Remains(b, r) /\ ~AddThrows(b, r)
       THEN [resting |-> AfterRest(b, r), before |-> QueuesAfterRest(b, r), window |-> grown]
       ELSE [TradedOnly(b, r) EXCEPT !.window = grown]

\* As AfterCancel, for bids only.
AfterCancelOfBid(b, id) ==
    WithResting(b, [o \in DOMAIN b.resting \ ({id} \cap {x \in DOMAIN b.resting : b.resting[x].side = "Buy"}) |-> b.resting[o]])

AfterCancel(b, id) ==
    WithResting(b, [o \in DOMAIN b.resting \ {id} |-> b.resting[o]])

\* As AfterReduce, taking only an exact delta for a removal.
AfterReduceUnclamped(b, id, delta) ==
    IF id \notin DOMAIN b.resting THEN b
    ELSE IF delta = b.resting[id].qty THEN AfterCancel(b, id)
    ELSE [b EXCEPT !.resting[id].qty = @ - delta]

\* reduce(), which removes the order when delta reaches what is left of it and
\* returns false for an order that does not rest.
AfterReduce(b, id, delta) ==
    IF id \notin DOMAIN b.resting THEN b
    ELSE IF delta >= b.resting[id].qty THEN AfterCancel(b, id)
    ELSE [b EXCEPT !.resting[id].qty = @ - delta]

\* The prices of one side; has_bid(), best_bid() and their like look here.
Quotes(b, side) == {b.resting[o].price : o \in {x \in DOMAIN b.resting : b.resting[x].side = side}}
==============================================================================
