----------------------------- MODULE OrderTypes ------------------------------
(***************************************************************************)
(* The vocabulary every book shares: sides, order types, requests, trades  *)
(* and what a call gives back to its caller.                               *)
(***************************************************************************)
EXTENDS Integers, Sequences

CONSTANTS
    OrderId,    \* order ids the callers use; an id may be reused once it no longer rests
    Price,      \* the prices the callers quote, in ticks
    Quantity    \* the quantities the callers quote

ASSUME OrderAssumption ==
    /\ -1 \notin OrderId    \* ids are unsigned; -1 is the id of NoRequest
    /\ Price \subseteq Int
    /\ Price # {}
    /\ Quantity \subseteq Nat

Side == {"Buy", "Sell"}

Opposite(s) == IF s = "Buy" THEN "Sell" ELSE "Buy"

\* Type::Cancel is not here: add() hands such a request to cancel() at once.
Type == {"Limit", "Market", "IOC", "FOK", "PostOnly"}

AnyPrice == CHOOSE p \in Price : TRUE

\* The price of a Market order is ignored, so one value stands for all.
Request ==
    {r \in [id: OrderId, side: Side, type: Type, price: Price, qty: Quantity] :
        r.type = "Market" => r.price = AnyPrice}

\* No request is being worked on.
NoRequest == [id |-> -1, side |-> "Buy", type |-> "IOC", price |-> 0, qty |-> 0]

\* As Reaches, with equal prices not crossing.
ReachesBeyond(s, p, q) == IF s = "Buy" THEN q < p ELSE q > p

\* A limit price p on side s reaches a resting order quoted at q.
Reaches(s, p, q) == IF s = "Buy" THEN q <= p ELSE q >= p

\* On side s, an order quoted at p is served before one quoted at q.
BetterPrice(s, p, q) == IF s = "Buy" THEN p > q ELSE p < q

\* Whether a request may take an order of the other side quoted at q.
Takes(r, q) == r.type = "Market" \/ Reaches(r.side, r.price, q)

\* The types whose unfilled remainder rests.
Rests(r) == r.type = "PostOnly" \/ (r.type = "Limit" /\ r.qty > 0)

TradeOf(maker, taker, price, qty) ==
    [maker |-> maker, taker |-> taker, price |-> price, qty |-> qty]

\* "ok" also for a request that was killed or rejected on arrival, for which
\* add() returns without trades; "unknown" is cancel()/reduce() returning
\* false; "window" and "arena" are the two runtime_errors add() can throw.
Status == {"ok", "unknown", "window", "arena"}

Reply(trades, status) == [trades |-> trades, status |-> status]

NoReply == Reply(<<>>, "ok")
==============================================================================
