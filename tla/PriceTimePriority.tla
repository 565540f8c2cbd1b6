-------------------------- MODULE PriceTimePriority --------------------------
(***************************************************************************)
(* What a request does to a book under price-time priority, stated without *)
(* levels, lists or loops.  A book b is a record with b.resting, order id  *)
(* -> [side, price, qty], and b.before, the pairs <<x, y>> of orders at    *)
(* one side and price of which x rests ahead of y.  The module is pure:    *)
(* the promise of one book and the callers of many both use it.            *)
(***************************************************************************)
EXTENDS OrderTypes, FiniteSetsExt, SequencesExt

\* The resting orders a request may take, and the order they are taken in.
Reached(b, r) ==
    {o \in DOMAIN b.resting :
        b.resting[o].side = Opposite(r.side) /\ Takes(r, b.resting[o].price)}

Outranks(b, x, y) ==
    \/ BetterPrice(b.resting[x].side, b.resting[x].price, b.resting[y].price)
    \/ <<x, y>> \in b.before

TotalQty(b, S) == SumFunctionOnSet([o \in DOMAIN b.resting |-> b.resting[o].qty], S)

QtyAhead(b, r, o) == TotalQty(b, {x \in Reached(b, r) : Outranks(b, x, o)})

\* A resting order trades iff the orders ahead of it leave the request
\* something; it gives what is left, up to all it has.
Makers(b, r) == {o \in Reached(b, r) : QtyAhead(b, r, o) < r.qty}

FillOf(b, r, o) == Min({b.resting[o].qty, r.qty - QtyAhead(b, r, o)})

Exhausted(b, r) == {o \in Makers(b, r) : FillOf(b, r, o) = b.resting[o].qty}

Unfilled(b, r) == r.qty - Min({r.qty, TotalQty(b, Reached(b, r))})

MakersInOrder(b, r) ==
    CHOOSE s \in SetToSeqs(Makers(b, r)) :
        \A i, j \in DOMAIN s : i < j => Outranks(b, s[i], s[j])

Trades(b, r) ==
    LET makers == MakersInOrder(b, r) IN
    [i \in DOMAIN makers |->
        TradeOf(makers[i], r.id, b.resting[makers[i]].price, FillOf(b, r, makers[i]))]

\* What rests once the makers have given their fills.
AfterTrades(b, r) ==
    [o \in DOMAIN b.resting \ Exhausted(b, r) |->
        IF o \in Makers(b, r) THEN [b.resting[o] EXCEPT !.qty = @ - FillOf(b, r, o)]
        ELSE b.resting[o]]

Among(b, S) == {pair \in b.before : pair[1] \in S /\ pair[2] \in S}

\* FOK fills whole or not at all; PostOnly never takes.
Killed(b, r) ==
    \/ r.type = "FOK" /\ Unfilled(b, r) > 0
    \/ r.type = "PostOnly" /\ Reached(b, r) # {}

Remains(b, r) == r.type = "PostOnly" \/ (r.type = "Limit" /\ Unfilled(b, r) > 0)

\* The remainder rests behind every order of its side and price.
AfterRest(b, r) ==
    LET kept == AfterTrades(b, r) IN
    [o \in DOMAIN kept \cup {r.id} |->
        IF o = r.id THEN [side |-> r.side, price |-> r.price, qty |-> Unfilled(b, r)] ELSE kept[o]]

QueuesAfterRest(b, r) ==
    LET kept == AfterTrades(b, r) IN
    Among(b, DOMAIN kept) \cup
        {<<o, r.id>> : o \in {k \in DOMAIN kept : kept[k].side = r.side /\ kept[k].price = r.price}}
==============================================================================
