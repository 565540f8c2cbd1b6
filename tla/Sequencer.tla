------------------------------ MODULE Sequencer ------------------------------
(***************************************************************************)
(* Sequencer::on_message() with its RiskEngine (cpp/feed/sequencer.cpp,    *)
(* risk.cpp), the OrderBookV2 of every symbol, and a subscriber that       *)
(* applies the published market data events (snapshot.h, Builder::apply).  *)
(*                                                                         *)
(* A message is handled to its end by one thread, so each is one step; the *)
(* outcomes of a handler are actions of their own.  Books appear as their  *)
(* promise (BookPromise) plus the price window that decides when add()     *)
(* throws.  The messages are those of an exchange feed: an order reference *)
(* number is new in every Add and Replace, and otherwise names any earlier *)
(* order, which this engine may have filled, refused or dropped already.   *)
(***************************************************************************)
EXTENDS BookCalls, MarketData

CONSTANTS
    Symbol,         \* the stocks
    Mpid,           \* market participants, NoMpid included
    NoMpid,         \* Add Order without attribution: the empty mpid
    MaxOrderSize,   \* Config::max_order_size
    MinPrice,       \* Config::min_price
    MaxPrice,       \* Config::max_price
    BandInverse     \* 1 / Config::price_band_pct

ASSUME SequencerAssumption ==
    /\ NoMpid \in Mpid
    /\ MaxOrderSize \in Nat
    /\ MinPrice \in Int
    /\ MaxPrice \in Int
    /\ BandInverse \in Nat \ {0}

VARIABLES
    books,          \* symbol -> the book's orders, queues and price window
    route,          \* order_symbol_: order id -> symbol, side, mpid
    restingCount,   \* resting_count_: <<symbol, mpid, side>> -> count
    lastTrade,      \* last_trade_price_, NoPrice before the first trade
    shadow,         \* the subscriber's books: order id -> symbol, side, price, qty
    report,         \* how the last message was answered to the participant
    used,           \* order reference numbers the feed has handed out
    silent          \* history: some message changed a book and published nothing

vars == <<books, route, restingCount, lastTrade, shadow, report, used, silent>>

NoPrice == -1

Order(id, side, price, qty) ==
    [id |-> id, side |-> side, type |-> "Limit", price |-> price, qty |-> qty]

Key(info) == <<info.symbol, info.mpid, info.side>>

Init ==
    /\ books = [s \in Symbol |-> NewBook]
    /\ route = [id \in {} |-> NoReply]
    /\ restingCount = [k \in Symbol \X Mpid \X Side |-> 0]
    /\ lastTrade = [s \in Symbol |-> NoPrice]
    /\ shadow = [id \in {} |-> NoReply]
    /\ report = "none"
    /\ used = {}
    /\ silent = FALSE
------------------------------------------------------------------------------
(* RiskEngine *)

\* The price a new one is compared with: the last trade, else the middle of the
\* book, else its only side; none for the first order of a symbol.
References(sym, b) ==
    LET bids == Quotes(b, "Buy")
        asks == Quotes(b, "Sell")
    IN IF lastTrade[sym] # NoPrice THEN {lastTrade[sym]}
       ELSE IF bids # {} /\ asks # {} THEN {(Max(bids) + Min(asks)) \div 2}
       ELSE IF bids # {} THEN {Max(bids)}
       ELSE IF asks # {} THEN {Min(asks)}
       ELSE {}

Distance(p, q) == IF p > q THEN p - q ELSE q - p

OutOfBand(p, sym, b) ==
    \E ref \in References(sym, b) : ref > 0 /\ Distance(p, ref) * BandInverse > ref

\* As MayMeetItself, looking at the order's own side.
MayQueueBehindItself(info, counts) == info.mpid # NoMpid /\ counts[Key(info)] > 0

\* A participant may not quote one side while an order of its own is believed
\* to rest on the other.
MayMeetItself(info, counts) ==
    /\ info.mpid # NoMpid
    /\ counts[<<info.symbol, info.mpid, Opposite(info.side)>>] > 0

\* check(): counts is resting_count_ at the time of the call.
RiskRejects(r, info, b, counts) ==
    \/ r.qty > MaxOrderSize
    \/ r.price < MinPrice
    \/ r.price > MaxPrice
    \/ OutOfBand(r.price, info.symbol, b)
    \/ MayMeetItself(info, counts)

NoteResting(counts, info) ==
    IF info.mpid = NoMpid THEN counts ELSE [counts EXCEPT ![Key(info)] = @ + 1]

\* As NoteRemoved, from the other side's counter.
NoteRemovedOpposite(counts, info) ==
    [counts EXCEPT ![<<info.symbol, info.mpid, Opposite(info.side)>>] = IF @ = 0 THEN 0 ELSE @ - 1]

NoteRemoved(counts, info) ==
    IF info.mpid = NoMpid \/ counts[Key(info)] = 0 THEN counts
    ELSE [counts EXCEPT ![Key(info)] = @ - 1]
------------------------------------------------------------------------------
(* The market data events of one message, applied by the subscriber *)

\* As TradeEvents, naming the incoming order.
TakerEvents(trades) == [i \in DOMAIN trades |-> TakeEvent(trades[i].taker, trades[i].qty)]

TradeEvents(trades) == [i \in DOMAIN trades |-> TakeEvent(trades[i].maker, trades[i].qty)]

Publish(events) == shadow' = Applied(shadow, events) /\ UNCHANGED silent

\* No market data event; the history remembers whether there was one to send.
PublishNothing ==
    /\ UNCHANGED shadow
    /\ silent' = (silent \/ \E s \in Symbol : books'[s].resting # books[s].resting)

NoteTrades(sym, trades) ==
    lastTrade' = IF trades = <<>> THEN lastTrade
                 ELSE [lastTrade EXCEPT ![sym] = trades[Len(trades)].price]
------------------------------------------------------------------------------
(* Add Order, with or without MPID *)

IsNew(id) == id \notin used /\ used' = used \cup {id}

Routed(id, info) == [o \in DOMAIN route \cup {id} |-> IF o = id THEN info ELSE route[o]]

Unrouted(id) == [o \in DOMAIN route \ {id} |-> route[o]]

AddRefusedByRisk(r, info) ==
    /\ IsNew(r.id)
    /\ RiskRejects(r, info, books[info.symbol], restingCount)
    /\ report' = "Reject"
    /\ UNCHANGED <<books, route, restingCount, lastTrade, shadow, silent>>

AddAccepted(r, info) ==
    LET b == books[info.symbol]
        left == Unfilled(b, r)
        trades == Trades(b, r)
    IN
    /\ IsNew(r.id)
    /\ ~RiskRejects(r, info, b, restingCount)
    /\ ~AddThrows(b, r)
    /\ books' = [books EXCEPT ![info.symbol] = AfterAdd(b, r)]
    /\ route' = Routed(r.id, info)
    /\ restingCount' = NoteResting(restingCount, info)
    /\ NoteTrades(info.symbol, trades)
    /\ Publish((IF left > 0 THEN <<AddEvent(info.symbol, r, left)>> ELSE <<>>) \o TradeEvents(trades))
    /\ report' = "Ack"

\* The exception handler takes the route back; whatever traded stays traded.
AddRefusedByBook(r, info) ==
    LET b == books[info.symbol] IN
    /\ IsNew(r.id)
    /\ ~RiskRejects(r, info, b, restingCount)
    /\ AddThrows(b, r)
    /\ books' = [books EXCEPT ![info.symbol] = AfterAdd(b, r)]
    /\ PublishNothing
    /\ report' = "Reject"
    /\ UNCHANGED <<route, restingCount, lastTrade>>
------------------------------------------------------------------------------
(* Order Cancel, Order Executed, Order Executed With Price, Order Delete *)

ReduceRouted(id, shares) ==
    LET sym == route[id].symbol IN
    /\ id \in DOMAIN route
    /\ books' = [books EXCEPT ![sym] = AfterReduce(@, id, shares)]
    /\ Publish(<<TakeEvent(id, shares)>>)
    /\ report' = "none"
    /\ UNCHANGED <<route, restingCount, used>>

\* 'X' and 'E' differ only in the event type they publish.
OrderCancelOrExecuted(id, shares) ==
    /\ ReduceRouted(id, shares)
    /\ UNCHANGED lastTrade

OrderExecutedWithPrice(id, shares, price) ==
    /\ ReduceRouted(id, shares)
    /\ lastTrade' = [lastTrade EXCEPT ![route[id].symbol] = price]

OrderDelete(id) ==
    /\ id \in DOMAIN route
    /\ books' = [books EXCEPT ![route[id].symbol] = AfterCancel(@, id)]
    /\ restingCount' = NoteRemoved(restingCount, route[id])
    /\ Publish(<<DeleteEvent(id)>>)
    /\ route' = Unrouted(id)
    /\ report' = "none"
    /\ UNCHANGED <<lastTrade, used>>

\* A reference to an order never routed or no longer so, a non-printable
\* execution, and every message type that does not concern a book.
Ignored ==
    /\ report' = "none"
    /\ UNCHANGED <<books, route, restingCount, lastTrade, shadow, used, silent>>
------------------------------------------------------------------------------
(* Order Replace: the old order is gone before the new one is looked at *)

ReplaceRefusedByRisk(old, r) ==
    LET info == route[old]
        b == AfterCancel(books[info.symbol], old)
        counts == NoteRemoved(restingCount, info)
    IN
    /\ old \in DOMAIN route
    /\ r.side = info.side
    /\ IsNew(r.id)
    /\ RiskRejects(r, info, b, counts)
    /\ books' = [books EXCEPT ![info.symbol] = b]
    /\ restingCount' = counts
    /\ route' = Unrouted(old)
    /\ PublishNothing
    /\ report' = "Reject"
    /\ UNCHANGED lastTrade

ReplaceAccepted(old, r) ==
    LET info == route[old]
        b == AfterCancel(books[info.symbol], old)
        counts == NoteRemoved(restingCount, info)
        left == Unfilled(b, r)
        trades == Trades(b, r)
    IN
    /\ old \in DOMAIN route
    /\ r.side = info.side
    /\ IsNew(r.id)
    /\ ~RiskRejects(r, info, b, counts)
    /\ ~AddThrows(b, r)
    /\ books' = [books EXCEPT ![info.symbol] = AfterAdd(b, r)]
    /\ restingCount' = NoteResting(counts, info)
    /\ route' = [o \in DOMAIN Unrouted(old) \cup {r.id} |-> IF o = r.id THEN info ELSE route[o]]
    /\ NoteTrades(info.symbol, trades)
    /\ Publish(<<IF left > 0 THEN ReplaceEvent(old, info.symbol, r, left) ELSE DeleteEvent(old)>>
                    \o TradeEvents(trades))
    /\ report' = "Ack"

ReplaceRefusedByBook(old, r) ==
    LET info == route[old]
        b == AfterCancel(books[info.symbol], old)
        counts == NoteRemoved(restingCount, info)
    IN
    /\ old \in DOMAIN route
    /\ r.side = info.side
    /\ IsNew(r.id)
    /\ ~RiskRejects(r, info, b, counts)
    /\ AddThrows(b, r)
    /\ books' = [books EXCEPT ![info.symbol] = AfterAdd(b, r)]
    /\ restingCount' = counts
    /\ route' = Unrouted(old)
    /\ PublishNothing
    /\ report' = "Reject"
    /\ UNCHANGED lastTrade

AddOrder ==
    \E id \in OrderId, sym \in Symbol, mpid \in Mpid, side \in Side, p \in Price, q \in Quantity :
        LET r == Order(id, side, p, q)
            info == [symbol |-> sym, side |-> side, mpid |-> mpid]
        IN \/ AddRefusedByRisk(r, info)
           \/ AddAccepted(r, info)
           \/ AddRefusedByBook(r, info)

OrderReplace ==
    \E old \in DOMAIN route, id \in OrderId, p \in Price, q \in Quantity :
        LET r == Order(id, route[old].side, p, q) IN
        \/ ReplaceRefusedByRisk(old, r)
        \/ ReplaceAccepted(old, r)
        \/ ReplaceRefusedByBook(old, r)

Next ==
    \/ AddOrder
    \/ OrderReplace
    \/ \E id \in DOMAIN route, q \in Quantity : OrderCancelOrExecuted(id, q)
    \/ \E id \in DOMAIN route, q \in Quantity, p \in Price : OrderExecutedWithPrice(id, q, p)
    \/ \E id \in DOMAIN route : OrderDelete(id)
    \/ Ignored

Spec == Init /\ [][Next]_vars
------------------------------------------------------------------------------
Entries == [symbol: Symbol, side: Side, price: Price, qty: Nat]
Infos == [symbol: Symbol, side: Side, mpid: Mpid]

\* Routes, books and counters keep their types.
TypeOK ==
    /\ DOMAIN books = Symbol
    /\ \A s \in Symbol : /\ books[s].window \in Window
                         /\ DOMAIN books[s].resting \subseteq OrderId
                         /\ \A id \in DOMAIN books[s].resting :
                              books[s].resting[id] \in [side: Side, price: Price, qty: Nat]
    /\ DOMAIN route \subseteq used
    /\ \A id \in DOMAIN route : route[id] \in Infos
    /\ restingCount \in [Symbol \X Mpid \X Side -> Nat]
    /\ lastTrade \in [Symbol -> Price \cup {NoPrice}]
    /\ \A id \in DOMAIN shadow : shadow[id] \in Entries
    /\ report \in {"none", "Ack", "Reject"}
    /\ used \subseteq OrderId
    /\ silent \in BOOLEAN

\* Every resting order is routed, to the book and the side it rests on: no later
\* message about it goes astray, and it rests in one book only.
RoutesCoverBooks ==
    \A s \in Symbol : \A id \in DOMAIN books[s].resting :
        /\ id \in DOMAIN route
        /\ route[id].symbol = s
        /\ route[id].side = books[s].resting[id].side

\* resting_count_ counts the routes of each participant, symbol and side,
\* through replaces, refusals and exceptions.
CountsMatchRoutes ==
    \A k \in Symbol \X Mpid \X Side :
        restingCount[k] = IF k[2] = NoMpid THEN 0
                          ELSE Cardinality({id \in DOMAIN route : Key(route[id]) = k})

\* A participant's resting orders in a symbol are all on one side, so that no
\* two of them can ever trade with each other.
OneSidedParticipants ==
    \A s \in Symbol : \A x, y \in DOMAIN books[s].resting :
        /\ route[x].mpid = route[y].mpid
        /\ route[x].mpid # NoMpid
        => books[s].resting[x].side = books[s].resting[y].side

TrueBooks ==
    [id \in UNION {DOMAIN books[s].resting : s \in Symbol} |->
        LET s == CHOOSE x \in Symbol : id \in DOMAIN books[x].resting
            o == books[s].resting[id]
        IN [symbol |-> s, side |-> o.side, price |-> o.price, qty |-> o.qty]]

\* The subscriber's shadow books equal the engine's order by order, as long as
\* no refused message changed a book behind its back.
ShadowFollows == ~silent => shadow = TrueBooks

\* README.md: the subscriber reconstructs the book from the wire feed alone.
ShadowMatchesBooks == shadow = TrueBooks

\* sequencer.h: a rejected order produces no market data event because nothing
\* observable changed.  Here for Add Order: what the book refuses after fills
\* were made.
RejectedAddChangesNothing ==
    [][AddOrder /\ report' = "Reject"
        => \A s \in Symbol : books'[s].resting = books[s].resting]_vars
==============================================================================
