------------------------------- MODULE Sidecar -------------------------------
(***************************************************************************)
(* The Rust sidecar (rust/src/fix.rs, risk.rs, lib.rs) and the FFI adapter *)
(* it calls (cpp/src/order_book_v2_ffi.cpp): a FIX message is parsed, its  *)
(* order checked against the risk limits and the best price of the book at *)
(* that moment, and handed over later to the symbol's MatchingEngine, an   *)
(* OrderBookV2 behind cxx.  The gateway that makes these three calls in    *)
(* turn is not in the crate; lib.rs and risk.rs say how it does: the check *)
(* runs on the ingestion side, the book may move before the hand-over.     *)
(*                                                                         *)
(* i64 has Width bits.  Its arithmetic panics on overflow in a debug build *)
(* and wraps in a release build: both outcomes are modelled, a panic as    *)
(* <<>>.  An exception of add() cannot cross cxx, whose add() returns no   *)
(* Result, and ends the process.                                           *)
(***************************************************************************)
EXTENDS BookCalls

CONSTANTS
    Symbol,
    Decimal,        \* the texts of tag 44: a sign, the digits before and after the point
    Width,          \* bits of an i64
    Places,         \* decimal places of a tick: 4
    MaxOrderQty,    \* RiskLimits::max_order_qty
    MaxNotional,    \* RiskLimits::max_notional
    CollarBps,      \* RiskLimits::price_collar_bps
    AllowedSymbols, \* RiskLimits::allowed_symbols
    MaxPending      \* bound: commands accepted and not yet handed over

VARIABLES
    engine,         \* symbol -> the book behind its MatchingEngine
    pending,        \* commands on their way to the engines
    lastTrade,      \* symbol -> <<the price it last traded at>>, <<>> before that
    alive           \* the process has not panicked or terminated

vars == <<engine, pending, lastTrade, alive>>

I64Max == 2^(Width - 1) - 1
I64 == -I64Max - 1 .. I64Max
U64 == 0 .. 2^Width - 1

\* The limits are such that the check can tell them from its saturated product.
ASSUME SidecarAssumption ==
    /\ Width \in Nat \ {0}
    /\ Places \in Nat \ {0}
    /\ MaxOrderQty \in 0 .. I64Max
    /\ MaxNotional \in 0 .. I64Max - 1
    /\ CollarBps \in Nat
    /\ AllowedSymbols \subseteq Symbol
    /\ MaxPending \in Nat \ {0}
    /\ Quantity \subseteq U64

NoBooks == [s \in Symbol |-> NewBook]
NoTrades == [s \in Symbol |-> <<>>]

Init ==
    /\ engine = NoBooks
    /\ pending = <<>>
    /\ lastTrade = NoTrades
    /\ alive = TRUE

\* The process ends, and what it held in memory with it.
Dies ==
    /\ alive' = FALSE
    /\ engine' = NoBooks
    /\ pending' = <<>>
    /\ lastTrade' = NoTrades
------------------------------------------------------------------------------
(* Integers *)

Wrapped(n) == ((n + I64Max + 1) % 2^Width) - I64Max - 1

Saturated(n) == Max({-I64Max - 1, Min({I64Max, n})})

\* What a computation with the intermediate results S and the final one n gives.
Computed(S, n) == IF S \cup {n} \subseteq I64 THEN {<<n>>} ELSE {<<Wrapped(n)>>, <<>>}

Magnitude(n) == IF n < 0 THEN -n ELSE n
------------------------------------------------------------------------------
(* fix.rs *)

Dash == 10  \* the character '-' among the digits 0 .. 9

Scale == 10^Places

NumberOf(digits) == FoldLeft(LAMBDA n, d : 10 * n + d, 0, digits)

\* The fraction, padded with zeros and cut to the places of a tick.
Padded(frac) == SubSeq(frac \o [i \in 1 .. Places |-> 0], 1, Places)

\* The text parses as an i64: a sign may only come first, before some digit.
IsInteger(text) == (Dash \in Range(text) => text[1] = Dash /\ Len(text) > 1) /\ Dash \notin Range(Tail(text))

IntegerOf(text) == IF text[1] = Dash THEN -NumberOf(Tail(text)) ELSE NumberOf(text)

WholeOf(decimal) == IF decimal.minus THEN -decimal.whole ELSE decimal.whole

IsPrice(decimal) == WholeOf(decimal) \in I64 /\ IsInteger(Padded(decimal.frac))

\* As ParsePrice, with the fraction always added.
ParsePriceUnsigned(decimal) ==
    LET whole == WholeOf(decimal) * Scale
    IN Computed({whole}, whole + IntegerOf(Padded(decimal.frac)))

\* The sign of the whole part, "-0" included, is also the fraction's.
ParsePrice(decimal) ==
    LET whole == WholeOf(decimal) * Scale
        sign == IF decimal.minus THEN -1 ELSE 1
    IN Computed({whole}, whole + sign * IntegerOf(Padded(decimal.frac)))

\* The tags parse() reads, and so can stumble on, for each message type.
Required(type, ordType) ==
    (CASE type = "D" -> {35, 11, 55, 54, 40, 38}
       [] type = "F" -> {35, 11, 41, 55, 54}
       [] type = "G" -> {35, 11, 41, 55, 54, 40, 38})
    \cup (IF type \in {"D", "G"} /\ ordType = "Limit" THEN {44} ELSE {})

OrdType == {"Limit", "Market"}

Tags == UNION {Required(type, ordType) : type \in {"D", "F", "G"}, ordType \in OrdType}

AnyDecimal == CHOOSE d \in Decimal : TRUE

\* Messages that parse; a Market order's price is not looked at.
NewOrderSingle ==
    {m \in [type: {"D"}, id: OrderId, symbol: Symbol, side: Side, ordType: OrdType, price: Decimal, qty: Quantity] :
        IF m.ordType = "Market" THEN m.price = AnyDecimal ELSE IsPrice(m.price)}

CancelReplaceRequest == {[orig |-> o, order |-> m] : o \in OrderId, m \in NewOrderSingle}

\* parse() returns an error: a tag is missing or its value is not one.
ParseError ==
    /\ alive
    /\ \E faulty \in {35, 11, 41, 55, 54, 40, 38, 44} : faulty \in Tags
    /\ UNCHANGED vars

\* Padding and cutting count bytes: a fraction whose fourth byte is not the last
\* of its character cannot be cut there.
CutPanics ==
    /\ alive
    /\ 44 \in Tags
    /\ Dies
------------------------------------------------------------------------------
(* risk.rs *)

\* As Notional, wrapping.
NotionalWrapped(price, qty) == Wrapped(price * Wrapped(qty))

Notional(price, qty) == Saturated(price * Wrapped(qty))

\* |price - reference|, and what it may be.
Distance(price, reference) ==
    {IF d = <<>> THEN d ELSE <<Magnitude(d[1])>> : d \in Computed({}, price - reference)}

Allowance(reference) == (reference * CollarBps) \div 10000

\* The collar is looked at when there is a positive reference; a check that
\* panics gives <<>>.
InCollar(price, reference) ==
    IF reference = <<>> \/ reference[1] <= 0 THEN {<<TRUE>>}
    ELSE {IF d = <<>> THEN d ELSE <<d[1] <= Allowance(reference[1])>> : d \in Distance(price, reference[1])}

Check(symbol, price, qty, reference) ==
    IF \/ AllowedSymbols # {} /\ symbol \notin AllowedSymbols
       \/ qty > MaxOrderQty
       \/ Notional(price, qty) > MaxNotional
    THEN {<<FALSE>>}
    ELSE InCollar(price, reference)
------------------------------------------------------------------------------
(* The gateway, outside the crate *)

\* reference_price: the book's best bid or ask, none while it has neither, or
\* the last trade.
References(symbol) ==
    LET Quoted(side) == {Quotes(engine[symbol], side)} \ {{}}
        best == {Max(q) : q \in Quoted("Buy")} \cup {Min(q) : q \in Quoted("Sell")}
    IN (IF best = {} THEN {<<>>} ELSE {<<p>> : p \in best})
          \cup ({lastTrade[symbol]} \ {<<>>})

\* Ids an order may not be given again yet.
Live ==
    UNION {DOMAIN engine[s].resting : s \in Symbol}
        \cup {pending[i].add[1].id : i \in {j \in DOMAIN pending : pending[j].add # <<>>}}

\* What an order is checked with: its own price, or the reference if Market.
Prices(m, reference) == IF m.ordType = "Limit" THEN ParsePrice(m.price) ELSE {reference}

OrderOf(m, price) ==
    [id |-> m.id, side |-> m.side, type |-> m.ordType,
     price |-> IF m.ordType = "Limit" THEN price ELSE AnyPrice, qty |-> m.qty]

Enqueue(command) == pending' = Append(pending, command) /\ UNCHANGED <<engine, lastTrade, alive>>

Ready == alive /\ Len(pending) < MaxPending

\* Parsing and checking, of a new order or of one that replaces cancel[1].
Submit(m, cancel) ==
    /\ Ready
    /\ m.id \notin Live
    /\ \E reference \in References(m.symbol) :
        /\ m.ordType = "Market" => reference # <<>>
        /\ \E price \in Prices(m, reference) :
            IF price = <<>> THEN Dies
            ELSE \E passes \in Check(m.symbol, price[1], m.qty, reference) :
                CASE passes = <<>> -> Dies
                  [] passes = <<FALSE>> -> UNCHANGED vars
                  [] passes = <<TRUE>> ->
                        Enqueue([symbol |-> m.symbol, cancel |-> cancel, add |-> <<OrderOf(m, price[1])>>,
                                 quoted |-> m.price, checked |-> price[1], reference |-> reference])

SubmitCancel(symbol, id) ==
    /\ Ready
    /\ Enqueue([symbol |-> symbol, cancel |-> <<id>>, add |-> <<>>])
------------------------------------------------------------------------------
(* MatchingEngine and the FFI adapter *)

\* The oldest command reaches its engine: cancel(), then add().
HandOver ==
    /\ alive
    /\ pending # <<>>
    /\ LET c == Head(pending)
           b == IF c.cancel = <<>> THEN engine[c.symbol] ELSE AfterCancel(engine[c.symbol], c.cancel[1])
           trades == IF c.add = <<>> THEN <<>> ELSE Trades(b, c.add[1])
       IN IF c.add # <<>> /\ AddThrows(b, c.add[1]) THEN Dies
          ELSE /\ engine' = [engine EXCEPT ![c.symbol] = IF c.add = <<>> THEN b ELSE AfterAdd(b, c.add[1])]
               /\ lastTrade' = [lastTrade EXCEPT ![c.symbol] = IF trades = <<>> THEN @ ELSE <<Last(trades).price>>]
               /\ pending' = Tail(pending)
               /\ UNCHANGED alive

Reduce(symbol, id, delta) ==
    /\ alive
    /\ engine' = [engine EXCEPT ![symbol] = AfterReduce(@, id, delta)]
    /\ UNCHANGED <<pending, lastTrade, alive>>

Next ==
    \/ ParseError
    \/ CutPanics
    \/ \E m \in NewOrderSingle : Submit(m, <<>>)
    \/ \E r \in CancelReplaceRequest : Submit(r.order, <<r.orig>>)
    \/ \E symbol \in Symbol, id \in OrderId : SubmitCancel(symbol, id)
    \/ HandOver
    \/ \E symbol \in Symbol, id \in OrderId, delta \in Quantity : Reduce(symbol, id, delta)

Spec == Init /\ [][Next]_vars
------------------------------------------------------------------------------
RestingOrders == UNION {Range(engine[s].resting) : s \in Symbol}

Adds == {pending[i] : i \in {j \in DOMAIN pending : pending[j].add # <<>>}}

\* What is on its way to an engine, or rests in one, keeps to the limits in exact
\* arithmetic, whatever the 64-bit product and difference of check() gave, and
\* however the order was traded against, reduced or replaced since; nothing rests
\* with a price that is no i64 or a quantity that fell to zero or below.  The
\* collar binds what its difference can express.
WithinLimits ==
    /\ \A c \in Adds :
        /\ AllowedSymbols = {} \/ c.symbol \in AllowedSymbols
        /\ c.add[1].qty <= MaxOrderQty
        /\ c.checked * c.add[1].qty <= MaxNotional
        /\ c.reference # <<>> /\ c.reference[1] > 0 /\ c.checked - c.reference[1] \in I64 =>
            Magnitude(c.checked - c.reference[1]) * 10000 <= c.reference[1] * CollarBps
    /\ \A o \in RestingOrders : 
        /\ o.price \in I64
        /\ o.qty \in 1 .. MaxOrderQty
        /\ o.price * o.qty <= MaxNotional

\* A buy limit order on its way to the book will never pay more than the notional
\* limit, although the book may move between its check and the hand-over.
BuysPayWithinLimit ==
    \A c \in Adds :
        LET r == c.add[1]
            trades == Trades(engine[c.symbol], r)
        IN r.type = "Limit" /\ r.side = "Buy" =>
            FoldLeft(LAMBDA sum, t : sum + t.price * t.qty, 0, trades) <= MaxNotional

\* The decimal of tag 44 in ticks, cut towards zero, by its value as a fraction.
TicksOf(decimal) ==
    LET size == (NumberOf(<<decimal.whole>> \o decimal.frac) * Scale) \div 10^Len(decimal.frac)
    IN IF decimal.minus THEN -size ELSE size

\* The price an order carries is the decimal it was quoted at, in ticks, when the
\* decimal is one and an i64 can hold it.
TicksAreTheDecimal ==
    \A c \in Adds :
        c.add[1].type = "Limit" /\ Dash \notin Range(c.quoted.frac) /\ TicksOf(c.quoted) \in I64 =>
            c.add[1].price = TicksOf(c.quoted)
==============================================================================
