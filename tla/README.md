# A verification development of mp-orderbook

mp-orderbook is a matching engine for limit order books. A feed handler parses
Nasdaq ITCH messages, a sequencer applies them to one book per symbol behind a
pre-trade risk check, answers the participant with execution reports, and
publishes market data events over MoldUDP64, from which a subscriber rebuilds
the books; one that joins late loads a snapshot over TCP first. The same books
and sequencers run behind lock-free rings in threaded pipelines, and behind a
Rust sidecar that takes FIX orders. The modules here model those paths. TLC checks them on small
instances, and TLAPS proves for every value of their parameters that both books,
v2's index, the sequencer, the ring, the two pipelines, the MoldUDP64 session
and the snapshot recovery are safe, that both books match by price-time
priority, and that the ring is a queue.

Paths are relative to the repository root (`src/` in `PROJECT.json`).

## Inventory

| Component | State | Operations | What makes it correct |
|---|---|---|---|
| **Order book v2** `cpp/src/order_book_v2.cpp` | level array on a shared price axis, FIFO lists threaded through an arena, free list, index, cached best levels | `add` (Limit, Market, IOC, FOK, PostOnly, Cancel), `cancel`, `reduce` | price-time priority, structure stays sound through rebases and recycling, exceptions lose nothing |
| **Order book v1** `cpp/src/order_book.cpp` | `std::map` of queues per side, index | `add`, `cancel` | the same promise: it is the fuzzers' oracle for v2 |
| **FlatHashMap** `cpp/include/flat_hash_map.h` | slot array, live count | `[]`, `find`, `erase`, `reserve`, `for_each_mut` | behaves as a map; probes end |
| **Sequencer** `cpp/feed/sequencer.cpp` | route of every order | one handler per ITCH message | messages reach the right book; published events tell what happened |
| **Risk engine** `cpp/feed/risk.cpp` | last trade per symbol, resting count per participant | `check`, `on_trade`, `note_resting`, `note_removed` | no participant trades with itself, counts do not drift |
| **Market data and subscriber** `cpp/feed/market_data.h`, `snapshot.h` | the subscriber's orders | `Builder::apply`, `load`, `rows` | the subscriber's book is the engine's |
| **MoldUDP64 session** `cpp/feed/moldudp64_session.h` | next expected number, held messages, ended | `on_packet` | each message once and in order over a network that loses, repeats and reorders |
| **Snapshot recovery** `cpp/feed/snapshot.h`, `cpp/feed/tests/test_snapshot_recovery.cpp` | the service's orders and the last event in them, the snapshot sent | serve, load, start a session after it | the late subscriber has the book of one that was there from the start |
| **SPSC ring** `cpp/include/spsc_ring.h` | head, tail, slots | `push`, `pop`, `empty` | no race, nothing lost: a bounded queue |
| **Threaded pipeline** `cpp/tests/test_threaded.cpp` | two rings, two done flags | produce, match, consume | the trades of the sequential run, and all threads end |
| **Sharded pipeline** `cpp/feed/tests/test_concurrent_sharded_pipeline.cpp` | routing table, ring and sequencer per shard, failure flags | route, work | every shard does what the sequential pass does to its symbols |
| **Parsers, sockets** `cpp/feed/itch_*`, `udp_multicast.h`, `tcp_socket.h` | none | decode, system calls | fixed layouts |
| **Rust sidecar and FFI** `rust/src`, `cpp/src/order_book_v2_ffi.cpp` | a book per symbol behind `cxx` | parse a FIX message, check it, call the book | prices are the decimals quoted; what reaches a book keeps the limits |
| **Tools** `cpp/tools`, `cpp/fuzz`, `cpp/bench`, `tools` | none of their own | drivers | - |

How they interact: the sequencer calls the risk engine and the book of the
order's symbol synchronously on one thread; a book has a single writer.
Everything concurrent lies at the edges: threads joined by SPSC rings, and
datagrams between the publisher, the re-request server and the subscribers.

What is hard in this code, and what the properties are for, is listed under
"hazards" in `PROJECT.json`: the rebase of the price axis in the middle of a
call; bests and totals that are cached and repaired locally; recycled nodes;
`add()` throwing after it traded; the three-part Order Replace; counters kept
beside the truth they count; loss and reordering without a retry timer; a
snapshot cut at any event of a feed that goes on; the end of a threaded run, and
a thread that fails in it; 64-bit arithmetic in front of a limit.

## Modules and the code they model

* **`OrderTypes`** - sides, order types, requests, trades and the way a call ends,
  shared by both books. `Reaches`, `Takes` and `Rests` are the conditions of
  `match()` and of the tail of `add()`.
* **`PriceWindow`** - the arithmetic of `ensure_index_for_price()`: where the
  first price anchors the axis, how far a rebase shifts, and when a price does
  not fit (`kMaxLevels`).
* **`PriceTimePriority`** - what a request makes of a book, without levels, lists or
  nodes: orders with a "before" relation, whom it reaches, in which order they
  trade and how much, what rests afterwards.
* **`BookPromise`** - what a book promises, as one atomic step of that per call:
  take, kill, rest or refuse.
* **`OrderBookV2`** - the book itself. `add()` is `Submit`, then `Reject` or
  `Accept`, one `FillMaker` or `FillTaker` per iteration of `match()`, then
  `Finish`, or `EnsureIndex`/`ThrowWindow` followed by `PushBack`/`ThrowArena`.
  `cancel()` and `reduce()` are one step (`Cancel`, `ReducePart`, `ReduceAll`,
  `NotFound`). Freed nodes keep their stale contents, as in the code.
* **`OrderBookV2Refinement`** - the mapping to `BookPromise`. Two history variables,
  `view` and `asked`, show the promise the book as the last call to end left it
  and the request as it was submitted, so that a whole call is one step of the
  promise. `QueueOrder` reads "rests ahead of" off the links: `FromOn(n)` is what
  they lead to from node n.
* **`OrderBookV1`** - the reference book, call by call and fill by fill as v2, with
  `view` and `asked` in the module and its own mapping to `BookPromise`. It never
  refuses: the promise's capacity is the number of ids. Since v1 and v2 both
  implement the promise, what the differential fuzzers sample, that the books
  agree, follows for every sequence of `add` and `cancel` that v2 does not refuse.
* **`BookCalls`** - a v2 book as its callers see it, the sequencer and the FFI
  adapter: what `add`, `cancel` and `reduce` make of a `PriceTimePriority` book plus its
  price window, and when `add` throws.
* **`MarketData`** - the events of the feed and `snapshot::Builder`: `apply`, `rows`
  and `load`.
* **`Sequencer`** - `on_message()` with the risk engine, all books (`BookCalls`)
  and the subscriber. Every outcome of a handler
  is an action: accepted, refused by risk, refused by the book.
* **`MoldSession`** - publisher, subscriber session, re-request server and network.
  Datagrams are sets of packets: any may arrive, arrive again, or be lost.
  `Join` is the session's constructor, at number 1 or after a snapshot.
* **`SnapshotRecovery`** - composes `MoldSession` and `MarketData`: the snapshot
  service follows the feed and serves its book once, the subscriber loads it,
  joins one past it and applies what the session delivers.
* **`SpscRing`** - both ends of the ring, one step per atomic or slot access, with
  the producer's and the consumer's loop of the threaded test.
* **`BoundedQueue`** - what the ring promises its two ends: `push` and `pop` of a
  bounded queue, one step each. `SpscRing` implements it (`ImplementsQueue`), and
  `ShardedPipeline` uses it in the ring's place.
* **`ThreadedPipeline`** - composes two `SpscRing`s, the second as an instance:
  producer, matcher and main thread. The matcher is the consumer of one and the
  producer of the other, and pops again only once it has handed on every trade.
* **`ShardedPipeline`** - router, one ring and worker per shard, exceptions in any
  thread. A sequencer is its routes and, per symbol, the messages that reached
  the symbol's book: equality of those with the sequential pass is equality of
  the books, since a book and its risk state depend on nothing else.
* **`Sidecar`** - FIX parsing with its price conversion (`fix.rs`), the pre-trade
  check (`risk.rs`), `MatchingEngine` (`lib.rs`) and the FFI adapter, on
  `BookCalls`. The gateway that calls the three is not in the crate and is
  modelled from what `lib.rs:10-17` and `risk.rs:1-20, 65-87` say of it: checks
  run on the ingestion side, commands wait in a ring, the book may move meanwhile.
  An order is checked against a best price of its book, against none while the
  book is empty, or against the last trade (`lastTrade`); which of these a gateway
  takes is left open. A panic, also that of cutting a fraction inside a character
  (`CutPanics`), or an exception of `add()` ends the process with all its books.
* **`FlatHashMap`** - the index of v2, `erase()` slot by slot, beside an ideal map.

`*Proofs` modules hold the theorems (below), and `MC*` modules instantiate the
others for TLC. Operators whose comment begins "As X,"
are faulty variants of X: `PROJECT.json` names the property each of them breaks.

### What is abstracted

Except in `Sidecar`, prices and quantities are integers without width (no
overflow). There an `i64` has `Width` bits: products saturate where the code says
so, and other overflows either panic or wrap, as a debug and a release build do.
The books' statistics and report texts are left out; ids are fresh, as both callers (the
exchange's reference numbers, the tests) guarantee; byte encodings are left out,
a datagram that does not decode counting as lost. The memory order of the ring
is release/acquire in the code, so sequentially consistent interleaving is
enough as long as no slot is touched by both threads at once, which `NoRace`
checks.

## Runs

Runs that must pass:

| Run | Checks | Bounds and why |
|---|---|---|
| `v2_book` | all invariants of `OrderBookV2` and `KeepsPrice` | 3 ids, 2 nodes, quantities 0-2, prices 1, 2, 4 with an initial window of 2 and at most 4 levels: the axis rebases to the left, grows to the right and refuses; the arena runs out and recycles |
| `v2_refines_promise` | `ImplementsPromise` | 3 ids, 2 prices, quantities 1-2: all order types sweep two levels, partly fill and are killed |
| `v1_refines_promise` | `IndexMatchesQueues`, `ImplementsPromise` | 3 ids, 3 prices, quantities 0-2 |
| `sequencer` | `OneSidedParticipants`, `ShadowFollows`, `RoutesCoverBooks`, `CountsMatchRoutes` | 3 order numbers, 2 symbols, one attributed participant and anonymous orders, arena of 2. Of the prices 9 and 12, 12 is outside the risk band of 9 but not the reverse, and a window anchored at 12 cannot be extended to 9: orders are refused by risk, by the arena, by the window, and by the window after they traded |
| `snapshot_recovery` | `RecoversBook`, `DeliveredInOrder`, `HeldBehindGap`, `RequestsCanBeAnswered`, `AllDelivered` | 4 events in packets of 1, 2 and 1, requests of at most 2: overlaps, gaps of several packets, requests cut short. The snapshot is cut after any event, so sessions start at the beginning, at a later packet, inside one and after the last; the events add, trade, replace and delete, with an Add published before the Trades of the same order |
| `threaded_pipeline` | `NoRace`, `HoldsTheRest`, `NothingLeftBehind`, `TradesAsSequential`, `RingsAreQueues`, `AllThreadsEnd` | rings of 8 and 4 slots, 16 operations that make none, one or several trades: both rings wrap, fill and empty, and the matcher waits for room in one while the producer waits for room in the other |
| `sharded_pipeline` | `ShardsMatchSequential`, `EndedIsDrained`, `EndsOrHangsBehindFailure` | 2 symbols on 2 shards, rings of one message, 4 messages: enough to add, replace and then cancel or delete an order under its new number, with refusals, and for the router to wait for a ring |
| `sidecar` | `WithinLimits`, `BuysPayWithinLimit`, `TicksAreTheDecimal` | 9-bit integers, ticks of 1/100, the texts 1.057, 2.5, -0.5, 3 and 1.-5, quantities 1 and 2, two commands under way: products and prices beyond the integers, a cut fraction, a negative price with whole part 0, a sign inside the fraction; a price the window refuses; an allowed and another symbol |
| `flat_hash_map` | `ProbesEnd`, `FindsWhatWasPut`, `NoSecondCopy` | 5 keys, three homes at the end of the table; capacity 4 to 16, so the load limit, growth and wrapping clusters are met |

Ids are symmetric where the run has no liveness property. Two passing runs do
not check deadlock: in `snapshot_recovery` nothing is left to happen once the
session is closed and the network empty, and in `sidecar` once the process has
died.

Queues of three orders at one price, where a removal has two neighbours, are
beyond the arena of `v2_refines_promise`; `RefinesPromise` proves what it checks
for every arena.

Runs that must find a violation: what the code's own documents say, and what
the code does instead.

| Run | Property | What TLC finds |
|---|---|---|
| `shadow_divergence` | `ShadowMatchesBooks` | an Order Replace that is rejected has cancelled the original, and no event says so; the subscriber keeps the order |
| `rejected_add` | `RejectedAddChangesNothing` | an order trades, its remainder is refused for its price, and the message is reported as rejected without events |
| `session_end` | `EndedThenComplete` | after end-of-session, a lost request, a lost answer or a gap of two packets is never asked for again |

`ShadowFollows` is the other half of the first two: as long as no refused message
has changed a book, the subscriber's book equals the engine's, order by order.

Smaller observations without a run of their own: `CountsMatchRoutes` says that
the risk counters follow the routes, and a route outlives its order, so an
attributed order that traded completely, on arrival or later as a maker, stays
counted as resting until its delete (and may have its participant refused),
although `risk.h:68-69` says the counters change "when an MPID-attributed order
actually rests or leaves the book"; and `spsc_ring.h:12-14` says the capacity is
"checked with an assert", which the constructor does not contain.

### Fairness

`MoldSession!Fairness`, used by `FairSpec` and `RecoverySpec`: the publisher's
thread keeps running (weak fairness of publishing and of heartbeats; nothing
says that or when the session ends), and the network and the server are fair in
the weakest useful sense: data packets, control packets and requests that are
under way again and again do not all get lost (strong fairness of receiving some
data packet, some control packet, and of answering some request). No single
datagram is promised to arrive, and nobody has to ask for a snapshot.
`PipelineSpec` and `ShardedPipeline!Spec`: the operating system runs every
thread (weak fairness of each thread's steps). Nothing more is assumed of the
rings, and exceptions are never fair. The books, the sequencer and the sidecar
are sequential and only their safety is stated.

## Proofs

Eight modules hold theorems: one per component, in a `*Proofs` module that
extends the component's, and `PriceTimePriorityProofs`, which the two books share.
`OrderBookV2Proofs` also holds the proofs about v2's index. Each component
has one inductive invariant, `IInv` (`RInv` for the snapshot recovery, `MapIInv` for the
index), that implies the properties of its run; the
proof has a lemma per action, and the theorems only
draw the conclusions. The assumptions are the named ASSUMEs of the modules and
nothing else: prices are integers, quantities naturals, the ids of `OrderBookV1` finitely many
(they have 64 bits; v2 needs no such assumption, its arena being finite), capacities of rings
powers of two, an arena has a natural capacity, the first window is positive and
not past the level limit, packets start at numbers of the feed and one starts at
1, every number of a feed has an event as `decode()` yields it (unsigned
quantities) and a snapshot may be cut after any of them. TLC evaluates them on
every run.

| Module | Theorem | States |
|---|---|---|
| `OrderBookV2Proofs` | `TypeCorrect` | `[]TypeOK` |
| | `ListsStaySound` | `[]ListsSound` |
| | `NodesAreConserved` | `[]NodesConserved` |
| | `NeverCrossed` | `[]NotCrossed` |
| | `BestIsExact` | `[]BestExact` |
| | `TotalsAreExact` | `[]TotalsExact` |
| | `ArenaThrowsClean` | `[]ArenaThrowIsClean` |
| | `PricesAreKept` | `KeepsPrice` |
| | `PrecheckIsExact` | the checks on arrival reject what price-time priority kills, and an FOK of quantity 0 |
| | `RefinesPromise` | `HSpec => ImplementsPromise`: the v2 book is a `BookPromise` |
| | `MapTypeCorrect` | `[]MapTypeOK` |
| | `NoCopies` | `[]NoSecondCopy` |
| | `ProbesAlwaysEnd` | `[]ProbesEnd` |
| | `FindIsExact` | `[]FindsWhatWasPut` |
| `OrderBookV1Proofs` | `IndexAndQueuesAgree` | `[]IndexMatchesQueues` |
| | `RefinesPromise` | `Spec => ImplementsPromise`: the reference book is a `BookPromise` |
| `PriceTimePriorityProofs` | `WholeFill`, `PartFill` | one fill, then the rest of the request, is the whole request |
| `SequencerProofs` | `TypeCorrect` | `[]TypeOK` |
| | `OrdersAreRouted` | `[]RoutesCoverBooks` |
| | `CountersAreExact` | `[]CountsMatchRoutes` |
| | `NoSelfTrade` | `[]OneSidedParticipants` |
| | `SubscriberFollows` | `[]ShadowFollows` |
| `SpscRingProofs` | `TypeCorrect` | `[]TypeOK` |
| | `NoRaceSafe` | `[]NoRace` |
| | `ContentsExact` | `[]HoldsTheRest` |
| | `NothingLost` | `[]NothingLeftBehind` |
| | `RingImplementsQueue` | `ImplementsQueue`: the ring is a `BoundedQueue` |
| `ThreadedPipelineProofs` | `InRingSound` | the ring's four properties under `PipelineSpec` |
| | `SequentialTrades` | `[]TradesAsSequential` |
| | `BothRingsAreQueues` | `RingsAreQueues` |
| `SnapshotRecoveryProofs` | `TypeCorrect` | `[]TypeOK` |
| | `InOrderDelivery` | `[]DeliveredInOrder` |
| | `PendingBehindGap` | `[]HeldBehindGap` |
| | `ServerCanAnswer` | `[]RequestsCanBeAnswered` |
| | `RecoveryDelivers` | the session's four properties under `RecoverySpec` |
| | `LateBookIsTheBook` | `[]RecoversBook` |
| `ShardedPipelineProofs` | `TypeCorrect` | `[]TypeOK` |
| | `EndedDrained` | `[]EndedIsDrained` |
| | `ShardsAreSequential` | `[]ShardsMatchSequential` |

### Order book v2

For any set of ids, any finite or infinite set of integer prices, any
quantities, any arena and any window. Beside the properties above `IInv` needs:

* `BestBoundsSides` and `BestOccupied`: no resting order is ahead of its side's
  best, and a best level that is set is occupied. Together with `NotCrossed` they
  say that every order at a level at or behind the bids' best is a bid: the axis
  is shared and a level does not store its side, so this is what makes
  `match()` and the rescans touch only the right side. `BestExact` follows, but
  is not inductive by itself.
* `TakerReady`: once matching is over, the order about to rest crosses nothing,
  and after `EnsureIndex` its price is on the axis. Without it `PushBack` could
  cross the book.
* `FillFreesNode`: a call that has traded and still has something to rest has a
  node on the free list. This is why an arena exception never loses trades.

The lists are the work: soundness is stated by neighbours (`EndsMatch`,
`LinksMatch`) plus `NoCycle`, "every nonempty set of live nodes has a member
whose predecessor is outside it", which needs no induction over a list. Lemmas
about the least and greatest element of a set of levels carry the best-level
rescans. `TotalsExact` is proved on top: a level's orders are a finite set
(nodes are numbered), and one order more, one less or one of another quantity
changes a sum accordingly (`SumMore`, `SumLess`, `SumChange`).

### Price-time priority, fill by fill

`RefinesPromise` relates a loop over levels, links and nodes to one step that says,
with sums and a choice of an order, who trades how much. There are three parts.

* About price-time priority alone (`PriceTimePriorityProofs`): in a book whose
  queues are strict orders (`Booked`), let a request take the first maker, whole
  or in part. Then what is left of the request has, in the book that is left, the
  rest of the original's outcome (`SameOutcome`: trades, quantity left over, orders,
  queues, killed or not). `WholeFill` and `PartFill` prove it for any book; the work is
  in `QtyAhead`, a sum that every later maker sees reduced by the fill.
* About the book: `NowBooked`, that the lists at a price are a strict order under
  `FromOn`; `HeadIsFirst`, that the head of the best level is the first maker; and
  what `PushBack`, a removal and a reduction make of `FromOn`. `FromOn` needs no
  induction, being the intersection of all sets that links do not leave: the
  successor of n leads exactly where n does, but for n.
* The history (`SeenInv`). Its clause `OnTrack` says of a call under way: the
  trades so far, followed by the trades of what is left of the request in the book as it is,
  are the trades of the whole request in the book the caller last saw,
  and the same for orders and queues. A fill keeps it by the first two parts; when matching
  is over nothing is left to trade (`MatchOver`), so it says that the call's
  effect is the promised one. TLC checked `SeenInv` as an invariant of
  `v2_refines_promise` before it was proved.

`PrecheckIsExact` carries the decision that is taken before the loop:
`can_fully_fill()` adds cached level totals from the best level on, and by
`TotalsExact` and `ReachedByLevel` that is the sum over the orders the request reaches.
The one difference, an FOK of quantity 0 that finds nobody, is rejected by the
code and not killed by the promise; it trades nothing either way.

### Order book v1

For any finite set of ids, any integer prices and any quantities. `IInv` says of
the queue at each side and price, empty where there is no level: what stands in
it is indexed there (`Indexed`), nothing stands twice in it (`Once`), and what is indexed
stands where the index says (`Listed`). A step changes one queue in one of
three ways, and what each does to the orders and their places is proved once:
an order joins at the end (`Joins`), one leaves from anywhere (`Leaves`: `pop_front()`
of a maker and `remove_if()` of a cancelled order alike), or the first one loses
quantity (`Shrinks`).

`RefinesPromise` is the argument of v2 on another data structure, with the same
three parts: `WholeFill` and `PartFill` are shared; `NowBooked`, `HeadIsFirst`,
`LeavesBook`, `SmallerBookOrder` and `JoinsBook` read the queues instead of the
links; and `SeenInv` carries the call under way. `CanFullyFill` of v1 adds up orders, not
level totals, so its exactness (`PrecheckIsExact`) is a bijection between places in
the queues and orders reached. `Working` supplies that a PostOnly order that was
accepted has nobody to match. TLC checked `IInv` and `SeenInv` as invariants of
`v1_refines_promise` before they were proved.

### Sequencer

For any symbols, participants, numbers, prices, risk limits, arena and window.
`IInv` keeps the counters and the books apart and ties both to the routes:

* `Believed`: a counter is the number of routes of its participant, symbol and
  side. This is what `note_resting` and `note_removed` maintain; finitely many
  routes make it a number.
* `Covered`: whatever rests has a route to its book with its side. A route may
  outlive its order (a maker that was filled, an order that traded completely), so
  a counter is never too small, only possibly too large.
* `OneSided` follows from the two at the moment `check()` looks: a participant
  whose counter of the other side is 0 has nothing resting there.
* `Sound`: each book queues its orders, that is, "ranks ahead of" is a strict
  order, total on what a request reaches. Without it `Trades`, which lists the
  makers in that order, would be a CHOOSE from nothing. `Listing` shows that a
  finite set can be listed in any strict total order.
* `Mirrors`, as long as nothing was dropped silently: the subscriber holds the
  engine's orders with their quantities. The step is about the order of events:
  a remainder is added before the trades of the same message take shares from
  other orders, and `TradesShown` evaluates a run of trades one by one.

### Ring and threaded pipeline

Counting modulo the capacity is taken out of the induction: `Ahead(j)` is the
distance from `head_` to slot j without `%`, and `WithoutMod` ties the two. The
clauses that make it inductive are what each thread still knows when it acts on
an old look (`ProducerSaw`, `ConsumerSaw`): the producer saw room and only the
consumer can change that, for the better. The refinement to `BoundedQueue` maps
a push to the store of `tail_`, a pop to the store of `head_`, and every other
access to a stutter.

In the pipeline the second ring is an instance of the whole proof module, with the
matcher as its producer. `TradesHandedOn` adds that the matcher pops again
only when it has pushed every trade of what it took, so that the number of trades
pushed is the one of the sequential run.

### MoldUDP64 session and snapshot recovery

`SnapshotRecoveryProofs` holds both. The session first: for any feed, any cut
into packets and any numbers to join at.
`DeliveredInOrder` and `HeldBehindGap` together are nearly inductive: what is
pending lies behind `nextExpected`, so `deliver_ready_` takes the run up to the
first number missing. `Aligned` is needed for `RequestsCanBeAnswered`: a
subscriber that joined at a packet's start always expects one, because what it
holds comes as whole packets.

Then `RInv` sets the service, its snapshot and the subscriber against `Replay(n)`, the
book of somebody who applied the first n messages:

* `ServiceFollows`, `SnapshotIsTrue`: the service's orders are the replay at its
  sequence number, and the snapshot's rows are those of a replay, of which the
  feed may have published more by now.
* `BookFollows`: the subscriber's book has the same orders as the replay up to the
  next expected message, but for those with nothing left: a snapshot does not
  carry them, a replay keeps them until they are deleted, taken from or replaced.

The session joins one past the snapshot, `InOrderDelivery` says which events
`on_message` applies, and `ApplySame` that an event does the same to two books
that differ only in orders with nothing left (a Take of an order that is not
there is ignored, one of an order with nothing left removes it).

### Sharded pipeline

`EndedIsDrained` follows from the order of flag and ring (`DoneIsLast`).
`ShardsMatchSequential` compares a shard with the sequential pass after its ring
and the message in the router's hands are worked off (`Drained`), so that only the router's
step changes the right-hand side. `TablesAgree` is the clause that carries it: the
router's table sends every message about an order the sequential pass knows where that pass would,
though it also knows orders the sequencers refused.

### FlatHashMap

For any hash function, keys and capacities. `Chained` says that an entry is
reachable from its home; during `erase()` only the slots beyond the one the
loop has looked at may be separated from their home by the gap. `MustStay`
decides exactly whether an entry may jump over the gap, wrap or not
(`Ahead` is the circular distance). `LightlyLoaded` gives the free slot that
ends every probe.

### How inductions are done

`PriceTimePriorityProofs` has the least element of a set of numbers (`LeastNat`), from the
library's well-founded order on finite sets; every induction in the project is
a least counterexample taken with it. It also has the existence, uniqueness and
change of `SumFunctionOnSet`. Three operators that could be folds are recursive
functions instead (`WorkedOff`, `TradesUpTo`, `Applied`), as is `Doubled` (the
capacities a table grows through): their existence and uniqueness are
proved the same way, and so is what they compute.

### Only model-checked

* Liveness under fairness (`AllDelivered`, `AllThreadsEnd`,
  `EndsOrHangsBehindFailure`) and the three violations: out of the prover's
  reach, or refuted.
* The three properties of `Sidecar` (powers, and nonlinear arithmetic of bounded
  integers).

## Not modelled

* The ITCH parsers (scalar and SIMD) and the file reader: stateless decoding of
  fixed byte layouts. A message that does not parse, and a reader that throws,
  are steps of `ShardedPipeline`.
* UDP and TCP wrappers: system calls. What the network may do is in `MoldSession`;
  a snapshot exchange that fails ends the subscriber before it has joined.
* The LOBSTER replay tools, fuzzers and benchmarks: drivers of the books. What the
  differential fuzzers sample, v1 against v2, is both books implementing
  `BookPromise`, proved of each.
* The capture and build scripts.
* Within `Sidecar`, prices near both ends of the 64-bit range: a release build's
  `price - reference` may wrap to a small number, so the collar is stated for
  differences an `i64` holds; and a decimal that does not fit in ticks wraps to
  another price, so `TicksAreTheDecimal` is stated for those that fit. Market
  orders are checked at the reference price and may pay more than the limit:
  `BuysPayWithinLimit` is about limit orders.

## Plan

1. Done: `OrderTypes`, `PriceWindow`, `BookPromise`, `OrderBookV2` with refinement
   and proofs; `OrderBookV1`; `BookCalls`, `MarketData`, `Sequencer`;
   `MoldSession`, `SnapshotRecovery`; `SpscRing`, `BoundedQueue`,
   `ThreadedPipeline`, `ShardedPipeline`; `FlatHashMap`; `Sidecar`.
2. Done: the proofs above, all from inductive invariants that TLC checked first.
3. Left: the parts of `Sidecar` that need no nonlinear arithmetic.
