--------------------------- MODULE ShardedPipeline ---------------------------
(***************************************************************************)
(* The symbol-sharded pipeline                                             *)
(* (cpp/feed/tests/test_concurrent_sharded_pipeline.cpp): a router thread  *)
(* reads the feed, finds the symbol of every message in a routing table of *)
(* its own, and pushes the message into the ring of the symbol's shard;    *)
(* one worker per shard pops it and hands it to that shard's Sequencer,    *)
(* RiskEngine and books.  Rings are bounded queues (BoundedQueue, which    *)
(* SpscRing implements).                                                   *)
(*                                                                         *)
(* A sequencer is its routes (order_symbol_) and, per symbol, the messages *)
(* that reached the symbol's book and risk state, in order: what these do  *)
(* depends on nothing else.  Whether an Add or a Replace is refused is     *)
(* such an outcome; the message carries it.  reference is the sequencer of *)
(* the sequential pass over the messages read so far.                      *)
(***************************************************************************)
EXTENDS Integers, Sequences, Functions

CONSTANTS
    Symbol,
    ShardCount,     \* kShards
    ShardFor,       \* shard_for: the shard of each symbol
    RingBound,      \* items a ring holds: kRingCapacity - 1
    MaxMessages     \* max_messages

Shard == 0 .. (ShardCount - 1)

ASSUME ShardedAssumption ==
    /\ ShardCount \in Nat \ {0}
    /\ ShardFor \in [Symbol -> Shard]
    /\ RingBound \in Nat \ {0}
    /\ MaxMessages \in Nat

VARIABLES
    count,          \* messages the router has read
    issued,         \* order reference numbers the feed has used, 1 .. issued
    routes,         \* the router's table: reference number -> symbol
    holding,        \* the message the router is pushing, and its shard
    routerDone,     \* router_done
    routerFailed,   \* router_failed
    ring,           \* rings
    worker,         \* where each worker is
    sequencer,      \* shard_seq, shard_risk and shard_books
    reference       \* history: the sequential pass

vars == <<count, issued, routes, holding, routerDone, routerFailed, ring, worker, sequencer, reference>>

NoRoutes == [id \in {} |-> {}]
NewSequencer == [routes |-> NoRoutes, log |-> [s \in Symbol |-> <<>>]]
NothingHeld == [shard |-> -1]

Init ==
    /\ count = 0
    /\ issued = 0
    /\ routes = NoRoutes
    /\ holding = NothingHeld
    /\ routerDone = FALSE
    /\ routerFailed = FALSE
    /\ ring = [k \in Shard |-> <<>>]
    /\ worker = [k \in Shard |-> "poll"]
    /\ sequencer = [k \in Shard |-> NewSequencer]
    /\ reference = NewSequencer
------------------------------------------------------------------------------
(* Messages *)

Without(table, id) == Restrict(table, DOMAIN table \ {id})
With(table, id, symbol) == [o \in DOMAIN table \cup {id} |-> IF o = id THEN symbol ELSE table[o]]

\* Order Cancel and the two Order Executed are one kind; Other stands for the
\* types that concern no book.  An Add or Replace brings the next unused number;
\* the rest name an earlier one, which may be refused, replaced or deleted.
Messages ==
    LET fresh == issued + 1
        known == 1 .. issued
    IN [kind: {"Add"}, id: {fresh}, symbol: Symbol, refused: BOOLEAN]
        \cup [kind: {"Replace"}, id: known, new: {fresh}, refused: BOOLEAN]
        \cup [kind: {"Reduce", "Delete"}, id: known]
        \cup [kind: {"Other"}, id: {0}]

IsFresh(m) == m.kind \in {"Add", "Replace"}
------------------------------------------------------------------------------
(* Sequencer::on_message(), as far as sharding goes *)

Logged(s, symbol, m) == [s EXCEPT !.log[symbol] = Append(@, m)]

OnMessage(s, m) ==
    IF m.kind = "Add" THEN
        LET logged == Logged(s, m.symbol, m)
        IN IF m.refused THEN logged ELSE [logged EXCEPT !.routes = With(@, m.id, m.symbol)]
    ELSE IF m.id \notin DOMAIN s.routes THEN s
    ELSE
        LET symbol == s.routes[m.id]
            logged == Logged(s, symbol, m)
        IN CASE m.kind = "Reduce" -> logged
             [] m.kind = "Delete" -> [logged EXCEPT !.routes = Without(@, m.id)]
             [] m.kind = "Replace" /\ m.refused -> [logged EXCEPT !.routes = Without(@, m.id)]
             [] m.kind = "Replace" /\ ~m.refused -> [logged EXCEPT !.routes = With(Without(@, m.id), m.new, symbol)]
------------------------------------------------------------------------------
(* The router *)

\* route_symbol_for(): the symbol, if any, and the table after it.
RouteOf(m) ==
    IF m.kind = "Add" THEN {m.symbol}
    ELSE IF m.id \in DOMAIN routes THEN {routes[m.id]}
    ELSE {}

\* As RoutesAfter, with the replacement's number forgotten.
RoutesAfterWithoutReplace(m) ==
    IF m.kind = "Add" THEN With(routes, m.id, m.symbol)
    ELSE IF m.kind \in {"Delete", "Replace"} THEN Without(routes, m.id)
    ELSE routes

RoutesAfter(m) ==
    IF m.kind = "Add" THEN With(routes, m.id, m.symbol)
    ELSE IF m.id \notin DOMAIN routes THEN routes
    ELSE IF m.kind = "Delete" THEN Without(routes, m.id)
    ELSE IF m.kind = "Replace" THEN With(Without(routes, m.id), m.new, routes[m.id])
    ELSE routes

\* A message without a symbol goes to shard 0.
TargetOf(m) == IF RouteOf(m) = {} THEN 0 ELSE ShardFor[CHOOSE s \in RouteOf(m) : TRUE]

Route(m) ==
    /\ ~routerDone /\ ~routerFailed
    /\ holding = NothingHeld
    /\ count < MaxMessages
    /\ count' = count + 1
    /\ issued' = IF IsFresh(m) THEN issued + 1 ELSE issued
    /\ routes' = RoutesAfter(m)
    /\ holding' = [shard |-> TargetOf(m), message |-> m]
    /\ reference' = OnMessage(reference, m)
    /\ UNCHANGED <<routerDone, routerFailed, ring, worker, sequencer>>

\* A message parse_message() does not understand is counted and passed over.
Skip ==
    /\ ~routerDone /\ ~routerFailed
    /\ holding = NothingHeld
    /\ count < MaxMessages
    /\ count' = count + 1
    /\ UNCHANGED <<issued, routes, holding, routerDone, routerFailed, ring, worker, sequencer, reference>>

\* As IsFull, taking the slot the ring keeps free for one more message.
IsFullOneLate(k) == Len(ring[k]) > RingBound

IsFull(k) == Len(ring[k]) = RingBound

\* push() of a full ring returns false; the router yields and tries again.
PushRetry ==
    /\ holding # NothingHeld
    /\ IsFull(holding.shard)
    /\ UNCHANGED vars

Push ==
    /\ holding # NothingHeld
    /\ ~IsFull(holding.shard)
    /\ ring' = [ring EXCEPT ![holding.shard] = Append(@, holding.message)]
    /\ holding' = NothingHeld
    /\ UNCHANGED <<count, issued, routes, routerDone, routerFailed, worker, sequencer, reference>>

\* Reading the file throws: the router stops early.
RouterThrows ==
    /\ ~routerDone /\ ~routerFailed
    /\ holding = NothingHeld
    /\ routerFailed' = TRUE
    /\ UNCHANGED <<count, issued, routes, holding, routerDone, ring, worker, sequencer, reference>>

\* As RaiseDone, skipped by an exception.
RaiseDoneUnlessFailed ==
    /\ ~routerDone /\ ~routerFailed
    /\ holding = NothingHeld
    /\ routerDone' = TRUE
    /\ UNCHANGED <<count, issued, routes, holding, routerFailed, ring, worker, sequencer, reference>>

\* At the end of the file, at the cap, or after an exception.
RaiseDone ==
    /\ ~routerDone
    /\ holding = NothingHeld
    /\ routerDone' = TRUE
    /\ UNCHANGED <<count, issued, routes, holding, routerFailed, ring, worker, sequencer, reference>>

Router == (\E m \in Messages : Route(m)) \/ Skip \/ PushRetry \/ Push \/ RouterThrows \/ RaiseDone
------------------------------------------------------------------------------
(* The workers *)

router == <<count, issued, routes, holding, routerDone, routerFailed, reference>>

\* pop() and on_message(): the first pop of a round, or the second, after the
\* worker has seen router_done.
Work(k) ==
    /\ worker[k] \in {"poll", "drain"}
    /\ ring[k] # <<>>
    /\ ring' = [ring EXCEPT ![k] = Tail(@)]
    /\ sequencer' = [sequencer EXCEPT ![k] = OnMessage(@, Head(ring[k]))]
    /\ worker' = [worker EXCEPT ![k] = "poll"]
    /\ UNCHANGED router

\* on_message() throws something it does not catch itself: the worker stops.
WorkThrows(k) ==
    /\ worker[k] \in {"poll", "drain"}
    /\ ring[k] # <<>>
    /\ ring' = [ring EXCEPT ![k] = Tail(@)]
    /\ worker' = [worker EXCEPT ![k] = "failed"]
    /\ UNCHANGED <<router, sequencer>>

FindEmpty(k) ==
    /\ worker[k] = "poll"
    /\ ring[k] = <<>>
    /\ worker' = [worker EXCEPT ![k] = "look"]
    /\ UNCHANGED <<router, ring, sequencer>>

\* As LookAtDone, taking the first failed pop() for the end.
LookAtDoneAndEnd(k) ==
    /\ worker[k] = "look"
    /\ worker' = [worker EXCEPT ![k] = IF routerDone THEN "ended" ELSE "poll"]
    /\ UNCHANGED <<router, ring, sequencer>>

LookAtDone(k) ==
    /\ worker[k] = "look"
    /\ worker' = [worker EXCEPT ![k] = IF routerDone THEN "drain" ELSE "poll"]
    /\ UNCHANGED <<router, ring, sequencer>>

End(k) ==
    /\ worker[k] = "drain"
    /\ ring[k] = <<>>
    /\ worker' = [worker EXCEPT ![k] = "ended"]
    /\ UNCHANGED <<router, ring, sequencer>>

Worker(k) == Work(k) \/ WorkThrows(k) \/ FindEmpty(k) \/ LookAtDone(k) \/ End(k)

\* Every thread returned and is joined.
AllJoined == routerDone /\ \A k \in Shard : worker[k] \in {"ended", "failed"}
Joined == AllJoined /\ UNCHANGED vars

Next == Router \/ (\E k \in Shard : Worker(k)) \/ Joined

\* The scheduler runs every thread.
Spec == Init /\ [][Next]_vars /\ WF_vars(Router) /\ \A k \in Shard : WF_vars(Worker(k))
------------------------------------------------------------------------------
Message ==
    [kind: {"Add"}, id: Nat, symbol: Symbol, refused: BOOLEAN]
        \cup [kind: {"Replace"}, id: Nat, new: Nat, refused: BOOLEAN]
        \cup [kind: {"Reduce", "Delete", "Other"}, id: Nat]

\* Rings hold messages and no more than fit, tables lead to symbols, and every
\* thread is where its code can be.
TypeOK ==
    /\ count \in 0 .. MaxMessages
    /\ issued \in 0 .. MaxMessages
    /\ routes \in [DOMAIN routes -> Symbol]
    /\ holding = NothingHeld \/ (holding.shard \in Shard /\ holding.message \in Message)
    /\ routerDone \in BOOLEAN
    /\ routerFailed \in BOOLEAN
    /\ \A k \in Shard : Len(ring[k]) <= RingBound /\ \A i \in DOMAIN ring[k] : ring[k][i] \in Message
    /\ worker \in [Shard -> {"poll", "look", "drain", "ended", "failed"}]
    /\ \A k \in Shard : sequencer[k].routes \in [DOMAIN sequencer[k].routes -> Symbol]

\* What a sequencer s becomes by working off queue.
WorkedOff(s, queue) ==
    LET after[i \in 0 .. Len(queue)] == IF i = 0 THEN s ELSE OnMessage(after[i - 1], queue[i])
    IN after[Len(queue)]

\* What a shard will have done once it has worked off its ring and what the
\* router holds for it.
Drained(k) ==
    WorkedOff(sequencer[k], IF holding.shard = k THEN Append(ring[k], holding.message) ELSE ring[k])

\* At every moment and for every shard no worker of which failed, working off
\* what waits for it makes the shard's routes and books those of the sequential
\* pass over the same messages: no message overtakes another of its symbol, none
\* is sent to a shard that does not know its order, and the router's table, which
\* knows nothing of refused orders, is good enough for that.
ShardsMatchSequential ==
    \A k \in Shard : worker[k] # "failed" =>
        /\ \A s \in Symbol :
            Drained(k).log[s] = IF ShardFor[s] = k THEN reference.log[s] ELSE <<>>
        /\ Drained(k).routes =
            Restrict(reference.routes, {id \in DOMAIN reference.routes : ShardFor[reference.routes[id]] = k})

\* A worker that ends has left nothing in its ring, and nothing will come: the
\* books of an ended shard are final.
EndedIsDrained ==
    \A k \in Shard : worker[k] = "ended" => ring[k] = <<>> /\ holding.shard # k /\ routerDone

\* Either every thread ends, or the router is left retrying its push to the full
\* ring of a worker that failed: that is the only way the pipeline can hang.
EndsOrHangsBehindFailure ==
    <>(AllJoined \/ \E k \in Shard : worker[k] = "failed" /\ holding.shard = k /\ IsFull(k))
==============================================================================
