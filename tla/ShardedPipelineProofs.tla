------------------------ MODULE ShardedPipelineProofs ------------------------
(***************************************************************************)
(* ShardedPipeline for every set of symbols, every sharding, every ring    *)
(* size and any number of messages: an ended worker has drained its ring,  *)
(* and the shards together are the sequential pass.                        *)
(***************************************************************************)
EXTENDS ShardedPipeline, FiniteSetTheorems, SequenceTheorems, WellFoundedInduction, TLAPS

\* A nonempty set of natural numbers has a least element.
LEMMA LeastNat ==
    ASSUME NEW S \in SUBSET Nat, S # {}
    PROVE  \E x \in S : \A y \in S : x <= y
<1> DEFINE R == OpToRel(<, Nat)
<1>1. \E x \in S : \A y \in S : ~(<<y, x>> \in R)
  <2>1. IsWellFoundedOn(R, Nat) BY NatLessThanWellFounded
  <2> HIDE DEF R
  <2> QED BY <2>1, WFMin
<1>2. PICK x \in S : \A y \in S : ~(<<y, x>> \in R) BY <1>1
<1>3. \A y \in S : ~(y < x) BY <1>2 DEF OpToRel
<1> QED BY <1>3

Id == Nat \ {0}

\* The messages the feed can send: an Other message names no order.
Sent == {m \in Message : /\ m.kind = "Other" <=> m.id = 0
                         /\ m.kind = "Replace" => m.new # 0}

\* A routing table, of the router or of a sequencer.
Table == UNION {[D -> Symbol] : D \in SUBSET Id}

SequencerState == [routes: Table, log: [Symbol -> Seq(Sent)]]

\* TypeOK with the ranges it leaves open.
Typed ==
    /\ count \in 0 .. MaxMessages
    /\ issued \in 0 .. count
    /\ routes \in Table
    /\ holding = NothingHeld \/ holding \in [shard: Shard, message: Sent]
    /\ routerDone \in BOOLEAN
    /\ routerFailed \in BOOLEAN
    /\ ring \in [Shard -> Seq(Sent)]
    /\ \A k \in Shard : Len(ring[k]) <= RingBound
    /\ worker \in [Shard -> {"poll", "look", "drain", "ended", "failed"}]
    /\ sequencer \in [Shard -> SequencerState]
    /\ reference \in SequencerState

\* The flag is raised after the last push, and a worker that saw it and then
\* an empty ring has seen everything.
DoneIsLast ==
    /\ routerDone => holding = NothingHeld
    /\ \A k \in Shard :
        /\ worker[k] \in {"drain", "ended"} => routerDone
        /\ worker[k] = "ended" => ring[k] = <<>>
------------------------------------------------------------------------------
(* Tables and sequencers *)

\* Membership in Table, without the union.
LEMMA TableIs ==
    \A t : t \in Table <=> DOMAIN t \subseteq Id /\ t \in [DOMAIN t -> Symbol]
BY DEF Table

\* What the two table operations do.
LEMMA WithIs ==
    ASSUME NEW t \in Table, NEW id \in Id, NEW symbol \in Symbol
    PROVE  /\ With(t, id, symbol) \in Table
           /\ DOMAIN With(t, id, symbol) = DOMAIN t \cup {id}
           /\ \A o \in DOMAIN t \cup {id} : With(t, id, symbol)[o] = IF o = id THEN symbol ELSE t[o]
<1>1. DOMAIN t \subseteq Id /\ t \in [DOMAIN t -> Symbol] BY TableIs
<1>2. With(t, id, symbol) \in [DOMAIN t \cup {id} -> Symbol] BY <1>1 DEF With
<1>3. With(t, id, symbol) \in Table BY <1>1, <1>2 DEF Table
<1> QED BY <1>3 DEF With

\* See WithIs.
LEMMA WithoutIs ==
    ASSUME NEW t \in Table, NEW id
    PROVE  /\ Without(t, id) \in Table
           /\ DOMAIN Without(t, id) = DOMAIN t \ {id}
           /\ \A o \in DOMAIN t \ {id} : Without(t, id)[o] = t[o]
<1>1. DOMAIN t \subseteq Id /\ t \in [DOMAIN t -> Symbol] BY TableIs
<1>2. Without(t, id) \in [DOMAIN t \ {id} -> Symbol] BY <1>1 DEF Without, Restrict
<1>3. Without(t, id) \in Table BY <1>1, <1>2 DEF Table
<1> QED BY <1>3 DEF Without, Restrict

\* The parts of a sequencer's state.
LEMMA SequencerIs ==
    ASSUME NEW s \in SequencerState
    PROVE  /\ s.routes \in Table /\ s.log \in [Symbol -> Seq(Sent)]
           /\ DOMAIN s.routes \subseteq Id /\ s.routes \in [DOMAIN s.routes -> Symbol]
<1>1. s.routes \in Table /\ s.log \in [Symbol -> Seq(Sent)] BY DEF SequencerState
<1> QED BY <1>1, TableIs

\* The symbols a message belongs to, as a sequencer or the router knows them.
SymbolIn(table, m) ==
    IF m.kind = "Add" THEN {m.symbol} ELSE IF m.id \in DOMAIN table THEN {table[m.id]} ELSE {}

\* The message is added to the log of its symbol.
LogAfter(s, m) ==
    [x \in Symbol |-> IF x \in SymbolIn(s.routes, m) THEN Append(s.log[x], m) ELSE s.log[x]]

RoutesOfSequencer(s, m) ==
    IF m.kind = "Add"
    THEN IF m.refused THEN s.routes ELSE With(s.routes, m.id, m.symbol)
    ELSE IF m.id \notin DOMAIN s.routes \/ m.kind = "Reduce" THEN s.routes
    ELSE IF m.kind = "Replace" /\ ~m.refused
    THEN With(Without(s.routes, m.id), m.new, s.routes[m.id])
    ELSE Without(s.routes, m.id)

\* Logging a message leaves the routes alone.
LEMMA LoggedIs ==
    ASSUME NEW s \in SequencerState, NEW symbol \in Symbol, NEW m \in Sent
    PROVE  /\ Logged(s, symbol, m) \in SequencerState
           /\ Logged(s, symbol, m).routes = s.routes
           /\ Logged(s, symbol, m).log = [s.log EXCEPT ![symbol] = Append(@, m)]
<1>1. s.log \in [Symbol -> Seq(Sent)] BY SequencerIs
<1>2. Append(s.log[symbol], m) \in Seq(Sent) BY <1>1
<1> QED BY <1>1, <1>2 DEF Logged, SequencerState

\* A message the feed can send, kind by kind.
LEMMA SentIs ==
    ASSUME NEW m \in Sent
    PROVE  /\ m \in Message
           /\ m.kind \in {"Add", "Replace", "Reduce", "Delete", "Other"}
           /\ m.id \in Nat /\ (m.kind # "Other" => m.id \in Id) /\ (m.kind = "Other" => m.id = 0)
           /\ m.kind = "Add" => m.symbol \in Symbol /\ m.refused \in BOOLEAN
           /\ m.kind = "Replace" => m.new \in Id /\ m.refused \in BOOLEAN
BY DEF Sent, Message, Id

\* on_message() field by field.
LEMMA OnMessageIs ==
    ASSUME NEW s \in SequencerState, NEW m \in Sent
    PROVE  /\ OnMessage(s, m) \in SequencerState
           /\ OnMessage(s, m).routes = RoutesOfSequencer(s, m)
           /\ OnMessage(s, m).log = LogAfter(s, m)
<1>1. s.log \in [Symbol -> Seq(Sent)] /\ s.routes \in Table
      /\ DOMAIN s.routes \subseteq Id /\ s.routes \in [DOMAIN s.routes -> Symbol]
  BY SequencerIs
<1>2. ASSUME NEW logged \in SequencerState, NEW t \in Table
      PROVE  /\ [logged EXCEPT !.routes = t] \in SequencerState
             /\ [logged EXCEPT !.routes = t].routes = t
             /\ [logged EXCEPT !.routes = t].log = logged.log
  BY DEF SequencerState
<1>3. ASSUME NEW symbol \in Symbol, SymbolIn(s.routes, m) = {symbol}
      PROVE  Logged(s, symbol, m).log = LogAfter(s, m)
  BY <1>1, <1>3, LoggedIs DEF LogAfter
<1>4. CASE m.kind = "Add"
  <2>1. m.symbol \in Symbol /\ m.id \in Id /\ SymbolIn(s.routes, m) = {m.symbol}
    BY <1>4, SentIs DEF SymbolIn
  <2> DEFINE logged == Logged(s, m.symbol, m)
  <2>2. logged \in SequencerState /\ logged.routes = s.routes /\ logged.log = LogAfter(s, m)
    BY <2>1, <1>3, LoggedIs
  <2>3. With(s.routes, m.id, m.symbol) \in Table BY <2>1, <1>1, WithIs
  <2>4. OnMessage(s, m) = IF m.refused THEN logged
                          ELSE [logged EXCEPT !.routes = With(s.routes, m.id, m.symbol)]
    BY <1>4, <2>2 DEF OnMessage
  <2> HIDE DEF logged
  <2>5. CASE m.refused BY <2>2, <2>4, <2>5, <1>4 DEF RoutesOfSequencer
  <2>6. CASE ~m.refused BY <2>2, <2>3, <2>4, <2>6, <1>2, <1>4 DEF RoutesOfSequencer
  <2> QED BY <2>5, <2>6
<1>5. CASE m.kind # "Add" /\ m.id \notin DOMAIN s.routes
  <2>1. OnMessage(s, m) = s BY <1>5 DEF OnMessage
  <2>2. LogAfter(s, m) = s.log BY <1>1, <1>5 DEF LogAfter, SymbolIn
  <2> QED BY <2>1, <2>2, <1>5 DEF RoutesOfSequencer
<1>6. CASE m.kind # "Add" /\ m.id \in DOMAIN s.routes
  <2> DEFINE symbol == s.routes[m.id]
             logged == Logged(s, symbol, m)
  <2>1. symbol \in Symbol /\ m.id \in Id /\ SymbolIn(s.routes, m) = {symbol}
    BY <1>1, <1>6 DEF SymbolIn
  <2>2. logged \in SequencerState /\ logged.routes = s.routes /\ logged.log = LogAfter(s, m)
    BY <2>1, <1>3, LoggedIs
  <2>3. m.kind \in {"Replace", "Reduce", "Delete"} BY <2>1, <1>6, SentIs DEF Id
  <2>4. Without(s.routes, m.id) \in Table BY <1>1, WithoutIs
  <2>5. OnMessage(s, m) =
          CASE m.kind = "Reduce" -> logged
            [] m.kind = "Delete" -> [logged EXCEPT !.routes = Without(@, m.id)]
            [] m.kind = "Replace" /\ m.refused -> [logged EXCEPT !.routes = Without(@, m.id)]
            [] m.kind = "Replace" /\ ~m.refused -> [logged EXCEPT !.routes = With(Without(@, m.id), m.new, symbol)]
    BY <1>6 DEF OnMessage
  <2> HIDE DEF symbol, logged
  <2>6. CASE m.kind = "Reduce" BY <2>2, <2>5, <2>6, <1>6 DEF RoutesOfSequencer
  <2>7. CASE m.kind = "Delete" \/ (m.kind = "Replace" /\ m.refused)
    <3>1. OnMessage(s, m) = [logged EXCEPT !.routes = Without(s.routes, m.id)] BY <2>2, <2>5, <2>7
    <3> QED BY <3>1, <2>2, <2>4, <2>7, <1>2, <1>6 DEF RoutesOfSequencer
  <2>8. CASE m.kind = "Replace" /\ ~m.refused
    <3>1. OnMessage(s, m) = [logged EXCEPT !.routes = With(Without(s.routes, m.id), m.new, symbol)]
      BY <2>2, <2>5, <2>8
    <3>2. m.new \in Id BY <2>8, SentIs
    <3>3. With(Without(s.routes, m.id), m.new, symbol) \in Table BY <3>2, <2>1, <2>4, WithIs
    <3> QED BY <3>1, <3>3, <2>2, <2>8, <1>2, <1>6 DEF RoutesOfSequencer, symbol
  <2> QED BY <2>3, <2>6, <2>7, <2>8
<1> QED BY <1>4, <1>5, <1>6
------------------------------------------------------------------------------
(* Types, and the end of the threads *)

\* Types and the place of the flag hold when the program starts.
LEMMA InitTyped == Init => Typed /\ DoneIsLast
<1> SUFFICES ASSUME Init PROVE Typed /\ DoneIsLast OBVIOUS
<1> USE ShardedAssumption DEF Init
<1>1. NoRoutes \in Table
  <2>1. DOMAIN NoRoutes = {} /\ NoRoutes \in [DOMAIN NoRoutes -> Symbol] BY DEF NoRoutes
  <2> QED BY <2>1, TableIs
<1>2. NewSequencer \in SequencerState BY <1>1 DEF NewSequencer, SequencerState
<1>3. ring \in [Shard -> Seq(Sent)] /\ \A k \in Shard : Len(ring[k]) <= RingBound
  <2>1. <<>> \in Seq(Sent) /\ Len(<<>>) = 0 OBVIOUS
  <2> QED BY <2>1
<1>4. sequencer \in [Shard -> SequencerState] /\ reference \in SequencerState BY <1>2
<1>5. worker \in [Shard -> {"poll", "look", "drain", "ended", "failed"}] OBVIOUS
<1>6. count \in 0 .. MaxMessages /\ issued \in 0 .. count OBVIOUS
<1>7. routes \in Table /\ holding = NothingHeld /\ routerDone = FALSE /\ routerFailed = FALSE BY <1>1
<1> HIDE DEF Init
<1>8. Typed BY <1>3, <1>4, <1>5, <1>6, <1>7 DEF Typed
<1> QED BY <1>8 DEF DoneIsLast, Init

\* Every message of the feed is one the proofs speak of.
LEMMA MessagesSent ==
    ASSUME Typed, NEW m \in Messages
    PROVE  /\ m \in Sent
           /\ m.kind = "Add" => m.id = issued + 1
           /\ m.kind \in {"Replace", "Reduce", "Delete"} => m.id \in 1 .. issued
           /\ m.kind = "Replace" => m.new = issued + 1
<1>1. issued \in Nat BY ShardedAssumption DEF Typed
<1> QED BY <1>1 DEF Messages, Sent, Message

\* The router's table stays one, and a message goes to a shard.
LEMMA RoutingIs ==
    ASSUME Typed, NEW m \in Sent
    PROVE  /\ RoutesAfter(m) \in Table
           /\ RouteOf(m) = SymbolIn(routes, m)
           /\ TargetOf(m) \in Shard
           /\ \A s \in Symbol : RouteOf(m) = {s} => TargetOf(m) = ShardFor[s]
<1>1. routes \in Table /\ DOMAIN routes \subseteq Id /\ routes \in [DOMAIN routes -> Symbol]
  BY TableIs DEF Typed
<1>2. RoutesAfter(m) \in Table
  <2>1. m.kind = "Add" => With(routes, m.id, m.symbol) \in Table BY <1>1, SentIs, WithIs
  <2>2. Without(routes, m.id) \in Table BY <1>1, WithoutIs
  <2>3. m.kind = "Replace" /\ m.id \in DOMAIN routes
           => With(Without(routes, m.id), m.new, routes[m.id]) \in Table
    BY <1>1, <2>2, SentIs, WithIs
  <2> QED BY <1>1, <2>1, <2>2, <2>3 DEF RoutesAfter
<1>3. RouteOf(m) = SymbolIn(routes, m) BY DEF RouteOf, SymbolIn
<1>4. RouteOf(m) = {} \/ \E s \in Symbol : RouteOf(m) = {s} BY <1>1, SentIs DEF RouteOf
<1>5. \A s \in Symbol : RouteOf(m) = {s} => TargetOf(m) = ShardFor[s]
  <2>1. \A s : (CHOOSE x \in {s} : TRUE) = s OBVIOUS
  <2> QED BY <2>1 DEF TargetOf
<1>6. TargetOf(m) \in Shard
  <2>1. 0 \in Shard BY ShardedAssumption DEF Shard
  <2> QED BY <2>1, <1>4, <1>5, ShardedAssumption DEF TargetOf
<1> QED BY <1>2, <1>3, <1>5, <1>6

\* The router's step keeps types and the place of the flag.
LEMMA RouteTyped ==
    ASSUME Typed, DoneIsLast, NEW m \in Messages, Route(m)
    PROVE  Typed' /\ DoneIsLast'
<1> USE ShardedAssumption
<1>1. m \in Sent BY MessagesSent
<1>2. RoutesAfter(m) \in Table /\ TargetOf(m) \in Shard BY <1>1, RoutingIs
<1>3. OnMessage(reference, m) \in SequencerState BY <1>1, OnMessageIs DEF Typed
<1>4. holding' \in [shard: Shard, message: Sent] BY <1>1, <1>2 DEF Route
<1>5. count' \in 0 .. MaxMessages /\ issued' \in 0 .. count' BY DEF Route, Typed
<1>6. Typed' BY <1>2, <1>3, <1>4, <1>5 DEF Route, Typed
<1>7. DoneIsLast' BY DEF Route, DoneIsLast
<1> QED BY <1>6, <1>7

\* So does its push.
LEMMA PushTyped ==
    ASSUME Typed, DoneIsLast, Push
    PROVE  Typed' /\ DoneIsLast'
<1> USE ShardedAssumption
<1>1. holding.shard \in Shard /\ holding.message \in Sent BY DEF Push, Typed
<1>2. /\ Append(ring[holding.shard], holding.message) \in Seq(Sent)
      /\ Len(Append(ring[holding.shard], holding.message)) = Len(ring[holding.shard]) + 1
  BY <1>1 DEF Typed
<1>3. Len(ring[holding.shard]) \in Nat /\ Len(ring[holding.shard]) < RingBound
  BY <1>1 DEF Push, Typed, IsFull
<1>4. ring' \in [Shard -> Seq(Sent)] BY <1>1, <1>2 DEF Push, Typed
<1>5. \A k \in Shard : Len(ring'[k]) <= RingBound BY <1>1, <1>2, <1>3 DEF Push, Typed
<1>6. Typed' BY <1>4, <1>5 DEF Push, Typed
<1>7. DoneIsLast' BY DEF Push, DoneIsLast, Typed
<1> QED BY <1>6, <1>7

\* The steps of worker k: only its own place, ring and sequencer change.
LEMMA WorkerTyped ==
    ASSUME Typed, DoneIsLast, NEW k \in Shard, Worker(k)
    PROVE  Typed' /\ DoneIsLast'
<1> USE ShardedAssumption
<1>1. CASE Work(k) \/ WorkThrows(k)
  <2>1. ring[k] \in Seq(Sent) /\ ring[k] # <<>> BY <1>1 DEF Work, WorkThrows, Typed
  <2>2. /\ Tail(ring[k]) \in Seq(Sent) /\ Len(Tail(ring[k])) = Len(ring[k]) - 1
        /\ Head(ring[k]) \in Sent
    BY <2>1
  <2>3. ring' = [ring EXCEPT ![k] = Tail(@)] /\ UNCHANGED router BY <1>1 DEF Work, WorkThrows
  <2>4. ring' \in [Shard -> Seq(Sent)] BY <2>2, <2>3 DEF Typed
  <2>5. \A j \in Shard : Len(ring'[j]) <= RingBound BY <2>1, <2>2, <2>3 DEF Typed
  <2>6. OnMessage(sequencer[k], Head(ring[k])) \in SequencerState BY <2>2, OnMessageIs DEF Typed
  <2>7. sequencer' \in [Shard -> SequencerState] BY <2>6, <1>1 DEF Work, WorkThrows, Typed
  <2>8. worker' \in [Shard -> {"poll", "look", "drain", "ended", "failed"}]
    BY <1>1 DEF Work, WorkThrows, Typed
  <2>9. Typed' BY <2>3, <2>4, <2>5, <2>7, <2>8 DEF router, Typed
  <2>10. DoneIsLast'
    <3>1. routerDone' => holding' = NothingHeld BY <2>3 DEF router, DoneIsLast
    <3>2. ASSUME NEW j \in Shard
          PROVE  /\ worker'[j] \in {"drain", "ended"} => routerDone'
                 /\ worker'[j] = "ended" => ring'[j] = <<>>
      <4>1. CASE j = k BY <4>1, <1>1 DEF Work, WorkThrows, Typed
      <4>2. CASE j # k
        BY <4>2, <2>3, <1>1 DEF Work, WorkThrows, router, Typed, DoneIsLast
      <4> QED BY <4>1, <4>2
    <3> QED BY <3>1, <3>2 DEF DoneIsLast
  <2> QED BY <2>9, <2>10
<1>2. CASE FindEmpty(k) \/ LookAtDone(k) \/ End(k)
  <2>1. UNCHANGED <<router, ring, sequencer>> BY <1>2 DEF FindEmpty, LookAtDone, End
  <2>2. worker' \in [Shard -> {"poll", "look", "drain", "ended", "failed"}]
    BY <1>2 DEF FindEmpty, LookAtDone, End, Typed
  <2>3. Typed' BY <2>1, <2>2 DEF router, Typed
  <2>4. ASSUME NEW j \in Shard
        PROVE  /\ worker'[j] \in {"drain", "ended"} => routerDone'
               /\ worker'[j] = "ended" => ring'[j] = <<>>
    BY <1>2, <2>1 DEF FindEmpty, LookAtDone, End, router, Typed, DoneIsLast
  <2>5. DoneIsLast' BY <2>1, <2>4 DEF router, DoneIsLast
  <2> QED BY <2>3, <2>5
<1> QED BY <1>1, <1>2 DEF Worker

\* Every action keeps them.
LEMMA NextTyped == Typed /\ DoneIsLast /\ [Next]_vars => Typed' /\ DoneIsLast'
<1> SUFFICES ASSUME Typed, DoneIsLast, [Next]_vars PROVE Typed' /\ DoneIsLast' OBVIOUS
<1>1. CASE UNCHANGED vars BY <1>1 DEF vars, Typed, DoneIsLast
<1>2. CASE Router
  <2>1. CASE Skip BY <2>1, ShardedAssumption DEF Skip, Typed, DoneIsLast
  <2>2. CASE PushRetry BY <2>2, <1>1 DEF PushRetry
  <2>3. CASE RouterThrows BY <2>3 DEF RouterThrows, Typed, DoneIsLast
  <2>4. CASE RaiseDone BY <2>4 DEF RaiseDone, Typed, DoneIsLast
  <2> QED BY <1>2, <2>1, <2>2, <2>3, <2>4, RouteTyped, PushTyped DEF Router
<1>3. CASE \E k \in Shard : Worker(k) BY <1>3, WorkerTyped
<1>4. CASE Joined BY <1>4, <1>1 DEF Joined
<1> QED BY <1>1, <1>2, <1>3, <1>4 DEF Next

\* So they hold always.
LEMMA InductiveTyped == Spec => [](Typed /\ DoneIsLast)
BY InitTyped, NextTyped, PTL DEF Spec

\* Rings keep within their bound, tables lead to symbols, and every thread is
\* where its code can be.
THEOREM TypeCorrect == Spec => []TypeOK
<1>1. ASSUME Typed PROVE TypeOK
  <2>1. routes \in [DOMAIN routes -> Symbol] BY <1>1, TableIs DEF Typed
  <2>2. \A k \in Shard : sequencer[k].routes \in [DOMAIN sequencer[k].routes -> Symbol]
    BY <1>1, SequencerIs DEF Typed
  <2>3. issued \in 0 .. MaxMessages BY <1>1, ShardedAssumption DEF Typed
  <2>4. Sent \subseteq Message BY DEF Sent
  <2>5. \A k \in Shard : Len(ring[k]) <= RingBound /\ \A i \in DOMAIN ring[k] : ring[k][i] \in Message
    BY <1>1, <2>4 DEF Typed
  <2>6. holding = NothingHeld \/ (holding.shard \in Shard /\ holding.message \in Message)
    BY <1>1, <2>4 DEF Typed
  <2> QED BY <1>1, <2>1, <2>2, <2>3, <2>5, <2>6 DEF Typed, TypeOK
<1> QED BY <1>1, InductiveTyped, PTL

\* A worker that ends has left nothing in its ring and nothing is on its way:
\* the flag it saw was raised after the last push, and it looked at the ring
\* once more after the flag.
THEOREM EndedDrained == Spec => []EndedIsDrained
<1>1. ASSUME Typed, DoneIsLast PROVE EndedIsDrained
  <2>1. NothingHeld.shard \notin Shard BY ShardedAssumption DEF NothingHeld, Shard
  <2> QED BY <1>1, <2>1 DEF DoneIsLast, EndedIsDrained
<1> QED BY <1>1, InductiveTyped, PTL
------------------------------------------------------------------------------
(* Working off a queue *)

\* after is the sequencer s after each of the first n messages of queue.
IsRun(after, s, queue, n) ==
    after = [i \in 0 .. n |-> IF i = 0 THEN s ELSE OnMessage(after[i - 1], queue[i])]

\* Such a function exists, by induction over n: a least n without one is not 0,
\* and what there is for n - 1 goes one message further.
LEMMA RunExists ==
    ASSUME NEW s, NEW queue, NEW n \in Nat
    PROVE  \E after : IsRun(after, s, queue, n)
<1> DEFINE Missing == {x \in Nat : ~\E after : IsRun(after, s, queue, x)}
<1> SUFFICES ASSUME Missing # {} PROVE FALSE OBVIOUS
<1>1. PICK x \in Missing : \A y \in Missing : x <= y BY LeastNat
<1>2. x # 0
  <2>1. IsRun([i \in 0 .. 0 |-> s], s, queue, 0) BY DEF IsRun
  <2> QED BY <2>1
<1>3. x - 1 \in Nat /\ x - 1 \notin Missing BY <1>1, <1>2
<1>4. PICK f : IsRun(f, s, queue, x - 1) BY <1>3
<1> DEFINE g == [i \in 0 .. x |-> IF i = x THEN OnMessage(f[x - 1], queue[x]) ELSE f[i]]
<1>5. \A i \in 0 .. (x - 1) : f[i] = IF i = 0 THEN s ELSE OnMessage(f[i - 1], queue[i])
  BY <1>4 DEF IsRun
<1>6. \A i \in 0 .. x : g[i] = IF i = 0 THEN s ELSE OnMessage(g[i - 1], queue[i])
  <2> TAKE i \in 0 .. x
  <2>1. CASE i = x BY <2>1, <1>2, <1>3
  <2>2. CASE i # x
    <3>1. i \in 0 .. (x - 1) /\ g[i] = f[i] BY <2>2, <1>3
    <3>2. i # 0 => g[i - 1] = f[i - 1] BY <3>1, <1>3
    <3> QED BY <3>1, <3>2, <1>5
  <2> QED BY <2>1, <2>2
<1>7. IsRun(g, s, queue, x) BY <1>6 DEF IsRun
<1> QED BY <1>7

\* The runs of the first n messages are one function only.
LEMMA RunUnique ==
    ASSUME NEW s, NEW queue, NEW n \in Nat, NEW m \in Nat, n <= m,
           NEW f, IsRun(f, s, queue, n), NEW g, IsRun(g, s, queue, m)
    PROVE  \A i \in 0 .. n : f[i] = g[i]
<1> DEFINE Differ == {i \in 0 .. n : f[i] # g[i]}
<1> SUFFICES ASSUME Differ # {} PROVE FALSE OBVIOUS
<1>1. Differ \in SUBSET Nat OBVIOUS
<1>2. PICK x \in Differ : \A y \in Differ : x <= y BY <1>1, LeastNat
<1>3. f[x] = IF x = 0 THEN s ELSE OnMessage(f[x - 1], queue[x]) BY DEF IsRun
<1>4. g[x] = IF x = 0 THEN s ELSE OnMessage(g[x - 1], queue[x]) BY DEF IsRun
<1>5. x # 0 BY <1>3, <1>4
<1>6. x - 1 \in 0 .. n /\ x - 1 \notin Differ BY <1>2, <1>5
<1> QED BY <1>3, <1>4, <1>5, <1>6

\* The recursive definition of WorkedOff has the value it describes.
LEMMA WorkedOffIs ==
    ASSUME NEW s, NEW queue, Len(queue) \in Nat,
           NEW f, IsRun(f, s, queue, Len(queue))
    PROVE  WorkedOff(s, queue) = f[Len(queue)]
<1> DEFINE g == CHOOSE after : IsRun(after, s, queue, Len(queue))
<1>1. IsRun(g, s, queue, Len(queue)) BY RunExists
<1>2. WorkedOff(s, queue) = g[Len(queue)] BY DEF WorkedOff, IsRun
<1> HIDE DEF g
<1>3. Len(queue) \in 0 .. Len(queue) OBVIOUS
<1> QED BY <1>1, <1>2, <1>3, RunUnique

\* One more message at the end of the queue.
LEMMA WorkedOffAppend ==
    ASSUME NEW s, NEW queue \in Seq(Sent), NEW m \in Sent
    PROVE  WorkedOff(s, Append(queue, m)) = OnMessage(WorkedOff(s, queue), m)
<1> DEFINE more == Append(queue, m)
           n == Len(queue)
<1>1. n \in Nat /\ Len(more) = n + 1 /\ more[n + 1] = m /\ \A i \in 1 .. n : more[i] = queue[i]
  OBVIOUS
<1> HIDE DEF more
<1>2. PICK g : IsRun(g, s, more, n + 1)
  <2>1. n + 1 \in Nat BY <1>1
  <2> QED BY <2>1, RunExists
<1> DEFINE f == [i \in 0 .. n |-> g[i]]
<1>3. \A i \in 0 .. (n + 1) : g[i] = IF i = 0 THEN s ELSE OnMessage(g[i - 1], more[i])
  BY <1>2 DEF IsRun
<1>4. \A i \in 0 .. n : f[i] = IF i = 0 THEN s ELSE OnMessage(f[i - 1], queue[i])
  <2> TAKE i \in 0 .. n
  <2>1. i \in 0 .. (n + 1) /\ f[i] = g[i] BY <1>1
  <2>2. i # 0 => f[i - 1] = g[i - 1] /\ more[i] = queue[i] BY <1>1
  <2> QED BY <2>1, <2>2, <1>3
<1>5. IsRun(f, s, queue, n) BY <1>4 DEF IsRun
<1>6. WorkedOff(s, queue) = g[n] BY <1>1, <1>5, WorkedOffIs
<1>7. WorkedOff(s, more) = g[n + 1] BY <1>1, <1>2, WorkedOffIs
<1>8. g[n + 1] = OnMessage(g[n], m) BY <1>1, <1>3
<1> QED BY <1>6, <1>7, <1>8 DEF more

\* The first message can be worked off before the others are looked at.
LEMMA WorkedOffHead ==
    ASSUME NEW s, NEW queue \in Seq(Sent), queue # <<>>
    PROVE  WorkedOff(OnMessage(s, Head(queue)), Tail(queue)) = WorkedOff(s, queue)
<1> DEFINE rest == Tail(queue)
           n == Len(rest)
<1>1. n \in Nat /\ Len(queue) = n + 1 /\ Head(queue) = queue[1]
      /\ \A i \in 1 .. n : rest[i] = queue[i + 1]
  OBVIOUS
<1>2. PICK g : IsRun(g, s, queue, n + 1) BY <1>1, RunExists
<1> DEFINE f == [i \in 0 .. n |-> g[i + 1]]
<1> HIDE DEF rest
<1>3. \A i \in 0 .. (n + 1) : g[i] = IF i = 0 THEN s ELSE OnMessage(g[i - 1], queue[i])
  BY <1>2 DEF IsRun
<1>4. g[1] = OnMessage(s, Head(queue))
  <2>1. 0 \in 0 .. (n + 1) /\ 1 \in 0 .. (n + 1) BY <1>1
  <2>2. g[0] = s /\ g[1] = OnMessage(g[1 - 1], queue[1]) BY <2>1, <1>3
  <2> QED BY <2>2, <1>1
<1>5. \A i \in 0 .. n : f[i] = IF i = 0 THEN OnMessage(s, Head(queue)) ELSE OnMessage(f[i - 1], rest[i])
  <2> TAKE i \in 0 .. n
  <2>1. CASE i = 0 BY <2>1, <1>1, <1>4
  <2>2. CASE i # 0
    <3>1. i + 1 \in 0 .. (n + 1) /\ i - 1 \in 0 .. n /\ i + 1 # 0 BY <2>2, <1>1
    <3>2. f[i] = g[i + 1] /\ f[i - 1] = g[i] /\ rest[i] = queue[i + 1] BY <3>1, <2>2, <1>1
    <3>3. g[i + 1] = OnMessage(g[i + 1 - 1], queue[i + 1]) BY <3>1, <1>3
    <3>4. i + 1 - 1 = i BY <1>1
    <3> QED BY <2>2, <3>2, <3>3, <3>4
  <2> QED BY <2>1, <2>2
<1>6. IsRun(f, OnMessage(s, Head(queue)), rest, n) BY <1>5 DEF IsRun
<1>7. WorkedOff(OnMessage(s, Head(queue)), rest) = g[n + 1] BY <1>1, <1>6, WorkedOffIs
<1>8. WorkedOff(s, queue) = g[n + 1] BY <1>1, <1>2, WorkedOffIs
<1> QED BY <1>7, <1>8 DEF rest

\* Appending to a queue that is not empty leaves its head where it is.
LEMMA AppendKeepsHead ==
    ASSUME NEW queue \in Seq(Sent), queue # <<>>, NEW m \in Sent
    PROVE  /\ Append(queue, m) # <<>>
           /\ Head(Append(queue, m)) = Head(queue)
           /\ Tail(Append(queue, m)) = Append(Tail(queue), m)
BY HeadTailAppend, AppendProperties

\* Nothing to work off changes nothing.
LEMMA WorkedOffEmpty ==
    ASSUME NEW s
    PROVE  WorkedOff(s, <<>>) = s
<1>1. IsRun([i \in 0 .. 0 |-> s], s, <<>>, 0) BY DEF IsRun
<1>2. Len(<<>>) = 0 OBVIOUS
<1>3. WorkedOff(s, <<>>) = [i \in 0 .. 0 |-> s][0] BY <1>1, <1>2, WorkedOffIs
<1> QED BY <1>3

\* Working off a queue leads to a sequencer's state.
LEMMA WorkedOffType ==
    ASSUME NEW s \in SequencerState, NEW queue \in Seq(Sent)
    PROVE  WorkedOff(s, queue) \in SequencerState
<1> DEFINE n == Len(queue)
<1>1. n \in Nat /\ \A i \in 1 .. n : queue[i] \in Sent OBVIOUS
<1>2. PICK g : IsRun(g, s, queue, n) BY <1>1, RunExists
<1>3. \A i \in 0 .. n : g[i] = IF i = 0 THEN s ELSE OnMessage(g[i - 1], queue[i])
  BY <1>2 DEF IsRun
<1> HIDE DEF n
<1> DEFINE Bad == {i \in 0 .. n : g[i] \notin SequencerState}
<1>4. Bad = {}
  <2> SUFFICES ASSUME Bad # {} PROVE FALSE OBVIOUS
  <2>1. Bad \in SUBSET Nat BY <1>1
  <2>2. PICK x \in Bad : \A y \in Bad : x <= y BY <2>1, LeastNat
  <2>3. x # 0 BY <1>1, <1>3
  <2>4. x - 1 \in 0 .. n /\ x \in 1 .. n /\ g[x - 1] \in SequencerState BY <1>1, <2>2, <2>3
  <2>5. g[x] \in SequencerState BY <1>1, <1>3, <2>3, <2>4, OnMessageIs
  <2> QED BY <2>5
<1>5. WorkedOff(s, queue) = g[n] BY <1>1, <1>2, WorkedOffIs DEF n
<1> QED BY <1>1, <1>4, <1>5
------------------------------------------------------------------------------
(* The shards and the sequential pass *)

\* Table t is table u as far as shard k goes.
IsSubtable(t, u, k) ==
    /\ DOMAIN t = {id \in DOMAIN u : ShardFor[u[id]] = k}
    /\ \A id \in DOMAIN t : t[id] = u[id]

\* d is what sequencer r is, as far as shard k goes.
IsPartOf(d, r, k) ==
    /\ \A x \in Symbol : d.log[x] = IF ShardFor[x] = k THEN r.log[x] ELSE <<>>
    /\ IsSubtable(d.routes, r.routes, k)

\* A new number of this shard goes to both tables, one of another shard to the
\* larger only.
LEMMA SubtableWith ==
    ASSUME NEW t \in Table, NEW u \in Table, NEW k, IsSubtable(t, u, k),
           NEW id \in Id, id \notin DOMAIN u, NEW x \in Symbol
    PROVE  /\ ShardFor[x] = k => IsSubtable(With(t, id, x), With(u, id, x), k)
           /\ ShardFor[x] # k => IsSubtable(t, With(u, id, x), k)
<1> DEFINE t2 == With(t, id, x)
           u2 == With(u, id, x)
<1>1. DOMAIN t2 = DOMAIN t \cup {id} /\ \A o \in DOMAIN t \cup {id} : t2[o] = IF o = id THEN x ELSE t[o]
  BY DEF With
<1>2. DOMAIN u2 = DOMAIN u \cup {id} /\ \A o \in DOMAIN u \cup {id} : u2[o] = IF o = id THEN x ELSE u[o]
  BY DEF With
<1> HIDE DEF t2, u2
<1>3. ASSUME ShardFor[x] = k PROVE IsSubtable(t2, u2, k)
  <2>1. DOMAIN t2 = {o \in DOMAIN u2 : ShardFor[u2[o]] = k} BY <1>1, <1>2, <1>3 DEF IsSubtable
  <2> QED BY <2>1, <1>1, <1>2 DEF IsSubtable
<1>4. ASSUME ShardFor[x] # k PROVE IsSubtable(t, u2, k)
  <2>1. DOMAIN t = {o \in DOMAIN u2 : ShardFor[u2[o]] = k} BY <1>2, <1>4 DEF IsSubtable
  <2> QED BY <2>1, <1>2 DEF IsSubtable
<1> QED BY <1>3, <1>4 DEF t2, u2

\* A number taken out of both leaves a part, and so does one the part does not have.
LEMMA SubtableWithout ==
    ASSUME NEW t \in Table, NEW u \in Table, NEW k, IsSubtable(t, u, k), NEW id
    PROVE  /\ IsSubtable(Without(t, id), Without(u, id), k)
           /\ id \notin DOMAIN t => IsSubtable(t, Without(u, id), k)
<1> DEFINE t2 == Without(t, id)
           u2 == Without(u, id)
<1>1. DOMAIN t2 = DOMAIN t \ {id} /\ \A o \in DOMAIN t2 : t2[o] = t[o] BY WithoutIs
<1>2. DOMAIN u2 = DOMAIN u \ {id} /\ \A o \in DOMAIN u2 : u2[o] = u[o] BY WithoutIs
<1> HIDE DEF t2, u2
<1>3. DOMAIN t2 = {o \in DOMAIN u2 : ShardFor[u2[o]] = k} BY <1>1, <1>2 DEF IsSubtable
<1>4. IsSubtable(t2, u2, k) BY <1>1, <1>2, <1>3 DEF IsSubtable
<1>5. ASSUME id \notin DOMAIN t PROVE IsSubtable(t, u2, k)
  <2>1. DOMAIN t = {o \in DOMAIN u2 : ShardFor[u2[o]] = k} BY <1>2, <1>5 DEF IsSubtable
  <2> QED BY <2>1, <1>2 DEF IsSubtable
<1> QED BY <1>4, <1>5 DEF t2, u2

\* A message whose order brings a number brings one the sequencer does not know.
IsNew(r, m) ==
    /\ m.kind = "Add" => m.id \notin DOMAIN r.routes
    /\ m.kind = "Replace" => m.new \notin DOMAIN r.routes

\* A message that concerns a symbol of the shard does the same to both.
LEMMA PartTakesOwn ==
    ASSUME NEW d \in SequencerState, NEW r \in SequencerState, NEW k \in Shard, IsPartOf(d, r, k),
           NEW m \in Sent, IsNew(r, m), NEW x \in Symbol, SymbolIn(r.routes, m) = {x}, ShardFor[x] = k
    PROVE  IsPartOf(OnMessage(d, m), OnMessage(r, m), k)
<1> DEFINE d2 == OnMessage(d, m)
           r2 == OnMessage(r, m)
<1>1. d2.routes = RoutesOfSequencer(d, m) /\ d2.log = LogAfter(d, m) BY OnMessageIs
<1>2. r2.routes = RoutesOfSequencer(r, m) /\ r2.log = LogAfter(r, m) BY OnMessageIs
<1>3. d.routes \in Table /\ r.routes \in Table BY SequencerIs
<1>4. /\ m.id \in Id
      /\ m.kind = "Add" => m.symbol = x
      /\ m.kind # "Add" => /\ m.id \in DOMAIN d.routes /\ d.routes[m.id] = x
                           /\ m.id \in DOMAIN r.routes /\ r.routes[m.id] = x
                           /\ m.kind \in {"Replace", "Reduce", "Delete"}
  <2>1. m.kind # "Add" => m.id \in DOMAIN r.routes /\ r.routes[m.id] = x BY DEF SymbolIn
  <2>2. m.kind # "Add" => m.id \in DOMAIN d.routes /\ d.routes[m.id] = x BY <2>1 DEF IsPartOf, IsSubtable
  <2>3. DOMAIN r.routes \subseteq Id BY SequencerIs
  <2> QED BY <2>1, <2>2, <2>3, SentIs DEF SymbolIn, Id
<1>5. SymbolIn(d.routes, m) = {x} BY <1>4 DEF SymbolIn
<1> HIDE DEF d2, r2
<1>6. \A y \in Symbol : d2.log[y] = IF ShardFor[y] = k THEN r2.log[y] ELSE <<>>
  BY <1>1, <1>2, <1>5 DEF LogAfter, IsPartOf
<1>7. IsSubtable(d.routes, r.routes, k) BY DEF IsPartOf
<1>8. IsSubtable(d2.routes, r2.routes, k)
  <2>1. CASE m.kind = "Add" /\ ~m.refused
    <3>1. d2.routes = With(d.routes, m.id, x) /\ r2.routes = With(r.routes, m.id, x)
      BY <1>1, <1>2, <1>4, <2>1 DEF RoutesOfSequencer
    <3>2. m.id \notin DOMAIN r.routes BY <2>1 DEF IsNew
    <3> QED BY <3>1, <3>2, <1>3, <1>4, <1>7, SubtableWith
  <2>2. CASE (m.kind = "Add" /\ m.refused) \/ m.kind = "Reduce"
    BY <1>1, <1>2, <1>7, <2>2 DEF RoutesOfSequencer
  <2>3. CASE m.kind = "Delete" \/ (m.kind = "Replace" /\ m.refused)
    <3>1. d2.routes = Without(d.routes, m.id) /\ r2.routes = Without(r.routes, m.id)
      BY <1>1, <1>2, <1>4, <2>3 DEF RoutesOfSequencer
    <3> QED BY <3>1, <1>3, <1>7, SubtableWithout
  <2>4. CASE m.kind = "Replace" /\ ~m.refused
    <3> DEFINE dw == Without(d.routes, m.id)
               rw == Without(r.routes, m.id)
    <3>1. d2.routes = With(dw, m.new, x) /\ r2.routes = With(rw, m.new, x)
      BY <1>1, <1>2, <1>4, <2>4 DEF RoutesOfSequencer
    <3>2. dw \in Table /\ rw \in Table /\ DOMAIN rw = DOMAIN r.routes \ {m.id} BY <1>3, WithoutIs
    <3>3. IsSubtable(dw, rw, k) BY <1>3, <1>7, SubtableWithout
    <3>4. m.new \in Id /\ m.new \notin DOMAIN rw BY <2>4, <3>2, SentIs DEF IsNew
    <3> HIDE DEF dw, rw
    <3> QED BY <3>1, <3>2, <3>3, <3>4, SubtableWith
  <2> QED BY <1>4, <2>1, <2>2, <2>3, <2>4
<1> QED BY <1>6, <1>8 DEF IsPartOf, d2, r2

\* A message that concerns a symbol of another shard changes nothing here.
LEMMA PartKeepsOut ==
    ASSUME NEW d \in SequencerState, NEW r \in SequencerState, NEW k \in Shard, IsPartOf(d, r, k),
           NEW m \in Sent, IsNew(r, m), NEW x \in Symbol, SymbolIn(r.routes, m) = {x}, ShardFor[x] # k
    PROVE  IsPartOf(d, OnMessage(r, m), k)
<1> DEFINE r2 == OnMessage(r, m)
<1>1. r2.routes = RoutesOfSequencer(r, m) /\ r2.log = LogAfter(r, m) BY OnMessageIs
<1>2. r.routes \in Table BY SequencerIs
<1>3. /\ m.id \in Id
      /\ m.kind = "Add" => m.symbol = x
      /\ m.kind # "Add" => /\ m.id \in DOMAIN r.routes /\ r.routes[m.id] = x
                           /\ m.kind \in {"Replace", "Reduce", "Delete"}
  <2>1. m.kind # "Add" => m.id \in DOMAIN r.routes /\ r.routes[m.id] = x BY DEF SymbolIn
  <2>2. DOMAIN r.routes \subseteq Id BY SequencerIs
  <2> QED BY <2>1, <2>2, SentIs DEF SymbolIn, Id
<1> HIDE DEF r2
<1>4. \A y \in Symbol : d.log[y] = IF ShardFor[y] = k THEN r2.log[y] ELSE <<>>
  BY <1>1 DEF LogAfter, IsPartOf
<1>5. IsSubtable(d.routes, r.routes, k) /\ d.routes \in Table BY SequencerIs DEF IsPartOf
<1>6. IsSubtable(d.routes, r2.routes, k)
  <2>1. m.kind # "Add" => m.id \notin DOMAIN d.routes BY <1>3, <1>5 DEF IsSubtable
  <2>2. CASE m.kind = "Add" /\ ~m.refused
    <3>1. r2.routes = With(r.routes, m.id, x) BY <1>1, <1>3, <2>2 DEF RoutesOfSequencer
    <3>2. m.id \notin DOMAIN r.routes BY <2>2 DEF IsNew
    <3> QED BY <3>1, <3>2, <1>2, <1>3, <1>5, SubtableWith
  <2>3. CASE (m.kind = "Add" /\ m.refused) \/ m.kind = "Reduce"
    BY <1>1, <1>5, <2>3 DEF RoutesOfSequencer
  <2>4. CASE m.kind = "Delete" \/ (m.kind = "Replace" /\ m.refused)
    <3>1. r2.routes = Without(r.routes, m.id) BY <1>1, <1>3, <2>4 DEF RoutesOfSequencer
    <3> QED BY <3>1, <1>2, <1>5, <2>1, <2>4, SubtableWithout
  <2>5. CASE m.kind = "Replace" /\ ~m.refused
    <3> DEFINE rw == Without(r.routes, m.id)
    <3>1. r2.routes = With(rw, m.new, x) BY <1>1, <1>3, <2>5 DEF RoutesOfSequencer
    <3>2. rw \in Table /\ DOMAIN rw = DOMAIN r.routes \ {m.id} BY <1>2, WithoutIs
    <3>3. IsSubtable(d.routes, rw, k) BY <1>2, <1>5, <2>1, <2>5, SubtableWithout
    <3>4. m.new \in Id /\ m.new \notin DOMAIN rw BY <2>5, <3>2, SentIs DEF IsNew
    <3> HIDE DEF rw
    <3> QED BY <3>1, <3>2, <3>3, <3>4, <1>5, SubtableWith
  <2> QED BY <1>3, <2>2, <2>3, <2>4, <2>5
<1> QED BY <1>4, <1>6 DEF IsPartOf, r2

\* The router's table leads where the sequential pass leads, for every order
\* that pass knows; numbers not issued yet are in neither.
TablesAgree ==
    /\ DOMAIN routes \subseteq 1 .. issued
    /\ DOMAIN reference.routes \subseteq DOMAIN routes
    /\ \A id \in DOMAIN reference.routes : reference.routes[id] = routes[id]

\* What waits for shard k, in the ring and in the router's hands.
WaitingFor(k) == IF holding.shard = k THEN Append(ring[k], holding.message) ELSE ring[k]

ShardsAreParts == \A k \in Shard : worker[k] # "failed" => IsPartOf(Drained(k), reference, k)

IInv == Typed /\ DoneIsLast /\ TablesAgree /\ ShardsAreParts

\* A shard once everything on its way to it is worked off.
LEMMA DrainedIs ==
    ASSUME Typed, NEW k \in Shard
    PROVE  /\ WaitingFor(k) \in Seq(Sent)
           /\ Drained(k) = WorkedOff(sequencer[k], WaitingFor(k))
           /\ Drained(k) \in SequencerState
<1>1. holding.shard = k => holding.message \in Sent
  <2>1. NothingHeld.shard # k BY ShardedAssumption DEF NothingHeld, Shard
  <2> QED BY <2>1 DEF Typed
<1>2. ring[k] \in Seq(Sent) /\ sequencer[k] \in SequencerState BY DEF Typed
<1>3. WaitingFor(k) \in Seq(Sent) BY <1>1, <1>2 DEF WaitingFor
<1>4. Drained(k) = WorkedOff(sequencer[k], WaitingFor(k)) BY DEF Drained, WaitingFor
<1> QED BY <1>2, <1>3, <1>4, WorkedOffType

\* The tables agree after both have seen the message.
LEMMA TablesStayAgreed ==
    ASSUME Typed, TablesAgree, NEW m \in Messages, Route(m)
    PROVE  TablesAgree'
<1> DEFINE r == reference.routes
           r2 == OnMessage(reference, m).routes
<1>1. m \in Sent BY MessagesSent
<1>2. routes \in Table /\ r \in Table /\ issued \in Nat
  BY ShardedAssumption, SequencerIs DEF Typed
<1>3. r2 = RoutesOfSequencer(reference, m) BY <1>1, OnMessageIs DEF Typed
<1>4. routes' = RoutesAfter(m) /\ reference'.routes = r2 BY DEF Route
<1>5. CASE m.kind = "Add"
  <2>1. m.id = issued + 1 /\ m.id \in Id /\ m.symbol \in Symbol BY <1>1, <1>2, <1>5, MessagesSent, SentIs
  <2>2. issued' = issued + 1 BY <1>5 DEF Route, IsFresh
  <2>3. routes' = With(routes, m.id, m.symbol) BY <1>4, <1>5 DEF RoutesAfter
  <2>4. r2 = r \/ r2 = With(r, m.id, m.symbol) BY <1>3, <1>5 DEF RoutesOfSequencer
  <2>5. /\ DOMAIN routes' = DOMAIN routes \cup {m.id}
        /\ \A o \in DOMAIN routes \cup {m.id} : routes'[o] = IF o = m.id THEN m.symbol ELSE routes[o]
    BY <2>3 DEF With
  <2>6. CASE r2 = r BY <2>1, <2>2, <2>5, <2>6, <1>2, <1>4 DEF TablesAgree
  <2>7. CASE r2 = With(r, m.id, m.symbol)
    <3>1. /\ DOMAIN r2 = DOMAIN r \cup {m.id}
          /\ \A o \in DOMAIN r \cup {m.id} : r2[o] = IF o = m.id THEN m.symbol ELSE r[o]
      BY <2>7 DEF With
    <3> HIDE DEF r2
    <3> QED BY <3>1, <2>1, <2>2, <2>5, <1>2, <1>4 DEF TablesAgree
  <2> QED BY <2>4, <2>6, <2>7
<1>6. CASE m.kind # "Add" /\ m.id \notin DOMAIN routes
  <2>1. m.id \notin DOMAIN r BY <1>6 DEF TablesAgree
  <2>2. r2 = r /\ routes' = routes BY <2>1, <1>3, <1>4, <1>6 DEF RoutesOfSequencer, RoutesAfter
  <2>3. issued' \in Nat /\ issued' >= issued BY <1>2 DEF Route
  <2> QED BY <2>2, <2>3, <1>2, <1>4 DEF TablesAgree
<1>7. CASE m.kind # "Add" /\ m.id \in DOMAIN routes
  <2>1. m.id # 0 /\ m.kind \in {"Replace", "Reduce", "Delete"}
    BY <1>1, <1>2, <1>7, SentIs, TableIs DEF Id
  <2>2. CASE m.kind = "Reduce"
    <3>1. r2 = r /\ routes' = routes /\ issued' = issued
      BY <2>2, <1>3, <1>4, <1>7 DEF RoutesOfSequencer, RoutesAfter, Route, IsFresh
    <3> QED BY <3>1, <1>4 DEF TablesAgree
  <2>3. CASE m.kind = "Delete"
    <3>1. routes' = Without(routes, m.id) /\ issued' = issued
      BY <2>3, <1>4, <1>7 DEF RoutesAfter, Route, IsFresh
    <3>2. r2 = Without(r, m.id) \/ (r2 = r /\ m.id \notin DOMAIN r) BY <2>3, <1>3 DEF RoutesOfSequencer
    <3>3. DOMAIN r2 = DOMAIN r \ {m.id} /\ \A o \in DOMAIN r \ {m.id} : r2[o] = r[o]
      BY <3>2 DEF Without, Restrict
    <3>4. DOMAIN routes' = DOMAIN routes \ {m.id} /\ \A o \in DOMAIN routes \ {m.id} : routes'[o] = routes[o]
      BY <3>1 DEF Without, Restrict
    <3> HIDE DEF r2
    <3> QED BY <3>1, <3>3, <3>4, <1>4 DEF TablesAgree
  <2>4. CASE m.kind = "Replace"
    <3>1. routes' = With(Without(routes, m.id), m.new, routes[m.id]) BY <2>4, <1>4, <1>7 DEF RoutesAfter
    <3>2. m.new = issued + 1 /\ issued' = issued + 1 BY <2>4, MessagesSent DEF Route, IsFresh
    <3>3. \/ r2 = r /\ m.id \notin DOMAIN r
          \/ r2 = Without(r, m.id)
          \/ r2 = With(Without(r, m.id), m.new, r[m.id]) /\ m.id \in DOMAIN r
      BY <2>4, <1>3 DEF RoutesOfSequencer
    <3>4. /\ DOMAIN routes' = (DOMAIN routes \ {m.id}) \cup {m.new}
          /\ \A o \in (DOMAIN routes \ {m.id}) \cup {m.new} :
                routes'[o] = IF o = m.new THEN routes[m.id] ELSE routes[o]
      BY <3>1 DEF With, Without, Restrict
    <3>5. CASE r2 = With(Without(r, m.id), m.new, r[m.id]) /\ m.id \in DOMAIN r
      <4>1. /\ DOMAIN r2 = (DOMAIN r \ {m.id}) \cup {m.new}
            /\ \A o \in (DOMAIN r \ {m.id}) \cup {m.new} : r2[o] = IF o = m.new THEN r[m.id] ELSE r[o]
        BY <3>5 DEF With, Without, Restrict
      <4> HIDE DEF r2
      <4> QED BY <4>1, <3>2, <3>4, <3>5, <1>2, <1>4 DEF TablesAgree
    <3>6. CASE \/ r2 = r /\ m.id \notin DOMAIN r
               \/ r2 = Without(r, m.id)
      <4>1. DOMAIN r2 = DOMAIN r \ {m.id} /\ \A o \in DOMAIN r \ {m.id} : r2[o] = r[o]
        BY <3>6 DEF Without, Restrict
      <4> HIDE DEF r2
      <4>2. m.new \notin DOMAIN routes BY <3>2, <1>2 DEF TablesAgree
      <4> QED BY <4>1, <4>2, <3>2, <3>4, <1>2, <1>4 DEF TablesAgree
    <3> QED BY <3>3, <3>5, <3>6
  <2> QED BY <2>1, <2>2, <2>3, <2>4
<1> QED BY <1>5, <1>6, <1>7

\* The message joins what waits for the shard it goes to, and what the
\* sequential pass has seen.
LEMMA RouteParts ==
    ASSUME IInv, NEW m \in Messages, Route(m)
    PROVE  ShardsAreParts'
<1> USE DEF IInv
<1>1. m \in Sent /\ IsNew(reference, m)
  <2>1. m.kind = "Add" => m.id \notin DOMAIN reference.routes
    BY MessagesSent, ShardedAssumption DEF TablesAgree, Typed
  <2>2. m.kind = "Replace" => m.new \notin DOMAIN reference.routes
    BY MessagesSent, ShardedAssumption DEF TablesAgree, Typed
  <2> QED BY <2>1, <2>2, MessagesSent DEF IsNew
<1>2. reference \in SequencerState /\ reference' = OnMessage(reference, m) BY DEF Typed, Route
<1> SUFFICES ASSUME NEW k \in Shard, worker'[k] # "failed"
             PROVE  IsPartOf(Drained(k)', reference', k)
  BY DEF ShardsAreParts
<1> DEFINE d == Drained(k)
<1>3. IsPartOf(d, reference, k) /\ d \in SequencerState BY DrainedIs DEF Route, ShardsAreParts
<1>4. Drained(k)' = IF TargetOf(m) = k THEN OnMessage(d, m) ELSE d
  <2>1. holding.shard # k /\ ring[k] \in Seq(Sent)
    BY ShardedAssumption DEF Route, NothingHeld, Shard, Typed
  <2>2. d = WorkedOff(sequencer[k], ring[k]) BY <2>1 DEF Drained
  <2>3. Drained(k)' = WorkedOff(sequencer[k], IF TargetOf(m) = k THEN Append(ring[k], m) ELSE ring[k])
    BY DEF Drained, Route
  <2> HIDE DEF d
  <2> QED BY <2>1, <2>2, <2>3, <1>1, WorkedOffAppend
<1> HIDE DEF d
<1>5. SymbolIn(reference.routes, m) = {} \/ \E x \in Symbol : SymbolIn(reference.routes, m) = {x}
  BY <1>1, <1>2, SentIs, SequencerIs DEF SymbolIn
<1>6. CASE SymbolIn(reference.routes, m) = {}
  <2>1. m.kind # "Add" /\ m.id \notin DOMAIN reference.routes BY <1>6 DEF SymbolIn
  <2>2. m.id \notin DOMAIN d.routes BY <2>1, <1>3 DEF IsPartOf, IsSubtable
  <2>3. OnMessage(reference, m) = reference /\ OnMessage(d, m) = d BY <2>1, <2>2 DEF OnMessage
  <2> QED BY <2>3, <1>2, <1>3, <1>4
<1>7. CASE \E x \in Symbol : SymbolIn(reference.routes, m) = {x}
  <2>1. PICK x \in Symbol : SymbolIn(reference.routes, m) = {x} BY <1>7
  <2>2. RouteOf(m) = {x} BY <2>1 DEF SymbolIn, RouteOf, TablesAgree
  <2>3. TargetOf(m) = ShardFor[x] BY <2>2, <1>1, RoutingIs
  <2>4. CASE ShardFor[x] = k BY <2>1, <2>3, <2>4, <1>1, <1>2, <1>3, <1>4, PartTakesOwn
  <2>5. CASE ShardFor[x] # k BY <2>1, <2>3, <2>5, <1>1, <1>2, <1>3, <1>4, PartKeepsOut
  <2> QED BY <2>4, <2>5
<1> QED BY <1>5, <1>6, <1>7

\* A message in the ring is no longer in the router's hands, and waits at the
\* same place.
LEMMA PushParts ==
    ASSUME IInv, Push
    PROVE  ShardsAreParts'
<1> USE DEF IInv
<1>1. holding.shard \in Shard /\ holding.message \in Sent BY DEF Push, Typed
<1> SUFFICES ASSUME NEW k \in Shard PROVE Drained(k)' = Drained(k) BY DEF Push, ShardsAreParts
<1>2. holding'.shard # k BY ShardedAssumption DEF Push, NothingHeld, Shard
<1>3. ring'[k] = WaitingFor(k) BY <1>1 DEF Push, WaitingFor, Typed
<1>4. Drained(k)' = WorkedOff(sequencer[k], WaitingFor(k)) BY <1>2, <1>3 DEF Drained, Push
<1> QED BY <1>4, DrainedIs

\* Working off the first message leaves what the shard will have done.
LEMMA WorkerParts ==
    ASSUME IInv, NEW k \in Shard, Worker(k)
    PROVE  ShardsAreParts'
<1> USE DEF IInv
<1>1. UNCHANGED <<holding, reference>> BY DEF Worker, Work, WorkThrows, FindEmpty, LookAtDone, End, router
<1> SUFFICES ASSUME NEW j \in Shard, worker'[j] # "failed"
             PROVE  worker[j] # "failed" /\ Drained(j)' = Drained(j)
  BY <1>1 DEF ShardsAreParts
<1>2. CASE FindEmpty(k) \/ LookAtDone(k) \/ End(k)
  BY <1>1, <1>2 DEF FindEmpty, LookAtDone, End, Typed, Drained
<1>3. CASE (Work(k) \/ WorkThrows(k)) /\ j # k
  BY <1>1, <1>3 DEF Work, WorkThrows, Typed, Drained
<1>4. CASE WorkThrows(k) /\ j = k BY <1>4 DEF WorkThrows, Typed
<1>5. CASE Work(k) /\ j = k
  <2> DEFINE w == WaitingFor(k)
  <2>1. ring[k] \in Seq(Sent) /\ ring[k] # <<>> BY <1>5 DEF Work, Typed
  <2>2. holding.shard = k => holding.message \in Sent
    BY ShardedAssumption DEF Typed, NothingHeld, Shard
  <2>3. w # <<>> /\ Head(w) = Head(ring[k])
        /\ Tail(w) = IF holding.shard = k THEN Append(Tail(ring[k]), holding.message) ELSE Tail(ring[k])
    <3>1. CASE holding.shard = k
      <4>1. w = Append(ring[k], holding.message) BY <3>1 DEF WaitingFor
      <4> HIDE DEF w
      <4> QED BY <4>1, <3>1, <2>1, <2>2, AppendKeepsHead
    <3>2. CASE holding.shard # k BY <3>2, <2>1 DEF WaitingFor
    <3> QED BY <3>1, <3>2
  <2>4. ring'[k] = Tail(ring[k]) /\ sequencer'[k] = OnMessage(sequencer[k], Head(ring[k]))
    BY <1>5 DEF Work, Typed
  <2>5. Drained(k)' = WorkedOff(OnMessage(sequencer[k], Head(w)), Tail(w))
    BY <1>1, <2>3, <2>4 DEF Drained
  <2>6. w \in Seq(Sent) /\ Drained(k) = WorkedOff(sequencer[k], w) BY DrainedIs
  <2> HIDE DEF w
  <2>7. Drained(k)' = Drained(k) BY <2>3, <2>5, <2>6, WorkedOffHead
  <2>8. worker[k] # "failed" BY <1>5 DEF Work
  <2> QED BY <2>7, <2>8, <1>5
<1> QED BY <1>2, <1>3, <1>4, <1>5 DEF Worker

\* It holds when the program starts.
LEMMA InitIInv == Init => IInv
<1> SUFFICES ASSUME Init PROVE IInv OBVIOUS
<1>1. Typed /\ DoneIsLast BY InitTyped
<1>2. TablesAgree BY DEF Init, TablesAgree, NoRoutes, NewSequencer
<1>3. ASSUME NEW k \in Shard PROVE IsPartOf(Drained(k), reference, k)
  <2>1. Drained(k) = NewSequencer
    <3>1. holding.shard # k BY ShardedAssumption DEF Init, NothingHeld, Shard
    <3> QED BY <3>1, WorkedOffEmpty DEF Init, Drained
  <2> QED BY <2>1 DEF Init, IsPartOf, IsSubtable, NewSequencer, NoRoutes
<1> QED BY <1>1, <1>2, <1>3 DEF IInv, ShardsAreParts

\* Every action keeps it, and so does a step that changes nothing.
LEMMA NextIInv == IInv /\ [Next]_vars => IInv'
<1> SUFFICES ASSUME IInv, [Next]_vars PROVE IInv' OBVIOUS
<1>1. Typed' /\ DoneIsLast' BY NextTyped DEF IInv
<1>2. ASSUME UNCHANGED <<issued, routes, reference, holding, ring, worker, sequencer>>
      PROVE  TablesAgree' /\ ShardsAreParts'
  BY <1>2 DEF IInv, TablesAgree, ShardsAreParts, Drained
<1>3. TablesAgree' /\ ShardsAreParts'
  <2>1. CASE UNCHANGED vars BY <2>1, <1>2 DEF vars
  <2>2. CASE \E m \in Messages : Route(m)
    BY <2>2, TablesStayAgreed, RouteParts DEF IInv
  <2>3. CASE Push
    <3>1. TablesAgree' BY <2>3 DEF IInv, Push, TablesAgree
    <3> QED BY <3>1, <2>3, PushParts
  <2>4. CASE Skip \/ PushRetry \/ RouterThrows \/ RaiseDone
    BY <2>4, <1>2 DEF Skip, PushRetry, RouterThrows, RaiseDone, vars
  <2>5. CASE \E k \in Shard : Worker(k)
    <3>1. UNCHANGED <<issued, routes, reference>>
      BY <2>5 DEF Worker, Work, WorkThrows, FindEmpty, LookAtDone, End, router
    <3>2. TablesAgree' BY <3>1 DEF IInv, TablesAgree
    <3> QED BY <3>2, <2>5, WorkerParts
  <2>6. CASE Joined BY <2>6, <1>2 DEF Joined, vars
  <2> QED BY <2>1, <2>2, <2>3, <2>4, <2>5, <2>6 DEF Next, Router
<1> QED BY <1>1, <1>3 DEF IInv

\* So it holds always.
LEMMA Inductive == Spec => []IInv
BY InitIInv, NextIInv, PTL DEF Spec

\* Symbol by symbol the shards do what the sequential pass does, at every moment
\* and whatever the threads' interleaving: the router's table sends every message
\* to the shard that knows its order, and no message overtakes another of its
\* symbol.
THEOREM ShardsAreSequential == Spec => []ShardsMatchSequential
<1>1. ASSUME IInv PROVE ShardsMatchSequential
  <2> SUFFICES ASSUME NEW k \in Shard, worker[k] # "failed"
               PROVE  /\ \A s \in Symbol :
                            Drained(k).log[s] = IF ShardFor[s] = k THEN reference.log[s] ELSE <<>>
                      /\ Drained(k).routes =
                            Restrict(reference.routes,
                                {id \in DOMAIN reference.routes : ShardFor[reference.routes[id]] = k})
    BY DEF ShardsMatchSequential
  <2> DEFINE d == Drained(k)
  <2>1. IsPartOf(d, reference, k) BY <1>1 DEF IInv, ShardsAreParts
  <2>2. d.routes \in [DOMAIN d.routes -> Symbol] BY <1>1, DrainedIs, SequencerIs DEF IInv
  <2> HIDE DEF d
  <2>3. d.routes = Restrict(reference.routes,
                        {id \in DOMAIN reference.routes : ShardFor[reference.routes[id]] = k})
    BY <2>1, <2>2 DEF IsPartOf, IsSubtable, Restrict
  <2> QED BY <2>1, <2>3 DEF IsPartOf, d
<1> QED BY <1>1, Inductive, PTL
==============================================================================
