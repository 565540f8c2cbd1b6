--------------------------- MODULE SequencerProofs ---------------------------
(***************************************************************************)
(* Sequencer for every set of symbols, participants, orders, prices and    *)
(* quantities, every risk limit, arena and price window.                   *)
(***************************************************************************)
EXTENDS Sequencer, PriceTimePriorityProofs

(* One book, one call *)

LimitOrder == [id: OrderId, side: Side, type: {"Limit"}, price: Price, qty: Nat]

Sound(b) ==
    /\ b = [resting |-> b.resting, before |-> b.before, window |-> b.window]
    /\ b.window \in Window
    /\ Booked(b)

\* A sound book and a limit order are a book and a request of price-time priority.
LEMMA BookedLimit ==
    ASSUME NEW b, Sound(b), NEW r \in LimitOrder
    PROVE  Booked(b) /\ r.qty \in Nat
BY DEF Sound, LimitOrder

\* Orders a book keeps, at their places, stay queued.
LEMMA NarrowSound ==
    ASSUME NEW b, Sound(b), NEW orders, DOMAIN orders \subseteq DOMAIN b.resting,
           orders \in [DOMAIN orders -> OrderAt],
           \A o \in DOMAIN orders : /\ orders[o].side = b.resting[o].side
                                    /\ orders[o].price = b.resting[o].price,
           NEW w \in Window
    PROVE  Sound([resting |-> orders, before |-> Among(b, DOMAIN orders), window |-> w])
<1> DEFINE a == [resting |-> orders, before |-> Among(b, DOMAIN orders), window |-> w]
<1>1. a.resting = orders /\ a.before = Among(b, DOMAIN orders) /\ a.window = w OBVIOUS
<1>2. a = [resting |-> a.resting, before |-> a.before, window |-> a.window] OBVIOUS
<1>3. \A x, y : <<x, y>> \in a.before <=>
                  <<x, y>> \in b.before /\ x \in DOMAIN orders /\ y \in DOMAIN orders
  BY DEF Among
<1> HIDE DEF a
<1>4. \A x, y \in DOMAIN orders : SamePlace(a, x, y) <=> SamePlace(b, x, y) BY <1>1 DEF SamePlace
<1>5. Queued(a) BY <1>1, <1>3, <1>4 DEF Queued, Sound, Booked
<1>6. IsFiniteSet(DOMAIN orders) BY FS_Subset DEF Sound, Booked
<1> QED BY <1>1, <1>2, <1>5, <1>6 DEF Sound, Booked, a

\* ensure_index_for_price() makes a window.
LEMMA CoveringIsWindow ==
    ASSUME NEW w \in Window, NEW p \in Int
    PROVE  Covering(w, p) \in Window
<1>1. InitialWindow \in Nat /\ InitialWindow \div 2 \in Int /\ InitialWindow \div 4 \in Nat
  BY WindowAssumption
<1>2. PICK a : a = Anchored(w, p) OBVIOUS
<1>3. a.base \in Int /\ a.size \in Nat BY <1>1, <1>2 DEF Anchored, Window
<1>4. Slot(a, p) \in Int BY <1>3 DEF Slot
<1>5. Shift(a, p) \in Nat BY <1>1, <1>4 DEF Shift
<1>6. SizeFor(a, p) \in Nat BY <1>1, <1>3, <1>4, <1>5 DEF SizeFor
<1> QED BY <1>2, <1>3, <1>5, <1>6 DEF Covering, Window

\* The orders of a are some of b's, on their sides, and perhaps order id on side s.
Within(a, b, id, s) ==
    /\ DOMAIN a.resting \subseteq DOMAIN b.resting \cup {id}
    /\ \A o \in DOMAIN a.resting :
         a.resting[o].side = IF o = id THEN s ELSE b.resting[o].side

\* What the orders are once the fills are made, the remainder not placed.
LEMMA TradedOnlySound ==
    ASSUME NEW b, Sound(b), NEW r \in LimitOrder, NEW w \in Window, r.id \notin DOMAIN b.resting,
           NEW a, a = [TradedOnly(b, r) EXCEPT !.window = w]
    PROVE  /\ Sound(a)
           /\ a.resting = AfterTrades(b, r)
           /\ Within(a, b, r.id, r.side)
<1> DEFINE kept == AfterTrades(b, r)
<1>1. /\ DOMAIN kept \subseteq DOMAIN b.resting
      /\ kept \in [DOMAIN kept -> OrderAt]
      /\ \A o \in DOMAIN kept : /\ kept[o].side = b.resting[o].side
                                /\ kept[o].price = b.resting[o].price
  BY BookedLimit, KeptIs
<1> HIDE DEF kept
<1>2. Sound([resting |-> kept, before |-> Among(b, DOMAIN kept), window |-> w])
  BY <1>1, NarrowSound
<1>3. a = [resting |-> kept, before |-> Among(b, DOMAIN kept), window |-> w]
  <2>1. b = [resting |-> b.resting, before |-> b.before, window |-> b.window] BY DEF Sound, Booked
  <2>2. PICK v : v = Among(b, DOMAIN kept) OBVIOUS
  <2>3. TradedOnly(b, r) = [b EXCEPT !.resting = kept, !.before = v]
    BY <2>2 DEF TradedOnly, WithResting, kept
  <2>4. TradedOnly(b, r) = [resting |-> kept, before |-> v, window |-> b.window] BY <2>1, <2>3
  <2> QED BY <2>2, <2>4
<1>4. a.resting = kept BY <1>3
<1>5. Within(a, b, r.id, r.side) BY <1>1, <1>4 DEF Within
<1> QED BY <1>2, <1>3, <1>4, <1>5 DEF kept

\* The remainder goes to the back of the queue of its side and price.
LEMMA RestedSound ==
    ASSUME NEW b, Sound(b), NEW r \in LimitOrder, NEW w \in Window, r.id \notin DOMAIN b.resting,
           NEW a, a = [resting |-> AfterRest(b, r), before |-> QueuesAfterRest(b, r), window |-> w]
    PROVE  Sound(a) /\ Within(a, b, r.id, r.side)
<1> DEFINE kept == AfterTrades(b, r)
           behind == {k \in DOMAIN kept : kept[k].side = r.side /\ kept[k].price = r.price}
           new == [side |-> r.side, price |-> r.price, qty |-> Unfilled(b, r)]
<1>1. /\ DOMAIN kept \subseteq DOMAIN b.resting
      /\ kept \in [DOMAIN kept -> OrderAt]
      /\ \A o \in DOMAIN kept : /\ kept[o].side = b.resting[o].side
                                /\ kept[o].price = b.resting[o].price
  BY BookedLimit, KeptIs
<1>2. new \in OrderAt BY BookedLimit, UnfilledIs DEF OrderAt, LimitOrder
<1>3. /\ a.resting = [o \in DOMAIN kept \cup {r.id} |-> IF o = r.id THEN new ELSE kept[o]]
      /\ a.before = Among(b, DOMAIN kept) \cup {<<o, r.id>> : o \in behind}
      /\ a.window = w
      /\ a = [resting |-> a.resting, before |-> a.before, window |-> a.window]
  BY DEF AfterRest, QueuesAfterRest
<1>4. \A x, y : <<x, y>> \in a.before <=>
                  \/ <<x, y>> \in b.before /\ x \in DOMAIN kept /\ y \in DOMAIN kept
                  \/ x \in behind /\ y = r.id
  BY <1>3 DEF Among
<1>5. new.side = r.side /\ new.price = r.price OBVIOUS
<1>6. \A o \in behind : o \in DOMAIN kept /\ kept[o].side = r.side /\ kept[o].price = r.price OBVIOUS
<1>7. \A o \in DOMAIN kept : kept[o].side = r.side /\ kept[o].price = r.price => o \in behind OBVIOUS
<1> HIDE DEF kept, behind, new
<1>8. r.id \notin DOMAIN kept BY <1>1
<1>9. /\ DOMAIN a.resting = DOMAIN kept \cup {r.id}
      /\ a.resting[r.id] = new
      /\ \A o \in DOMAIN kept : a.resting[o] = kept[o]
  BY <1>3, <1>8
<1>10. a.resting \in [DOMAIN a.resting -> OrderAt]
  <2>1. \A o \in DOMAIN a.resting : a.resting[o] \in OrderAt BY <1>1, <1>2, <1>9
  <2>2. a.resting = [o \in DOMAIN a.resting |-> a.resting[o]] BY <1>3
  <2> QED BY <2>1, <2>2
<1>11. IsFiniteSet(DOMAIN a.resting)
  <2>1. IsFiniteSet(DOMAIN kept) BY <1>1, FS_Subset DEF Sound, Booked
  <2> QED BY <2>1, <1>9, FS_AddElement
<1>12. \A x, y \in DOMAIN kept : SamePlace(a, x, y) <=> SamePlace(b, x, y)
  BY <1>1, <1>9 DEF SamePlace
<1>13. \A x \in DOMAIN kept : (SamePlace(a, x, r.id) <=> x \in behind) /\ (SamePlace(a, r.id, x) <=> x \in behind)
  BY <1>5, <1>6, <1>7, <1>9 DEF SamePlace
<1>14. \A x, y : <<x, y>> \in a.before =>
         x \in DOMAIN a.resting /\ y \in DOMAIN a.resting /\ x # y /\ SamePlace(a, x, y)
  BY <1>4, <1>6, <1>8, <1>9, <1>12, <1>13 DEF Sound, Booked, Queued
<1>15. \A x, y, z : <<x, y>> \in a.before /\ <<y, z>> \in a.before => <<x, z>> \in a.before
  <2> SUFFICES ASSUME NEW x, NEW y, NEW z, <<x, y>> \in a.before, <<y, z>> \in a.before
               PROVE  <<x, z>> \in a.before
    OBVIOUS
  <2>1. <<x, y>> \in b.before /\ x \in DOMAIN kept /\ y \in DOMAIN kept BY <1>4, <1>6, <1>8
  <2>2. CASE <<y, z>> \in b.before /\ z \in DOMAIN kept
    BY <1>4, <2>1, <2>2 DEF Sound, Booked, Queued
  <2>3. CASE y \in behind /\ z = r.id
    <3>1. SamePlace(b, x, y) BY <2>1 DEF Sound, Booked, Queued
    <3>2. x \in behind BY <1>1, <1>6, <1>7, <2>1, <2>3, <3>1 DEF SamePlace
    <3> QED BY <1>4, <2>3, <3>2
  <2> QED BY <1>4, <2>2, <2>3
<1>16. \A x, y \in DOMAIN a.resting :
         x # y /\ SamePlace(a, x, y) => <<x, y>> \in a.before \/ <<y, x>> \in a.before
  <2> SUFFICES ASSUME NEW x \in DOMAIN a.resting, NEW y \in DOMAIN a.resting, x # y, SamePlace(a, x, y)
               PROVE  <<x, y>> \in a.before \/ <<y, x>> \in a.before
    OBVIOUS
  <2>1. CASE x = r.id BY <2>1, <1>4, <1>9, <1>13
  <2>2. CASE y = r.id BY <2>2, <1>4, <1>9, <1>13
  <2>3. CASE x # r.id /\ y # r.id
    <3>1. x \in DOMAIN kept /\ y \in DOMAIN kept BY <2>3, <1>9
    <3>2. SamePlace(b, x, y) BY <3>1, <1>12
    <3>3. <<x, y>> \in b.before \/ <<y, x>> \in b.before BY <3>1, <3>2, <1>1 DEF Sound, Booked, Queued
    <3> QED BY <3>1, <3>3, <1>4
  <2> QED BY <2>1, <2>2, <2>3
<1>17. Queued(a) BY <1>14, <1>15, <1>16 DEF Queued
<1>18. Within(a, b, r.id, r.side) BY <1>1, <1>5, <1>8, <1>9 DEF Within
<1> QED BY <1>3, <1>10, <1>11, <1>17, <1>18 DEF Sound, Booked

\* add(): the book it leaves, and what rests there when it did not throw.
LEMMA AddSound ==
    ASSUME NEW b, Sound(b), NEW r \in LimitOrder, r.id \notin DOMAIN b.resting
    PROVE  /\ Sound(AfterAdd(b, r))
           /\ Within(AfterAdd(b, r), b, r.id, r.side)
           /\ ~AddThrows(b, r) =>
                AfterAdd(b, r).resting = IF Unfilled(b, r) > 0 THEN AfterRest(b, r) ELSE AfterTrades(b, r)
           /\ AddThrows(b, r) => r.id \notin DOMAIN AfterAdd(b, r).resting
<1> DEFINE w == IF Remains(b, r) /\ Fits(b.window, r.price) THEN Covering(b.window, r.price) ELSE b.window
           a == AfterAdd(b, r)
<1>1. w \in Window
  <2>1. r.price \in Int /\ b.window \in Window BY OrderAssumption DEF LimitOrder, Sound, Booked
  <2> QED BY <2>1, CoveringIsWindow
<1>2. a = IF Remains(b, r) /\ ~AddThrows(b, r)
          THEN [resting |-> AfterRest(b, r), before |-> QueuesAfterRest(b, r), window |-> w]
          ELSE [TradedOnly(b, r) EXCEPT !.window = w]
  BY DEF AfterAdd
<1>3. Remains(b, r) <=> Unfilled(b, r) > 0 BY DEF Remains, LimitOrder
<1> HIDE DEF w, a
<1>4. CASE Remains(b, r) /\ ~AddThrows(b, r)
  <2>1. a = [resting |-> AfterRest(b, r), before |-> QueuesAfterRest(b, r), window |-> w] BY <1>2, <1>4
  <2>2. a.resting = AfterRest(b, r) BY <2>1
  <2> QED BY <1>1, <1>3, <1>4, <2>1, <2>2, RestedSound DEF a
<1>5. CASE ~(Remains(b, r) /\ ~AddThrows(b, r))
  <2>1. a = [TradedOnly(b, r) EXCEPT !.window = w] BY <1>2, <1>5
  <2>2. ~AddThrows(b, r) => ~(Unfilled(b, r) > 0) BY <1>3, <1>5
  <2>3. Sound(a) /\ a.resting = AfterTrades(b, r) /\ Within(a, b, r.id, r.side)
    BY <1>1, <2>1, TradedOnlySound
  <2>4. r.id \notin DOMAIN AfterTrades(b, r) BY BookedLimit, KeptIs
  <2> QED BY <2>2, <2>3, <2>4 DEF a
<1> QED BY <1>4, <1>5

\* cancel(): the order is gone, and nothing else.
LEMMA CancelSound ==
    ASSUME NEW b, Sound(b), NEW id
    PROVE  /\ Sound(AfterCancel(b, id))
           /\ AfterCancel(b, id).resting = [o \in DOMAIN b.resting \ {id} |-> b.resting[o]]
<1> DEFINE orders == [o \in DOMAIN b.resting \ {id} |-> b.resting[o]]
<1>1. /\ DOMAIN orders \subseteq DOMAIN b.resting
      /\ \A o \in DOMAIN orders : orders[o] = b.resting[o] /\ orders[o] \in OrderAt
      /\ orders = [o \in DOMAIN orders |-> orders[o]]
  BY DEF Sound, Booked
<1>2. b.window \in Window /\ b = [resting |-> b.resting, before |-> b.before, window |-> b.window]
  BY DEF Sound, Booked
<1>3. PICK v : v = Among(b, DOMAIN orders) OBVIOUS
<1>4. AfterCancel(b, id) = [b EXCEPT !.resting = orders, !.before = v]
  BY <1>3 DEF AfterCancel, WithResting
<1> HIDE DEF orders
<1>5. orders \in [DOMAIN orders -> OrderAt] BY <1>1
<1>6. Sound([resting |-> orders, before |-> Among(b, DOMAIN orders), window |-> b.window])
  BY <1>1, <1>2, <1>5, NarrowSound
<1>7. AfterCancel(b, id) = [resting |-> orders, before |-> v, window |-> b.window] BY <1>2, <1>4
<1> QED BY <1>3, <1>6, <1>7 DEF orders

\* What a is of b: without order id, or with fewer of its shares.
WithLess(a, b, id, delta) ==
    /\ id \notin DOMAIN b.resting => a = b
    /\ id \in DOMAIN b.resting /\ delta >= b.resting[id].qty =>
         a.resting = [o \in DOMAIN b.resting \ {id} |-> b.resting[o]]
    /\ id \in DOMAIN b.resting /\ ~(delta >= b.resting[id].qty) =>
         a.resting = [b.resting EXCEPT ![id].qty = @ - delta]

\* reduce(): the order loses shares, all of them at most, and nothing else changes.
LEMMA ReduceSound ==
    ASSUME NEW b, Sound(b), NEW id, NEW delta \in Nat,
           NEW a, a = AfterReduce(b, id, delta)
    PROVE  Sound(a) /\ WithLess(a, b, id, delta)
<1>1. CASE id \notin DOMAIN b.resting BY <1>1 DEF AfterReduce, WithLess
<1>2. CASE id \in DOMAIN b.resting /\ delta >= b.resting[id].qty
  BY <1>2, CancelSound DEF AfterReduce, WithLess
<1>3. CASE id \in DOMAIN b.resting /\ ~(delta >= b.resting[id].qty)
  <2> DEFINE orders == [b.resting EXCEPT ![id].qty = @ - delta]
  <2>1. b = [resting |-> b.resting, before |-> b.before, window |-> b.window]
        /\ b.resting \in [DOMAIN b.resting -> OrderAt]
    BY DEF Sound, Booked
  <2>2. a = [b EXCEPT !.resting[id].qty = @ - delta] BY <1>3 DEF AfterReduce
  <2>3. a = [resting |-> orders, before |-> b.before, window |-> b.window] BY <2>1, <2>2
  <2>4. /\ DOMAIN orders = DOMAIN b.resting
        /\ \A o \in DOMAIN orders : /\ orders[o] \in OrderAt
                                    /\ orders[o].side = b.resting[o].side
                                    /\ orders[o].price = b.resting[o].price
        /\ orders = [o \in DOMAIN orders |-> orders[o]]
    <3>1. b.resting[id] \in OrderAt /\ b.resting[id].qty - delta \in Nat BY <1>3, <2>1 DEF OrderAt
    <3>2. [b.resting[id] EXCEPT !.qty = b.resting[id].qty - delta] \in OrderAt BY <3>1 DEF OrderAt
    <3> QED BY <1>3, <2>1, <3>1, <3>2 DEF OrderAt
  <2> HIDE DEF orders
  <2>5. orders \in [DOMAIN orders -> OrderAt] BY <2>4
  <2>6. a.resting = orders /\ a.before = b.before /\ a.window = b.window BY <2>3
  <2>7. \A x, y \in DOMAIN orders : SamePlace(a, x, y) <=> SamePlace(b, x, y)
    BY <2>4, <2>6 DEF SamePlace
  <2>8. Queued(a) BY <2>4, <2>6, <2>7 DEF Queued, Sound, Booked
  <2>9. Sound(a) BY <2>3, <2>4, <2>5, <2>6, <2>8 DEF Sound, Booked
  <2> QED BY <1>3, <2>6, <2>9 DEF orders, WithLess
<1> QED BY <1>1, <1>2, <1>3
------------------------------------------------------------------------------
(* Books, routes and counters *)

Believed(rt, k) ==
    IF k[2] = NoMpid THEN 0 ELSE Cardinality({id \in DOMAIN rt : Key(rt[id]) = k})

Covered(bks, rt) ==
    \A s \in Symbol : \A id \in DOMAIN bks[s].resting :
        /\ id \in DOMAIN rt
        /\ rt[id].symbol = s
        /\ rt[id].side = bks[s].resting[id].side

OneSided(bks, rt) ==
    \A s \in Symbol : \A x, y \in DOMAIN bks[s].resting :
        /\ rt[x].mpid = rt[y].mpid
        /\ rt[x].mpid # NoMpid
        => bks[s].resting[x].side = bks[s].resting[y].side

\* The books, the routes of their orders and the counters agree.
Agree(bks, rt, cnt) ==
    /\ bks = [s \in Symbol |-> bks[s]]
    /\ \A s \in Symbol : Sound(bks[s])
    /\ IsFiniteSet(DOMAIN rt)
    /\ \A id \in DOMAIN rt : rt[id] \in Infos
    /\ cnt \in [Symbol \X Mpid \X Side -> Nat]
    /\ \A k \in Symbol \X Mpid \X Side : cnt[k] = Believed(rt, k)
    /\ Covered(bks, rt)
    /\ OneSided(bks, rt)

\* The key of a route is one of the counters'.
LEMMA KeyIs ==
    ASSUME NEW info \in Infos
    PROVE  /\ Key(info) \in Symbol \X Mpid \X Side
           /\ Key(info) = <<info.symbol, info.mpid, info.side>>
           /\ Key(info)[2] = info.mpid
BY DEF Key, Infos

\* A book that loses orders, or shares of them, still agrees.
LEMMA AgreeNarrow ==
    ASSUME NEW bks, NEW rt, NEW cnt, Agree(bks, rt, cnt), NEW sym \in Symbol, NEW a, Sound(a),
           DOMAIN a.resting \subseteq DOMAIN bks[sym].resting,
           \A o \in DOMAIN a.resting : a.resting[o].side = bks[sym].resting[o].side
    PROVE  Agree([bks EXCEPT ![sym] = a], rt, cnt)
<1> DEFINE new == [bks EXCEPT ![sym] = a]
<1>1. /\ new = [s \in Symbol |-> new[s]]
      /\ \A s \in Symbol : new[s] = IF s = sym THEN a ELSE bks[s]
  BY DEF Agree
<1> HIDE DEF new
<1>2. \A s \in Symbol : Sound(new[s]) BY <1>1 DEF Agree
<1>3. \A s \in Symbol : \A o \in DOMAIN new[s].resting :
        o \in DOMAIN bks[s].resting /\ new[s].resting[o].side = bks[s].resting[o].side
  BY <1>1
<1>4. Covered(new, rt) BY <1>3 DEF Agree, Covered
<1>5. OneSided(new, rt) BY <1>3 DEF Agree, OneSided
<1> QED BY <1>1, <1>2, <1>4, <1>5 DEF Agree, new

\* The route of an order that rests nowhere goes, and its counter with it.
LEMMA AgreeRemove ==
    ASSUME NEW bks, NEW rt, NEW cnt, Agree(bks, rt, cnt), NEW id \in DOMAIN rt,
           \A s \in Symbol : id \notin DOMAIN bks[s].resting,
           NEW less, less = [o \in DOMAIN rt \ {id} |-> rt[o]]
    PROVE  Agree(bks, less, NoteRemoved(cnt, rt[id]))
<1> DEFINE info == rt[id]
           cnt1 == NoteRemoved(cnt, info)
<1>1. /\ info \in Infos /\ IsFiniteSet(DOMAIN rt)
      /\ cnt \in [Symbol \X Mpid \X Side -> Nat]
      /\ \A k \in Symbol \X Mpid \X Side : cnt[k] = Believed(rt, k)
  BY DEF Agree
<1>2. /\ DOMAIN less = DOMAIN rt \ {id}
      /\ \A o \in DOMAIN less : less[o] = rt[o]
      /\ IsFiniteSet(DOMAIN less)
  BY <1>1, FS_RemoveElement
<1>3. ASSUME NEW k \in Symbol \X Mpid \X Side
      PROVE  Believed(less, k) = IF k = Key(info) /\ info.mpid # NoMpid THEN Believed(rt, k) - 1
                                 ELSE Believed(rt, k)
  <2> DEFINE was == {o \in DOMAIN rt : Key(rt[o]) = k}
             is == {o \in DOMAIN less : Key(less[o]) = k}
  <2>1. IsFiniteSet(was) BY <1>1, FS_Subset
  <2>2. CASE k = Key(info)
    <3>1. is = was \ {id} /\ id \in was BY <1>2, <2>2
    <3>2. Cardinality(is) = Cardinality(was) - 1 BY <2>1, <3>1, FS_RemoveElement
    <3> HIDE DEF is, was
    <3>3. k[2] = info.mpid BY <1>1, <2>2, KeyIs
    <3> QED BY <2>2, <3>2, <3>3 DEF Believed, is, was
  <2>3. CASE k # Key(info)
    <3>1. is = was BY <1>2, <2>3
    <3> HIDE DEF info
    <3> QED BY <2>3, <3>1 DEF Believed
  <2> QED BY <2>2, <2>3
<1>4. Key(info) \in Symbol \X Mpid \X Side /\ Key(info)[2] = info.mpid BY <1>1, KeyIs
<1>5. info.mpid # NoMpid => cnt[Key(info)] # 0
  <2> SUFFICES ASSUME info.mpid # NoMpid PROVE cnt[Key(info)] # 0 OBVIOUS
  <2> DEFINE was == {o \in DOMAIN rt : Key(rt[o]) = Key(info)}
  <2>1. id \in was /\ IsFiniteSet(was) BY <1>1, FS_Subset
  <2>2. Cardinality(was) # 0 BY <2>1, FS_EmptySet
  <2> QED BY <1>1, <1>4, <2>2 DEF Believed
<1> HIDE DEF info
<1>6. cnt1 = IF info.mpid = NoMpid THEN cnt ELSE [cnt EXCEPT ![Key(info)] = cnt[Key(info)] - 1]
  BY <1>5 DEF NoteRemoved
<1>7. /\ cnt1 \in [Symbol \X Mpid \X Side -> Nat]
      /\ \A k \in Symbol \X Mpid \X Side : cnt1[k] = Believed(less, k)
  <2> HIDE DEF cnt1
  <2>1. CASE info.mpid = NoMpid BY <1>1, <1>3, <1>6, <2>1
  <2>2. CASE info.mpid # NoMpid
    <3>1. cnt[Key(info)] \in Nat /\ cnt[Key(info)] # 0 BY <1>1, <1>4, <1>5, <2>2
    <3>2. cnt[Key(info)] - 1 \in Nat BY <3>1
    <3>3. \A k \in Symbol \X Mpid \X Side :
            cnt1[k] = IF k = Key(info) THEN cnt[k] - 1 ELSE cnt[k]
      BY <1>1, <1>6, <2>2
    <3>4. \A k \in Symbol \X Mpid \X Side : cnt1[k] = Believed(less, k)
      BY <1>1, <1>3, <2>2, <3>3
    <3>5. cnt1 \in [Symbol \X Mpid \X Side -> Nat] BY <1>1, <1>6, <2>2, <3>2
    <3> QED BY <3>4, <3>5
  <2> QED BY <2>1, <2>2
<1>8. \A s \in Symbol : \A o \in DOMAIN bks[s].resting : o \in DOMAIN less /\ less[o] = rt[o]
  BY <1>2 DEF Agree, Covered
<1>9. Covered(bks, less) BY <1>8 DEF Agree, Covered
<1>10. OneSided(bks, less) BY <1>8 DEF Agree, OneSided
<1>11. \A o \in DOMAIN less : less[o] \in Infos BY <1>2 DEF Agree
<1> QED BY <1>2, <1>7, <1>9, <1>10, <1>11 DEF Agree, info

\* An order the risk check let through is routed and counted.
LEMMA AgreeAdd ==
    ASSUME NEW bks, NEW rt, NEW cnt, Agree(bks, rt, cnt), NEW id, id \notin DOMAIN rt,
           NEW info \in Infos, ~MayMeetItself(info, cnt),
           NEW a, Sound(a), Within(a, bks[info.symbol], id, info.side),
           NEW more, DOMAIN more = DOMAIN rt \cup {id}, more[id] = info,
           \A o \in DOMAIN rt : more[o] = rt[o]
    PROVE  Agree([bks EXCEPT ![info.symbol] = a], more, NoteResting(cnt, info))
<1> DEFINE cnt1 == NoteResting(cnt, info)
           sym == info.symbol
           new == [bks EXCEPT ![sym] = a]
<1>1. /\ IsFiniteSet(DOMAIN rt) /\ sym \in Symbol
      /\ cnt \in [Symbol \X Mpid \X Side -> Nat]
      /\ \A k \in Symbol \X Mpid \X Side : cnt[k] = Believed(rt, k)
      /\ new = [s \in Symbol |-> new[s]]
      /\ \A s \in Symbol : new[s] = IF s = sym THEN a ELSE bks[s]
  BY DEF Agree, Infos
<1> HIDE DEF new, sym
<1>2. IsFiniteSet(DOMAIN more) BY <1>1, FS_AddElement
<1>3. ASSUME NEW k \in Symbol \X Mpid \X Side
      PROVE  Believed(more, k) = IF k = Key(info) /\ info.mpid # NoMpid THEN Believed(rt, k) + 1
                                 ELSE Believed(rt, k)
  <2> DEFINE was == {o \in DOMAIN rt : Key(rt[o]) = k}
             is == {o \in DOMAIN more : Key(more[o]) = k}
  <2>1. IsFiniteSet(was) BY <1>1, FS_Subset
  <2>2. CASE k = Key(info)
    <3>1. is = was \cup {id} /\ id \notin was BY <2>2
    <3>2. Cardinality(is) = Cardinality(was) + 1 BY <2>1, <3>1, FS_AddElement
    <3> HIDE DEF is, was
    <3>3. k[2] = info.mpid BY <2>2, KeyIs
    <3> QED BY <2>2, <3>2, <3>3 DEF Believed, is, was
  <2>3. CASE k # Key(info)
    <3>1. is = was BY <2>3
    <3> QED BY <2>3, <3>1 DEF Believed
  <2> QED BY <2>2, <2>3
<1>4. Key(info) \in Symbol \X Mpid \X Side BY KeyIs
<1>5. /\ cnt1 \in [Symbol \X Mpid \X Side -> Nat]
      /\ \A k \in Symbol \X Mpid \X Side : cnt1[k] = Believed(more, k)
  <2>1. CASE info.mpid = NoMpid BY <1>1, <1>3, <2>1 DEF NoteResting
  <2>2. CASE info.mpid # NoMpid
    <3>1. cnt1 = [cnt EXCEPT ![Key(info)] = cnt[Key(info)] + 1] BY <2>2 DEF NoteResting
    <3> HIDE DEF cnt1
    <3>2. \A k \in Symbol \X Mpid \X Side :
            cnt1[k] = IF k = Key(info) THEN cnt[k] + 1 ELSE cnt[k]
      BY <1>1, <3>1
    <3>3. \A k \in Symbol \X Mpid \X Side : cnt1[k] = Believed(more, k)
      BY <1>1, <1>3, <2>2, <3>2
    <3>4. cnt[Key(info)] + 1 \in Nat BY <1>1, <1>4
    <3>5. cnt1 \in [Symbol \X Mpid \X Side -> Nat] BY <1>1, <3>1, <3>4
    <3> QED BY <3>3, <3>5
  <2> QED BY <2>1, <2>2
<1> HIDE DEF cnt1
<1>6. \A s \in Symbol : \A o \in DOMAIN bks[s].resting :
        /\ o \in DOMAIN rt /\ o # id
        /\ rt[o].symbol = s /\ rt[o].side = bks[s].resting[o].side
        /\ more[o] = rt[o]
  BY DEF Agree, Covered
<1>7. \A s \in Symbol : \A o \in DOMAIN new[s].resting :
        \/ /\ o \in DOMAIN bks[s].resting /\ o # id /\ more[o] = rt[o]
           /\ new[s].resting[o].side = bks[s].resting[o].side
        \/ o = id /\ s = sym /\ new[s].resting[o].side = info.side
  BY <1>1, <1>6 DEF Within, sym
<1>8. Covered(new, more) BY <1>6, <1>7 DEF Covered, sym
<1>9. ASSUME NEW o \in DOMAIN bks[sym].resting, rt[o].mpid = info.mpid, info.mpid # NoMpid
      PROVE  bks[sym].resting[o].side = info.side
  <2> SUFFICES ASSUME bks[sym].resting[o].side # info.side PROVE FALSE OBVIOUS
  <2> DEFINE k == <<info.symbol, info.mpid, Opposite(info.side)>>
             was == {x \in DOMAIN rt : Key(rt[x]) = k}
  <2>1. o \in DOMAIN rt /\ rt[o].symbol = sym /\ rt[o].side # info.side BY <1>1, <1>6
  <2>2. rt[o] \in Infos BY <2>1 DEF Agree
  <2>3. rt[o].side = Opposite(info.side) BY <2>1, <2>2 DEF Infos, Side, Opposite
  <2>4. Key(rt[o]) = k BY <1>9, <2>1, <2>3 DEF Key, sym
  <2>5. o \in was /\ IsFiniteSet(was) BY <1>1, <2>1, <2>4, FS_Subset
  <2>6. Cardinality(was) # 0 /\ Cardinality(was) \in Nat BY <2>5, FS_EmptySet, FS_CardinalityType
  <2>7. k \in Symbol \X Mpid \X Side BY <2>2, <2>4, KeyIs
  <2>8. k[2] = info.mpid OBVIOUS
  <2> HIDE DEF k
  <2>9. cnt[k] = Cardinality(was) BY <1>1, <1>9, <2>7, <2>8 DEF Believed
  <2> QED BY <1>9, <2>6, <2>9 DEF MayMeetItself, k
<1>10. OneSided(new, more)
  <2> SUFFICES ASSUME NEW s \in Symbol, NEW x \in DOMAIN new[s].resting, NEW y \in DOMAIN new[s].resting,
                      more[x].mpid = more[y].mpid, more[x].mpid # NoMpid
               PROVE  new[s].resting[x].side = new[s].resting[y].side
    BY DEF OneSided
  <2>1. CASE x = id /\ y = id BY <2>1
  <2>2. CASE x = id /\ y # id BY <2>2, <1>6, <1>7, <1>9
  <2>3. CASE x # id /\ y = id BY <2>3, <1>6, <1>7, <1>9
  <2>4. CASE x # id /\ y # id BY <2>4, <1>7 DEF Agree, OneSided
  <2> QED BY <2>1, <2>2, <2>3, <2>4
<1>11. \A o \in DOMAIN more : more[o] \in Infos BY DEF Agree
<1>12. \A s \in Symbol : Sound(new[s]) BY <1>1 DEF Agree
<1> QED BY <1>1, <1>2, <1>5, <1>8, <1>10, <1>11, <1>12 DEF Agree, new, sym, cnt1
------------------------------------------------------------------------------
(* Applying market data events *)

\* after is what the subscriber has after each of the first n events.
IsApplying(after, sh, events, n) ==
    after = [i \in 0 .. n |-> IF i = 0 THEN sh ELSE Apply(after[i - 1], events[i])]

\* There is such a function: a least n without one is not 0, and what there is
\* for n - 1 goes one event further.
LEMMA ApplyingExists ==
    ASSUME NEW sh, NEW events, NEW n \in Nat
    PROVE  \E after : IsApplying(after, sh, events, n)
<1> DEFINE Missing == {x \in Nat : ~\E after : IsApplying(after, sh, events, x)}
<1> SUFFICES ASSUME Missing # {} PROVE FALSE OBVIOUS
<1>1. PICK x \in Missing : \A y \in Missing : x <= y BY LeastNat
<1>2. x # 0
  <2>1. IsApplying([i \in 0 .. 0 |-> sh], sh, events, 0) BY DEF IsApplying
  <2> QED BY <2>1
<1>3. x - 1 \in Nat /\ x - 1 \notin Missing BY <1>1, <1>2
<1>4. PICK f : IsApplying(f, sh, events, x - 1) BY <1>3
<1> DEFINE g == [i \in 0 .. x |-> IF i = x THEN Apply(f[x - 1], events[x]) ELSE f[i]]
<1>5. \A i \in 0 .. (x - 1) : f[i] = IF i = 0 THEN sh ELSE Apply(f[i - 1], events[i])
  BY <1>4 DEF IsApplying
<1>6. \A i \in 0 .. x : g[i] = IF i = 0 THEN sh ELSE Apply(g[i - 1], events[i])
  <2> TAKE i \in 0 .. x
  <2>1. CASE i = x BY <2>1, <1>2, <1>3
  <2>2. CASE i # x
    <3>1. i \in 0 .. (x - 1) /\ g[i] = f[i] BY <2>2, <1>3
    <3>2. i # 0 => g[i - 1] = f[i - 1] BY <3>1, <1>3
    <3> QED BY <3>1, <3>2, <1>5
  <2> QED BY <2>1, <2>2
<1>7. IsApplying(g, sh, events, x) BY <1>6 DEF IsApplying
<1> QED BY <1>7

\* There is only one, so Applied is its last value.
LEMMA AppliedIs ==
    ASSUME NEW sh, NEW events, Len(events) \in Nat, NEW f, IsApplying(f, sh, events, Len(events))
    PROVE  Applied(sh, events) = f[Len(events)]
<1> DEFINE n == Len(events)
           g == CHOOSE after : IsApplying(after, sh, events, n)
           Differ == {i \in 0 .. n : f[i] # g[i]}
<1>1. IsApplying(g, sh, events, n) /\ n \in Nat BY ApplyingExists
<1>2. Applied(sh, events) = g[n] BY DEF Applied, IsApplying
<1> HIDE DEF g, n
<1>3. Differ = {}
  <2> SUFFICES ASSUME Differ # {} PROVE FALSE OBVIOUS
  <2>1. Differ \in SUBSET Nat OBVIOUS
  <2>2. PICK x \in Differ : \A y \in Differ : x <= y BY <2>1, LeastNat
  <2>3. f[x] = IF x = 0 THEN sh ELSE Apply(f[x - 1], events[x]) BY DEF IsApplying, n
  <2>4. g[x] = IF x = 0 THEN sh ELSE Apply(g[x - 1], events[x]) BY <1>1 DEF IsApplying
  <2>5. x # 0 BY <2>3, <2>4
  <2>6. x - 1 \in 0 .. n /\ x - 1 \notin Differ BY <1>1, <2>2, <2>5
  <2> QED BY <2>3, <2>4, <2>5, <2>6
<1>4. n \in 0 .. n BY <1>1
<1> QED BY <1>2, <1>3, <1>4 DEF n

\* One event, and one event before others.
LEMMA AppliedOne ==
    ASSUME NEW sh, NEW ev
    PROVE  Applied(sh, <<ev>>) = Apply(sh, ev)
<1> DEFINE events == <<ev>>
           f == [i \in 0 .. 1 |-> IF i = 0 THEN sh ELSE Apply(sh, ev)]
<1>1. Len(events) = 1 /\ events[1] = ev OBVIOUS
<1>2. \A i \in 0 .. 1 : f[i] = IF i = 0 THEN sh ELSE Apply(f[i - 1], events[i])
  <2> TAKE i \in 0 .. 1
  <2>1. f[0] = sh /\ f[1] = Apply(sh, ev) /\ i \in {0, 1} OBVIOUS
  <2> HIDE DEF f
  <2> QED BY <1>1, <2>1
<1> HIDE DEF events
<1>3. IsApplying(f, sh, events, 1) BY <1>2 DEF IsApplying
<1>4. f[1] = Apply(sh, ev) OBVIOUS
<1> HIDE DEF f
<1>5. Applied(sh, events) = f[1] BY <1>1, <1>3, AppliedIs
<1> QED BY <1>4, <1>5 DEF events

\* The first event can be applied before the others are looked at.
LEMMA AppliedFirst ==
    ASSUME NEW sh, NEW ev, NEW E, NEW events \in Seq(E)
    PROVE  Applied(sh, <<ev>> \o events) = Applied(Apply(sh, ev), events)
<1> DEFINE all == <<ev>> \o events
           n == Len(events)
<1>1. n \in Nat /\ Len(all) = n + 1 /\ all[1] = ev /\ \A i \in 1 .. n : all[i + 1] = events[i]
  OBVIOUS
<1>2. PICK g : IsApplying(g, sh, all, n + 1)
  <2>1. n + 1 \in Nat BY <1>1
  <2> QED BY <2>1, ApplyingExists
<1> DEFINE f == [i \in 0 .. n |-> g[i + 1]]
<1> HIDE DEF all
<1>3. \A i \in 0 .. (n + 1) : g[i] = IF i = 0 THEN sh ELSE Apply(g[i - 1], all[i])
  BY <1>2 DEF IsApplying
<1>4. g[1] = Apply(sh, ev)
  <2>1. 0 \in 0 .. (n + 1) /\ 1 \in 0 .. (n + 1) BY <1>1
  <2>2. g[0] = sh /\ g[1] = Apply(g[1 - 1], all[1]) BY <2>1, <1>3
  <2> QED BY <2>2, <1>1
<1>5. \A i \in 0 .. n : f[i] = IF i = 0 THEN Apply(sh, ev) ELSE Apply(f[i - 1], events[i])
  <2> TAKE i \in 0 .. n
  <2>1. CASE i = 0 BY <2>1, <1>4
  <2>2. CASE i # 0
    <3>1. i + 1 \in 0 .. (n + 1) /\ i + 1 # 0 /\ (i + 1) - 1 = i /\ i \in 1 .. n BY <2>2, <1>1
    <3>2. g[i + 1] = Apply(g[i], all[i + 1]) BY <3>1, <1>3
    <3>3. f[i] = g[i + 1] /\ f[i - 1] = g[i] BY <3>1
    <3> QED BY <2>2, <3>1, <3>2, <3>3, <1>1
  <2> QED BY <2>1, <2>2
<1>6. IsApplying(f, Apply(sh, ev), events, n) BY <1>5 DEF IsApplying
<1>7. f[n] = g[n + 1] BY <1>1
<1> HIDE DEF f
<1>8. Applied(Apply(sh, ev), events) = f[n] BY <1>1, <1>6, AppliedIs
<1>9. Applied(sh, all) = g[n + 1] BY <1>1, <1>2, AppliedIs
<1> QED BY <1>7, <1>8, <1>9 DEF all
------------------------------------------------------------------------------
(* The subscriber's books *)

\* Every order the subscriber holds is a full entry.
Held(sh) ==
    /\ sh = [id \in DOMAIN sh |-> sh[id]]
    /\ \A id \in DOMAIN sh : sh[id] \in Entries

\* An event as the sequencer publishes it.
Published(ev) ==
    \/ ev.type \in {"Add", "Replace"} /\ ev.entry \in Entries
    \/ ev.type = "Delete"
    \/ ev.type = "Take" /\ ev.shares \in Nat

\* One event leaves a typed book typed.
LEMMA ApplyHeld ==
    ASSUME NEW sh, Held(sh), NEW ev, Published(ev)
    PROVE  Held(Apply(sh, ev))
<1>1. ASSUME NEW id PROVE Held(Drop(sh, id))
  <2>1. DOMAIN Drop(sh, id) = DOMAIN sh \ {id} /\ \A o \in DOMAIN Drop(sh, id) : Drop(sh, id)[o] = sh[o]
    BY DEF Drop
  <2>2. Drop(sh, id) = [o \in DOMAIN Drop(sh, id) |-> Drop(sh, id)[o]] BY DEF Drop
  <2> QED BY <2>1, <2>2 DEF Held
<1>2. ASSUME NEW s, Held(s), NEW id, NEW e \in Entries PROVE Held(Put(s, id, e))
  <2>1. /\ DOMAIN Put(s, id, e) = DOMAIN s \cup {id}
        /\ \A o \in DOMAIN Put(s, id, e) : Put(s, id, e)[o] = IF o = id THEN e ELSE s[o]
        /\ Put(s, id, e) = [o \in DOMAIN Put(s, id, e) |-> Put(s, id, e)[o]]
    BY DEF Put
  <2> QED BY <1>2, <2>1 DEF Held
<1>3. CASE ev.type = "Add"
  <2>1. Apply(sh, ev) = Put(sh, ev.new, ev.entry) BY <1>3 DEF Apply
  <2> QED BY <1>2, <1>3, <2>1 DEF Published
<1>4. CASE ev.type = "Replace"
  <2>1. Apply(sh, ev) = Put(Drop(sh, ev.id), ev.new, ev.entry) BY <1>4 DEF Apply
  <2> QED BY <1>1, <1>2, <1>4, <2>1 DEF Published
<1>5. CASE ev.type = "Delete" BY <1>1, <1>5 DEF Apply
<1>6. CASE ev.type = "Take" /\ ev.id \notin DOMAIN sh BY <1>6 DEF Apply
<1>7. CASE ev.type = "Take" /\ ev.id \in DOMAIN sh /\ ev.shares >= sh[ev.id].qty
  BY <1>1, <1>7 DEF Apply
<1>8. CASE ev.type = "Take" /\ ev.id \in DOMAIN sh /\ ~(ev.shares >= sh[ev.id].qty)
  <2>1. Apply(sh, ev) = [sh EXCEPT ![ev.id].qty = @ - ev.shares] BY <1>8 DEF Apply
  <2>2. ev.shares \in Nat /\ sh[ev.id] \in Entries BY <1>8 DEF Published, Held
  <2>3. sh[ev.id].qty - ev.shares \in Nat BY <1>8, <2>2 DEF Entries
  <2>4. [sh[ev.id] EXCEPT !.qty = sh[ev.id].qty - ev.shares] \in Entries BY <2>2, <2>3 DEF Entries
  <2>5. /\ DOMAIN Apply(sh, ev) = DOMAIN sh
        /\ Apply(sh, ev) = [o \in DOMAIN Apply(sh, ev) |-> Apply(sh, ev)[o]]
        /\ \A o \in DOMAIN sh : Apply(sh, ev)[o] =
             IF o = ev.id THEN [sh[ev.id] EXCEPT !.qty = sh[ev.id].qty - ev.shares] ELSE sh[o]
    BY <1>8, <2>1
  <2> QED BY <2>4, <2>5 DEF Held
<1> QED BY <1>3, <1>4, <1>5, <1>6, <1>7, <1>8 DEF Published

\* What the subscriber keeps stays typed, however many events one message sends.
LEMMA AppliedHeld ==
    ASSUME NEW sh, Held(sh), NEW events, Len(events) \in Nat,
           \A i \in 1 .. Len(events) : Published(events[i])
    PROVE  Held(Applied(sh, events))
<1> DEFINE n == Len(events)
<1>1. PICK f : IsApplying(f, sh, events, n) BY ApplyingExists
<1>2. \A i \in 0 .. n : f[i] = IF i = 0 THEN sh ELSE Apply(f[i - 1], events[i]) BY <1>1 DEF IsApplying
<1> DEFINE Bad == {i \in 0 .. n : ~Held(f[i])}
<1>3. Bad = {}
  <2> SUFFICES ASSUME Bad # {} PROVE FALSE OBVIOUS
  <2>1. Bad \in SUBSET Nat OBVIOUS
  <2>2. PICK i \in Bad : \A j \in Bad : i <= j BY <2>1, LeastNat
  <2>3. i # 0 BY <1>2, <2>2
  <2>4. i - 1 \in 0 .. n /\ i \in 1 .. n /\ i - 1 \notin Bad BY <2>2, <2>3
  <2>5. Held(f[i - 1]) /\ f[i] = Apply(f[i - 1], events[i]) BY <1>2, <2>3, <2>4
  <2>6. Held(f[i]) BY <2>4, <2>5, ApplyHeld
  <2> QED BY <2>2, <2>6
<1>4. n \in 0 .. n OBVIOUS
<1>5. Held(f[n]) BY <1>3, <1>4
<1> QED BY <1>1, <1>5, AppliedIs

\* What is left of the orders m once the orders in done have given their fills.
Given(m, b, r, done) ==
    [o \in DOMAIN m \ (Exhausted(b, r) \cap done) |->
        IF o \in done THEN [m[o] EXCEPT !.qty = @ - FillOf(b, r, o)] ELSE m[o]]

\* One more maker is reported.
LEMMA GivenMore ==
    ASSUME NEW b, Sound(b), NEW r \in LimitOrder, NEW m,
           NEW done, NEW x \in Makers(b, r), x \notin done, x \in DOMAIN m,
           m[x].qty = b.resting[x].qty
    PROVE  Apply(Given(m, b, r, done), TakeEvent(x, FillOf(b, r, x))) = Given(m, b, r, done \cup {x})
<1> DEFINE g == Given(m, b, r, done)
           q == FillOf(b, r, x)
           ev == TakeEvent(x, q)
           h == Given(m, b, r, done \cup {x})
<1>1. /\ DOMAIN g = DOMAIN m \ (Exhausted(b, r) \cap done)
      /\ g = [o \in DOMAIN g |-> g[o]]
      /\ \A o \in DOMAIN g : g[o] = IF o \in done THEN [m[o] EXCEPT !.qty = @ - FillOf(b, r, o)] ELSE m[o]
  BY DEF Given
<1>2. /\ DOMAIN h = DOMAIN m \ (Exhausted(b, r) \cap (done \cup {x}))
      /\ h = [o \in DOMAIN h |-> h[o]]
      /\ \A o \in DOMAIN h : h[o] = IF o \in done \cup {x} THEN [m[o] EXCEPT !.qty = @ - FillOf(b, r, o)] ELSE m[o]
  BY DEF Given
<1>3. x \in DOMAIN g /\ g[x] = m[x] BY <1>1
<1>4. q \in Nat /\ q <= b.resting[x].qty /\ b.resting[x].qty \in Nat BY BookedLimit, FillIs DEF OrderAt
<1>5. q >= g[x].qty <=> x \in Exhausted(b, r) BY <1>3, <1>4 DEF Exhausted
<1>6. ev.type = "Take" /\ ev.id = x /\ ev.shares = q BY DEF TakeEvent
<1> HIDE DEF g, h, ev
<1>7. CASE x \in Exhausted(b, r)
  <2>1. Apply(g, ev) = Drop(g, x) BY <1>3, <1>5, <1>6, <1>7 DEF Apply
  <2>2. DOMAIN h = DOMAIN g \ {x} BY <1>1, <1>2, <1>7
  <2>3. \A o \in DOMAIN h : h[o] = g[o] BY <1>1, <1>2, <2>2
  <2>4. Drop(g, x) = [o \in DOMAIN h |-> g[o]] BY <2>2 DEF Drop
  <2>5. Drop(g, x) = h BY <1>2, <2>3, <2>4
  <2> QED BY <2>1, <2>5 DEF g, h, ev
<1>8. CASE x \notin Exhausted(b, r)
  <2>1. Apply(g, ev) = [g EXCEPT ![x].qty = @ - q] BY <1>3, <1>5, <1>6, <1>8 DEF Apply
  <2>2. DOMAIN h = DOMAIN g BY <1>1, <1>2, <1>8
  <2>3. h[x] = [m[x] EXCEPT !.qty = @ - q] BY <1>2, <1>3, <2>2
  <2>4. \A o \in DOMAIN h : o # x => h[o] = g[o] BY <1>1, <1>2, <2>2
  <2> HIDE DEF q
  <2>5. [g EXCEPT ![x].qty = @ - q] = [o \in DOMAIN h |-> IF o = x THEN [m[x] EXCEPT !.qty = @ - q] ELSE g[o]]
    BY <1>1, <1>3, <2>2
  <2>6. [g EXCEPT ![x].qty = @ - q] = h BY <1>2, <2>3, <2>4, <2>5
  <2> QED BY <2>1, <2>6 DEF g, h, ev, q
<1> QED BY <1>7, <1>8

\* All makers are: whatever order they come in, each is reported once.
LEMMA TradesShown ==
    ASSUME NEW b, Sound(b), NEW r \in LimitOrder, NEW m, m = [o \in DOMAIN m |-> m[o]],
           \A o \in Makers(b, r) : o \in DOMAIN m /\ m[o].qty = b.resting[o].qty
    PROVE  Applied(m, TradeEvents(Trades(b, r))) = Given(m, b, r, Makers(b, r))
<1> DEFINE t == Trades(b, r)
           n == Len(t)
           ev == TradeEvents(t)
           Done(i) == {t[j].maker : j \in 1 .. i}
           f == [i \in 0 .. n |-> Given(m, b, r, Done(i))]
<1>1. /\ n \in Nat
      /\ DOMAIN t = 1 .. n
      /\ \A i \in 1 .. n : t[i].maker \in Makers(b, r) /\ t[i].qty = FillOf(b, r, t[i].maker)
      /\ \A i, j \in 1 .. n : t[i].maker = t[j].maker => i = j
      /\ \A o \in Makers(b, r) : \E i \in 1 .. n : t[i].maker = o
  BY BookedLimit, TradesAre DEF TradesOfMakers
<1>2. /\ Len(ev) = n
      /\ \A i \in 1 .. n : ev[i] = TakeEvent(t[i].maker, FillOf(b, r, t[i].maker))
  BY <1>1 DEF TradeEvents
<1> HIDE DEF t, n, ev
<1>3. \A i \in 1 .. n : f[i] = Apply(f[i - 1], ev[i])
  <2> TAKE i \in 1 .. n
  <2>1. f[i] = Given(m, b, r, Done(i)) /\ f[i - 1] = Given(m, b, r, Done(i - 1)) BY <1>1
  <2>2. t[i].maker \notin Done(i - 1) BY <1>1
  <2>3. Done(i) = Done(i - 1) \cup {t[i].maker}
    <3>1. 1 .. i = (1 .. (i - 1)) \cup {i} BY <1>1
    <3> QED BY <3>1
  <2> HIDE DEF f, Done
  <2>4. t[i].maker \in Makers(b, r) BY <1>1
  <2>5. Apply(Given(m, b, r, Done(i - 1)), ev[i]) = Given(m, b, r, Done(i - 1) \cup {t[i].maker})
    BY <1>2, <2>2, <2>4, GivenMore
  <2> QED BY <2>1, <2>3, <2>5
<1>4. f[0] = m
  <2>1. Done(0) = {} OBVIOUS
  <2>2. Given(m, b, r, {}) = m BY DEF Given
  <2>3. f[0] = Given(m, b, r, Done(0)) BY <1>1
  <2> QED BY <2>1, <2>2, <2>3
<1>5. IsApplying(f, m, ev, n)
  <2>1. f = [i \in 0 .. n |-> f[i]] OBVIOUS
  <2> HIDE DEF f
  <2>2. \A i \in 0 .. n : f[i] = IF i = 0 THEN m ELSE Apply(f[i - 1], ev[i]) BY <1>1, <1>3, <1>4
  <2> QED BY <2>1, <2>2 DEF IsApplying
<1>6. Done(n) = Makers(b, r) BY <1>1
<1>7. f[n] = Given(m, b, r, Done(n)) BY <1>1
<1> HIDE DEF f, Done
<1>8. Applied(m, ev) = f[n] BY <1>1, <1>2, <1>5, AppliedIs
<1> QED BY <1>6, <1>7, <1>8 DEF t, ev

\* The entry of an order that rests in the book of sym.
EntryOf(sym, o) == [symbol |-> sym, side |-> o.side, price |-> o.price, qty |-> o.qty]

\* sh holds the orders of all books, and no others.
Mirrors(sh, bks) ==
    /\ sh = [id \in DOMAIN sh |-> sh[id]]
    /\ \A id : id \in DOMAIN sh <=> \E s \in Symbol : id \in DOMAIN bks[s].resting
    /\ \A s \in Symbol : \A id \in DOMAIN bks[s].resting : sh[id] = EntryOf(s, bks[s].resting[id])

\* No order rests in two books.
Disjoint(bks) ==
    \A s, u \in Symbol : \A id : id \in DOMAIN bks[s].resting /\ id \in DOMAIN bks[u].resting => s = u

\* An order has one route, so it rests in one book.
LEMMA CoveredDisjoint ==
    ASSUME NEW bks, NEW rt, Covered(bks, rt)
    PROVE  Disjoint(bks)
BY DEF Covered, Disjoint

\* What the run checks and what the proof carries are the same.
LEMMA MirrorsTrueBooks ==
    ASSUME Disjoint(books), Mirrors(shadow, books)
    PROVE  shadow = TrueBooks
<1> DEFINE S == UNION {DOMAIN books[s].resting : s \in Symbol}
           Of(id) == CHOOSE x \in Symbol : id \in DOMAIN books[x].resting
<1>1. DOMAIN shadow = S BY DEF Mirrors
<1>2. ASSUME NEW id \in S PROVE shadow[id] = EntryOf(Of(id), books[Of(id)].resting[id])
  <2>1. \E s \in Symbol : id \in DOMAIN books[s].resting BY <1>2
  <2>2. Of(id) \in Symbol /\ id \in DOMAIN books[Of(id)].resting BY <2>1
  <2> HIDE DEF Of
  <2> QED BY <2>2 DEF Mirrors
<1>3. TrueBooks = [id \in S |-> EntryOf(Of(id), books[Of(id)].resting[id])]
  BY DEF TrueBooks, EntryOf
<1>4. shadow = [id \in S |-> shadow[id]] BY <1>1 DEF Mirrors
<1> HIDE DEF S, Of
<1> QED BY <1>2, <1>3, <1>4

\* Entries of books are typed.
LEMMA MirrorsHeld ==
    ASSUME NEW sh, NEW bks, Mirrors(sh, bks), \A s \in Symbol : Sound(bks[s])
    PROVE  Held(sh)
<1>1. ASSUME NEW id \in DOMAIN sh PROVE sh[id] \in Entries
  <2>1. PICK s \in Symbol : id \in DOMAIN bks[s].resting BY DEF Mirrors
  <2>2. sh[id] = EntryOf(s, bks[s].resting[id]) BY <2>1 DEF Mirrors
  <2>3. bks[s].resting[id] \in OrderAt BY <2>1 DEF Sound, Booked
  <2> QED BY <2>2, <2>3 DEF EntryOf, Entries, OrderAt
<1> QED BY <1>1 DEF Held, Mirrors
------------------------------------------------------------------------------
(* A message seen from both sides *)

\* Order id, if it rests at all, rests in the book of sym.
OnlyIn(bks, id, sym) == \A s \in Symbol : id \in DOMAIN bks[s].resting => s = sym

\* bks with the book of sym replaced.
Changed(bks, sym, a) == [bks EXCEPT ![sym] = a]

\* What changing the book of one symbol does.
LEMMA ChangedIs ==
    ASSUME NEW bks, bks = [s \in Symbol |-> bks[s]], NEW sym \in Symbol, NEW a
    PROVE  /\ Changed(bks, sym, a) = [s \in Symbol |-> Changed(bks, sym, a)[s]]
           /\ \A s \in Symbol : Changed(bks, sym, a)[s] = IF s = sym THEN a ELSE bks[s]
BY DEF Changed

\* cancel() and the Delete event.
LEMMA CancelShown ==
    ASSUME NEW sh, NEW bks, bks = [s \in Symbol |-> bks[s]], Mirrors(sh, bks),
           NEW sym \in Symbol, NEW id, OnlyIn(bks, id, sym),
           NEW a, a.resting = [o \in DOMAIN bks[sym].resting \ {id} |-> bks[sym].resting[o]]
    PROVE  Mirrors(Drop(sh, id), Changed(bks, sym, a))
<1> DEFINE new == Changed(bks, sym, a)
           d == Drop(sh, id)
<1>1. \A s \in Symbol : new[s] = IF s = sym THEN a ELSE bks[s] BY ChangedIs
<1>2. /\ DOMAIN d = DOMAIN sh \ {id}
      /\ d = [o \in DOMAIN d |-> d[o]]
      /\ \A o \in DOMAIN d : d[o] = sh[o]
  BY DEF Drop
<1>3. /\ DOMAIN a.resting = DOMAIN bks[sym].resting \ {id}
      /\ \A o \in DOMAIN a.resting : a.resting[o] = bks[sym].resting[o]
  OBVIOUS
<1> HIDE DEF new, d
<1>4. \A s \in Symbol : /\ DOMAIN new[s].resting = DOMAIN bks[s].resting \ {id}
                        /\ \A o \in DOMAIN new[s].resting : new[s].resting[o] = bks[s].resting[o]
  BY <1>1, <1>3 DEF OnlyIn
<1>5. \A o : o \in DOMAIN d <=> \E s \in Symbol : o \in DOMAIN new[s].resting
  BY <1>2, <1>4 DEF Mirrors
<1>6. \A s \in Symbol : \A o \in DOMAIN new[s].resting : d[o] = EntryOf(s, new[s].resting[o])
  BY <1>2, <1>4, <1>5 DEF Mirrors
<1> QED BY <1>2, <1>5, <1>6 DEF Mirrors, new, d

\* reduce() and the Cancel or Trade event.
LEMMA ReduceShown ==
    ASSUME NEW sh, NEW bks, bks = [s \in Symbol |-> bks[s]], Mirrors(sh, bks),
           NEW sym \in Symbol, NEW id, OnlyIn(bks, id, sym), Sound(bks[sym]),
           NEW delta \in Nat
    PROVE  Mirrors(Apply(sh, TakeEvent(id, delta)), Changed(bks, sym, AfterReduce(bks[sym], id, delta)))
<1> DEFINE a == AfterReduce(bks[sym], id, delta)
           new == Changed(bks, sym, a)
           b == bks[sym]
           ev == TakeEvent(id, delta)
<1>1. WithLess(a, b, id, delta) BY ReduceSound
<1>2. ev.type = "Take" /\ ev.id = id /\ ev.shares = delta BY DEF TakeEvent
<1>3. id \in DOMAIN sh <=> id \in DOMAIN b.resting BY DEF Mirrors, OnlyIn
<1>4. id \in DOMAIN sh => sh[id] = EntryOf(sym, b.resting[id]) BY <1>3 DEF Mirrors
<1>5. id \in DOMAIN sh => sh[id].qty = b.resting[id].qty BY <1>4 DEF EntryOf
<1> HIDE DEF a, ev
<1>6. CASE id \notin DOMAIN sh
  <2>1. Apply(sh, ev) = sh BY <1>2, <1>6 DEF Apply
  <2>2. new = bks BY <1>1, <1>3, <1>6 DEF Changed, WithLess
  <2> QED BY <2>1, <2>2 DEF ev, a
<1>7. CASE id \in DOMAIN sh /\ delta >= sh[id].qty
  <2>1. Apply(sh, ev) = Drop(sh, id) BY <1>2, <1>7 DEF Apply
  <2>2. a.resting = [o \in DOMAIN b.resting \ {id} |-> b.resting[o]] BY <1>1, <1>3, <1>5, <1>7 DEF WithLess
  <2>3. Mirrors(Drop(sh, id), new) BY <2>2, CancelShown
  <2> QED BY <2>1, <2>3 DEF ev, a
<1>8. CASE id \in DOMAIN sh /\ ~(delta >= sh[id].qty)
  <2>1. Apply(sh, ev) = [sh EXCEPT ![id].qty = @ - delta] BY <1>2, <1>8 DEF Apply
  <2>2. a.resting = [b.resting EXCEPT ![id].qty = @ - delta] BY <1>1, <1>3, <1>5, <1>8 DEF WithLess
  <2> DEFINE d == Apply(sh, ev)
  <2>3. /\ DOMAIN d = DOMAIN sh
        /\ d = [o \in DOMAIN d |-> d[o]]
        /\ \A o \in DOMAIN d : o # id => d[o] = sh[o]
        /\ d[id] = [sh[id] EXCEPT !.qty = @ - delta]
    BY <1>8, <2>1 DEF Mirrors
  <2>4. /\ DOMAIN a.resting = DOMAIN b.resting
        /\ \A o \in DOMAIN a.resting : o # id => a.resting[o] = b.resting[o]
        /\ a.resting[id] = [b.resting[id] EXCEPT !.qty = @ - delta]
    BY <1>3, <1>8, <2>2 DEF Sound, Booked
  <2> HIDE DEF d, b
  <2>5. d[id] = EntryOf(sym, a.resting[id])
    <3>1. b.resting[id] \in OrderAt BY <1>3, <1>8 DEF Sound, Booked, b
    <3>2. d[id] = [EntryOf(sym, b.resting[id]) EXCEPT !.qty = @ - delta] BY <1>4, <1>8, <2>3
    <3> QED BY <2>4, <3>1, <3>2 DEF EntryOf, OrderAt
  <2> HIDE DEF new
  <2>6. \A s \in Symbol : new[s] = IF s = sym THEN a ELSE bks[s] BY ChangedIs DEF new
  <2>7. \A s \in Symbol : DOMAIN new[s].resting = DOMAIN bks[s].resting BY <2>4, <2>6 DEF b
  <2>8. \A s \in Symbol : \A o \in DOMAIN new[s].resting :
          \/ o = id /\ s = sym
          \/ o # id /\ new[s].resting[o] = bks[s].resting[o]
    BY <2>4, <2>6, <2>7 DEF OnlyIn, b
  <2>9. \A o : o \in DOMAIN d <=> \E s \in Symbol : o \in DOMAIN new[s].resting
    BY <2>3, <2>7 DEF Mirrors
  <2>10. \A s \in Symbol : \A o \in DOMAIN new[s].resting : d[o] = EntryOf(s, new[s].resting[o])
    <3> TAKE s \in Symbol
    <3> TAKE o \in DOMAIN new[s].resting
    <3>1. CASE o = id /\ s = sym BY <3>1, <2>5, <2>6
    <3>2. CASE o # id /\ new[s].resting[o] = bks[s].resting[o]
      <4>1. o \in DOMAIN d /\ sh[o] = EntryOf(s, bks[s].resting[o]) BY <2>3, <2>7 DEF Mirrors
      <4> QED BY <3>2, <4>1, <2>3
    <3> QED BY <3>1, <3>2, <2>8
  <2>11. Mirrors(d, new) BY <2>3, <2>9, <2>10 DEF Mirrors
  <2> QED BY <2>11 DEF d, new, ev, a
<1> QED BY <1>6, <1>7, <1>8

\* add() that does not throw, and the events of what it left resting and traded.
LEMMA AddShown ==
    ASSUME NEW sh, NEW bks, bks = [s \in Symbol |-> bks[s]], Mirrors(sh, bks), Disjoint(bks),
           NEW sym \in Symbol, NEW b, b = bks[sym], Sound(b), NEW r \in LimitOrder,
           \A s \in Symbol : r.id \notin DOMAIN bks[s].resting,
           ~AddThrows(b, r),
           NEW left, left = Unfilled(b, r),
           NEW m, m = IF left > 0
                      THEN Put(sh, r.id, [symbol |-> sym, side |-> r.side, price |-> r.price, qty |-> left])
                      ELSE sh
    PROVE  Mirrors(Applied(m, TradeEvents(Trades(b, r))), Changed(bks, sym, AfterAdd(b, r)))
<1> DEFINE a == AfterAdd(b, r)
           new == Changed(bks, sym, a)
           kept == AfterTrades(b, r)
           M == Makers(b, r)
           g == Given(m, b, r, M)
           e == [symbol |-> sym, side |-> r.side, price |-> r.price, qty |-> left]
<1>1. /\ DOMAIN sh \subseteq DOMAIN m
      /\ DOMAIN m = IF left > 0 THEN DOMAIN sh \cup {r.id} ELSE DOMAIN sh
      /\ m = [o \in DOMAIN m |-> m[o]]
      /\ \A o \in DOMAIN m : m[o] = IF o = r.id THEN e ELSE sh[o]
  <2>1. r.id \notin DOMAIN sh BY DEF Mirrors
  <2>2. sh = [o \in DOMAIN sh |-> sh[o]] BY DEF Mirrors
  <2>3. CASE left > 0 BY <2>1, <2>2, <2>3 DEF Put
  <2>4. CASE ~(left > 0) BY <2>1, <2>2, <2>4
  <2> QED BY <2>3, <2>4
<1>2. \A o \in DOMAIN b.resting : o # r.id /\ o \in DOMAIN sh /\ m[o] = EntryOf(sym, b.resting[o])
  <2>1. \A o \in DOMAIN b.resting : o # r.id /\ o \in DOMAIN sh /\ sh[o] = EntryOf(sym, b.resting[o])
    BY DEF Mirrors
  <2> HIDE DEF e
  <2> QED BY <2>1, <1>1
<1>3. \A o \in M : o \in DOMAIN b.resting /\ o \in DOMAIN m /\ m[o].qty = b.resting[o].qty
  <2> TAKE o \in M
  <2>1. o \in DOMAIN b.resting BY DEF Makers, Reached
  <2>2. o \in DOMAIN m /\ m[o] = EntryOf(sym, b.resting[o]) BY <1>1, <1>2, <2>1
  <2>3. EntryOf(sym, b.resting[o]).qty = b.resting[o].qty BY DEF EntryOf
  <2> QED BY <2>1, <2>2, <2>3
<1>4. Applied(m, TradeEvents(Trades(b, r))) = g BY <1>1, <1>3, TradesShown
<1>5. /\ DOMAIN g = DOMAIN m \ Exhausted(b, r)
      /\ g = [o \in DOMAIN g |-> g[o]]
      /\ \A o \in DOMAIN g : g[o] = IF o \in M THEN [m[o] EXCEPT !.qty = @ - FillOf(b, r, o)] ELSE m[o]
  <2>1. Exhausted(b, r) \cap M = Exhausted(b, r) BY DEF Exhausted
  <2> QED BY <2>1 DEF Given
<1>6. /\ DOMAIN kept = DOMAIN b.resting \ Exhausted(b, r)
      /\ \A o \in DOMAIN kept : kept[o] = IF o \in M THEN [b.resting[o] EXCEPT !.qty = @ - FillOf(b, r, o)]
                                         ELSE b.resting[o]
  BY DEF AfterTrades
<1>7. Exhausted(b, r) \subseteq M BY DEF Exhausted
<1>8. \A o \in DOMAIN kept : o \in DOMAIN g /\ o # r.id /\ g[o] = EntryOf(sym, kept[o])
  <2> TAKE o \in DOMAIN kept
  <2>1. o \in DOMAIN b.resting /\ o \in DOMAIN g /\ o # r.id BY <1>1, <1>2, <1>5, <1>6
  <2>2. m[o] = EntryOf(sym, b.resting[o]) /\ b.resting[o] \in OrderAt BY <1>2, <2>1 DEF Sound, Booked
  <2>3. PICK q : q = FillOf(b, r, o) OBVIOUS
  <2>4. CASE o \in M
    <3>1. g[o] = [m[o] EXCEPT !.qty = @ - q] BY <1>5, <2>1, <2>3, <2>4
    <3>2. kept[o] = [b.resting[o] EXCEPT !.qty = @ - q] BY <1>6, <2>3, <2>4
    <3> HIDE DEF g, kept
    <3>3. g[o] = EntryOf(sym, kept[o]) BY <2>2, <3>1, <3>2 DEF EntryOf, OrderAt
    <3> QED BY <2>1, <3>3
  <2>5. CASE o \notin M
    <3>1. g[o] = m[o] /\ kept[o] = b.resting[o] BY <1>5, <1>6, <2>1, <2>5
    <3> QED BY <2>1, <2>2, <3>1
  <2> QED BY <2>4, <2>5
<1>9. a.resting = IF left > 0 THEN AfterRest(b, r) ELSE kept BY <1>2, AddSound
<1>10. /\ DOMAIN a.resting = IF left > 0 THEN DOMAIN kept \cup {r.id} ELSE DOMAIN kept
       /\ \A o \in DOMAIN kept : a.resting[o] = kept[o]
       /\ left > 0 => a.resting[r.id] = [side |-> r.side, price |-> r.price, qty |-> left]
  <2>1. r.id \notin DOMAIN kept BY <1>2, <1>6
  <2>2. AfterRest(b, r) = [o \in DOMAIN kept \cup {r.id} |->
            IF o = r.id THEN [side |-> r.side, price |-> r.price, qty |-> left] ELSE kept[o]]
    BY DEF AfterRest
  <2> HIDE DEF kept, a
  <2>3. CASE left > 0
    <3>1. a.resting = AfterRest(b, r) BY <1>9, <2>3
    <3> QED BY <2>1, <2>2, <2>3, <3>1
  <2>4. CASE ~(left > 0)
    <3>1. a.resting = kept BY <1>9, <2>4
    <3> QED BY <2>4, <3>1
  <2> QED BY <2>3, <2>4
<1>11. left > 0 => r.id \in DOMAIN g /\ g[r.id] = EntryOf(sym, a.resting[r.id])
  <2> SUFFICES ASSUME left > 0 PROVE r.id \in DOMAIN g /\ g[r.id] = EntryOf(sym, a.resting[r.id]) OBVIOUS
  <2>1. r.id \notin M BY <1>2, <1>3
  <2>2. r.id \in DOMAIN g /\ g[r.id] = e
    <3>1. r.id \in DOMAIN m /\ m[r.id] = e BY <1>1
    <3>2. r.id \in DOMAIN g BY <1>5, <1>7, <2>1, <3>1
    <3> HIDE DEF e, g, M
    <3> QED BY <1>5, <2>1, <3>1, <3>2
  <2>3. a.resting[r.id] = [side |-> r.side, price |-> r.price, qty |-> left] BY <1>10
  <2> HIDE DEF a, g
  <2> QED BY <2>2, <2>3 DEF EntryOf
<1> HIDE DEF a, new, kept, M, g, e
<1>12. \A s \in Symbol : new[s] = IF s = sym THEN a ELSE bks[s] BY ChangedIs DEF new
<1>13. \A s \in Symbol : \A o \in DOMAIN new[s].resting : o \in DOMAIN g /\ g[o] = EntryOf(s, new[s].resting[o])
  <2> TAKE s \in Symbol
  <2> TAKE o \in DOMAIN new[s].resting
  <2>1. CASE s = sym /\ o \in DOMAIN kept BY <2>1, <1>8, <1>10, <1>12
  <2>2. CASE s = sym /\ o \notin DOMAIN kept
    <3>1. o = r.id /\ left > 0 BY <2>2, <1>10, <1>12
    <3> QED BY <2>2, <3>1, <1>11, <1>12
  <2>3. CASE s # sym
    <3>1. o \in DOMAIN bks[s].resting /\ new[s] = bks[s] BY <2>3, <1>12
    <3>2. o \notin DOMAIN b.resting BY <2>3, <3>1 DEF Disjoint
    <3>3. o \notin M BY <3>2, <1>3
    <3>4. o \in DOMAIN sh /\ o # r.id /\ sh[o] = EntryOf(s, new[s].resting[o]) BY <3>1 DEF Mirrors
    <3>5. o \in DOMAIN m /\ m[o] = sh[o] BY <3>4, <1>1
    <3> QED BY <3>3, <3>4, <3>5, <1>5, <1>7
  <2> QED BY <2>1, <2>2, <2>3
<1>14. \A o \in DOMAIN g : \E s \in Symbol : o \in DOMAIN new[s].resting
  <2> TAKE o \in DOMAIN g
  <2>1. CASE o \in DOMAIN b.resting
    <3>1. o \in DOMAIN kept BY <2>1, <1>5, <1>6
    <3> QED BY <3>1, <1>10, <1>12
  <2>2. CASE o \notin DOMAIN b.resting /\ o # r.id
    <3>1. o \in DOMAIN sh BY <2>2, <1>1, <1>5
    <3>2. PICK s \in Symbol : o \in DOMAIN bks[s].resting BY <3>1 DEF Mirrors
    <3> QED BY <2>2, <3>2, <1>12
  <2>3. CASE o = r.id
    <3>1. r.id \notin DOMAIN sh BY DEF Mirrors
    <3>2. left > 0 BY <2>3, <3>1, <1>1, <1>5
    <3> QED BY <2>3, <3>2, <1>10, <1>12
  <2> QED BY <2>1, <2>2, <2>3
<1>15. Mirrors(g, new) BY <1>5, <1>13, <1>14 DEF Mirrors
<1> QED BY <1>4, <1>15 DEF new, a

\* The remainder as the subscriber gets it.
EntryFor(sym, r, left) == [symbol |-> sym, side |-> r.side, price |-> r.price, qty |-> left]

WithRemainder(sh, sym, r, left) == IF left > 0 THEN Put(sh, r.id, EntryFor(sym, r, left)) ELSE sh

\* The events of a call's trades are finitely many and well-formed.
LEMMA TradeEventsAre ==
    ASSUME NEW b, Sound(b), NEW r \in LimitOrder
    PROVE  /\ Len(TradeEvents(Trades(b, r))) \in Nat
           /\ \A i \in 1 .. Len(TradeEvents(Trades(b, r))) : Published(TradeEvents(Trades(b, r))[i])
           /\ \E E : TradeEvents(Trades(b, r)) \in Seq(E)
<1> DEFINE t == Trades(b, r)
           n == Len(t)
           ev == TradeEvents(t)
<1>1. /\ n \in Nat
      /\ DOMAIN t = 1 .. n
      /\ \A i \in 1 .. n : t[i].maker \in Makers(b, r) /\ t[i].qty = FillOf(b, r, t[i].maker)
  BY BookedLimit, TradesAre DEF TradesOfMakers
<1> HIDE DEF t, n
<1>2. ev = [i \in 1 .. n |-> TakeEvent(t[i].maker, t[i].qty)] BY <1>1 DEF TradeEvents
<1>3. \A i \in 1 .. n : t[i].qty \in Nat
  <2> TAKE i \in 1 .. n
  <2>1. t[i].maker \in Makers(b, r) BY <1>1
  <2>2. FillOf(b, r, t[i].maker) \in Nat BY <2>1, BookedLimit, FillIs
  <2> QED BY <1>1, <2>2
<1>4. \A i \in 1 .. n : Published(ev[i]) BY <1>2, <1>3 DEF TakeEvent, Published
<1>5. Len(ev) = n /\ ev \in Seq({TakeEvent(t[i].maker, t[i].qty) : i \in 1 .. n}) BY <1>1, <1>2
<1> QED BY <1>1, <1>4, <1>5 DEF t

\* A book's new order: its first event, if any of it is left, then those of its
\* trades.
LEMMA EventsOfAdd ==
    ASSUME NEW b, Sound(b), NEW r \in LimitOrder, NEW sh, Held(sh), NEW sym \in Symbol,
           NEW left \in Nat, NEW te, te = TradeEvents(Trades(b, r))
    PROVE  /\ Applied(sh, (IF left > 0 THEN <<AddEvent(sym, r, left)>> ELSE <<>>) \o te)
                = Applied(WithRemainder(sh, sym, r, left), te)
           /\ Held(Applied(WithRemainder(sh, sym, r, left), te))
<1>1. Len(te) \in Nat /\ \A i \in 1 .. Len(te) : Published(te[i]) BY TradeEventsAre
<1>2. PICK E : te \in Seq(E) BY TradeEventsAre
<1>3. Apply(sh, AddEvent(sym, r, left)) = Put(sh, r.id, EntryFor(sym, r, left))
  BY DEF Apply, AddEvent, EntryFor
<1>4. Held(WithRemainder(sh, sym, r, left))
  <2>1. Published(AddEvent(sym, r, left)) BY DEF Published, AddEvent, Entries, LimitOrder
  <2>2. Held(Put(sh, r.id, EntryFor(sym, r, left))) BY <1>3, <2>1, ApplyHeld
  <2> QED BY <2>2 DEF WithRemainder
<1>5. Held(Applied(WithRemainder(sh, sym, r, left), te)) BY <1>1, <1>4, AppliedHeld
<1>6. CASE left > 0
  <2>1. Applied(sh, <<AddEvent(sym, r, left)>> \o te) = Applied(Put(sh, r.id, EntryFor(sym, r, left)), te)
    BY <1>2, <1>3, AppliedFirst
  <2> QED BY <1>5, <1>6, <2>1 DEF WithRemainder
<1>7. CASE ~(left > 0)
  <2>1. <<>> \o te = te BY <1>2
  <2> QED BY <1>5, <1>7, <2>1 DEF WithRemainder
<1> QED BY <1>6, <1>7

\* The event that stands for the order a Replace takes out.
FirstOfReplace(old, sym, r, left) ==
    IF left > 0 THEN ReplaceEvent(old, sym, r, left) ELSE DeleteEvent(old)

\* A replacement's first event takes the old order out and puts in the remainder,
\* if there is one; those of its trades follow.
LEMMA EventsOfReplace ==
    ASSUME NEW b, Sound(b), NEW r \in LimitOrder, NEW sh, NEW sym, NEW old,
           NEW left, NEW te, te = TradeEvents(Trades(b, r))
    PROVE  Applied(sh, <<FirstOfReplace(old, sym, r, left)>> \o te)
                = Applied(WithRemainder(Drop(sh, old), sym, r, left), te)
<1> DEFINE ev == FirstOfReplace(old, sym, r, left)
<1>1. PICK E : te \in Seq(E) BY TradeEventsAre
<1>2. Apply(sh, ev) = WithRemainder(Drop(sh, old), sym, r, left)
  <2>1. CASE left > 0
    BY <2>1 DEF Apply, FirstOfReplace, ReplaceEvent, AddEvent, EntryFor, WithRemainder
  <2>2. CASE ~(left > 0) BY <2>2 DEF Apply, FirstOfReplace, DeleteEvent, WithRemainder
  <2> QED BY <2>1, <2>2
<1> HIDE DEF ev
<1>3. Applied(sh, <<ev>> \o te) = Applied(Apply(sh, ev), te) BY <1>1, AppliedFirst
<1> QED BY <1>2, <1>3 DEF ev
------------------------------------------------------------------------------
(* The inductive invariant *)

\* TypeOK and the properties of the run follow from IInv.  Beyond them it says
\* that each book queues its orders, that routes are finite, so that they can be
\* counted, and that the subscriber's books are the engine's order by order.
IInv ==
    /\ Agree(books, route, restingCount)
    /\ DOMAIN route \subseteq used
    /\ used \subseteq OrderId
    /\ lastTrade \in [Symbol -> Price \cup {NoPrice}]
    /\ Held(shadow)
    /\ report \in {"none", "Ack", "Reject"}
    /\ silent \in BOOLEAN
    /\ ~silent => Mirrors(shadow, books)

\* It holds when the program starts.
LEMMA InitIInv == Init => IInv
<1> SUFFICES ASSUME Init PROVE IInv OBVIOUS
<1>1. Sound(NewBook)
  <2>1. NoWindow \in Window BY DEF NoWindow, Window
  <2>2. IsFiniteSet({}) BY FS_EmptySet
  <2> QED BY <2>1, <2>2 DEF NewBook, Sound, Booked, Queued
<1>2. books = [s \in Symbol |-> books[s]] /\ \A s \in Symbol : books[s] = NewBook BY DEF Init
<1>3. DOMAIN route = {} /\ IsFiniteSet(DOMAIN route) BY FS_EmptySet DEF Init
<1>4. /\ restingCount \in [Symbol \X Mpid \X Side -> Nat]
      /\ \A k \in Symbol \X Mpid \X Side : restingCount[k] = 0
  BY DEF Init
<1>5. \A k \in Symbol \X Mpid \X Side : restingCount[k] = Believed(route, k)
  <2> TAKE k \in Symbol \X Mpid \X Side
  <2>1. {id \in DOMAIN route : Key(route[id]) = k} = {} BY <1>3
  <2>2. Cardinality({id \in DOMAIN route : Key(route[id]) = k}) = 0 BY <2>1, FS_EmptySet
  <2> QED BY <1>4, <2>2 DEF Believed
<1>6. \A s \in Symbol : DOMAIN books[s].resting = {} BY <1>2 DEF NewBook
<1>7. Covered(books, route) /\ OneSided(books, route) BY <1>6 DEF Covered, OneSided
<1>8. Agree(books, route, restingCount) BY <1>1, <1>2, <1>3, <1>4, <1>5, <1>7 DEF Agree
<1>9. DOMAIN shadow = {} /\ shadow = [id \in DOMAIN shadow |-> shadow[id]] BY DEF Init
<1>10. Held(shadow) /\ Mirrors(shadow, books) BY <1>6, <1>9 DEF Held, Mirrors
<1> QED BY <1>3, <1>8, <1>10 DEF Init, IInv
------------------------------------------------------------------------------
(* The steps *)

\* An order of a book is routed there, so a new one rests nowhere.
LEMMA RestsWhereRouted ==
    ASSUME NEW bks, NEW rt, NEW cnt, Agree(bks, rt, cnt), NEW id
    PROVE  /\ id \notin DOMAIN rt => \A s \in Symbol : id \notin DOMAIN bks[s].resting
           /\ id \in DOMAIN rt => rt[id] \in Infos /\ OnlyIn(bks, id, rt[id].symbol)
           /\ Disjoint(bks)
<1>1. Covered(bks, rt) BY DEF Agree
<1>2. \A o \in DOMAIN rt : rt[o] \in Infos BY DEF Agree
<1> QED BY <1>1, <1>2, CoveredDisjoint DEF Covered, OnlyIn

\* A route is taken out together with the order: Order Delete, and the first half
\* of Order Replace.
LEMMA OldOrderGone ==
    ASSUME NEW bks, NEW rt, NEW cnt, Agree(bks, rt, cnt), NEW id \in DOMAIN rt,
           NEW sym, sym = rt[id].symbol,
           NEW new, new = Changed(bks, sym, AfterCancel(bks[sym], id)),
           NEW less, less = [o \in DOMAIN rt \ {id} |-> rt[o]]
    PROVE  /\ sym \in Symbol
           /\ Agree(new, less, NoteRemoved(cnt, rt[id]))
           /\ new[sym] = AfterCancel(bks[sym], id)
           /\ \A sh : Mirrors(sh, bks) => Mirrors(Drop(sh, id), new)
<1> DEFINE a == AfterCancel(bks[sym], id)
<1>1. rt[id] \in Infos /\ sym \in Symbol /\ OnlyIn(bks, id, sym) BY RestsWhereRouted DEF Infos
<1>2. Sound(bks[sym]) /\ bks = [s \in Symbol |-> bks[s]] BY <1>1 DEF Agree
<1>3. Sound(a) /\ a.resting = [o \in DOMAIN bks[sym].resting \ {id} |-> bks[sym].resting[o]]
  BY <1>2, CancelSound
<1> HIDE DEF a
<1>4. DOMAIN a.resting \subseteq DOMAIN bks[sym].resting
      /\ \A o \in DOMAIN a.resting : a.resting[o].side = bks[sym].resting[o].side
  BY <1>3
<1>5. Agree(new, rt, cnt) BY <1>1, <1>3, <1>4, AgreeNarrow DEF Changed, a
<1>6. \A s \in Symbol : new[s] = IF s = sym THEN a ELSE bks[s] BY <1>1, <1>2, ChangedIs DEF a
<1>7. \A s \in Symbol : id \notin DOMAIN new[s].resting BY <1>1, <1>3, <1>6 DEF OnlyIn
<1>8. Agree(new, less, NoteRemoved(cnt, rt[id])) BY <1>5, <1>7, AgreeRemove
<1>9. ASSUME NEW sh, Mirrors(sh, bks) PROVE Mirrors(Drop(sh, id), new)
  BY <1>1, <1>2, <1>3, <1>9, CancelShown DEF a
<1> QED BY <1>1, <1>6, <1>8, <1>9 DEF a

\* A new order goes to its book and does not throw: Add, and the second half of
\* Replace.
LEMMA NewOrderIn ==
    ASSUME NEW bks, NEW rt, NEW cnt, Agree(bks, rt, cnt), NEW r \in LimitOrder, r.id \notin DOMAIN rt,
           NEW info \in Infos, info.side = r.side, ~MayMeetItself(info, cnt),
           NEW sym, sym = info.symbol, NEW b, b = bks[sym], ~AddThrows(b, r),
           NEW more, DOMAIN more = DOMAIN rt \cup {r.id}, more[r.id] = info,
           \A o \in DOMAIN rt : more[o] = rt[o]
    PROVE  /\ Sound(b) /\ Unfilled(b, r) \in Nat
           /\ Agree(Changed(bks, sym, AfterAdd(b, r)), more, NoteResting(cnt, info))
           /\ \A sh : Mirrors(sh, bks) =>
                Mirrors(Applied(WithRemainder(sh, sym, r, Unfilled(b, r)), TradeEvents(Trades(b, r))),
                        Changed(bks, sym, AfterAdd(b, r)))
<1> DEFINE a == AfterAdd(b, r)
<1>1. sym \in Symbol BY DEF Infos
<1>2. Sound(b) /\ bks = [s \in Symbol |-> bks[s]] BY <1>1 DEF Agree
<1>3. \A s \in Symbol : r.id \notin DOMAIN bks[s].resting BY RestsWhereRouted
<1>4. Disjoint(bks) BY RestsWhereRouted
<1>5. Sound(a) /\ Within(a, b, r.id, info.side) BY <1>1, <1>2, <1>3, AddSound
<1> HIDE DEF a
<1>6. Agree(Changed(bks, sym, a), more, NoteResting(cnt, info)) BY <1>5, AgreeAdd DEF Changed
<1>7. Unfilled(b, r) \in Nat BY <1>2, BookedLimit, UnfilledIs
<1>8. ASSUME NEW sh, Mirrors(sh, bks)
      PROVE  Mirrors(Applied(WithRemainder(sh, sym, r, Unfilled(b, r)), TradeEvents(Trades(b, r))),
                     Changed(bks, sym, AfterAdd(b, r)))
  <2>1. PICK left : left = Unfilled(b, r) OBVIOUS
  <2>2. WithRemainder(sh, sym, r, left) =
          IF left > 0
          THEN Put(sh, r.id, [symbol |-> sym, side |-> r.side, price |-> r.price, qty |-> left])
          ELSE sh
    BY DEF WithRemainder, EntryFor
  <2>3. Mirrors(Applied(WithRemainder(sh, sym, r, left), TradeEvents(Trades(b, r))),
                Changed(bks, sym, AfterAdd(b, r)))
    BY <1>1, <1>2, <1>3, <1>4, <1>8, <2>1, <2>2, AddShown
  <2> QED BY <2>1, <2>3
<1> QED BY <1>2, <1>6, <1>7, <1>8 DEF a

\* The book throws: what traded is gone, and the order is nowhere.
LEMMA NewOrderRefused ==
    ASSUME NEW bks, NEW rt, NEW cnt, Agree(bks, rt, cnt), NEW r \in LimitOrder, r.id \notin DOMAIN rt,
           NEW sym \in Symbol, NEW b, b = bks[sym], AddThrows(b, r)
    PROVE  Agree(Changed(bks, sym, AfterAdd(b, r)), rt, cnt)
<1> DEFINE a == AfterAdd(b, r)
<1>1. Sound(b) BY DEF Agree
<1>2. r.id \notin DOMAIN b.resting BY RestsWhereRouted
<1>3. Sound(a) /\ Within(a, b, r.id, r.side) /\ r.id \notin DOMAIN a.resting BY <1>1, <1>2, AddSound
<1> HIDE DEF a
<1>4. DOMAIN a.resting \subseteq DOMAIN bks[sym].resting
      /\ \A o \in DOMAIN a.resting : a.resting[o].side = bks[sym].resting[o].side
  BY <1>3 DEF Within
<1>5. Agree(Changed(bks, sym, a), rt, cnt) BY <1>3, <1>4, AgreeNarrow DEF Changed
<1> QED BY <1>5 DEF a

\* The last trade of a request is at a price of the book.
LEMMA NotedPrice ==
    ASSUME NEW b, Sound(b), NEW r \in LimitOrder, NEW sym \in Symbol,
           lastTrade \in [Symbol -> Price \cup {NoPrice}], NoteTrades(sym, Trades(b, r))
    PROVE  lastTrade' \in [Symbol -> Price \cup {NoPrice}]
<1> DEFINE t == Trades(b, r)
<1>1. \A i \in DOMAIN t : t[i].price \in Price BY BookedLimit, TradesAre DEF TradesOfMakers
<1>2. t # <<>> => Len(t) \in DOMAIN t BY BookedLimit, TradesAre DEF TradesOfMakers
<1> HIDE DEF t
<1>3. CASE t = <<>> BY <1>3 DEF NoteTrades, t
<1>4. CASE t # <<>>
  <2>1. lastTrade' = [lastTrade EXCEPT ![sym] = t[Len(t)].price] BY <1>4 DEF NoteTrades, t
  <2>2. t[Len(t)].price \in Price BY <1>1, <1>2, <1>4
  <2> QED BY <2>1, <2>2
<1> QED BY <1>3, <1>4

\* A message that publishes nothing is noticed if it changed a book.
LEMMA QuietStep ==
    ASSUME PublishNothing, silent \in BOOLEAN, Held(shadow), ~silent => Mirrors(shadow, books)
    PROVE  Held(shadow)' /\ silent' \in BOOLEAN /\ (~silent' => Mirrors(shadow, books)')
<1>1. shadow' = shadow /\ silent' \in BOOLEAN BY DEF PublishNothing
<1>2. ~silent' => ~silent /\ \A s \in Symbol : books'[s].resting = books[s].resting
  BY DEF PublishNothing
<1>3. Held(shadow') BY <1>1
<1>4. ~silent' => Mirrors(shadow', books') BY <1>1, <1>2 DEF Mirrors
<1> QED BY <1>1, <1>3, <1>4

\* Add Order, whatever risk and the book answer.
LEMMA AddStep ==
    ASSUME IInv, NEW r \in LimitOrder, NEW info \in Infos, info.side = r.side,
           AddRefusedByRisk(r, info) \/ AddAccepted(r, info) \/ AddRefusedByBook(r, info)
    PROVE  IInv'
<1> DEFINE sym == info.symbol
           b == books[sym]
<1>1. sym \in Symbol BY DEF Infos
<1>2. Agree(books, route, restingCount) /\ Sound(b) /\ Held(shadow) BY <1>1 DEF IInv, Agree
<1>3. /\ r.id \notin DOMAIN route
      /\ used' = used \cup {r.id} /\ used' \subseteq OrderId
      /\ DOMAIN route \subseteq used'
  BY DEF IInv, AddRefusedByRisk, AddAccepted, AddRefusedByBook, IsNew, LimitOrder
<1>4. CASE AddRefusedByRisk(r, info)
  <2>1. UNCHANGED <<books, route, restingCount, lastTrade, shadow, silent>> /\ report' = "Reject"
    BY <1>4 DEF AddRefusedByRisk
  <2> QED BY <1>3, <2>1 DEF IInv
<1>5. CASE AddAccepted(r, info)
  <2> DEFINE left == Unfilled(b, r)
             te == TradeEvents(Trades(b, r))
             more == Routed(r.id, info)
  <2>1. ~MayMeetItself(info, restingCount) /\ ~AddThrows(b, r) BY <1>5 DEF AddAccepted, RiskRejects
  <2>2. /\ books' = Changed(books, sym, AfterAdd(b, r))
        /\ route' = more
        /\ restingCount' = NoteResting(restingCount, info)
        /\ NoteTrades(sym, Trades(b, r))
        /\ shadow' = Applied(shadow, (IF left > 0 THEN <<AddEvent(sym, r, left)>> ELSE <<>>) \o te)
        /\ silent' = silent
        /\ report' = "Ack"
    BY <1>5 DEF AddAccepted, Publish, Changed
  <2>3. /\ DOMAIN more = DOMAIN route \cup {r.id}
        /\ more[r.id] = info
        /\ \A o \in DOMAIN route : more[o] = route[o]
    BY <1>3 DEF Routed
  <2> HIDE DEF more
  <2>4. /\ left \in Nat
        /\ Agree(books', route', restingCount')
        /\ Mirrors(shadow, books) => Mirrors(Applied(WithRemainder(shadow, sym, r, left), te), books')
    <3>1. sym = info.symbol /\ b = books[sym] OBVIOUS
    <3> HIDE DEF sym, b
    <3> QED BY <1>2, <1>3, <2>1, <2>2, <2>3, <3>1, NewOrderIn
  <2>5. /\ shadow' = Applied(WithRemainder(shadow, sym, r, left), te)
        /\ Held(shadow')
    BY <1>1, <1>2, <2>2, <2>4, EventsOfAdd
  <2>6. lastTrade' \in [Symbol -> Price \cup {NoPrice}] BY <1>1, <1>2, <2>2, NotedPrice DEF IInv
  <2>7. DOMAIN route' \subseteq used' BY <1>3, <2>2, <2>3
  <2>8. ~silent' => Mirrors(shadow', books') BY <2>2, <2>4, <2>5 DEF IInv
  <2>9. silent' \in BOOLEAN BY <2>2 DEF IInv
  <2> HIDE DEF left, te, b, sym
  <2> QED BY <1>3, <2>2, <2>4, <2>5, <2>6, <2>7, <2>8, <2>9 DEF IInv
<1>6. CASE AddRefusedByBook(r, info)
  <2>1. /\ AddThrows(b, r)
        /\ books' = Changed(books, sym, AfterAdd(b, r))
        /\ PublishNothing
        /\ report' = "Reject"
        /\ UNCHANGED <<route, restingCount, lastTrade>>
    BY <1>6 DEF AddRefusedByBook, Changed
  <2>2. Agree(books', route', restingCount') BY <1>1, <1>2, <1>3, <2>1, NewOrderRefused
  <2>3. Held(shadow)' /\ silent' \in BOOLEAN /\ (~silent' => Mirrors(shadow, books)')
    BY <2>1, QuietStep DEF IInv
  <2> QED BY <1>3, <2>1, <2>2, <2>3 DEF IInv
<1> QED BY <1>4, <1>5, <1>6

\* The part that Order Cancel and the two Order Executed messages share.
LEMMA ReduceStep ==
    ASSUME IInv, NEW id \in DOMAIN route, NEW shares \in Nat, ReduceRouted(id, shares)
    PROVE  /\ Agree(books', route', restingCount')
           /\ UNCHANGED <<route, used, silent>> /\ report' = "none"
           /\ Held(shadow') /\ (~silent' => Mirrors(shadow', books'))
           /\ route[id].symbol \in Symbol
<1> DEFINE sym == route[id].symbol
           a == AfterReduce(books[sym], id, shares)
           ev == TakeEvent(id, shares)
<1>1. Agree(books, route, restingCount) /\ Held(shadow) BY DEF IInv
<1>2. sym \in Symbol /\ OnlyIn(books, id, sym) BY <1>1, RestsWhereRouted DEF Infos
<1>3. Sound(books[sym]) /\ books = [s \in Symbol |-> books[s]] BY <1>1, <1>2 DEF Agree
<1>4. /\ books' = Changed(books, sym, a)
      /\ shadow' = Applied(shadow, <<ev>>)
      /\ UNCHANGED <<route, restingCount, used, silent>> /\ report' = "none"
  BY DEF ReduceRouted, Publish, Changed
<1>5. shadow' = Apply(shadow, ev) BY <1>4, AppliedOne
<1>6. /\ Sound(a)
      /\ DOMAIN a.resting \subseteq DOMAIN books[sym].resting
      /\ \A o \in DOMAIN a.resting : a.resting[o].side = books[sym].resting[o].side
  <2>1. PICK b : b = books[sym] OBVIOUS
  <2>2. PICK c : c = a OBVIOUS
  <2>3. Sound(c) /\ WithLess(c, b, id, shares) BY <1>3, <2>1, <2>2, ReduceSound
  <2>4. \A o \in DOMAIN b.resting : b.resting[o] \in OrderAt BY <1>3, <2>1 DEF Sound, Booked
  <2> HIDE DEF a
  <2>5. CASE id \notin DOMAIN b.resting BY <2>1, <2>2, <2>3, <2>5 DEF WithLess
  <2>6. CASE id \in DOMAIN b.resting /\ shares >= b.resting[id].qty BY <2>1, <2>2, <2>3, <2>6 DEF WithLess
  <2>7. CASE id \in DOMAIN b.resting /\ ~(shares >= b.resting[id].qty)
    <3>1. c.resting = [b.resting EXCEPT ![id].qty = @ - shares] BY <2>3, <2>7 DEF WithLess
    <3>2. DOMAIN c.resting = DOMAIN b.resting
          /\ \A o \in DOMAIN c.resting : c.resting[o].side = b.resting[o].side
      BY <2>4, <2>7, <3>1 DEF OrderAt
    <3> QED BY <2>1, <2>2, <2>3, <3>2
  <2> QED BY <2>5, <2>6, <2>7
<1>7. Agree(books', route', restingCount') BY <1>1, <1>2, <1>4, <1>6, AgreeNarrow DEF Changed
<1>8. Held(shadow') 
  <2>1. Published(ev) BY DEF Published, TakeEvent
  <2> QED BY <1>1, <1>5, <2>1, ApplyHeld
<1>9. ~silent' => Mirrors(shadow', books')
  <2>1. Mirrors(shadow, books) => Mirrors(Apply(shadow, ev), Changed(books, sym, a))
    BY <1>2, <1>3, ReduceShown
  <2> QED BY <1>4, <1>5, <2>1 DEF IInv
<1> QED BY <1>2, <1>4, <1>7, <1>8, <1>9

\* Order Delete.
LEMMA DeleteStep ==
    ASSUME IInv, NEW id \in DOMAIN route, OrderDelete(id)
    PROVE  IInv'
<1> DEFINE sym == route[id].symbol
           less == Unrouted(id)
<1>1. Agree(books, route, restingCount) /\ Held(shadow) BY DEF IInv
<1>2. /\ books' = Changed(books, sym, AfterCancel(books[sym], id))
      /\ route' = less
      /\ restingCount' = NoteRemoved(restingCount, route[id])
      /\ shadow' = Applied(shadow, <<DeleteEvent(id)>>)
      /\ UNCHANGED <<silent, lastTrade, used>> /\ report' = "none"
  BY DEF OrderDelete, Publish, Changed
<1>3. shadow' = Drop(shadow, id)
  <2>1. shadow' = Apply(shadow, DeleteEvent(id)) BY <1>2, AppliedOne
  <2> QED BY <2>1 DEF Apply, DeleteEvent
<1>4. less = [o \in DOMAIN route \ {id} |-> route[o]] BY DEF Unrouted
<1> HIDE DEF less, sym
<1>5. Agree(books', route', restingCount') /\ (Mirrors(shadow, books) => Mirrors(Drop(shadow, id), books'))
  BY <1>1, <1>2, <1>4, OldOrderGone DEF sym
<1>6. Held(shadow')
  <2>1. Published(DeleteEvent(id)) BY DEF Published, DeleteEvent
  <2>2. Held(Apply(shadow, DeleteEvent(id))) BY <1>1, <2>1, ApplyHeld
  <2> QED BY <1>3, <2>2 DEF Apply, DeleteEvent
<1>7. ~silent' => Mirrors(shadow', books') BY <1>2, <1>3, <1>5 DEF IInv
<1>8. DOMAIN route' \subseteq used' BY <1>2, <1>4 DEF IInv
<1> QED BY <1>2, <1>5, <1>6, <1>7, <1>8 DEF IInv

\* Order Replace, whatever risk and the book answer to the replacement.
LEMMA ReplaceStep ==
    ASSUME IInv, NEW old \in DOMAIN route, NEW r \in LimitOrder,
           ReplaceRefusedByRisk(old, r) \/ ReplaceAccepted(old, r) \/ ReplaceRefusedByBook(old, r)
    PROVE  IInv'
<1> DEFINE info == route[old]
           sym == info.symbol
           b == AfterCancel(books[sym], old)
           cnt == NoteRemoved(restingCount, info)
           mid == Changed(books, sym, b)
           less == Unrouted(old)
<1>1. Agree(books, route, restingCount) /\ Held(shadow) /\ info \in Infos
  BY DEF IInv, Agree
<1>2. less = [o \in DOMAIN route \ {old} |-> route[o]] BY DEF Unrouted
<1>3. /\ sym \in Symbol
      /\ Agree(mid, less, cnt)
      /\ mid[sym] = b
      /\ \A sh : Mirrors(sh, books) => Mirrors(Drop(sh, old), mid)
  <2> HIDE DEF less
  <2> QED BY <1>1, <1>2, OldOrderGone
<1>4. ASSUME NEW a PROVE [books EXCEPT ![sym] = a] = Changed(mid, sym, a) BY DEF Changed
<1>5. Sound(b) BY <1>3 DEF Agree
<1>6. Held(Drop(shadow, old))
  <2>1. Published(DeleteEvent(old)) BY DEF Published, DeleteEvent
  <2>2. Held(Apply(shadow, DeleteEvent(old))) BY <1>1, <2>1, ApplyHeld
  <2> QED BY <2>2 DEF Apply, DeleteEvent
<1>7. /\ r.id \notin DOMAIN route /\ r.id \notin DOMAIN less /\ DOMAIN less \subseteq used'
      /\ used' = used \cup {r.id} /\ used' \subseteq OrderId
      /\ info.side = r.side
  BY <1>2 DEF IInv, ReplaceRefusedByRisk, ReplaceAccepted, ReplaceRefusedByBook, IsNew, LimitOrder
<1>8. CASE ReplaceRefusedByRisk(old, r)
  <2>1. /\ books' = mid /\ route' = less /\ restingCount' = cnt
        /\ PublishNothing /\ report' = "Reject" /\ UNCHANGED lastTrade
    BY <1>8 DEF ReplaceRefusedByRisk, Changed
  <2>2. Held(shadow)' /\ silent' \in BOOLEAN /\ (~silent' => Mirrors(shadow, books)')
    BY <2>1, QuietStep DEF IInv
  <2> HIDE DEF mid, less, cnt
  <2> QED BY <1>3, <1>7, <2>1, <2>2 DEF IInv
<1>9. CASE ReplaceRefusedByBook(old, r)
  <2>1. /\ AddThrows(b, r)
        /\ books' = [books EXCEPT ![sym] = AfterAdd(b, r)]
        /\ route' = less /\ restingCount' = cnt
        /\ PublishNothing /\ report' = "Reject" /\ UNCHANGED lastTrade
    BY <1>9 DEF ReplaceRefusedByBook
  <2>2. Held(shadow)' /\ silent' \in BOOLEAN /\ (~silent' => Mirrors(shadow, books)')
    BY <2>1, QuietStep DEF IInv
  <2>3. books' = Changed(mid, sym, AfterAdd(b, r)) BY <1>4, <2>1
  <2> HIDE DEF mid, less, cnt, b, sym, info
  <2>4. Agree(Changed(mid, sym, AfterAdd(b, r)), less, cnt) BY <1>3, <1>7, <2>1, NewOrderRefused
  <2>5. Agree(books', route', restingCount') BY <2>1, <2>3, <2>4
  <2> QED BY <1>7, <2>1, <2>2, <2>5 DEF IInv
<1>10. CASE ReplaceAccepted(old, r)
  <2> DEFINE left == Unfilled(b, r)
             te == TradeEvents(Trades(b, r))
             more == [o \in DOMAIN less \cup {r.id} |-> IF o = r.id THEN info ELSE route[o]]
  <2>1. ~MayMeetItself(info, cnt) /\ ~AddThrows(b, r) BY <1>10 DEF ReplaceAccepted, RiskRejects
  <2>2. /\ books' = [books EXCEPT ![sym] = AfterAdd(b, r)]
        /\ route' = more
        /\ restingCount' = NoteResting(cnt, info)
        /\ NoteTrades(sym, Trades(b, r))
        /\ shadow' = Applied(shadow, <<FirstOfReplace(old, sym, r, left)>> \o te)
        /\ silent' = silent
        /\ report' = "Ack"
    BY <1>10 DEF ReplaceAccepted, Publish, FirstOfReplace
  <2>3. books' = Changed(mid, sym, AfterAdd(b, r)) BY <1>4, <2>2
  <2>4. /\ DOMAIN more = DOMAIN less \cup {r.id}
        /\ more[r.id] = info
        /\ \A o \in DOMAIN less : more[o] = less[o]
    BY <1>2, <1>7
  <2> HIDE DEF more, mid, less, cnt, b, sym, info
  <2>5. /\ left \in Nat
        /\ Agree(books', route', restingCount')
        /\ Mirrors(Drop(shadow, old), mid) =>
             Mirrors(Applied(WithRemainder(Drop(shadow, old), sym, r, left), te), books')
    <3>1. sym = info.symbol BY DEF sym
    <3>2. /\ left \in Nat
          /\ Agree(Changed(mid, sym, AfterAdd(b, r)), more, NoteResting(cnt, info))
          /\ Mirrors(Drop(shadow, old), mid) =>
               Mirrors(Applied(WithRemainder(Drop(shadow, old), sym, r, left), te),
                       Changed(mid, sym, AfterAdd(b, r)))
      BY <1>1, <1>3, <1>7, <2>1, <2>4, <3>1, NewOrderIn
    <3> QED BY <2>2, <2>3, <3>2
  <2>6. /\ shadow' = Applied(WithRemainder(Drop(shadow, old), sym, r, left), te)
        /\ Held(shadow')
    <3>1. Applied(shadow, <<FirstOfReplace(old, sym, r, left)>> \o te)
            = Applied(WithRemainder(Drop(shadow, old), sym, r, left), te)
      <4>1. te = TradeEvents(Trades(b, r)) /\ left \in Nat BY <2>5
      <4> HIDE DEF te, left
      <4> QED BY <1>1, <1>3, <1>5, <4>1, EventsOfReplace
    <3>2. Held(Applied(WithRemainder(Drop(shadow, old), sym, r, left), te))
      BY <1>3, <1>5, <1>6, <2>5, EventsOfAdd
    <3> QED BY <2>2, <3>1, <3>2
  <2>7. lastTrade' \in [Symbol -> Price \cup {NoPrice}] BY <1>3, <1>5, <2>2, NotedPrice DEF IInv
  <2>8. DOMAIN route' \subseteq used' BY <1>7, <2>2, <2>4
  <2>9. ~silent' => Mirrors(shadow', books') BY <1>3, <2>2, <2>5, <2>6 DEF IInv
  <2>10. silent' \in BOOLEAN BY <2>2 DEF IInv
  <2> HIDE DEF left, te
  <2> QED BY <1>7, <2>2, <2>5, <2>6, <2>7, <2>8, <2>9, <2>10 DEF IInv
<1> QED BY <1>8, <1>9, <1>10

\* Every action keeps it, and so does a step that changes nothing.
LEMMA NextIInv == IInv /\ [Next]_vars => IInv'
<1> SUFFICES ASSUME IInv, [Next]_vars PROVE IInv' OBVIOUS
<1>1. \A id \in OrderId, side \in Side, p \in Price, q \in Quantity :
        Order(id, side, p, q) \in LimitOrder
  BY OrderAssumption DEF Order, LimitOrder
<1>2. CASE AddOrder
  <2>1. PICK id \in OrderId, sym \in Symbol, mpid \in Mpid, side \in Side, p \in Price, q \in Quantity :
          LET r == Order(id, side, p, q)
              info == [symbol |-> sym, side |-> side, mpid |-> mpid]
          IN AddRefusedByRisk(r, info) \/ AddAccepted(r, info) \/ AddRefusedByBook(r, info)
    BY <1>2 DEF AddOrder
  <2> DEFINE r == Order(id, side, p, q)
             info == [symbol |-> sym, side |-> side, mpid |-> mpid]
  <2>2. r \in LimitOrder /\ info \in Infos /\ info.side = r.side BY <1>1 DEF Order, Infos
  <2> HIDE DEF r, info
  <2> QED BY <2>1, <2>2, AddStep DEF r, info
<1>3. CASE OrderReplace
  <2>1. PICK old \in DOMAIN route, id \in OrderId, p \in Price, q \in Quantity :
          LET r == Order(id, route[old].side, p, q) IN
          ReplaceRefusedByRisk(old, r) \/ ReplaceAccepted(old, r) \/ ReplaceRefusedByBook(old, r)
    BY <1>3 DEF OrderReplace
  <2> DEFINE r == Order(id, route[old].side, p, q)
  <2>2. r \in LimitOrder
    <3>1. route[old].side \in Side BY DEF IInv, Agree, Infos
    <3> QED BY <1>1, <3>1
  <2> HIDE DEF r
  <2> QED BY <2>1, <2>2, ReplaceStep DEF r
<1>4. CASE \E id \in DOMAIN route, q \in Quantity : OrderCancelOrExecuted(id, q)
  <2>1. PICK id \in DOMAIN route, q \in Quantity : OrderCancelOrExecuted(id, q) BY <1>4
  <2>2. q \in Nat /\ ReduceRouted(id, q) /\ UNCHANGED lastTrade
    BY <2>1, OrderAssumption DEF OrderCancelOrExecuted
  <2> QED BY <2>2, ReduceStep DEF IInv
<1>5. CASE \E id \in DOMAIN route, q \in Quantity, p \in Price : OrderExecutedWithPrice(id, q, p)
  <2>1. PICK id \in DOMAIN route, q \in Quantity, p \in Price : OrderExecutedWithPrice(id, q, p) BY <1>5
  <2>2. /\ q \in Nat /\ ReduceRouted(id, q)
        /\ lastTrade' = [lastTrade EXCEPT ![route[id].symbol] = p]
    BY <2>1, OrderAssumption DEF OrderExecutedWithPrice
  <2>3. lastTrade' \in [Symbol -> Price \cup {NoPrice}] BY <2>2 DEF IInv
  <2> QED BY <2>2, <2>3, ReduceStep DEF IInv
<1>6. CASE \E id \in DOMAIN route : OrderDelete(id) BY <1>6, DeleteStep
<1>7. CASE Ignored \/ UNCHANGED vars
  <2>1. UNCHANGED <<books, route, restingCount, lastTrade, shadow, used, silent>>
    BY <1>7 DEF Ignored, vars
  <2>2. report' \in {"none", "Ack", "Reject"} BY <1>7 DEF Ignored, vars, IInv
  <2> QED BY <2>1, <2>2 DEF IInv
<1> QED BY <1>2, <1>3, <1>4, <1>5, <1>6, <1>7 DEF Next

\* The invariant holds always.
LEMMA Inductive == Spec => []IInv
<1>1. IInv /\ UNCHANGED vars => IInv' BY NextIInv
<1> QED BY InitIInv, NextIInv, PTL DEF Spec
------------------------------------------------------------------------------
(* What the run checks *)

\* Books, routes, counters and the subscriber's orders keep their types through
\* every message on_message() handles.
THEOREM TypeCorrect == Spec => []TypeOK
<1>1. ASSUME IInv PROVE TypeOK
  <2>1. DOMAIN books = Symbol BY <1>1 DEF IInv, Agree
  <2>2. ASSUME NEW s \in Symbol
        PROVE  /\ books[s].window \in Window
               /\ DOMAIN books[s].resting \subseteq OrderId
               /\ \A id \in DOMAIN books[s].resting :
                    books[s].resting[id] \in [side: Side, price: Price, qty: Nat]
    <3>1. Sound(books[s]) BY <1>1 DEF IInv, Agree
    <3>2. DOMAIN books[s].resting \subseteq DOMAIN route BY <1>1 DEF IInv, Agree, Covered
    <3> QED BY <1>1, <3>1, <3>2 DEF Sound, Booked, OrderAt, IInv
  <2> QED BY <1>1, <2>1, <2>2 DEF IInv, Agree, Held, TypeOK
<1> QED BY <1>1, Inductive, PTL

\* Every resting order can be reached by a later message about it: its route is
\* taken out only when the order is gone from the book, by order_symbol_.erase()
\* after a cancel, and an exception leaves neither.
THEOREM OrdersAreRouted == Spec => []RoutesCoverBooks
<1>1. ASSUME IInv PROVE RoutesCoverBooks
  BY <1>1 DEF IInv, Agree, Covered, RoutesCoverBooks
<1> QED BY <1>1, Inductive, PTL

\* resting_count_ is the number of routes of a participant, symbol and side; no
\* path through add, replace or the exception handler counts an order twice or
\* leaves a count behind.
THEOREM CountersAreExact == Spec => []CountsMatchRoutes
<1>1. ASSUME IInv PROVE CountsMatchRoutes
  BY <1>1 DEF IInv, Agree, Believed, CountsMatchRoutes
<1> QED BY <1>1, Inductive, PTL

\* A participant has orders on one side of a symbol only, because check() looks
\* at a counter that is never less than the orders that rest.
THEOREM NoSelfTrade == Spec => []OneSidedParticipants
<1>1. ASSUME IInv PROVE OneSidedParticipants
  BY <1>1 DEF IInv, Agree, OneSided, OneSidedParticipants
<1> QED BY <1>1, Inductive, PTL

\* As long as no refused message changed a book, the market data events of
\* on_message() are all a subscriber needs: what Builder::apply() makes of them
\* is the engine's orders, with their remaining quantities.
THEOREM SubscriberFollows == Spec => []ShadowFollows
<1>1. ASSUME IInv PROVE ShadowFollows
  <2>1. Disjoint(books) BY <1>1, RestsWhereRouted DEF IInv
  <2> QED BY <1>1, <2>1, MirrorsTrueBooks DEF IInv, ShadowFollows
<1> QED BY <1>1, Inductive, PTL
==============================================================================
