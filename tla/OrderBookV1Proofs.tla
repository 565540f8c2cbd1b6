-------------------------- MODULE OrderBookV1Proofs --------------------------
(***************************************************************************)
(* The reference book keeps its index and its queues in agreement, and     *)
(* implements BookPromise, for any order ids, prices and quantities.       *)
(*                                                                         *)
(* The invariant speaks of the queue at a side and price, empty where      *)
(* there is no level.  A step changes one queue, in one of three ways: an  *)
(* order joins at the end, one leaves from anywhere, or the first one      *)
(* loses quantity.  What each does to orders and ranks is proved once.     *)
(* The refinement then follows OrderBookV2Proofs: every fill leaves the    *)
(* rest of the request the rest of its outcome (WholeFill, PartFill).      *)
(***************************************************************************)
EXTENDS OrderBookV1, PriceTimePriorityProofs

Waiting == [id: OrderId, qty: Nat]

TradeMade == [maker: OrderId, taker: OrderId, price: Price, qty: Nat]

QueuesTyped ==
    /\ DOMAIN queues = Side
    /\ \A s \in Side :
         /\ Prices(s) \in SUBSET Price
         /\ IsFiniteSet(Prices(s))
         /\ \A p \in Prices(s) : queues[s][p] \in Seq(Waiting) /\ queues[s][p] # <<>>

IndexTyped ==
    /\ Resting \in SUBSET OrderId
    /\ index \in [Resting -> [side: Side, price: Price]]

CallTyped ==
    /\ call \in {"idle", "check", "match"}
    /\ taker \in [id: OrderId \cup {-1}, side: Side, type: Type, price: Int, qty: Nat]
    /\ reply \in [trades: Seq(TradeMade), status: Status]

\* Where a queue has an order, the index has it too.
Indexed ==
    \A s \in Side, p \in Price : \A i \in DOMAIN QueueAt(s, p) :
        /\ QueueAt(s, p)[i].id \in Resting
        /\ index[QueueAt(s, p)[i].id] = [side |-> s, price |-> p]

\* No queue has an order twice.
Once ==
    \A s \in Side, p \in Price : \A i, j \in DOMAIN QueueAt(s, p) :
        QueueAt(s, p)[i].id = QueueAt(s, p)[j].id => i = j

\* Where the index has an order, the queue has it too.
Listed ==
    \A o \in Resting : \E i \in DOMAIN QueueAt(index[o].side, index[o].price) :
        QueueAt(index[o].side, index[o].price)[i].id = o

\* What add() works on does not rest yet; PostOnly gets past the first check only
\* if it reaches nobody.
Working ==
    call # "idle" =>
        /\ taker.id \in OrderId \ Resting
        /\ taker.price \in Price
        /\ call = "check" => reply = NoReply
        /\ call = "match" /\ taker.type = "PostOnly" => ~WouldCross(taker)

IInv == QueuesTyped /\ IndexTyped /\ CallTyped /\ Indexed /\ Once /\ Listed /\ Working
------------------------------------------------------------------------------
(* Queues *)

\* Sequence u is sequence q without its kth element.
Dropped(q, k, u) ==
    /\ DOMAIN u = 1 .. (Len(q) - 1)
    /\ \A j \in DOMAIN u : u[j] = q[IF j < k THEN j ELSE j + 1]

\* pop_front() leaves the queue without its first element.
LEMMA TailDrops ==
    ASSUME NEW S, NEW q \in Seq(S), q # <<>>
    PROVE  1 \in DOMAIN q /\ Head(q) = q[1] /\ Tail(q) \in Seq(S) /\ Dropped(q, 1, Tail(q))
<1>1. Len(q) \in Nat /\ Len(q) > 0 /\ DOMAIN q = 1 .. Len(q) OBVIOUS
<1>2. Tail(q) \in Seq(S) /\ Len(Tail(q)) = Len(q) - 1 OBVIOUS
<1>3. DOMAIN Tail(q) = 1 .. (Len(q) - 1) BY <1>2
<1>4. \A j \in 1 .. (Len(q) - 1) : Tail(q)[j] = q[j + 1] BY <1>1
<1>5. \A j \in 1 .. (Len(q) - 1) : ~(j < 1) OBVIOUS
<1> QED BY <1>1, <1>2, <1>3, <1>4, <1>5 DEF Dropped

\* remove_if() leaves the queue without the one order of that id.
LEMMA EraseDrops ==
    ASSUME NEW S, NEW q \in Seq(S), NEW k \in DOMAIN q, NEW id, q[k].id = id,
           \A i \in DOMAIN q : q[i].id = id => i = k
    PROVE  Erased(q, id) \in Seq(S) /\ Dropped(q, k, Erased(q, id))
<1> DEFINE kept == {i \in DOMAIN q : q[i].id # id}
           upTo(i) == {j \in kept : j <= i}
           at(m) == IF m < k THEN m ELSE m + 1
<1>1. PICK n : n = Len(q) OBVIOUS
<1>2. n \in Nat /\ DOMAIN q = 1 .. n /\ k \in 1 .. n BY <1>1
<1>3. kept = (1 .. n) \ {k} BY <1>2
<1>4. Cardinality(kept) = n - 1
  <2>1. IsFiniteSet(1 .. n) /\ Cardinality(1 .. n) = n BY <1>2, FS_Interval
  <2> QED BY <1>2, <1>3, <2>1, FS_RemoveElement
<1>5. \A i \in 1 .. n : IsFiniteSet(1 .. i) /\ Cardinality(1 .. i) = i BY <1>2, FS_Interval
<1>6. \A i \in kept : Cardinality(upTo(i)) = IF i < k THEN i ELSE i - 1
  <2> SUFFICES ASSUME NEW i \in 1 .. n, i # k
               PROVE  Cardinality(upTo(i)) = IF i < k THEN i ELSE i - 1
    BY <1>3
  <2>1. CASE i < k
    <3>1. upTo(i) = 1 .. i BY <1>2, <1>3, <2>1
    <3> QED BY <3>1, <1>5, <2>1
  <2>2. CASE ~(i < k)
    <3>1. upTo(i) = (1 .. i) \ {k} /\ k \in 1 .. i BY <1>2, <1>3, <2>2
    <3>2. Cardinality((1 .. i) \ {k}) = Cardinality(1 .. i) - 1 BY <3>1, <1>5, FS_RemoveElement
    <3> QED BY <3>1, <3>2, <1>5, <2>2
  <2> QED BY <2>1, <2>2
<1>7. \A m \in 1 .. (n - 1) : at(m) \in kept /\ Cardinality(upTo(at(m))) = m
  <2> HIDE DEF upTo, kept
  <2> QED BY <1>2, <1>3, <1>6
<1>8. \A m \in 1 .. (n - 1) : \A i \in kept : Cardinality(upTo(i)) = m => i = at(m)
  <2> HIDE DEF upTo, kept
  <2> QED BY <1>2, <1>3, <1>6
<1>9. \A m \in 1 .. (n - 1) : (CHOOSE i \in kept : Cardinality(upTo(i)) = m) = at(m)
  <2> HIDE DEF upTo, kept, at
  <2> QED BY <1>7, <1>8
<1>10. Erased(q, id) = [m \in 1 .. (n - 1) |-> q[CHOOSE i \in kept : Cardinality(upTo(i)) = m]]
  BY <1>4 DEF Erased
<1>11. Erased(q, id) = [m \in 1 .. (n - 1) |-> q[at(m)]] BY <1>9, <1>10
<1>12. Dropped(q, k, Erased(q, id)) BY <1>1, <1>11 DEF Dropped
<1>13. \A m \in 1 .. (n - 1) : q[at(m)] \in S
  <2>1. \A i \in kept : q[i] \in S BY <1>1, <1>2
  <2> HIDE DEF kept, upTo, at
  <2> QED BY <2>1, <1>7
<1>14. Erased(q, id) \in [1 .. (n - 1) -> S] BY <1>11, <1>13
<1>15. n - 1 \in Nat BY <1>2
<1> QED BY <1>12, <1>14, <1>15

\* What is at a side and price is a queue of orders, with or without a level.
LEMMA QueueIs ==
    ASSUME QueuesTyped, NEW s \in Side, NEW p \in Price
    PROVE  /\ QueueAt(s, p) \in Seq(Waiting)
           /\ p \in Prices(s) <=> QueueAt(s, p) # <<>>
           /\ p \in Prices(s) => queues[s][p] = QueueAt(s, p)
           /\ Len(QueueAt(s, p)) \in Nat
           /\ DOMAIN QueueAt(s, p) = 1 .. Len(QueueAt(s, p))
           /\ \A i \in DOMAIN QueueAt(s, p) : /\ QueueAt(s, p)[i].id \in OrderId
                                              /\ QueueAt(s, p)[i].qty \in Nat
<1>1. QueueAt(s, p) \in Seq(Waiting) BY DEF QueuesTyped, QueueAt
<1>2. p \in Prices(s) <=> QueueAt(s, p) # <<>> BY DEF QueuesTyped, QueueAt
<1>3. PICK q : q = QueueAt(s, p) OBVIOUS
<1>4. q \in Seq(Waiting) BY <1>1, <1>3
<1>5. Len(q) \in Nat /\ DOMAIN q = 1 .. Len(q) /\ \A i \in DOMAIN q : q[i] \in Waiting BY <1>4
<1>6. \A i \in DOMAIN q : q[i].id \in OrderId /\ q[i].qty \in Nat BY <1>5 DEF Waiting
<1> QED BY <1>1, <1>2, <1>3, <1>5, <1>6 DEF QueueAt

\* The step puts queue u at s and p and leaves the other queues alone.
Sets(s, p, u) ==
    \A t \in Side, x \in Price : QueueAt(t, x)' = IF t = s /\ x = p THEN u ELSE QueueAt(t, x)

\* Assigning a queue, or erasing an empty one, does that.
LEMMA WithQueueSets ==
    ASSUME QueuesTyped, NEW s \in Side, NEW p \in Price, NEW u \in Seq(Waiting),
           queues' = WithQueue(s, p, u)
    PROVE  QueuesTyped' /\ Sets(s, p, u)
<1> DEFINE D == (Prices(s) \cup {p}) \ (IF u = <<>> THEN {p} ELSE {})
           f == [x \in D |-> IF x = p THEN u ELSE queues[s][x]]
<1>1. queues' = [queues EXCEPT ![s] = f] BY DEF WithQueue
<1>2. /\ DOMAIN queues' = Side
      /\ \A t \in Side : queues'[t] = IF t = s THEN f ELSE queues[t]
  BY <1>1 DEF QueuesTyped
<1>3. /\ DOMAIN f = D
      /\ \A x \in D : f[x] = IF x = p THEN u ELSE queues[s][x]
      /\ \A x : x \in D <=> IF x = p THEN u # <<>> ELSE x \in Prices(s)
  OBVIOUS
<1>4. D \in SUBSET Price /\ IsFiniteSet(D)
  <2>1. Prices(s) \in SUBSET Price /\ IsFiniteSet(Prices(s)) BY DEF QueuesTyped
  <2>2. IsFiniteSet(Prices(s) \cup {p}) BY <2>1, FS_AddElement
  <2>3. D \in SUBSET (Prices(s) \cup {p}) BY <1>3
  <2>4. IsFiniteSet(D) BY <2>2, <2>3, FS_Subset
  <2> QED BY <2>1, <2>3, <2>4
<1> HIDE DEF f, D
<1>5. QueuesTyped'
  <2>1. ASSUME NEW t \in Side
        PROVE  /\ DOMAIN queues'[t] \in SUBSET Price
               /\ IsFiniteSet(DOMAIN queues'[t])
               /\ \A x \in DOMAIN queues'[t] : queues'[t][x] \in Seq(Waiting) /\ queues'[t][x] # <<>>
    <3>1. CASE t = s
      <4>1. \A x \in D : f[x] \in Seq(Waiting) /\ f[x] # <<>> BY <1>3 DEF QueuesTyped, Prices
      <4> QED BY <3>1, <4>1, <1>2, <1>3, <1>4
    <3>2. CASE t # s BY <3>2, <1>2 DEF QueuesTyped, Prices
    <3> QED BY <3>1, <3>2
  <2> QED BY <2>1, <1>2 DEF QueuesTyped, Prices
<1>6. ASSUME NEW t \in Side, NEW x \in Price
      PROVE  QueueAt(t, x)' = IF t = s /\ x = p THEN u ELSE QueueAt(t, x)
  <2>1. QueueAt(t, x)' = IF x \in DOMAIN queues'[t] THEN queues'[t][x] ELSE <<>> BY DEF QueueAt, Prices
  <2>2. CASE t = s
    <3>1. queues'[t] = f BY <2>2, <1>2
    <3> QED BY <2>1, <2>2, <3>1, <1>3 DEF QueueAt, Prices
  <2>3. CASE t # s BY <2>1, <2>3, <1>2 DEF QueueAt, Prices
  <2> QED BY <2>2, <2>3
<1> QED BY <1>5, <1>6 DEF Sets

\* So does taking quantity from the first order of a level.
LEMMA LessAtHeadSets ==
    ASSUME QueuesTyped, NEW s \in Side, NEW p \in Prices(s), NEW fill \in Nat,
           NEW q, q = queues[s][p], fill <= q[1].qty,
           queues' = [queues EXCEPT ![s][p][1].qty = @ - fill],
           NEW u, u = [q EXCEPT ![1].qty = @ - fill]
    PROVE  QueuesTyped' /\ Sets(s, p, u) /\ u \in Seq(Waiting)
<1>1. q \in Seq(Waiting) /\ q # <<>> /\ p \in Price BY DEF QueuesTyped
<1>2. 1 \in DOMAIN q /\ q[1] \in Waiting BY <1>1
<1>3. [q[1] EXCEPT !.qty = q[1].qty - fill] \in Waiting BY <1>2 DEF Waiting
<1>4. u = [q EXCEPT ![1] = [q[1] EXCEPT !.qty = q[1].qty - fill]] BY <1>2
<1>5. u \in Seq(Waiting) /\ DOMAIN u = DOMAIN q BY <1>1, <1>3, <1>4
<1>6. u # <<>> BY <1>2, <1>5
<1>7. queues' = [queues EXCEPT ![s] = [queues[s] EXCEPT ![p] = u]]
  BY DEF QueuesTyped, Prices
<1>8. /\ DOMAIN queues' = Side
      /\ \A t \in Side : queues'[t] = IF t = s THEN [queues[s] EXCEPT ![p] = u] ELSE queues[t]
  BY <1>7 DEF QueuesTyped
<1>9. /\ DOMAIN [queues[s] EXCEPT ![p] = u] = Prices(s)
      /\ \A x \in Prices(s) : [queues[s] EXCEPT ![p] = u][x] = IF x = p THEN u ELSE queues[s][x]
  BY DEF Prices
<1>10. \A t \in Side : DOMAIN queues'[t] = Prices(t) BY <1>8, <1>9 DEF Prices
<1>11. \A t \in Side : \A x \in Prices(t) : queues'[t][x] = IF t = s /\ x = p THEN u ELSE queues[t][x]
  BY <1>8, <1>9
<1>12. QueuesTyped' BY <1>5, <1>6, <1>8, <1>10, <1>11 DEF QueuesTyped, Prices
<1>13. Sets(s, p, u) BY <1>10, <1>11 DEF Sets, QueueAt, Prices
<1> QED BY <1>5, <1>12, <1>13
------------------------------------------------------------------------------
(* Index and queues *)

Agreed == QueuesTyped /\ IndexTyped /\ Indexed /\ Once /\ Listed

\* The orders are those in the queues, and one is ahead of another when it stands
\* before it in the same queue.
OrdersAsQueued ==
    /\ DOMAIN RestingOrders = Resting
    /\ \A s \in Side, p \in Price : \A i \in DOMAIN QueueAt(s, p) :
         RestingOrders[QueueAt(s, p)[i].id] = [side |-> s, price |-> p, qty |-> QueueAt(s, p)[i].qty]
    /\ \A x, y : <<x, y>> \in QueueOrder <=>
         \E s \in Side, p \in Price : \E i, j \in DOMAIN QueueAt(s, p) :
            i < j /\ QueueAt(s, p)[i].id = x /\ QueueAt(s, p)[j].id = y

\* The least of one number is that number.
LEMMA MinOfOne ==
    ASSUME NEW i \in Nat
    PROVE  Min({i}) = i
<1>1. {i} \in SUBSET Nat /\ {i} # {} OBVIOUS
<1>2. Min({i}) \in {i} BY <1>1, MinOfNats
<1> QED BY <1>2

\* What the caller sees of a book whose index and queues agree.
LEMMA AgreedOrders == Agreed => OrdersAsQueued
<1> SUFFICES ASSUME Agreed PROVE OrdersAsQueued OBVIOUS
<1>1. QueuesTyped /\ IndexTyped /\ Indexed /\ Once /\ Listed BY DEF Agreed
<1>2. \A s \in Side, p \in Price : \A i \in DOMAIN QueueAt(s, p) :
        /\ QueueAt(s, p)[i].id \in Resting
        /\ index[QueueAt(s, p)[i].id] = [side |-> s, price |-> p]
        /\ Places(QueueAt(s, p)[i].id) = {i}
        /\ i \in Nat
  <2> SUFFICES ASSUME NEW s \in Side, NEW p \in Price, NEW i \in DOMAIN QueueAt(s, p)
               PROVE  /\ QueueAt(s, p)[i].id \in Resting
                      /\ index[QueueAt(s, p)[i].id] = [side |-> s, price |-> p]
                      /\ Places(QueueAt(s, p)[i].id) = {i}
                      /\ i \in Nat
    OBVIOUS
  <2>1. PICK q : q = QueueAt(s, p) OBVIOUS
  <2>2. PICK o : o = q[i].id OBVIOUS
  <2>3. o \in Resting /\ index[o] = [side |-> s, price |-> p] BY <1>1, <2>1, <2>2 DEF Indexed
  <2>4. index[o].side = s /\ index[o].price = p BY <2>3
  <2>5. Places(o) = {j \in DOMAIN q : q[j].id = o} BY <2>1, <2>4 DEF Places
  <2>6. \A j \in DOMAIN q : q[j].id = o => j = i BY <1>1, <2>1, <2>2 DEF Once
  <2>7. Places(o) = {i} BY <2>1, <2>2, <2>5, <2>6
  <2>8. i \in Nat
    <3>1. DOMAIN q = 1 .. Len(q) /\ Len(q) \in Nat BY <1>1, <2>1, QueueIs
    <3> QED BY <3>1, <2>1
  <2> QED BY <2>1, <2>2, <2>3, <2>7, <2>8
<1>3. \A s \in Side, p \in Price : \A i \in DOMAIN QueueAt(s, p) :
        RestingOrders[QueueAt(s, p)[i].id] = [side |-> s, price |-> p, qty |-> QueueAt(s, p)[i].qty]
  <2> SUFFICES ASSUME NEW s \in Side, NEW p \in Price, NEW i \in DOMAIN QueueAt(s, p)
               PROVE  RestingOrders[QueueAt(s, p)[i].id]
                        = [side |-> s, price |-> p, qty |-> QueueAt(s, p)[i].qty]
    OBVIOUS
  <2>1. PICK q : q = QueueAt(s, p) OBVIOUS
  <2>2. PICK o : o = q[i].id OBVIOUS
  <2>3. o \in Resting /\ index[o] = [side |-> s, price |-> p] /\ Places(o) = {i} /\ i \in Nat
    BY <1>2, <2>1, <2>2
  <2>4. index[o].side = s /\ index[o].price = p BY <2>3
  <2>5. Min(Places(o)) = i /\ Places(o) # {} BY <2>3, MinOfOne
  <2>6. RestingOrders[o] = [side |-> s, price |-> p, qty |-> q[i].qty]
    BY <2>1, <2>3, <2>4, <2>5 DEF RestingOrders
  <2> QED BY <2>1, <2>2, <2>6
<1>4. ASSUME NEW x, NEW y
      PROVE  <<x, y>> \in QueueOrder <=>
               \E s \in Side, p \in Price : \E i, j \in DOMAIN QueueAt(s, p) :
                  i < j /\ QueueAt(s, p)[i].id = x /\ QueueAt(s, p)[j].id = y
  <2>1. ASSUME <<x, y>> \in QueueOrder
        PROVE  \E s \in Side, p \in Price : \E i, j \in DOMAIN QueueAt(s, p) :
                  i < j /\ QueueAt(s, p)[i].id = x /\ QueueAt(s, p)[j].id = y
    <3>1. /\ x \in Resting /\ y \in Resting /\ index[x] = index[y]
          /\ \E i \in Places(x), j \in Places(y) : i < j
      BY <2>1 DEF QueueOrder
    <3>2. PICK i \in Places(x), j \in Places(y) : i < j BY <3>1
    <3>3. PICK s, p : s = index[x].side /\ p = index[x].price OBVIOUS
    <3>4. s \in Side /\ p \in Price BY <1>1, <3>1, <3>3 DEF IndexTyped
    <3>5. i \in DOMAIN QueueAt(s, p) /\ QueueAt(s, p)[i].id = x BY <3>3 DEF Places
    <3>6. j \in DOMAIN QueueAt(s, p) /\ QueueAt(s, p)[j].id = y BY <3>1, <3>3 DEF Places
    <3> QED BY <3>2, <3>4, <3>5, <3>6
  <2>2. ASSUME NEW s \in Side, NEW p \in Price, NEW i \in DOMAIN QueueAt(s, p), NEW j \in DOMAIN QueueAt(s, p),
               i < j, QueueAt(s, p)[i].id = x, QueueAt(s, p)[j].id = y
        PROVE  <<x, y>> \in QueueOrder
    <3>1. x \in Resting /\ index[x] = [side |-> s, price |-> p] /\ Places(x) = {i} BY <1>2, <2>2
    <3>2. y \in Resting /\ index[y] = [side |-> s, price |-> p] /\ Places(y) = {j} BY <1>2, <2>2
    <3> QED BY <2>2, <3>1, <3>2 DEF QueueOrder
  <2> QED BY <2>1, <2>2
<1>5. DOMAIN RestingOrders = Resting BY DEF RestingOrders
<1> QED BY <1>3, <1>4, <1>5 DEF OrdersAsQueued

\* The same of the next state.
LEMMA AgreedOrdersNext == Agreed' => OrdersAsQueued'
BY AgreedOrders, PTL

\* The order at place k leaves its queue.
Leaves(s, p, k, u) ==
    /\ k \in DOMAIN QueueAt(s, p)
    /\ u \in Seq(Waiting)
    /\ Dropped(QueueAt(s, p), k, u)
    /\ Sets(s, p, u)
    /\ index' = [o \in Resting \ {QueueAt(s, p)[k].id} |-> index[o]]

\* Index and queues still agree.
LEMMA LeavesAgreed ==
    ASSUME Agreed, QueuesTyped', NEW s \in Side, NEW p \in Price, NEW k, NEW u, Leaves(s, p, k, u),
           NEW m, m = QueueAt(s, p)[k].id
    PROVE  Agreed' /\ Resting' = Resting \ {m} /\ m \in Resting
<1>1. PICK q : q = QueueAt(s, p) OBVIOUS
<1>2. /\ QueuesTyped /\ IndexTyped /\ Indexed /\ Once /\ Listed
      /\ k \in DOMAIN q /\ Dropped(q, k, u) /\ m = q[k].id
      /\ index' = [o \in Resting \ {m} |-> index[o]]
      /\ \A t \in Side, x \in Price : QueueAt(t, x)' = IF t = s /\ x = p THEN u ELSE QueueAt(t, x)
  BY <1>1 DEF Agreed, Leaves, Sets
<1>3. Len(q) \in Nat /\ DOMAIN q = 1 .. Len(q) BY <1>1, <1>2, QueueIs
<1>4. m \in Resting /\ index[m] = [side |-> s, price |-> p] BY <1>1, <1>2 DEF Indexed
<1>5. Resting' = Resting \ {m} BY <1>2 DEF Resting
<1>6. IndexTyped' BY <1>2, <1>5 DEF IndexTyped
<1>7. /\ \A j \in DOMAIN u : \E i \in DOMAIN q : i # k /\ u[j] = q[i]
      /\ \A i \in DOMAIN q : i # k => \E j \in DOMAIN u : u[j] = q[i]
  <2>1. ASSUME NEW j \in DOMAIN u PROVE \E i \in DOMAIN q : i # k /\ u[j] = q[i]
    <3>1. j \in 1 .. (Len(q) - 1) /\ u[j] = q[IF j < k THEN j ELSE j + 1] BY <1>2 DEF Dropped
    <3>2. (IF j < k THEN j ELSE j + 1) \in DOMAIN q /\ (IF j < k THEN j ELSE j + 1) # k
      BY <3>1, <1>2, <1>3
    <3> QED BY <3>1, <3>2
  <2>2. ASSUME NEW i \in DOMAIN q, i # k PROVE \E j \in DOMAIN u : u[j] = q[i]
    <3>1. CASE i < k
      <4>1. i \in DOMAIN u BY <3>1, <1>2, <1>3 DEF Dropped
      <4> QED BY <4>1, <3>1, <1>2 DEF Dropped
    <3>2. CASE ~(i < k)
      <4>1. i - 1 \in 1 .. (Len(q) - 1) /\ ~(i - 1 < k) /\ (i - 1) + 1 = i BY <3>2, <2>2, <1>2, <1>3
      <4>2. i - 1 \in DOMAIN u BY <4>1, <1>2 DEF Dropped
      <4>3. u[i - 1] = q[(i - 1) + 1] BY <4>1, <4>2, <1>2 DEF Dropped
      <4> QED BY <4>1, <4>2, <4>3
    <3> QED BY <3>1, <3>2
  <2> QED BY <2>1, <2>2
<1>8. \A i \in DOMAIN q : q[i].id = m => i = k BY <1>1, <1>2 DEF Once
<1>9. Indexed'
  <2> SUFFICES ASSUME NEW t \in Side, NEW x \in Price, NEW j \in DOMAIN QueueAt(t, x)'
               PROVE  /\ QueueAt(t, x)'[j].id \in Resting'
                      /\ index'[QueueAt(t, x)'[j].id] = [side |-> t, price |-> x]
    BY DEF Indexed
  <2>1. CASE t = s /\ x = p
    <3>1. QueueAt(t, x)' = u BY <1>2, <2>1
    <3>2. PICK i \in DOMAIN q : i # k /\ u[j] = q[i] BY <1>7, <3>1
    <3>3. q[i].id \in Resting /\ index[q[i].id] = [side |-> s, price |-> p] /\ q[i].id # m
      BY <1>1, <1>2, <1>8, <3>2 DEF Indexed
    <3> QED BY <2>1, <3>1, <3>2, <3>3, <1>2, <1>5
  <2>2. CASE ~(t = s /\ x = p)
    <3>1. QueueAt(t, x)' = QueueAt(t, x) BY <1>2, <2>2
    <3>2. PICK o : o = QueueAt(t, x)[j].id OBVIOUS
    <3>3. o \in Resting /\ index[o] = [side |-> t, price |-> x] BY <1>2, <3>1, <3>2 DEF Indexed
    <3>4. o # m BY <1>4, <2>2, <3>3
    <3> QED BY <3>1, <3>2, <3>3, <3>4, <1>2, <1>5
  <2> QED BY <2>1, <2>2
<1>10. Once'
  <2> SUFFICES ASSUME NEW t \in Side, NEW x \in Price,
                      NEW i \in DOMAIN QueueAt(t, x)', NEW j \in DOMAIN QueueAt(t, x)',
                      QueueAt(t, x)'[i].id = QueueAt(t, x)'[j].id
               PROVE  i = j
    BY DEF Once
  <2>1. CASE t = s /\ x = p
    <3>1. QueueAt(t, x)' = u BY <1>2, <2>1
    <3>2. /\ i \in 1 .. (Len(q) - 1) /\ j \in 1 .. (Len(q) - 1)
          /\ u[i] = q[IF i < k THEN i ELSE i + 1] /\ u[j] = q[IF j < k THEN j ELSE j + 1]
      BY <3>1, <1>2 DEF Dropped
    <3>3. PICK a, b : a = (IF i < k THEN i ELSE i + 1) /\ b = (IF j < k THEN j ELSE j + 1) OBVIOUS
    <3>4. a \in DOMAIN q /\ b \in DOMAIN q /\ (a = b => i = j) BY <3>2, <3>3, <1>2, <1>3
    <3>5. q[a].id = q[b].id BY <3>1, <3>2, <3>3
    <3>6. a = b BY <3>4, <3>5, <1>1, <1>2 DEF Once
    <3> QED BY <3>4, <3>6
  <2>2. CASE ~(t = s /\ x = p)
    <3>1. QueueAt(t, x)' = QueueAt(t, x) BY <1>2, <2>2
    <3> QED BY <3>1, <1>2 DEF Once
  <2> QED BY <2>1, <2>2
<1>11. Listed'
  <2> SUFFICES ASSUME NEW o \in Resting \ {m}, NEW t, t = index[o].side, NEW x, x = index[o].price
               PROVE  \E j \in DOMAIN QueueAt(t, x)' : QueueAt(t, x)'[j].id = o
    <3>1. \A o \in Resting \ {m} : index'[o] = index[o] BY <1>2
    <3> QED BY <3>1, <1>5 DEF Listed
  <2>1. t \in Side /\ x \in Price BY <1>2 DEF IndexTyped
  <2>2. PICK i \in DOMAIN QueueAt(t, x) : QueueAt(t, x)[i].id = o BY <1>2 DEF Listed
  <2>3. CASE t = s /\ x = p
    <3>1. QueueAt(t, x)' = u BY <1>2, <2>1, <2>3
    <3>2. i \in DOMAIN q /\ i # k /\ q[i].id = o BY <1>1, <1>2, <2>2, <2>3
    <3> QED BY <3>1, <3>2, <1>7
  <2>4. CASE ~(t = s /\ x = p) BY <1>2, <2>1, <2>2, <2>4
  <2> QED BY <2>3, <2>4
<1> QED BY <1>4, <1>5, <1>6, <1>9, <1>10, <1>11 DEF Agreed

\* An order takes its place at the end of a queue.
Joins(s, p, o, qty) ==
    /\ Sets(s, p, Append(QueueAt(s, p), [id |-> o, qty |-> qty]))
    /\ index' = [x \in Resting \cup {o} |-> IF x = o THEN [side |-> s, price |-> p] ELSE index[x]]

\* What Append does to a queue, place by place.
LEMMA AppendIs ==
    ASSUME NEW q \in Seq(Waiting), NEW e \in Waiting
    PROVE  /\ Append(q, e) \in Seq(Waiting)
           /\ DOMAIN q = 1 .. Len(q) /\ Len(q) \in Nat
           /\ DOMAIN Append(q, e) = 1 .. (Len(q) + 1)
           /\ \A i \in DOMAIN q : i \in DOMAIN Append(q, e) /\ Append(q, e)[i] = q[i]
           /\ \A i \in DOMAIN Append(q, e) : i \notin DOMAIN q => i = Len(q) + 1
           /\ Append(q, e)[Len(q) + 1] = e
OBVIOUS

\* Index and queues still agree.
LEMMA JoinsAgreed ==
    ASSUME Agreed, QueuesTyped', NEW s \in Side, NEW p \in Price, NEW m \in OrderId \ Resting,
           NEW qty \in Nat, Joins(s, p, m, qty)
    PROVE  Agreed' /\ Resting' = Resting \cup {m}
<1>1. PICK q : q = QueueAt(s, p) OBVIOUS
<1>2. PICK e : e = [id |-> m, qty |-> qty] OBVIOUS
<1>3. PICK u : u = Append(q, e) OBVIOUS
<1>4. /\ QueuesTyped /\ IndexTyped /\ Indexed /\ Once /\ Listed
      /\ index' = [x \in Resting \cup {m} |-> IF x = m THEN [side |-> s, price |-> p] ELSE index[x]]
      /\ \A t \in Side, x \in Price : QueueAt(t, x)' = IF t = s /\ x = p THEN u ELSE QueueAt(t, x)
  BY <1>1, <1>2, <1>3 DEF Agreed, Joins, Sets
<1>5. /\ q \in Seq(Waiting) /\ e \in Waiting /\ e.id = m BY <1>1, <1>2, <1>4, QueueIs DEF Waiting
<1>6. /\ DOMAIN q = 1 .. Len(q) /\ Len(q) \in Nat
      /\ DOMAIN u = 1 .. (Len(q) + 1)
      /\ \A i \in DOMAIN q : i \in DOMAIN u /\ u[i] = q[i]
      /\ \A i \in DOMAIN u : i \notin DOMAIN q => i = Len(q) + 1
      /\ u[Len(q) + 1].id = m
  BY <1>3, <1>5, AppendIs
<1>7. Resting' = Resting \cup {m} BY <1>4 DEF Resting
<1>8. IndexTyped' BY <1>4, <1>7 DEF IndexTyped
<1>9. \A t \in Side, x \in Price : \A i \in DOMAIN QueueAt(t, x) :
        /\ QueueAt(t, x)[i].id \in Resting /\ QueueAt(t, x)[i].id # m
        /\ index'[QueueAt(t, x)[i].id] = [side |-> t, price |-> x]
  BY <1>4 DEF Indexed
<1>10. Indexed'
  <2> SUFFICES ASSUME NEW t \in Side, NEW x \in Price, NEW j \in DOMAIN QueueAt(t, x)'
               PROVE  /\ QueueAt(t, x)'[j].id \in Resting'
                      /\ index'[QueueAt(t, x)'[j].id] = [side |-> t, price |-> x]
    BY DEF Indexed
  <2>1. CASE t = s /\ x = p
    <3>1. QueueAt(t, x)' = u BY <1>4, <2>1
    <3>2. CASE j \in DOMAIN q BY <2>1, <3>1, <3>2, <1>1, <1>6, <1>7, <1>9
    <3>3. CASE j \notin DOMAIN q
      <4>1. u[j].id = m BY <3>1, <3>3, <1>6
      <4> QED BY <2>1, <3>1, <4>1, <1>4, <1>7
    <3> QED BY <3>2, <3>3
  <2>2. CASE ~(t = s /\ x = p)
    <3>1. QueueAt(t, x)' = QueueAt(t, x) BY <1>4, <2>2
    <3> QED BY <3>1, <1>7, <1>9
  <2> QED BY <2>1, <2>2
<1>11. Once'
  <2> SUFFICES ASSUME NEW t \in Side, NEW x \in Price,
                      NEW i \in DOMAIN QueueAt(t, x)', NEW j \in DOMAIN QueueAt(t, x)',
                      QueueAt(t, x)'[i].id = QueueAt(t, x)'[j].id
               PROVE  i = j
    BY DEF Once
  <2>1. CASE t = s /\ x = p
    <3>1. QueueAt(t, x)' = u BY <1>4, <2>1
    <3>2. \A a \in DOMAIN q : u[a].id # m
      <4>1. \A a \in DOMAIN q : q[a].id # m BY <1>1, <1>9
      <4> QED BY <4>1, <1>6
    <3>3. \A a, b \in DOMAIN q : u[a].id = u[b].id => a = b BY <1>1, <1>4, <1>6 DEF Once
    <3>4. \A a \in DOMAIN u : a \notin DOMAIN q => a = Len(q) + 1 /\ u[a].id = m BY <1>6
    <3> QED BY <3>1, <3>2, <3>3, <3>4
  <2>2. CASE ~(t = s /\ x = p)
    <3>1. QueueAt(t, x)' = QueueAt(t, x) BY <1>4, <2>2
    <3> QED BY <3>1, <1>4 DEF Once
  <2> QED BY <2>1, <2>2
<1>12. Listed'
  <2> SUFFICES ASSUME NEW o \in Resting', NEW t, t = index'[o].side, NEW x, x = index'[o].price
               PROVE  \E j \in DOMAIN QueueAt(t, x)' : QueueAt(t, x)'[j].id = o
    BY DEF Listed
  <2>1. CASE o = m
    <3>1. t = s /\ x = p BY <2>1, <1>4
    <3>2. QueueAt(s, p)' = u BY <1>4
    <3>3. Len(q) + 1 \in DOMAIN u BY <1>6
    <3> QED BY <2>1, <3>1, <3>2, <3>3, <1>6
  <2>2. CASE o # m
    <3>2. o \in Resting /\ t = index[o].side /\ x = index[o].price BY <2>2, <1>4, <1>7
    <3>3. t \in Side /\ x \in Price BY <3>2, <1>4 DEF IndexTyped
    <3>4. PICK i \in DOMAIN QueueAt(t, x) : QueueAt(t, x)[i].id = o BY <3>2, <1>4 DEF Listed
    <3>5. i \in DOMAIN QueueAt(t, x)' /\ QueueAt(t, x)'[i].id = o
      <4>1. CASE t = s /\ x = p BY <4>1, <3>4, <1>1, <1>4, <1>6
      <4>2. CASE ~(t = s /\ x = p) BY <4>2, <3>3, <3>4, <1>4
      <4> QED BY <4>1, <4>2
    <3> QED BY <3>5
  <2> QED BY <2>1, <2>2
<1> QED BY <1>4, <1>7, <1>8, <1>10, <1>11, <1>12 DEF Agreed

\* The first order of a queue has less.
Shrinks(s, p, fill) ==
    /\ Sets(s, p, [QueueAt(s, p) EXCEPT ![1].qty = @ - fill])
    /\ index' = index

\* What that does to a queue, place by place.
LEMMA ShrunkIs ==
    ASSUME NEW q \in Seq(Waiting), q # <<>>, NEW fill, NEW u, u = [q EXCEPT ![1].qty = @ - fill]
    PROVE  /\ DOMAIN u = DOMAIN q
           /\ \A i \in DOMAIN q : /\ u[i].id = q[i].id
                                  /\ u[i].qty = IF i = 1 THEN q[1].qty - fill ELSE q[i].qty
<1>1. 1 \in DOMAIN q /\ q[1] \in Waiting OBVIOUS
<1>2. u = [q EXCEPT ![1] = [q[1] EXCEPT !.qty = q[1].qty - fill]] BY <1>1
<1>3. DOMAIN u = DOMAIN q /\ u[1] = [q[1] EXCEPT !.qty = q[1].qty - fill]
      /\ \A i \in DOMAIN q : i # 1 => u[i] = q[i]
  BY <1>1, <1>2
<1>4. u[1].id = q[1].id /\ u[1].qty = q[1].qty - fill BY <1>1, <1>3 DEF Waiting
<1> QED BY <1>3, <1>4

\* Index and queues still agree.
LEMMA ShrinksAgreed ==
    ASSUME Agreed, QueuesTyped', NEW s \in Side, NEW p \in Price, NEW fill,
           QueueAt(s, p) # <<>>, Shrinks(s, p, fill)
    PROVE  Agreed' /\ Resting' = Resting
<1>1. QueuesTyped /\ IndexTyped /\ Indexed /\ Once /\ Listed /\ index' = index BY DEF Agreed, Shrinks
<1>2. Resting' = Resting /\ IndexTyped' BY <1>1 DEF Resting, IndexTyped
<1>3. \A t \in Side, x \in Price :
        /\ DOMAIN QueueAt(t, x)' = DOMAIN QueueAt(t, x)
        /\ \A i \in DOMAIN QueueAt(t, x) : QueueAt(t, x)'[i].id = QueueAt(t, x)[i].id
  <2> SUFFICES ASSUME NEW t \in Side, NEW x \in Price
               PROVE  /\ DOMAIN QueueAt(t, x)' = DOMAIN QueueAt(t, x)
                      /\ \A i \in DOMAIN QueueAt(t, x) : QueueAt(t, x)'[i].id = QueueAt(t, x)[i].id
    OBVIOUS
  <2>1. PICK q : q = QueueAt(s, p) OBVIOUS
  <2>2. PICK u : u = [q EXCEPT ![1].qty = @ - fill] OBVIOUS
  <2>3. q \in Seq(Waiting) /\ q # <<>> BY <2>1, <1>1, QueueIs
  <2>4. DOMAIN u = DOMAIN q /\ \A i \in DOMAIN q : u[i].id = q[i].id BY <2>2, <2>3, ShrunkIs
  <2>5. QueueAt(t, x)' = IF t = s /\ x = p THEN u ELSE QueueAt(t, x)
    BY <2>1, <2>2 DEF Shrinks, Sets
  <2> QED BY <2>1, <2>4, <2>5
<1>4. Indexed'
  <2> SUFFICES ASSUME NEW t \in Side, NEW x \in Price, NEW j \in DOMAIN QueueAt(t, x)'
               PROVE  /\ QueueAt(t, x)'[j].id \in Resting'
                      /\ index'[QueueAt(t, x)'[j].id] = [side |-> t, price |-> x]
    BY DEF Indexed
  <2>1. j \in DOMAIN QueueAt(t, x) /\ QueueAt(t, x)'[j].id = QueueAt(t, x)[j].id BY <1>3
  <2>2. PICK o : o = QueueAt(t, x)[j].id OBVIOUS
  <2>3. o \in Resting /\ index[o] = [side |-> t, price |-> x] BY <2>1, <2>2, <1>1 DEF Indexed
  <2> QED BY <2>1, <2>2, <2>3, <1>1, <1>2
<1>5. Once' BY <1>1, <1>3 DEF Once
<1>6. Listed'
  <2>1. \A o \in Resting : index[o].side \in Side /\ index[o].price \in Price BY <1>1 DEF IndexTyped
  <2> QED BY <2>1, <1>1, <1>2, <1>3 DEF Listed
<1> QED BY <1>1, <1>2, <1>4, <1>5, <1>6 DEF Agreed
------------------------------------------------------------------------------
(* The best level *)

\* A finite set of numbers has a least and a greatest one.
LEMMA Extremes ==
    ASSUME NEW S \in SUBSET Int, IsFiniteSet(S), S # {}
    PROVE  /\ \E x \in S : \A y \in S : x <= y
           /\ \E x \in S : \A y \in S : x >= y
<1> DEFINE R == {pair \in S \X S : pair[1] < pair[2]}
<1>1. \A x, y \in S : <<x, y>> \in R <=> x < y OBVIOUS
<1>2. StrictTotalOrder(R, S)
  <2> HIDE DEF R
  <2>1. \A x, y \in S : x \in Int /\ y \in Int OBVIOUS
  <2> QED BY <1>1, <2>1 DEF StrictTotalOrder
<1>3. PICK s : Lists(s, S, R)
  <2> HIDE DEF R
  <2> QED BY <1>2, Listing
<1>4. /\ s \in SetToSeqs(S) /\ \A i, j \in DOMAIN s : i < j => <<s[i], s[j]>> \in R
  BY <1>3 DEF Lists
<1>5. PICK n : n = Cardinality(S) OBVIOUS
<1>6. /\ n \in Nat /\ DOMAIN s = 1 .. n /\ \A i \in DOMAIN s : s[i] \in S
      /\ \A x \in S : \E i \in DOMAIN s : s[i] = x
  <2>1. s \in Seq(S) /\ n \in Nat /\ DOMAIN s = 1 .. n /\ \A x \in S : \E i \in DOMAIN s : s[i] = x
    BY <1>4, <1>5, SeqsCover
  <2> QED BY <2>1
<1> HIDE DEF R
<1>7. n >= 1 /\ 1 \in DOMAIN s /\ n \in DOMAIN s
  <2>1. PICK x \in S : TRUE OBVIOUS
  <2>2. PICK i \in DOMAIN s : s[i] = x BY <2>1, <1>6
  <2>3. n >= 1 BY <2>2, <1>6
  <2> QED BY <2>3, <1>6
<1>8. \A i, j \in 1 .. n : i < j => s[i] < s[j] BY <1>1, <1>4, <1>6
<1>9. \A y \in S : s[1] <= y /\ s[n] >= y
  <2> SUFFICES ASSUME NEW i \in 1 .. n PROVE s[1] <= s[i] /\ s[n] >= s[i]
    BY <1>6
  <2>1. s[1] \in Int /\ s[n] \in Int /\ s[i] \in Int
    <3>1. \A j \in DOMAIN s : s[j] \in Int BY <1>6
    <3> QED BY <3>1, <1>6, <1>7
  <2>2. i = 1 \/ s[1] < s[i] BY <1>7, <1>8
  <2>3. i = n \/ s[i] < s[n] BY <1>6, <1>7, <1>8
  <2> QED BY <2>1, <2>2, <2>3
<1>10. s[1] \in S /\ s[n] \in S BY <1>6, <1>7
<1> QED BY <1>9, <1>10

\* begin() of a side that has levels is its best one.
LEMMA BestIs ==
    ASSUME QueuesTyped, NEW s \in Side, Prices(s) # {}
    PROVE  /\ BestPrice(s) \in Prices(s) /\ BestPrice(s) \in Price /\ BestPrice(s) \in Int
           /\ \A p \in Prices(s) : p \in Int /\ ~BetterPrice(s, p, BestPrice(s))
<1>1. Prices(s) \in SUBSET Price /\ IsFiniteSet(Prices(s)) /\ Price \subseteq Int
  BY OrderAssumption DEF QueuesTyped
<1>2. PICK lo \in Prices(s) : \A y \in Prices(s) : lo <= y BY <1>1, Extremes
<1>3. PICK hi \in Prices(s) : \A y \in Prices(s) : hi >= y BY <1>1, Extremes
<1>4. Min(Prices(s)) \in Prices(s) /\ \A y \in Prices(s) : Min(Prices(s)) <= y
  BY <1>2 DEF Min
<1>5. Max(Prices(s)) \in Prices(s) /\ \A y \in Prices(s) : Max(Prices(s)) >= y
  BY <1>3 DEF Max
<1>6. \A p \in Prices(s) : p \in Int BY <1>1
<1>7. PICK b : b = BestPrice(s) OBVIOUS
<1>8. b \in Prices(s) /\ \A y \in Prices(s) : IF s = "Buy" THEN b >= y ELSE b <= y
  BY <1>4, <1>5, <1>7 DEF BestPrice
<1>9. \A p \in Prices(s) : ~BetterPrice(s, p, b) BY <1>6, <1>8 DEF BetterPrice
<1> QED BY <1>1, <1>6, <1>7, <1>8, <1>9

------------------------------------------------------------------------------
(* Steps *)

\* A step that leaves the book alone leaves its orders and queues alone.
LEMMA SameOrders ==
    ASSUME UNCHANGED book
    PROVE  /\ \A s, p : QueueAt(s, p)' = QueueAt(s, p)
           /\ Resting' = Resting
           /\ Agreed => Agreed'
           /\ RestingOrders' = RestingOrders
           /\ QueueOrder' = QueueOrder
<1>1. queues' = queues /\ index' = index BY DEF book
<1>2. \A s, p : QueueAt(s, p)' = QueueAt(s, p) BY <1>1 DEF QueueAt, Prices
<1>3. Resting' = Resting BY <1>1 DEF Resting
<1>4. Agreed => Agreed'
  BY <1>1 DEF Agreed, QueuesTyped, IndexTyped, Indexed, Once, Listed, QueueAt, Prices, Resting
<1>5. RestingOrders' = RestingOrders BY <1>1 DEF RestingOrders, Places, QueueAt, Prices, Resting
<1>6. QueueOrder' = QueueOrder BY <1>1 DEF QueueOrder, Places, QueueAt, Prices, Resting
<1> QED BY <1>2, <1>3, <1>4, <1>5, <1>6

\* The first order of the best level is matched: it goes, or the taker has nothing
\* left and it stays with less.
LEMMA FillSteps ==
    ASSUME IInv, Fill
    PROVE  \E s \in Side, p \in Price, m \in Resting, qty \in Nat, fill \in Nat :
              /\ s = Opposite(taker.side) /\ p = BestPrice(s) /\ p \in Prices(s)
              /\ QueueAt(s, p) # <<>> /\ 1 \in DOMAIN QueueAt(s, p)
              /\ m = QueueAt(s, p)[1].id /\ qty = QueueAt(s, p)[1].qty
              /\ fill <= taker.qty /\ fill <= qty
              /\ QueuesTyped'
              /\ \/ fill = qty /\ \E u : Leaves(s, p, 1, u)
                 \/ fill = taker.qty /\ fill < qty /\ Shrinks(s, p, fill)
              /\ taker' = [taker EXCEPT !.qty = taker.qty - fill]
              /\ reply' = [reply EXCEPT !.trades = Append(reply.trades, TradeOf(m, taker.id, p, fill))]
<1>1. PICK s : s = Opposite(taker.side) OBVIOUS
<1>2. PICK p : p = BestPrice(s) OBVIOUS
<1>3. PICK q : q = queues[s][p] OBVIOUS
<1>4. PICK m : m = Head(q).id OBVIOUS
<1>5. PICK qty : qty = Head(q).qty OBVIOUS
<1>6. PICK fill : fill = Min({taker.qty, qty}) OBVIOUS
<1>7. QueuesTyped /\ Indexed /\ taker.qty \in Nat /\ taker.side \in Side BY DEF IInv, CallTyped
<1>8. s \in Side BY <1>1 DEF Opposite, Side
<1>9. Prices(s) # {} BY <1>1 DEF Fill, CanMatch
<1>10. p \in Prices(s) /\ p \in Price BY <1>2, <1>7, <1>8, <1>9, BestIs
<1>11. q = QueueAt(s, p) /\ q \in Seq(Waiting) /\ q # <<>> BY <1>3, <1>7, <1>8, <1>10, QueueIs
<1>12. 1 \in DOMAIN q /\ Head(q) = q[1] /\ Tail(q) \in Seq(Waiting) /\ Dropped(q, 1, Tail(q))
  BY <1>11, TailDrops
<1>13. m \in Resting /\ qty \in Nat
  <2>1. q[1].id \in Resting BY <1>7, <1>8, <1>10, <1>11, <1>12 DEF Indexed
  <2>2. q[1].qty \in Nat BY <1>7, <1>8, <1>10, <1>11, <1>12, QueueIs
  <2> QED BY <2>1, <2>2, <1>4, <1>5, <1>12
<1>14. fill = (IF taker.qty <= qty THEN taker.qty ELSE qty) BY <1>6, <1>7, <1>13, MinOfTwo
<1>15. fill \in Nat /\ fill <= taker.qty /\ fill <= qty /\ (fill # qty => fill = taker.qty /\ fill < qty)
  BY <1>7, <1>13, <1>14
<1>16. /\ taker' = [taker EXCEPT !.qty = taker.qty - fill]
       /\ reply' = [reply EXCEPT !.trades = Append(reply.trades, TradeOf(m, taker.id, p, fill))]
       /\ IF fill = qty
          THEN /\ queues' = WithQueue(s, p, Tail(q))
               /\ index' = [id \in Resting \ {m} |-> index[id]]
          ELSE /\ queues' = [queues EXCEPT ![s][p][1].qty = @ - fill]
               /\ UNCHANGED index
  BY <1>1, <1>2, <1>3, <1>4, <1>5, <1>6 DEF Fill
<1>17. CASE fill = qty
  <2>1. QueuesTyped' /\ Sets(s, p, Tail(q))
    BY <1>7, <1>8, <1>10, <1>12, <1>16, <1>17, WithQueueSets
  <2>2. Leaves(s, p, 1, Tail(q)) BY <2>1, <1>4, <1>11, <1>12, <1>16, <1>17 DEF Leaves
  <2> QED BY <2>1, <2>2, <1>1, <1>2, <1>4, <1>5, <1>8, <1>10, <1>11, <1>12, <1>13, <1>15, <1>16, <1>17
<1>18. CASE fill # qty
  <2>1. PICK u : u = [q EXCEPT ![1].qty = @ - fill] OBVIOUS
  <2>2. fill <= q[1].qty BY <1>5, <1>12, <1>15
  <2>3. queues' = [queues EXCEPT ![s][p][1].qty = @ - fill] BY <1>16, <1>18
  <2>4. QueuesTyped' /\ Sets(s, p, u)
    BY <2>1, <2>2, <2>3, <1>3, <1>7, <1>8, <1>10, <1>15, LessAtHeadSets
  <2>5. Shrinks(s, p, fill) BY <2>1, <2>4, <1>11, <1>16, <1>18 DEF Shrinks
  <2> QED BY <2>4, <2>5, <1>1, <1>2, <1>4, <1>5, <1>8, <1>10, <1>11, <1>12, <1>13, <1>15, <1>16, <1>18
<1> QED BY <1>17, <1>18

\* The remainder rests at the end of its queue.
LEMMA RestSteps ==
    ASSUME IInv, Finish, Rests(taker)
    PROVE  /\ QueuesTyped' /\ Joins(taker.side, taker.price, taker.id, taker.qty)
           /\ taker.side \in Side /\ taker.price \in Price /\ taker.id \in OrderId \ Resting
           /\ taker.qty \in Nat
<1>1. PICK s, p, o, qty : s = taker.side /\ p = taker.price /\ o = taker.id /\ qty = taker.qty OBVIOUS
<1>2. call = "match" BY DEF Finish
<1>3. QueuesTyped /\ s \in Side /\ p \in Price /\ o \in OrderId \ Resting /\ qty \in Nat
  BY <1>1, <1>2 DEF IInv, CallTyped, Working
<1>4. PICK q : q = QueueAt(s, p) OBVIOUS
<1>5. PICK e : e = [id |-> o, qty |-> qty] OBVIOUS
<1>6. q \in Seq(Waiting) /\ e \in Waiting BY <1>3, <1>4, <1>5, QueueIs DEF Waiting
<1>7. Append(q, e) \in Seq(Waiting) BY <1>6
<1>8. /\ queues' = WithQueue(s, p, Append(q, e))
      /\ index' = [x \in Resting \cup {o} |-> IF x = o THEN [side |-> s, price |-> p] ELSE index[x]]
  BY <1>1, <1>4, <1>5 DEF Finish
<1>9. QueuesTyped' /\ Sets(s, p, Append(q, e)) BY <1>3, <1>7, <1>8, WithQueueSets
<1>10. Joins(s, p, o, qty) BY <1>4, <1>5, <1>8, <1>9 DEF Joins
<1> QED BY <1>1, <1>3, <1>9, <1>10

\* cancel() finds the level and takes the order out of it.
LEMMA CancelSteps ==
    ASSUME IInv, NEW id \in OrderId, Cancel(id)
    PROVE  /\ id \in Resting /\ EndCall(<<>>, "ok") /\ QueuesTyped'
           /\ \E s \in Side, p \in Price : \E k, u : Leaves(s, p, k, u) /\ id = QueueAt(s, p)[k].id
<1>1. PICK s, p : s = index[id].side /\ p = index[id].price OBVIOUS
<1>2. QueuesTyped /\ IndexTyped /\ Once /\ Listed /\ id \in Resting BY DEF IInv, Cancel
<1>3. s \in Side /\ p \in Price BY <1>1, <1>2 DEF IndexTyped
<1>4. PICK q : q = QueueAt(s, p) OBVIOUS
<1>5. PICK k \in DOMAIN q : q[k].id = id BY <1>1, <1>2, <1>4 DEF Listed
<1>6. q \in Seq(Waiting) /\ (p \in Prices(s) <=> q # <<>>) /\ (p \in Prices(s) => queues[s][p] = q)
  BY <1>2, <1>3, <1>4, QueueIs
<1>7. p \in Prices(s) /\ queues[s][p] = q BY <1>5, <1>6
<1>8. /\ queues' = WithQueue(s, p, Erased(q, id))
      /\ index' = [o \in Resting \ {id} |-> index[o]]
      /\ EndCall(<<>>, "ok")
  <2>1. IF p \in Prices(s)
        THEN /\ queues' = WithQueue(s, p, Erased(queues[s][p], id))
             /\ index' = [o \in Resting \ {id} |-> index[o]]
             /\ EndCall(<<>>, "ok")
        ELSE UNCHANGED book /\ EndCall(<<>>, "unknown")
    BY <1>1 DEF Cancel
  <2> QED BY <2>1, <1>7
<1>9. Erased(q, id) \in Seq(Waiting) /\ Dropped(q, k, Erased(q, id))
  <2>1. \A i \in DOMAIN q : q[i].id = id => i = k BY <1>2, <1>3, <1>4, <1>5 DEF Once
  <2> QED BY <2>1, <1>5, <1>6, EraseDrops
<1>10. QueuesTyped' /\ Sets(s, p, Erased(q, id)) BY <1>2, <1>3, <1>8, <1>9, WithQueueSets
<1>11. Leaves(s, p, k, Erased(q, id)) BY <1>4, <1>5, <1>8, <1>9, <1>10 DEF Leaves
<1> QED BY <1>2, <1>3, <1>4, <1>5, <1>8, <1>10, <1>11

\* A call that ends leaves its writer idle.
LEMMA EndTyped ==
    ASSUME CallTyped, NEW trades \in Seq(TradeMade), NEW status \in Status, EndCall(trades, status)
    PROVE  CallTyped' /\ Working'
<1>1. call' = "idle" /\ taker' = NoRequest /\ reply' = Reply(trades, status) BY DEF EndCall
<1>2. NoRequest \in [id: OrderId \cup {-1}, side: Side, type: Type, price: Int, qty: Nat]
  BY DEF NoRequest, Side, Type
<1>3. CallTyped' BY <1>1, <1>2 DEF CallTyped, Reply
<1> QED BY <1>1, <1>3 DEF Working

\* The empty book satisfies the invariant.
LEMMA InitInv == Init => IInv
<1> SUFFICES ASSUME Init PROVE IInv OBVIOUS
<1>1. /\ queues = [s \in Side |-> [p \in {} |-> <<>>]]
      /\ index = [id \in {} |-> NoReply] /\ call = "idle" /\ taker = NoRequest /\ reply = NoReply
  BY DEF Init
<1>2. Resting = {} /\ DOMAIN queues = Side /\ \A s \in Side : Prices(s) = {}
  BY <1>1 DEF Resting, Prices
<1>3. \A s \in Side, p \in Price : QueueAt(s, p) = <<>> BY <1>2 DEF QueueAt
<1>4. QueuesTyped BY <1>2, FS_EmptySet DEF QueuesTyped
<1>5. IndexTyped BY <1>1, <1>2 DEF IndexTyped
<1>6. \A s \in Side, p \in Price : DOMAIN QueueAt(s, p) = {} BY <1>3
<1>7. Indexed /\ Once BY <1>6 DEF Indexed, Once
<1>8. Listed BY <1>2 DEF Listed
<1>9. CallTyped
  <2>1. NoRequest \in [id: OrderId \cup {-1}, side: Side, type: Type, price: Int, qty: Nat]
    BY DEF NoRequest, Side, Type
  <2>2. NoReply \in [trades: Seq(TradeMade), status: Status] BY DEF NoReply, Reply, Status
  <2> QED BY <1>1, <2>1, <2>2 DEF CallTyped
<1>10. Working BY <1>1 DEF Working
<1> QED BY <1>4, <1>5, <1>7, <1>8, <1>9, <1>10 DEF IInv

\* add() is called.
LEMMA SubmitInv ==
    ASSUME IInv, NEW r \in Request, Submit(r)
    PROVE  IInv'
<1>1. Agreed /\ UNCHANGED book BY DEF IInv, Agreed, Submit
<1>2. Agreed' /\ Resting' = Resting BY <1>1, SameOrders
<1>3. /\ r.id \in OrderId \ Resting /\ r.price \in Price
      /\ call' = "check" /\ taker' = r /\ reply' = NoReply
  BY DEF Submit, Request
<1>4. r \in [id: OrderId \cup {-1}, side: Side, type: Type, price: Int, qty: Nat]
  BY OrderAssumption DEF Request
<1>5. NoReply \in [trades: Seq(TradeMade), status: Status] BY DEF NoReply, Reply, Status
<1>6. CallTyped' BY <1>3, <1>4, <1>5 DEF CallTyped
<1>7. Working' BY <1>2, <1>3 DEF Working
<1> QED BY <1>2, <1>6, <1>7 DEF IInv, Agreed

\* add() goes on to match().
LEMMA AcceptInv ==
    ASSUME IInv, Accept
    PROVE  IInv'
<1>1. Agreed /\ UNCHANGED book BY DEF IInv, Agreed, Accept
<1>2. Agreed' /\ Resting' = Resting BY <1>1, SameOrders
<1>3. /\ call = "check" /\ ~RejectedOnArrival(taker)
      /\ call' = "match" /\ taker' = taker /\ reply' = reply /\ queues' = queues
  BY DEF Accept, book
<1>4. CallTyped' BY <1>3 DEF IInv, CallTyped
<1>5. WouldCross(taker)' <=> WouldCross(taker) BY <1>3 DEF WouldCross, Prices, BestPrice
<1>6. taker.type = "PostOnly" => ~WouldCross(taker)' BY <1>3, <1>5 DEF RejectedOnArrival
<1>7. Working' BY <1>2, <1>3, <1>6 DEF IInv, Working
<1> QED BY <1>2, <1>4, <1>7 DEF IInv, Agreed

\* A call ends and has changed nothing in its last step.
LEMMA QuietEndInv ==
    ASSUME IInv, UNCHANGED book, NEW trades \in Seq(TradeMade), NEW status \in Status,
           EndCall(trades, status)
    PROVE  IInv'
<1>1. Agreed' BY SameOrders DEF IInv, Agreed
<1>2. CallTyped' /\ Working' BY EndTyped DEF IInv
<1> QED BY <1>1, <1>2 DEF IInv, Agreed

\* An order trades.
LEMMA FillInv ==
    ASSUME IInv, Fill
    PROVE  IInv'
<1>1. PICK s \in Side, p \in Price, m \in Resting, qty \in Nat, fill \in Nat :
        /\ s = Opposite(taker.side) /\ p = BestPrice(s) /\ p \in Prices(s)
        /\ QueueAt(s, p) # <<>> /\ 1 \in DOMAIN QueueAt(s, p)
        /\ m = QueueAt(s, p)[1].id /\ qty = QueueAt(s, p)[1].qty
        /\ fill <= taker.qty /\ fill <= qty
        /\ QueuesTyped'
        /\ \/ fill = qty /\ \E u : Leaves(s, p, 1, u)
           \/ fill = taker.qty /\ fill < qty /\ Shrinks(s, p, fill)
        /\ taker' = [taker EXCEPT !.qty = taker.qty - fill]
        /\ reply' = [reply EXCEPT !.trades = Append(reply.trades, TradeOf(m, taker.id, p, fill))]
  BY FillSteps
<1>2. Agreed /\ CallTyped /\ Working /\ IndexTyped BY DEF IInv, Agreed
<1>3. call = "match" /\ call' = "match" /\ taker.type # "PostOnly" BY DEF Fill, CanMatch
<1>4. Agreed' /\ Resting' \subseteq Resting
  <2>1. CASE \E u : Leaves(s, p, 1, u)
    <3>1. PICK u : Leaves(s, p, 1, u) BY <2>1
    <3> QED BY <3>1, <1>1, <1>2, LeavesAgreed
  <2>2. CASE Shrinks(s, p, fill) BY <2>2, <1>1, <1>2, ShrinksAgreed
  <2> QED BY <2>1, <2>2, <1>1
<1>5. taker.qty \in Nat /\ taker.id \in OrderId BY <1>2, <1>3 DEF CallTyped, Working
<1>6. taker.qty - fill \in Nat BY <1>1, <1>5
<1>7. /\ taker' \in [id: OrderId \cup {-1}, side: Side, type: Type, price: Int, qty: Nat]
      /\ taker'.id = taker.id /\ taker'.type = taker.type /\ taker'.price = taker.price
  BY <1>1, <1>2, <1>6 DEF CallTyped
<1>8. TradeOf(m, taker.id, p, fill) \in TradeMade
  BY <1>1, <1>2, <1>5 DEF TradeOf, TradeMade, IndexTyped
<1>9. reply' \in [trades: Seq(TradeMade), status: Status]
  <2>1. PICK x : x = TradeOf(m, taker.id, p, fill) OBVIOUS
  <2>2. reply \in [trades: Seq(TradeMade), status: Status] /\ x \in TradeMade
    BY <2>1, <1>2, <1>8 DEF CallTyped
  <2>3. Append(reply.trades, x) \in Seq(TradeMade) BY <2>2
  <2> QED BY <2>1, <2>2, <2>3, <1>1
<1>10. CallTyped' BY <1>3, <1>7, <1>9 DEF CallTyped
<1>11. Working' BY <1>2, <1>3, <1>4, <1>7 DEF Working
<1> QED BY <1>4, <1>10, <1>11 DEF IInv, Agreed

\* match() is over.
LEMMA FinishInv ==
    ASSUME IInv, Finish
    PROVE  IInv'
<1>1. Agreed /\ CallTyped /\ reply.trades \in Seq(TradeMade) /\ "ok" \in Status
  BY DEF IInv, Agreed, CallTyped, Status
<1>2. PICK trades \in Seq(TradeMade) : trades = reply.trades BY <1>1
<1>3. EndCall(trades, "ok") BY <1>2 DEF Finish
<1>4. CASE Rests(taker)
  <2>1. /\ QueuesTyped' /\ Joins(taker.side, taker.price, taker.id, taker.qty)
        /\ taker.side \in Side /\ taker.price \in Price /\ taker.id \in OrderId \ Resting
        /\ taker.qty \in Nat
    BY <1>4, RestSteps
  <2>2. Agreed' BY <2>1, <1>1, JoinsAgreed
  <2>3. CallTyped' /\ Working' BY <1>1, <1>3, EndTyped
  <2> QED BY <2>2, <2>3 DEF IInv, Agreed
<1>5. CASE ~Rests(taker)
  <2>1. UNCHANGED book BY <1>5 DEF Finish
  <2> QED BY <2>1, <1>1, <1>3, QuietEndInv
<1> QED BY <1>4, <1>5

\* cancel() of an order that rests.
LEMMA CancelInv ==
    ASSUME IInv, NEW id \in OrderId, Cancel(id)
    PROVE  IInv'
<1>1. EndCall(<<>>, "ok") /\ QueuesTyped' BY CancelSteps
<1>2. PICK s \in Side, p \in Price : \E k, u : Leaves(s, p, k, u) BY CancelSteps
<1>3. PICK k, u : Leaves(s, p, k, u) BY <1>2
<1>4. Agreed' BY <1>1, <1>3, LeavesAgreed DEF IInv, Agreed
<1>5. <<>> \in Seq(TradeMade) /\ "ok" \in Status BY DEF Status
<1>6. CallTyped' /\ Working' BY <1>1, <1>5, EndTyped DEF IInv
<1> QED BY <1>4, <1>6 DEF IInv, Agreed

\* Nothing happens.
LEMMA StutterInv ==
    ASSUME IInv, UNCHANGED vars
    PROVE  IInv'
<1>1. UNCHANGED book /\ queues' = queues /\ call' = call /\ taker' = taker /\ reply' = reply
  BY DEF vars, book
<1>2. Agreed' /\ Resting' = Resting BY <1>1, SameOrders DEF IInv, Agreed
<1>3. CallTyped' BY <1>1 DEF IInv, CallTyped
<1>4. WouldCross(taker)' <=> WouldCross(taker) BY <1>1 DEF WouldCross, Prices, BestPrice
<1>5. Working' BY <1>1, <1>2, <1>4 DEF IInv, Working
<1> QED BY <1>2, <1>3, <1>5 DEF IInv, Agreed

\* Every step keeps the invariant.
LEMMA NextInv ==
    ASSUME IInv, [Next]_vars
    PROVE  IInv'
<1>1. <<>> \in Seq(TradeMade) /\ "ok" \in Status /\ "unknown" \in Status BY DEF Status
<1>2. CASE \E r \in Request : Submit(r) BY <1>2, SubmitInv
<1>3. CASE Reject
  <2>1. UNCHANGED book /\ EndCall(<<>>, "ok") BY <1>3 DEF Reject
  <2> QED BY <2>1, <1>1, QuietEndInv
<1>4. CASE Accept BY <1>4, AcceptInv
<1>5. CASE Fill BY <1>5, FillInv
<1>6. CASE Finish BY <1>6, FinishInv
<1>7. CASE \E id \in OrderId : Cancel(id) \/ NotFound(id)
  <2>1. PICK id \in OrderId : Cancel(id) \/ NotFound(id) BY <1>7
  <2>2. CASE Cancel(id) BY <2>2, CancelInv
  <2>3. CASE NotFound(id)
    <3>1. UNCHANGED book /\ EndCall(<<>>, "unknown") BY <2>3 DEF NotFound
    <3> QED BY <3>1, <1>1, QuietEndInv
  <2> QED BY <2>1, <2>2, <2>3
<1>8. CASE UNCHANGED vars BY <1>8, StutterInv
<1> QED BY <1>2, <1>3, <1>4, <1>5, <1>6, <1>7, <1>8 DEF Next

\* The invariant holds in every state.
LEMMA Invariance == Spec => []IInv
<1>1. IInv /\ [Next]_vars => IInv' BY NextInv
<1> QED BY <1>1, InitInv, PTL DEF Spec

\* What agrees queue by queue agrees place by place.
LEMMA AgreedMatches == IInv => IndexMatchesQueues
<1> SUFFICES ASSUME IInv PROVE IndexMatchesQueues OBVIOUS
<1> DEFINE Slots == UNION {UNION {{s} \X {p} \X DOMAIN queues[s][p] : p \in Prices(s)} : s \in Side}
           At(slot) == queues[slot[1]][slot[2]][slot[3]].id
<1>1. QueuesTyped /\ IndexTyped /\ Indexed /\ Once /\ Listed BY DEF IInv
<1>2. \A s \in Side : \A p \in Prices(s) : p \in Price /\ queues[s][p] = QueueAt(s, p) /\ queues[s][p] # <<>>
  BY <1>1 DEF QueuesTyped, QueueAt
<1>3. \A x : x \in Slots <=> \E s \in Side : \E p \in Prices(s) : \E i \in DOMAIN queues[s][p] : x = <<s, p, i>>
  OBVIOUS
<1>4. \A s \in Side : \A p \in Prices(s) : \A i \in DOMAIN queues[s][p] :
        /\ At(<<s, p, i>>) = QueueAt(s, p)[i].id
        /\ i \in DOMAIN QueueAt(s, p)
        /\ At(<<s, p, i>>) \in Resting
        /\ index[At(<<s, p, i>>)] = [side |-> s, price |-> p]
  <2> SUFFICES ASSUME NEW s \in Side, NEW p \in Prices(s), NEW i \in DOMAIN queues[s][p]
               PROVE  /\ At(<<s, p, i>>) = QueueAt(s, p)[i].id
                      /\ i \in DOMAIN QueueAt(s, p)
                      /\ At(<<s, p, i>>) \in Resting
                      /\ index[At(<<s, p, i>>)] = [side |-> s, price |-> p]
    OBVIOUS
  <2>1. p \in Price /\ queues[s][p] = QueueAt(s, p) BY <1>2
  <2>2. At(<<s, p, i>>) = queues[s][p][i].id OBVIOUS
  <2> HIDE DEF At, Slots
  <2>3. i \in DOMAIN QueueAt(s, p) /\ At(<<s, p, i>>) = QueueAt(s, p)[i].id BY <2>1, <2>2
  <2>4. QueueAt(s, p)[i].id \in Resting
        /\ index[QueueAt(s, p)[i].id] = [side |-> s, price |-> p]
    BY <1>1, <2>1, <2>3 DEF Indexed
  <2> QED BY <2>3, <2>4
<1>5. \A x \in Slots : \E s \in Side : \E p \in Prices(s) : \E i \in DOMAIN QueueAt(s, p) :
        /\ x = <<s, p, i>>
        /\ At(x) = QueueAt(s, p)[i].id
        /\ At(x) \in Resting
        /\ index[At(x)] = [side |-> s, price |-> p]
        /\ x[1] = s /\ x[2] = p /\ p \in Price
  <2> SUFFICES ASSUME NEW x \in Slots
               PROVE  \E s \in Side : \E p \in Prices(s) : \E i \in DOMAIN QueueAt(s, p) :
                        /\ x = <<s, p, i>>
                        /\ At(x) = QueueAt(s, p)[i].id
                        /\ At(x) \in Resting
                        /\ index[At(x)] = [side |-> s, price |-> p]
                        /\ x[1] = s /\ x[2] = p /\ p \in Price
    OBVIOUS
  <2>1. PICK s \in Side : \E p \in Prices(s) : \E i \in DOMAIN queues[s][p] : x = <<s, p, i>> BY <1>3
  <2>2. PICK p \in Prices(s) : \E i \in DOMAIN queues[s][p] : x = <<s, p, i>> BY <2>1
  <2>3. PICK i \in DOMAIN queues[s][p] : x = <<s, p, i>> BY <2>2
  <2>4. x[1] = s /\ x[2] = p /\ p \in Price BY <2>3, <1>2
  <2> HIDE DEF At, Slots
  <2> QED BY <2>3, <2>4, <1>4
<1> HIDE DEF Slots, At
<1>6. \A x, y \in Slots : At(x) = At(y) => x = y
  <2> SUFFICES ASSUME NEW x \in Slots, NEW y \in Slots, At(x) = At(y) PROVE x = y OBVIOUS
  <2>1. PICK s \in Side : \E p0 \in Prices(s) : \E k \in DOMAIN QueueAt(s, p0) :
          /\ x = <<s, p0, k>> /\ At(x) = QueueAt(s, p0)[k].id
          /\ index[At(x)] = [side |-> s, price |-> p0] /\ p0 \in Price
    BY <1>5
  <2>21. PICK p \in Price : \E k \in DOMAIN QueueAt(s, p) :
          x = <<s, p, k>> /\ At(x) = QueueAt(s, p)[k].id /\ index[At(x)] = [side |-> s, price |-> p]
    BY <2>1
  <2>11. PICK i \in DOMAIN QueueAt(s, p) :
          x = <<s, p, i>> /\ At(x) = QueueAt(s, p)[i].id /\ index[At(x)] = [side |-> s, price |-> p]
    BY <2>21
  <2>2. PICK t \in Side : \E p0 \in Prices(t) : \E k \in DOMAIN QueueAt(t, p0) :
          /\ y = <<t, p0, k>> /\ At(y) = QueueAt(t, p0)[k].id
          /\ index[At(y)] = [side |-> t, price |-> p0] /\ p0 \in Price
    BY <1>5
  <2>22. PICK q \in Price : \E k \in DOMAIN QueueAt(t, q) :
          y = <<t, q, k>> /\ At(y) = QueueAt(t, q)[k].id /\ index[At(y)] = [side |-> t, price |-> q]
    BY <2>2
  <2>12. PICK j \in DOMAIN QueueAt(t, q) :
          y = <<t, q, j>> /\ At(y) = QueueAt(t, q)[j].id /\ index[At(y)] = [side |-> t, price |-> q]
    BY <2>22
  <2>3. s = t /\ p = q BY <2>11, <2>12
  <2>4. i = j BY <2>11, <2>12, <2>3, <1>1 DEF Once
  <2> QED BY <2>11, <2>12, <2>3, <2>4
<1>7. {At(x) : x \in Slots} = Resting
  <2>1. \A x \in Slots : At(x) \in Resting BY <1>5
  <2>2. ASSUME NEW o \in Resting PROVE \E x \in Slots : At(x) = o
    <3>1. PICK s, p : s = index[o].side /\ p = index[o].price OBVIOUS
    <3>2. s \in Side /\ p \in Price BY <1>1, <3>1 DEF IndexTyped
    <3>3. PICK i \in DOMAIN QueueAt(s, p) : QueueAt(s, p)[i].id = o BY <1>1, <3>1 DEF Listed
    <3>4. p \in Prices(s) /\ queues[s][p] = QueueAt(s, p)
      <4>1. QueueAt(s, p) # <<>> BY <3>3
      <4> QED BY <4>1, <3>2, <1>1, QueueIs
    <3>5. <<s, p, i>> \in Slots BY <3>2, <3>3, <3>4, <1>3 DEF Slots
    <3>6. At(<<s, p, i>>) = o
      <4>1. i \in DOMAIN queues[s][p] BY <3>3, <3>4
      <4> QED BY <4>1, <3>2, <3>3, <3>4, <1>4
    <3> QED BY <3>5, <3>6
  <2> QED BY <2>1, <2>2
<1>8. \A x \in Slots : index[At(x)] = [side |-> x[1], price |-> x[2]] BY <1>5
<1>9. \A s \in Side : \A p \in Prices(s) : queues[s][p] # <<>> BY <1>2
<1> QED BY <1>6, <1>7, <1>8, <1>9 DEF IndexMatchesQueues, Slots, At

\* Index and queues hold the same orders, each once and where the index says,
\* through every fill and cancel.
THEOREM IndexAndQueuesAgree == Spec => []IndexMatchesQueues
BY Invariance, AgreedMatches, PTL

------------------------------------------------------------------------------
(* The book as one of price-time priority *)

BookNow == [resting |-> RestingOrders, before |-> QueueOrder]

\* Its parts.
LEMMA OrdersAre ==
    /\ BookNow.resting = RestingOrders /\ BookNow.before = QueueOrder
    /\ DOMAIN RestingOrders = Resting
    /\ QueueOrder \subseteq Resting \X Resting
BY DEF BookNow, RestingOrders, QueueOrder

\* Order o is the ith in the queue at s and p.
Stands(o, s, p, i) ==
    /\ s \in Side /\ p \in Prices(s) /\ p \in Price
    /\ i \in DOMAIN QueueAt(s, p) /\ i \in Nat /\ i >= 1
    /\ QueueAt(s, p)[i].id = o
    /\ QueueAt(s, p)[i].qty \in Nat
    /\ index[o] = [side |-> s, price |-> p]
    /\ RestingOrders[o] = [side |-> s, price |-> p, qty |-> QueueAt(s, p)[i].qty]

\* Every order stands somewhere in the queue of its side and price.
LEMMA StandsAt ==
    ASSUME Agreed, NEW o \in Resting
    PROVE  \E s, p, i : Stands(o, s, p, i)
<1>1. QueuesTyped /\ IndexTyped /\ Indexed /\ Listed /\ OrdersAsQueued BY AgreedOrders DEF Agreed
<1>2. PICK s, p : s = index[o].side /\ p = index[o].price OBVIOUS
<1>3. s \in Side /\ p \in Price BY <1>1, <1>2 DEF IndexTyped
<1>4. PICK q : q = QueueAt(s, p) OBVIOUS
<1>5. PICK i \in DOMAIN q : q[i].id = o BY <1>1, <1>2, <1>4 DEF Listed
<1>6. /\ Len(q) \in Nat /\ DOMAIN q = 1 .. Len(q) /\ q[i].qty \in Nat
      /\ p \in Prices(s) <=> q # <<>>
  BY <1>1, <1>3, <1>4, <1>5, QueueIs
<1>7. p \in Prices(s) BY <1>5, <1>6
<1>8. i \in Nat /\ i >= 1 BY <1>5, <1>6
<1>9. index[o] = [side |-> s, price |-> p] BY <1>1, <1>3, <1>4, <1>5 DEF Indexed
<1>10. RestingOrders[o] = [side |-> s, price |-> p, qty |-> q[i].qty]
  BY <1>1, <1>3, <1>4, <1>5 DEF OrdersAsQueued
<1> QED BY <1>3, <1>4, <1>5, <1>6, <1>7, <1>8, <1>9, <1>10 DEF Stands

\* No order stands at two places.
LEMMA StandsOnce ==
    ASSUME Agreed, NEW s \in Side, NEW p \in Price, NEW i \in DOMAIN QueueAt(s, p),
           NEW t \in Side, NEW x \in Price, NEW j \in DOMAIN QueueAt(t, x),
           QueueAt(s, p)[i].id = QueueAt(t, x)[j].id
    PROVE  s = t /\ p = x /\ i = j
<1>1. Indexed /\ Once BY DEF Agreed
<1>2. PICK o : o = QueueAt(s, p)[i].id OBVIOUS
<1>3. index[o] = [side |-> s, price |-> p] BY <1>1, <1>2 DEF Indexed
<1>4. index[o] = [side |-> t, price |-> x] BY <1>1, <1>2 DEF Indexed
<1>5. s = t /\ p = x
  <2>1. index[o].side = s /\ index[o].price = p BY <1>3
  <2>2. index[o].side = t /\ index[o].price = x BY <1>4
  <2> QED BY <2>1, <2>2
<1> QED BY <1>1, <1>5 DEF Once

\* Places are numbers.
LEMMA PlaceIsNat ==
    ASSUME Agreed, NEW s \in Side, NEW p \in Price, NEW i \in DOMAIN QueueAt(s, p)
    PROVE  i \in Nat /\ i >= 1 /\ 1 \in DOMAIN QueueAt(s, p)
<1>1. PICK n : n = Len(QueueAt(s, p)) OBVIOUS
<1>2. n \in Nat /\ DOMAIN QueueAt(s, p) = 1 .. n BY <1>1, QueueIs DEF Agreed
<1> QED BY <1>2

\* Seen from outside, the book is one of price-time priority.
LEMMA NowBooked ==
    ASSUME Agreed
    PROVE  Booked(BookNow)
<1>1. OrdersAsQueued BY AgreedOrders
<1>2. IsFiniteSet(Resting) BY IdAssumption, FS_Subset DEF Agreed, IndexTyped
<1>3. RestingOrders \in [Resting -> OrderAt]
  <2>1. \A o \in Resting : RestingOrders[o] \in OrderAt
    <3> SUFFICES ASSUME NEW o \in Resting PROVE RestingOrders[o] \in OrderAt OBVIOUS
    <3>1. PICK s, p, i : Stands(o, s, p, i) BY StandsAt
    <3> QED BY <3>1 DEF OrderAt, Stands
  <2>2. RestingOrders = [o \in Resting |-> RestingOrders[o]] BY DEF RestingOrders
  <2> QED BY <2>1, <2>2
<1>4. \A x, y : <<x, y>> \in QueueOrder =>
        \E s \in Side, p \in Price : \E i, j \in DOMAIN QueueAt(s, p) :
            i < j /\ QueueAt(s, p)[i].id = x /\ QueueAt(s, p)[j].id = y
  BY <1>1 DEF OrdersAsQueued
<1>5. ASSUME NEW x, NEW y, <<x, y>> \in QueueOrder
      PROVE  x \in Resting /\ y \in Resting /\ x # y /\ SamePlace(BookNow, x, y)
  <2>1. PICK s \in Side, p \in Price : \E i, j \in DOMAIN QueueAt(s, p) :
            i < j /\ QueueAt(s, p)[i].id = x /\ QueueAt(s, p)[j].id = y
    BY <1>4, <1>5
  <2>2. PICK i \in DOMAIN QueueAt(s, p), j \in DOMAIN QueueAt(s, p) :
            i < j /\ QueueAt(s, p)[i].id = x /\ QueueAt(s, p)[j].id = y
    BY <2>1
  <2>3. x \in Resting /\ y \in Resting BY <1>5, OrdersAre
  <2>4. i \in Nat /\ j \in Nat BY PlaceIsNat
  <2>5. x # y
    <3>1. i # j BY <2>2, <2>4
    <3> QED BY <2>2, <3>1, StandsOnce
  <2>6. /\ RestingOrders[x] = [side |-> s, price |-> p, qty |-> QueueAt(s, p)[i].qty]
        /\ RestingOrders[y] = [side |-> s, price |-> p, qty |-> QueueAt(s, p)[j].qty]
    BY <2>2, <1>1 DEF OrdersAsQueued
  <2> QED BY <2>3, <2>5, <2>6, OrdersAre DEF SamePlace
<1>6. ASSUME NEW x, NEW y, NEW z, <<x, y>> \in QueueOrder, <<y, z>> \in QueueOrder
      PROVE  <<x, z>> \in QueueOrder
  <2>1. PICK s \in Side, p \in Price : \E i, j \in DOMAIN QueueAt(s, p) :
            i < j /\ QueueAt(s, p)[i].id = x /\ QueueAt(s, p)[j].id = y
    BY <1>4, <1>6
  <2>2. PICK i \in DOMAIN QueueAt(s, p), j \in DOMAIN QueueAt(s, p) :
            i < j /\ QueueAt(s, p)[i].id = x /\ QueueAt(s, p)[j].id = y
    BY <2>1
  <2>3. PICK t \in Side, q \in Price : \E k, l \in DOMAIN QueueAt(t, q) :
            k < l /\ QueueAt(t, q)[k].id = y /\ QueueAt(t, q)[l].id = z
    BY <1>4, <1>6
  <2>4. PICK k \in DOMAIN QueueAt(t, q), l \in DOMAIN QueueAt(t, q) :
            k < l /\ QueueAt(t, q)[k].id = y /\ QueueAt(t, q)[l].id = z
    BY <2>3
  <2>5. s = t /\ p = q /\ j = k BY <2>2, <2>4, StandsOnce
  <2>6. i \in Nat /\ k \in Nat /\ l \in Nat BY PlaceIsNat
  <2>7. i < l BY <2>2, <2>4, <2>5, <2>6
  <2>8. l \in DOMAIN QueueAt(s, p) /\ QueueAt(s, p)[l].id = z BY <2>4, <2>5
  <2> QED BY <2>2, <2>7, <2>8, <1>1 DEF OrdersAsQueued
<1>7. ASSUME NEW x \in Resting, NEW y \in Resting, x # y, SamePlace(BookNow, x, y)
      PROVE  <<x, y>> \in QueueOrder \/ <<y, x>> \in QueueOrder
  <2>1. PICK s, p, i : Stands(x, s, p, i) BY StandsAt
  <2>2. /\ s \in Side /\ p \in Price /\ i \in DOMAIN QueueAt(s, p) /\ i \in Nat /\ QueueAt(s, p)[i].id = x
        /\ RestingOrders[x] = [side |-> s, price |-> p, qty |-> QueueAt(s, p)[i].qty]
    BY <2>1 DEF Stands
  <2>3. PICK t, q, j : Stands(y, t, q, j) BY StandsAt
  <2>4. /\ j \in DOMAIN QueueAt(t, q) /\ j \in Nat /\ QueueAt(t, q)[j].id = y
        /\ RestingOrders[y] = [side |-> t, price |-> q, qty |-> QueueAt(t, q)[j].qty]
    BY <2>3 DEF Stands
  <2>5. s = t /\ p = q
    <3>1. RestingOrders[x].side = RestingOrders[y].side /\ RestingOrders[x].price = RestingOrders[y].price
      BY <1>7, OrdersAre DEF SamePlace
    <3> QED BY <2>2, <2>4, <3>1
  <2>6. j \in DOMAIN QueueAt(s, p) /\ QueueAt(s, p)[j].id = y BY <2>4, <2>5
  <2>7. i \in Nat /\ j \in Nat /\ i # j BY <1>7, <2>2, <2>4, <2>6
  <2>8. i < j \/ j < i BY <2>7
  <2> QED BY <2>2, <2>6, <2>8, <1>1 DEF OrdersAsQueued
<1>8. Queued(BookNow)
  <2>1. BookNow.before = QueueOrder /\ DOMAIN BookNow.resting = Resting BY OrdersAre
  <2> QED BY <2>1, <1>5, <1>6, <1>7 DEF Queued
<1> QED BY <1>2, <1>3, <1>8, OrdersAre DEF Booked

\* A request reaches nothing when it does not reach the other side's best level.
LEMMA NothingReached ==
    ASSUME Agreed, NEW r, r.side \in Side, r.price \in Int, NEW s, s = Opposite(r.side),
           Prices(s) = {} \/ ~Takes(r, BestPrice(s))
    PROVE  Reached(BookNow, r) = {}
<1> SUFFICES ASSUME NEW o \in Resting, RestingOrders[o].side = s, Takes(r, RestingOrders[o].price)
             PROVE  FALSE
  BY OrdersAre DEF Reached
<1>1. PICK t, p, i : Stands(o, t, p, i) BY StandsAt
<1>2. t = s /\ RestingOrders[o].price = p BY <1>1 DEF Stands
<1>3. s \in Side /\ p \in Prices(s) /\ Prices(s) # {} BY <1>1, <1>2 DEF Stands
<1>4. PICK b : b = BestPrice(s) OBVIOUS
<1>5. b \in Int /\ p \in Int /\ ~BetterPrice(s, p, b) BY <1>3, <1>4, BestIs DEF Agreed
<1>6. ~Takes(r, b) /\ Takes(r, p) BY <1>2, <1>3, <1>4
<1> QED BY <1>3, <1>5, <1>6 DEF Takes, Reaches, BetterPrice, Opposite, Side

\* The order at the front of the best level is the one a request takes first.
LEMMA HeadIsFirst ==
    ASSUME Agreed, NEW r, r.side \in Side, NEW s, s = Opposite(r.side), Prices(s) # {},
           NEW p, p = BestPrice(s), Takes(r, p), NEW m, m = QueueAt(s, p)[1].id
    PROVE  /\ 1 \in DOMAIN QueueAt(s, p)
           /\ m \in Resting
           /\ First(BookNow, r, m)
           /\ RestingOrders[m] = [side |-> s, price |-> p, qty |-> QueueAt(s, p)[1].qty]
<1>1. QueuesTyped /\ Indexed /\ OrdersAsQueued BY AgreedOrders DEF Agreed
<1>2. s \in Side BY DEF Opposite, Side
<1>3. /\ p \in Prices(s) /\ p \in Price /\ p \in Int
      /\ \A x \in Prices(s) : x \in Int /\ ~BetterPrice(s, x, p)
  BY <1>1, <1>2, BestIs
<1>4. PICK n : n = Len(QueueAt(s, p)) OBVIOUS
<1>5. QueueAt(s, p) # <<>> /\ QueueAt(s, p) \in Seq(Waiting) /\ n \in Nat /\ DOMAIN QueueAt(s, p) = 1 .. n
  BY <1>1, <1>2, <1>3, <1>4, QueueIs
<1>6. 1 \in DOMAIN QueueAt(s, p)
  <2>1. PICK q : q = QueueAt(s, p) OBVIOUS
  <2>2. q \in Seq(Waiting) /\ q # <<>> BY <1>5, <2>1
  <2>3. 1 \in DOMAIN q BY <2>2
  <2> QED BY <2>1, <2>3
<1>7. m \in Resting BY <1>1, <1>2, <1>3, <1>6 DEF Indexed
<1>8. RestingOrders[m] = [side |-> s, price |-> p, qty |-> QueueAt(s, p)[1].qty]
  BY <1>1, <1>2, <1>3, <1>6 DEF OrdersAsQueued
<1>9. \A o : o \in Reached(BookNow, r) <=>
        o \in Resting /\ RestingOrders[o].side = s /\ Takes(r, RestingOrders[o].price)
  BY OrdersAre DEF Reached
<1>10. m \in Reached(BookNow, r) BY <1>7, <1>8, <1>9
<1>11. ASSUME NEW o \in Reached(BookNow, r), o # m PROVE Outranks(BookNow, m, o)
  <2>1. o \in Resting /\ RestingOrders[o].side = s BY <1>9, <1>11
  <2>2. PICK t, x, i : Stands(o, t, x, i) BY <2>1, StandsAt
  <2>3. t = s /\ RestingOrders[o].price = x /\ x \in Prices(s) BY <2>1, <2>2 DEF Stands
  <2>4. i \in DOMAIN QueueAt(s, x) /\ QueueAt(s, x)[i].id = o BY <2>2, <2>3 DEF Stands
  <2>5. CASE x = p
    <3>1. i \in DOMAIN QueueAt(s, p) /\ QueueAt(s, p)[i].id = o BY <2>4, <2>5
    <3>2. i # 1 BY <3>1, <1>11
    <3>3. i \in Nat /\ i >= 1 BY <3>1, <1>2, <1>3, PlaceIsNat
    <3>4. 1 < i BY <3>2, <3>3
    <3>5. <<m, o>> \in QueueOrder BY <3>1, <3>4, <1>1, <1>2, <1>3, <1>6 DEF OrdersAsQueued
    <3> QED BY <3>5, OrdersAre DEF Outranks
  <2>6. CASE x # p
    <3>1. x \in Int /\ ~BetterPrice(s, x, p) BY <2>3, <1>3
    <3>2. BetterPrice(s, p, x) BY <3>1, <2>6, <1>3 DEF BetterPrice
    <3>3. RestingOrders[m].side = s /\ RestingOrders[m].price = p BY <1>8
    <3> QED BY <3>2, <3>3, <2>3, OrdersAre DEF Outranks
  <2> QED BY <2>5, <2>6
<1>12. First(BookNow, r, m) BY <1>10, <1>11 DEF First
<1> QED BY <1>6, <1>7, <1>8, <1>12
------------------------------------------------------------------------------
(* What add() decides before it matches *)

\* The levels can_fully_fill() walks, the places in their queues and the order
\* at a place.
ReachedLevels(r) == {p \in Prices(Opposite(r.side)) : Reaches(r.side, r.price, p)}
ReachedPlaces(r) ==
    UNION {{p} \X DOMAIN queues[Opposite(r.side)][p] : p \in ReachedLevels(r)}
OrderIn(r, x) == queues[Opposite(r.side)][x[1]][x[2]]

\* The places can_fully_fill() walks are those of the orders the request reaches.
LEMMA PlacesReached ==
    ASSUME Agreed, NEW r, r.side \in Side, r.type # "Market"
    PROVE  /\ \A x \in ReachedPlaces(r) : /\ OrderIn(r, x).id \in Reached(BookNow, r)
                                          /\ OrderIn(r, x).qty \in Nat
                                          /\ RestingOrders[OrderIn(r, x).id].qty = OrderIn(r, x).qty
           /\ \A x, y \in ReachedPlaces(r) : OrderIn(r, x).id = OrderIn(r, y).id => x = y
           /\ \A o \in Reached(BookNow, r) : \E x \in ReachedPlaces(r) : OrderIn(r, x).id = o
<1>0. PICK s : s = Opposite(r.side) OBVIOUS
<1>1. s \in Side /\ QueuesTyped /\ Indexed /\ OrdersAsQueued
  BY <1>0, AgreedOrders DEF Opposite, Side, Agreed
<1>2. \A o : o \in Reached(BookNow, r) <=>
        o \in Resting /\ RestingOrders[o].side = s /\ Reaches(r.side, r.price, RestingOrders[o].price)
  BY <1>0, OrdersAre DEF Reached, Takes
<1>3. /\ \A p : p \in ReachedLevels(r) <=> p \in Prices(s) /\ Reaches(r.side, r.price, p)
      /\ \A p \in Prices(s) : p \in Price /\ queues[s][p] = QueueAt(s, p)
  BY <1>0, <1>1 DEF QueuesTyped, QueueAt, ReachedLevels
<1>4. \A x : x \in ReachedPlaces(r) <=>
        \E p \in ReachedLevels(r) : \E i \in DOMAIN queues[s][p] : x = <<p, i>>
  BY <1>0 DEF ReachedPlaces
<1> DEFINE Is(x, p, i) ==
             /\ p \in Prices(s) /\ p \in Price /\ Reaches(r.side, r.price, p)
             /\ i \in DOMAIN QueueAt(s, p)
             /\ x = <<p, i>>
             /\ OrderIn(r, x) = QueueAt(s, p)[i]
<1>5. ASSUME NEW x \in ReachedPlaces(r) PROVE \E p, i : Is(x, p, i)
  <2>1. PICK p \in ReachedLevels(r) : \E i \in DOMAIN queues[s][p] : x = <<p, i>> BY <1>4
  <2>2. PICK i \in DOMAIN queues[s][p] : x = <<p, i>> BY <2>1
  <2>3. p \in Prices(s) /\ p \in Price /\ Reaches(r.side, r.price, p) /\ queues[s][p] = QueueAt(s, p)
    BY <1>3
  <2>4. OrderIn(r, x) = QueueAt(s, p)[i] BY <2>2, <2>3, <1>0 DEF OrderIn
  <2> QED BY <2>2, <2>3, <2>4
<1>6. ASSUME NEW x \in ReachedPlaces(r)
      PROVE  /\ OrderIn(r, x).id \in Reached(BookNow, r)
             /\ OrderIn(r, x).qty \in Nat
             /\ RestingOrders[OrderIn(r, x).id].qty = OrderIn(r, x).qty
  <2>1. PICK p, i : Is(x, p, i) BY <1>5
  <2>2. PICK o : o = QueueAt(s, p)[i].id OBVIOUS
  <2>3. o \in Resting /\ RestingOrders[o] = [side |-> s, price |-> p, qty |-> QueueAt(s, p)[i].qty]
    <3>1. p \in Price /\ i \in DOMAIN QueueAt(s, p) BY <2>1
    <3>2. o \in Resting BY <3>1, <2>2, <1>1 DEF Indexed
    <3> QED BY <3>1, <3>2, <2>2, <1>1 DEF OrdersAsQueued
  <2>4. QueueAt(s, p)[i].qty \in Nat BY <2>1, <1>1, QueueIs
  <2>5. /\ RestingOrders[o].side = s /\ RestingOrders[o].price = p
        /\ RestingOrders[o].qty = QueueAt(s, p)[i].qty
    BY <2>3
  <2>6. o \in Reached(BookNow, r) BY <2>1, <2>3, <2>5, <1>2
  <2> QED BY <2>1, <2>2, <2>4, <2>5, <2>6
<1>7. ASSUME NEW x \in ReachedPlaces(r), NEW y \in ReachedPlaces(r), OrderIn(r, x).id = OrderIn(r, y).id
      PROVE  x = y
  <2>1. PICK p, i : Is(x, p, i) BY <1>5
  <2>2. PICK q, j : Is(y, q, j) BY <1>5
  <2>3. QueueAt(s, p)[i].id = QueueAt(s, q)[j].id BY <2>1, <2>2, <1>7
  <2>4. p = q /\ i = j BY <2>1, <2>2, <2>3, <1>1, StandsOnce
  <2> QED BY <2>1, <2>2, <2>4
<1>8. ASSUME NEW o \in Reached(BookNow, r) PROVE \E x \in ReachedPlaces(r) : OrderIn(r, x).id = o
  <2>1. o \in Resting /\ RestingOrders[o].side = s /\ Reaches(r.side, r.price, RestingOrders[o].price)
    BY <1>2
  <2>2. PICK t, p, i : Stands(o, t, p, i) BY <2>1, StandsAt
  <2>3. t = s /\ RestingOrders[o].price = p BY <2>1, <2>2 DEF Stands
  <2>4. /\ p \in ReachedLevels(r) /\ queues[s][p] = QueueAt(s, p)
        /\ i \in DOMAIN QueueAt(s, p) /\ QueueAt(s, p)[i].id = o
    BY <2>1, <2>2, <2>3, <1>3 DEF Stands
  <2>5. PICK x : x = <<p, i>> OBVIOUS
  <2>6. x \in ReachedPlaces(r) BY <2>4, <2>5, <1>4
  <2>7. OrderIn(r, x) = queues[s][p][i] BY <2>5, <1>0 DEF OrderIn
  <2> QED BY <2>4, <2>6, <2>7
<1> HIDE DEF Is
<1> QED BY <1>6, <1>7, <1>8

\* So what it adds up is what rests within the request's reach.
LEMMA TotalsReached ==
    ASSUME Agreed, NEW r, r.side \in Side, r.type # "Market"
    PROVE  SumFunctionOnSet([x \in ReachedPlaces(r) |-> OrderIn(r, x).qty], ReachedPlaces(r))
             = TotalQty(BookNow, Reached(BookNow, r))
<1>1. PICK places : places = ReachedPlaces(r) OBVIOUS
<1>2. PICK R : R = Reached(BookNow, r) OBVIOUS
<1>3. PICK h : h = [x \in places |-> OrderIn(r, x).id] OBVIOUS
<1>4. PICK f : f = [x \in places |-> OrderIn(r, x).qty] OBVIOUS
<1>5. PICK g : g = [o \in Resting |-> RestingOrders[o].qty] OBVIOUS
<1>6. R \in SUBSET Resting BY <1>2, OrdersAre DEF Reached
<1>7. /\ \A x \in places : /\ OrderIn(r, x).id \in R
                           /\ OrderIn(r, x).qty \in Nat
                           /\ RestingOrders[OrderIn(r, x).id].qty = OrderIn(r, x).qty
      /\ \A x, y \in places : OrderIn(r, x).id = OrderIn(r, y).id => x = y
      /\ \A o \in R : \E x \in places : OrderIn(r, x).id = o
  BY <1>1, <1>2, PlacesReached
<1>8. /\ h \in [places -> R]
      /\ \A x, y \in places : h[x] = h[y] => x = y
      /\ {h[x] : x \in places} = R
  BY <1>3, <1>7
<1>9. \A x \in places : f[x] \in Int /\ g[h[x]] = f[x]
  <2>1. \A x \in places : OrderIn(r, x).id \in Resting BY <1>6, <1>7
  <2> QED BY <2>1, <1>3, <1>4, <1>5, <1>7
<1>10. IsFiniteSet(places)
  <2>1. IsFiniteSet(Resting) BY IdAssumption, FS_Subset DEF Agreed, IndexTyped
  <2>2. IsFiniteSet(R) BY <2>1, <1>6, FS_Subset
  <2>3. h \in Injection(places, R) BY <1>8 DEF Injection, IsInjective
  <2> QED BY <2>2, <2>3, FS_Injection
<1>11. SumFunctionOnSet(g, {h[x] : x \in places}) = SumFunctionOnSet(f, places)
  BY <1>8, <1>9, <1>10, SumRename
<1>12. TotalQty(BookNow, R) = SumFunctionOnSet(g, R) BY <1>5, OrdersAre DEF TotalQty
<1> QED BY <1>1, <1>2, <1>4, <1>8, <1>11, <1>12

\* What can_fully_fill() finds out.
LEMMA FullFillIs ==
    ASSUME Agreed, NEW r, r.side \in Side, r.price \in Int, r.qty \in Nat, r.type = "FOK"
    PROVE  /\ CanFullyFill(r) => TotalQty(BookNow, Reached(BookNow, r)) >= r.qty
           /\ ~CanFullyFill(r) => \/ TotalQty(BookNow, Reached(BookNow, r)) < r.qty
                                  \/ r.qty = 0
<1>1. PICK total : total = TotalQty(BookNow, Reached(BookNow, r)) OBVIOUS
<1>2. CanFullyFill(r) <=>
        /\ ReachedLevels(r) # {}
        /\ SumFunctionOnSet([x \in ReachedPlaces(r) |-> OrderIn(r, x).qty], ReachedPlaces(r)) >= r.qty
  BY DEF CanFullyFill, ReachedLevels, ReachedPlaces, OrderIn
<1>3. SumFunctionOnSet([x \in ReachedPlaces(r) |-> OrderIn(r, x).qty], ReachedPlaces(r)) = total
  BY <1>1, TotalsReached
<1>4. total \in Nat
  <2>1. Reached(BookNow, r) \in SUBSET DOMAIN BookNow.resting BY DEF Reached
  <2> QED BY <2>1, <1>1, NowBooked, TotalIsNat
<1>5. ReachedLevels(r) = {} => total = 0
  <2> SUFFICES ASSUME ReachedLevels(r) = {} PROVE total = 0 OBVIOUS
  <2>1. PICK s : s = Opposite(r.side) OBVIOUS
  <2>2. s \in Side BY <2>1 DEF Opposite, Side
  <2>3. Prices(s) # {} => BestPrice(s) \in Prices(s) BY <2>2, BestIs DEF Agreed
  <2>4. Prices(s) = {} \/ ~Takes(r, BestPrice(s)) BY <2>1, <2>3 DEF Takes, ReachedLevels
  <2>5. Reached(BookNow, r) = {} BY <2>1, <2>4, NothingReached
  <2>6. total = SumFunctionOnSet([o \in DOMAIN BookNow.resting |-> BookNow.resting[o].qty], {})
    BY <2>5, <1>1 DEF TotalQty
  <2> QED BY <2>6, FS_EmptySet, SumTakeOne
<1>6. CanFullyFill(r) <=> ReachedLevels(r) # {} /\ total >= r.qty BY <1>2, <1>3
<1> QED BY <1>1, <1>4, <1>5, <1>6

\* can_fully_fill() and the PostOnly check reject the requests that price-time
\* priority kills, and besides only an FOK order of quantity 0, which takes nothing.
LEMMA PrecheckIsExact ==
    ASSUME Agreed, NEW r, r.side \in Side, r.price \in Int, r.qty \in Nat
    PROVE  /\ ~RejectedOnArrival(r) => ~Killed(BookNow, r)
           /\ RejectedOnArrival(r) => Killed(BookNow, r) \/ (r.type = "FOK" /\ r.qty = 0)
<1>1. PICK s : s = Opposite(r.side) OBVIOUS
<1>2. PICK total : total = TotalQty(BookNow, Reached(BookNow, r)) OBVIOUS
<1>3. CASE r.type = "FOK"
  <2>1. total \in Nat
    <3>1. Reached(BookNow, r) \in SUBSET DOMAIN BookNow.resting BY DEF Reached
    <3> QED BY <3>1, <1>2, NowBooked, TotalIsNat
  <2>2. Unfilled(BookNow, r) = r.qty - Min({r.qty, total}) BY <1>2 DEF Unfilled
  <2>3. Min({r.qty, total}) = IF r.qty <= total THEN r.qty ELSE total BY <2>1, MinOfTwo
  <2>4. Killed(BookNow, r) <=> total < r.qty BY <2>1, <2>2, <2>3, <1>3 DEF Killed
  <2>5. RejectedOnArrival(r) <=> ~CanFullyFill(r) BY <1>3 DEF RejectedOnArrival
  <2>6. /\ CanFullyFill(r) => total >= r.qty
        /\ ~CanFullyFill(r) => total < r.qty \/ r.qty = 0
    BY <1>2, <1>3, FullFillIs
  <2> QED BY <2>1, <2>4, <2>5, <2>6, <1>3
<1>4. CASE r.type = "PostOnly"
  <2>1. Killed(BookNow, r) <=> Reached(BookNow, r) # {} BY <1>4 DEF Killed
  <2>2. RejectedOnArrival(r) <=> Prices(s) # {} /\ Reaches(r.side, r.price, BestPrice(s))
    BY <1>1, <1>4 DEF RejectedOnArrival, WouldCross
  <2>3. \A p : Takes(r, p) <=> Reaches(r.side, r.price, p) BY <1>4 DEF Takes
  <2>4. ~RejectedOnArrival(r) => Reached(BookNow, r) = {} BY <2>2, <2>3, <1>1, NothingReached
  <2>5. RejectedOnArrival(r) => Reached(BookNow, r) # {}
    <3> SUFFICES ASSUME RejectedOnArrival(r) PROVE Reached(BookNow, r) # {} OBVIOUS
    <3>1. PICK p : p = BestPrice(s) OBVIOUS
    <3>2. PICK m : m = QueueAt(s, p)[1].id OBVIOUS
    <3>3. First(BookNow, r, m) BY <3>1, <3>2, <2>2, <2>3, <1>1, HeadIsFirst
    <3> QED BY <3>3 DEF First
  <2> QED BY <2>1, <2>4, <2>5
<1>5. CASE r.type # "FOK" /\ r.type # "PostOnly" BY <1>5 DEF Killed, RejectedOnArrival
<1> QED BY <1>3, <1>4, <1>5
------------------------------------------------------------------------------
(* What the steps do to the book as one of price-time priority *)

\* Where an element that is not the kth goes when the kth leaves.
PlaceBefore(k, j) == IF j < k THEN j ELSE j + 1

\* The elements that stay keep their order.
LEMMA DroppedPlaces ==
    ASSUME NEW q, Len(q) \in Nat, DOMAIN q = 1 .. Len(q), NEW k \in DOMAIN q, NEW u, Dropped(q, k, u)
    PROVE  /\ \A j \in DOMAIN u : /\ PlaceBefore(k, j) \in DOMAIN q /\ PlaceBefore(k, j) # k
                                  /\ u[j] = q[PlaceBefore(k, j)]
           /\ \A i \in DOMAIN q : i # k => \E j \in DOMAIN u : PlaceBefore(k, j) = i
           /\ \A j, l \in DOMAIN u : PlaceBefore(k, j) < PlaceBefore(k, l) <=> j < l
<1>1. PICK n : n = Len(q) OBVIOUS
<1>2. n \in Nat /\ DOMAIN q = 1 .. n /\ k \in 1 .. n BY <1>1
<1>3. DOMAIN u = 1 .. (n - 1) /\ \A j \in DOMAIN u : u[j] = q[PlaceBefore(k, j)]
  BY <1>1 DEF Dropped, PlaceBefore
<1>4. \A j \in 1 .. (n - 1) : PlaceBefore(k, j) \in 1 .. n /\ PlaceBefore(k, j) # k
  BY <1>2 DEF PlaceBefore
<1>5. ASSUME NEW i \in 1 .. n, i # k PROVE \E j \in 1 .. (n - 1) : PlaceBefore(k, j) = i
  <2>1. CASE i < k
    <3>1. i \in 1 .. (n - 1) /\ PlaceBefore(k, i) = i BY <2>1, <1>2 DEF PlaceBefore
    <3> QED BY <3>1
  <2>2. CASE ~(i < k)
    <3>1. i - 1 \in 1 .. (n - 1) /\ PlaceBefore(k, i - 1) = i BY <2>2, <1>2, <1>5 DEF PlaceBefore
    <3> QED BY <3>1
  <2> QED BY <2>1, <2>2
<1>6. \A j, l \in 1 .. (n - 1) : PlaceBefore(k, j) < PlaceBefore(k, l) <=> j < l
  BY <1>2 DEF PlaceBefore
<1> QED BY <1>2, <1>3, <1>4, <1>5, <1>6

\* Two orders stand one before the other in the queue at s and p.
InOrder(s, p, x, y) ==
    \E i, j \in DOMAIN QueueAt(s, p) :
        i < j /\ QueueAt(s, p)[i].id = x /\ QueueAt(s, p)[j].id = y

\* One is ahead of another when it stands before it in some queue.
AheadInQueue ==
    \A x, y : <<x, y>> \in QueueOrder <=> \E s \in Side, p \in Price : InOrder(s, p, x, y)

\* What the orders of an agreeing book say of it.
LEMMA AheadIs == OrdersAsQueued => AheadInQueue
BY DEF OrdersAsQueued, InOrder, AheadInQueue

\* The same of the next state.
LEMMA AheadIsNext == OrdersAsQueued' => AheadInQueue'
BY AheadIs, PTL

\* An order that leaves takes itself and its place out of the book.
LEMMA LeavesBook ==
    ASSUME Agreed, QueuesTyped', NEW s \in Side, NEW p \in Price, NEW k, NEW u, Leaves(s, p, k, u),
           NEW m, m = QueueAt(s, p)[k].id
    PROVE  /\ Without(BookNow, m, BookNow')
           /\ m \in Resting
           /\ Resting' = Resting \ {m}
           /\ RestingOrders' = [o \in Resting \ {m} |-> RestingOrders[o]]
           /\ QueueOrder' = Among(BookNow, Resting')
<1>1. Agreed' /\ Resting' = Resting \ {m} /\ m \in Resting BY LeavesAgreed
<1>2. OrdersAsQueued /\ OrdersAsQueued' BY <1>1, AgreedOrders, AgreedOrdersNext
<1>3. PICK q : q = QueueAt(s, p) OBVIOUS
<1>4. /\ k \in DOMAIN q /\ m = q[k].id
      /\ \A t \in Side, x \in Price : QueueAt(t, x)' = IF t = s /\ x = p THEN u ELSE QueueAt(t, x)
  BY <1>3 DEF Leaves, Sets
<1>5. /\ \A j \in DOMAIN u : /\ PlaceBefore(k, j) \in DOMAIN q /\ PlaceBefore(k, j) # k
                             /\ u[j] = q[PlaceBefore(k, j)]
      /\ \A i \in DOMAIN q : i # k => \E j \in DOMAIN u : PlaceBefore(k, j) = i
      /\ \A j, l \in DOMAIN u : PlaceBefore(k, j) < PlaceBefore(k, l) <=> j < l
  <2>1. Len(q) \in Nat /\ DOMAIN q = 1 .. Len(q) BY <1>3, QueueIs DEF Agreed
  <2>2. Dropped(q, k, u) BY <1>3 DEF Leaves
  <2> QED BY <2>1, <2>2, <1>4, DroppedPlaces
<1>6. \A t \in Side, x \in Price : \A i \in DOMAIN QueueAt(t, x) :
        QueueAt(t, x)[i].id = m => t = s /\ x = p /\ i = k
  BY <1>3, <1>4, StandsOnce
<1>7. ASSUME NEW o \in Resting \ {m} PROVE RestingOrders'[o] = RestingOrders[o]
  <2>1. PICK t, x, i : Stands(o, t, x, i) BY StandsAt
  <2>2. /\ t \in Side /\ x \in Price /\ i \in DOMAIN QueueAt(t, x) /\ QueueAt(t, x)[i].id = o
        /\ RestingOrders[o] = [side |-> t, price |-> x, qty |-> QueueAt(t, x)[i].qty]
    BY <2>1 DEF Stands
  <2>3. PICK v : v = QueueAt(t, x)' OBVIOUS
  <2>4. PICK j \in DOMAIN v : v[j] = QueueAt(t, x)[i]
    <3>1. CASE t = s /\ x = p
      <4>1. v = u /\ i \in DOMAIN q /\ i # k /\ QueueAt(t, x) = q
        BY <3>1, <2>2, <2>3, <1>3, <1>4
      <4>2. PICK j \in DOMAIN u : PlaceBefore(k, j) = i BY <4>1, <1>5
      <4>3. u[j] = q[i] BY <4>2, <1>5
      <4> QED BY <4>1, <4>2, <4>3
    <3>2. CASE ~(t = s /\ x = p) BY <3>2, <2>2, <2>3, <1>4
    <3> QED BY <3>1, <3>2
  <2>5. RestingOrders'[v[j].id] = [side |-> t, price |-> x, qty |-> v[j].qty]
    BY <2>2, <2>3, <1>2 DEF OrdersAsQueued
  <2> QED BY <2>2, <2>4, <2>5
<1>8. RestingOrders' = [o \in Resting \ {m} |-> RestingOrders[o]]
  <2>1. RestingOrders' = [o \in Resting' |-> RestingOrders'[o]] BY DEF RestingOrders
  <2> QED BY <2>1, <1>1, <1>7
<1>9. ASSUME NEW x, NEW y, NEW t \in Side, NEW z \in Price
      PROVE  InOrder(t, z, x, y)' <=> InOrder(t, z, x, y) /\ x # m /\ y # m
  <2>1. PICK v : v = QueueAt(t, z)' OBVIOUS
  <2>2. PICK w : w = QueueAt(t, z) OBVIOUS
  <2>3. InOrder(t, z, x, y)' <=> \E i, j \in DOMAIN v : i < j /\ v[i].id = x /\ v[j].id = y
    BY <2>1 DEF InOrder
  <2>4. InOrder(t, z, x, y) <=> \E i, j \in DOMAIN w : i < j /\ w[i].id = x /\ w[j].id = y
    BY <2>2 DEF InOrder
  <2>5. CASE t = s /\ z = p
    <3>1. v = u /\ w = q BY <2>1, <2>2, <2>5, <1>3, <1>4
    <3>2. \A i \in DOMAIN q : q[i].id = m <=> i = k BY <2>5, <1>3, <1>4, <1>6
    <3>3. ASSUME NEW i \in DOMAIN u, NEW j \in DOMAIN u, i < j, u[i].id = x, u[j].id = y
          PROVE  /\ \E a, b \in DOMAIN q : a < b /\ q[a].id = x /\ q[b].id = y
                 /\ x # m /\ y # m
      <4>1. PICK a, b : a = PlaceBefore(k, i) /\ b = PlaceBefore(k, j) OBVIOUS
      <4>2. a \in DOMAIN q /\ b \in DOMAIN q /\ a # k /\ b # k /\ a < b /\ u[i] = q[a] /\ u[j] = q[b]
        BY <3>3, <4>1, <1>5
      <4> QED BY <3>2, <3>3, <4>2
    <3>4. ASSUME NEW a \in DOMAIN q, NEW b \in DOMAIN q, a < b, q[a].id = x, q[b].id = y, x # m, y # m
          PROVE  \E i, j \in DOMAIN u : i < j /\ u[i].id = x /\ u[j].id = y
      <4>1. a # k /\ b # k BY <3>2, <3>4
      <4>2. PICK i \in DOMAIN u : PlaceBefore(k, i) = a BY <4>1, <1>5
      <4>3. PICK j \in DOMAIN u : PlaceBefore(k, j) = b BY <4>1, <1>5
      <4>4. i < j /\ u[i] = q[a] /\ u[j] = q[b] BY <3>4, <4>2, <4>3, <1>5
      <4> QED BY <3>4, <4>4
    <3> QED BY <3>1, <3>3, <3>4, <2>3, <2>4
  <2>6. CASE ~(t = s /\ z = p)
    <3>1. v = w BY <2>1, <2>2, <2>6, <1>4
    <3>2. \A i \in DOMAIN w : w[i].id # m BY <2>2, <2>6, <1>6
    <3> QED BY <3>1, <3>2, <2>3, <2>4
  <2> QED BY <2>5, <2>6
<1>10. \A x, y : <<x, y>> \in QueueOrder' <=> <<x, y>> \in QueueOrder /\ x \in Resting' /\ y \in Resting'
  <2>1. \A x, y : <<x, y>> \in QueueOrder' <=> \E t \in Side, z \in Price : InOrder(t, z, x, y)'
    BY <1>2, AheadIsNext DEF AheadInQueue
  <2>2. \A x, y : <<x, y>> \in QueueOrder <=> \E t \in Side, z \in Price : InOrder(t, z, x, y)
    BY <1>2, AheadIs DEF AheadInQueue
  <2>3. \A x, y : <<x, y>> \in QueueOrder' <=> <<x, y>> \in QueueOrder /\ x # m /\ y # m
    BY <2>1, <2>2, <1>9
  <2>4. \A x, y : <<x, y>> \in QueueOrder => x \in Resting /\ y \in Resting BY OrdersAre
  <2> QED BY <2>3, <2>4, <1>1
<1>11. QueueOrder' = Among(BookNow, Resting')
  <2>1. QueueOrder \subseteq Resting \X Resting /\ QueueOrder' \subseteq Resting' \X Resting'
    BY DEF QueueOrder
  <2>2. Among(BookNow, Resting') = {pair \in QueueOrder : pair[1] \in Resting' /\ pair[2] \in Resting'}
    BY OrdersAre DEF Among
  <2> QED BY <2>1, <2>2, <1>10
<1>12. /\ BookNow.resting = RestingOrders
       /\ BookNow'.resting = RestingOrders' /\ BookNow'.before = QueueOrder'
       /\ DOMAIN RestingOrders = Resting /\ DOMAIN RestingOrders' = Resting'
  BY DEF BookNow, RestingOrders
<1>13. Without(BookNow, m, BookNow') BY <1>1, <1>8, <1>11, <1>12 DEF Without
<1> QED BY <1>1, <1>8, <1>11, <1>13

\* An order that loses quantity keeps its place.
LEMMA SmallerBookOrder ==
    ASSUME Agreed, QueuesTyped', NEW s \in Side, NEW p \in Price, NEW fill,
           QueueAt(s, p) # <<>>, 1 \in DOMAIN QueueAt(s, p), Shrinks(s, p, fill),
           NEW m, m = QueueAt(s, p)[1].id
    PROVE  /\ Reduced(BookNow, m, fill, BookNow')
           /\ Resting' = Resting
           /\ QueueOrder' = QueueOrder
<1>1. Agreed' /\ Resting' = Resting BY ShrinksAgreed
<1>2. OrdersAsQueued /\ OrdersAsQueued' BY <1>1, AgreedOrders, AgreedOrdersNext
<1>3. PICK q : q = QueueAt(s, p) OBVIOUS
<1>4. PICK u : u = [q EXCEPT ![1].qty = @ - fill] OBVIOUS
<1>5. \A t \in Side, x \in Price : QueueAt(t, x)' = IF t = s /\ x = p THEN u ELSE QueueAt(t, x)
  BY <1>3, <1>4 DEF Shrinks, Sets
<1>6. /\ DOMAIN u = DOMAIN q
      /\ \A i \in DOMAIN q : /\ u[i].id = q[i].id
                             /\ u[i].qty = IF i = 1 THEN q[1].qty - fill ELSE q[i].qty
  <2>1. q \in Seq(Waiting) /\ q # <<>> BY <1>3, QueueIs DEF Agreed
  <2> QED BY <2>1, <1>4, ShrunkIs
<1>7. /\ m \in Resting /\ m = q[1].id /\ 1 \in DOMAIN q
      /\ RestingOrders[m] = [side |-> s, price |-> p, qty |-> q[1].qty]
  <2>1. m \in Resting BY DEF Agreed, Indexed
  <2> QED BY <2>1, <1>2, <1>3 DEF OrdersAsQueued
<1>8. ASSUME NEW o \in Resting
      PROVE  RestingOrders'[o] = IF o = m THEN [RestingOrders[m] EXCEPT !.qty = RestingOrders[m].qty - fill]
                                 ELSE RestingOrders[o]
  <2>1. PICK t, x, i : Stands(o, t, x, i) BY StandsAt
  <2>2. /\ t \in Side /\ x \in Price /\ i \in DOMAIN QueueAt(t, x) /\ QueueAt(t, x)[i].id = o
        /\ RestingOrders[o] = [side |-> t, price |-> x, qty |-> QueueAt(t, x)[i].qty]
    BY <2>1 DEF Stands
  <2>3. PICK v : v = QueueAt(t, x)' OBVIOUS
  <2>4. /\ i \in DOMAIN v /\ v[i].id = o
        /\ v[i].qty = IF o = m THEN q[1].qty - fill ELSE QueueAt(t, x)[i].qty
    <3>1. CASE t = s /\ x = p
      <4>1. v = u /\ i \in DOMAIN q /\ q[i].id = o /\ QueueAt(t, x) = q BY <3>1, <2>2, <2>3, <1>3, <1>5
      <4>2. o = m <=> i = 1
        <5>1. o = m => i = 1 BY <4>1, <1>3, <1>7, StandsOnce
        <5> QED BY <5>1, <4>1, <1>7
      <4> QED BY <4>1, <4>2, <1>6
    <3>2. CASE ~(t = s /\ x = p)
      <4>1. v = QueueAt(t, x) BY <3>2, <2>2, <2>3, <1>5
      <4>2. o # m BY <3>2, <2>2, <1>3, <1>7, StandsOnce
      <4> QED BY <4>1, <4>2, <2>2
    <3> QED BY <3>1, <3>2
  <2>5. RestingOrders'[o] = [side |-> t, price |-> x, qty |-> v[i].qty]
    BY <2>2, <2>3, <2>4, <1>2 DEF OrdersAsQueued
  <2>6. CASE o = m BY <2>2, <2>4, <2>5, <2>6, <1>7
  <2>7. CASE o # m BY <2>2, <2>4, <2>5, <2>7
  <2> QED BY <2>6, <2>7
<1>9. RestingOrders' = [RestingOrders EXCEPT ![m].qty = @ - fill]
  <2>1. RestingOrders' = [o \in Resting |-> RestingOrders'[o]] BY <1>1 DEF RestingOrders
  <2>2. RestingOrders = [o \in Resting |-> RestingOrders[o]] BY DEF RestingOrders
  <2>3. DOMAIN RestingOrders = Resting BY OrdersAre
  <2> QED BY <2>1, <2>2, <2>3, <1>7, <1>8
<1>10. QueueOrder' = QueueOrder
  <2>1. ASSUME NEW t \in Side, NEW z \in Price, NEW x, NEW y
        PROVE  InOrder(t, z, x, y)' <=> InOrder(t, z, x, y)
    <3>1. /\ DOMAIN QueueAt(t, z)' = DOMAIN QueueAt(t, z)
          /\ \A i \in DOMAIN QueueAt(t, z) : QueueAt(t, z)'[i].id = QueueAt(t, z)[i].id
      BY <1>3, <1>5, <1>6
    <3> QED BY <3>1 DEF InOrder
  <2>2. \A x, y : <<x, y>> \in QueueOrder' <=> \E t \in Side, z \in Price : InOrder(t, z, x, y)'
    BY <1>2, AheadIsNext DEF AheadInQueue
  <2>3. \A x, y : <<x, y>> \in QueueOrder <=> \E t \in Side, z \in Price : InOrder(t, z, x, y)
    BY <1>2, AheadIs DEF AheadInQueue
  <2>4. \A x, y : <<x, y>> \in QueueOrder' <=> <<x, y>> \in QueueOrder BY <2>1, <2>2, <2>3
  <2>5. PICK a, b : a = QueueOrder /\ b = QueueOrder' OBVIOUS
  <2>6. a \subseteq Resting \X Resting /\ b \subseteq Resting \X Resting
    BY <2>5, <1>1 DEF QueueOrder
  <2>7. \A x, y : <<x, y>> \in a <=> <<x, y>> \in b BY <2>4, <2>5
  <2>8. \A z \in Resting \X Resting : z = <<z[1], z[2]>> OBVIOUS
  <2>9. \A z \in Resting \X Resting : z \in a <=> z \in b BY <2>7, <2>8
  <2>10. a = b BY <2>6, <2>9
  <2> QED BY <2>5, <2>10
<1>11. /\ BookNow.resting = RestingOrders /\ BookNow.before = QueueOrder
       /\ BookNow'.resting = RestingOrders' /\ BookNow'.before = QueueOrder'
  BY DEF BookNow
<1>12. Reduced(BookNow, m, fill, BookNow') BY <1>9, <1>10, <1>11 DEF Reduced
<1> QED BY <1>1, <1>10, <1>12

\* An order that joins stands behind those of its side and price.
LEMMA JoinsBook ==
    ASSUME Agreed, QueuesTyped', NEW s \in Side, NEW p \in Price, NEW m \in OrderId \ Resting,
           NEW qty \in Nat, Joins(s, p, m, qty)
    PROVE  /\ RestingOrders' = [o \in Resting \cup {m} |->
                 IF o = m THEN [side |-> s, price |-> p, qty |-> qty] ELSE RestingOrders[o]]
           /\ QueueOrder' = QueueOrder \cup
                {<<o, m>> : o \in {k \in Resting : RestingOrders[k].side = s /\ RestingOrders[k].price = p}}
<1>1. Agreed' /\ Resting' = Resting \cup {m} BY JoinsAgreed
<1>2. OrdersAsQueued /\ OrdersAsQueued' /\ Indexed BY <1>1, AgreedOrders, AgreedOrdersNext DEF Agreed
<1>3. PICK q : q = QueueAt(s, p) OBVIOUS
<1>4. PICK e : e = [id |-> m, qty |-> qty] OBVIOUS
<1>5. PICK u : u = Append(q, e) OBVIOUS
<1>6. PICK n : n = Len(q) + 1 OBVIOUS
<1>7. \A t \in Side, x \in Price : QueueAt(t, x)' = IF t = s /\ x = p THEN u ELSE QueueAt(t, x)
  BY <1>3, <1>4, <1>5 DEF Joins, Sets
<1>8. /\ n \in Nat /\ DOMAIN q = 1 .. (n - 1) /\ DOMAIN u = 1 .. n /\ n \in DOMAIN u /\ n \notin DOMAIN q
      /\ \A i \in DOMAIN q : i \in DOMAIN u /\ u[i] = q[i] /\ i < n
      /\ \A i \in DOMAIN u : i = n \/ i \in DOMAIN q
      /\ u[n].id = m /\ u[n].qty = qty
  <2>1. q \in Seq(Waiting) BY <1>3, QueueIs DEF Agreed
  <2>2. e \in Waiting /\ e.id = m /\ e.qty = qty BY <1>4 DEF Waiting
  <2>3. /\ DOMAIN q = 1 .. Len(q) /\ Len(q) \in Nat
        /\ DOMAIN u = 1 .. (Len(q) + 1)
        /\ \A i \in DOMAIN q : i \in DOMAIN u /\ u[i] = q[i]
        /\ \A i \in DOMAIN u : i \notin DOMAIN q => i = Len(q) + 1
        /\ u[Len(q) + 1] = e
    BY <2>1, <2>2, <1>5, AppendIs
  <2>4. Len(q) = n - 1 /\ n \in Nat /\ n >= 1 BY <2>3, <1>6
  <2>5. \A i \in DOMAIN q : i < n BY <2>3, <2>4
  <2>6. n \in DOMAIN u /\ n \notin DOMAIN q BY <2>3, <2>4, <1>6
  <2> QED BY <2>2, <2>3, <2>4, <2>5, <2>6, <1>6
<1>9. \A t \in Side, x \in Price : \A i \in DOMAIN QueueAt(t, x) :
        QueueAt(t, x)[i].id \in Resting /\ QueueAt(t, x)[i].id # m
  BY <1>2 DEF Indexed
<1>10. ASSUME NEW o \in Resting \cup {m}
       PROVE  RestingOrders'[o] = IF o = m THEN [side |-> s, price |-> p, qty |-> qty] ELSE RestingOrders[o]
  <2>1. CASE o = m
    <3>1. QueueAt(s, p)' = u BY <1>7
    <3>2. RestingOrders'[u[n].id] = [side |-> s, price |-> p, qty |-> u[n].qty]
      BY <3>1, <1>2, <1>8 DEF OrdersAsQueued
    <3> QED BY <3>2, <2>1, <1>8
  <2>2. CASE o # m
    <3>1. PICK t, x, i : Stands(o, t, x, i) BY <2>2, StandsAt
    <3>2. /\ t \in Side /\ x \in Price /\ i \in DOMAIN QueueAt(t, x) /\ QueueAt(t, x)[i].id = o
          /\ RestingOrders[o] = [side |-> t, price |-> x, qty |-> QueueAt(t, x)[i].qty]
      BY <3>1 DEF Stands
    <3>3. PICK v : v = QueueAt(t, x)' OBVIOUS
    <3>4. i \in DOMAIN v /\ v[i] = QueueAt(t, x)[i]
      <4>1. CASE t = s /\ x = p BY <4>1, <3>2, <3>3, <1>3, <1>7, <1>8
      <4>2. CASE ~(t = s /\ x = p) BY <4>2, <3>2, <3>3, <1>7
      <4> QED BY <4>1, <4>2
    <3>5. RestingOrders'[v[i].id] = [side |-> t, price |-> x, qty |-> v[i].qty]
      BY <3>2, <3>3, <3>4, <1>2 DEF OrdersAsQueued
    <3> QED BY <2>2, <3>2, <3>4, <3>5
  <2> QED BY <2>1, <2>2
<1>11. RestingOrders' = [o \in Resting \cup {m} |->
          IF o = m THEN [side |-> s, price |-> p, qty |-> qty] ELSE RestingOrders[o]]
  <2>1. RestingOrders' = [o \in Resting' |-> RestingOrders'[o]] BY DEF RestingOrders
  <2> QED BY <2>1, <1>1, <1>10
<1>12. \A o : (\E i \in DOMAIN q : q[i].id = o)
              <=> o \in Resting /\ RestingOrders[o].side = s /\ RestingOrders[o].price = p
  <2>1. ASSUME NEW i \in DOMAIN q
        PROVE  /\ q[i].id \in Resting
               /\ RestingOrders[q[i].id].side = s /\ RestingOrders[q[i].id].price = p
    <3>1. RestingOrders[q[i].id] = [side |-> s, price |-> p, qty |-> q[i].qty]
      BY <1>2, <1>3 DEF OrdersAsQueued
    <3> QED BY <3>1, <1>3, <1>9
  <2>2. ASSUME NEW o \in Resting, RestingOrders[o].side = s, RestingOrders[o].price = p
        PROVE  \E i \in DOMAIN q : q[i].id = o
    <3>1. PICK t, x, i : Stands(o, t, x, i) BY StandsAt
    <3>2. t = s /\ x = p BY <2>2, <3>1 DEF Stands
    <3> QED BY <3>1, <3>2, <1>3 DEF Stands
  <2> QED BY <2>1, <2>2
<1>13. ASSUME NEW x, NEW y, NEW t \in Side, NEW z \in Price
       PROVE  InOrder(t, z, x, y)' <=>
                \/ InOrder(t, z, x, y)
                \/ t = s /\ z = p /\ y = m /\ \E i \in DOMAIN q : q[i].id = x
  <2>1. PICK v : v = QueueAt(t, z)' OBVIOUS
  <2>2. PICK w : w = QueueAt(t, z) OBVIOUS
  <2>3. InOrder(t, z, x, y)' <=> \E i, j \in DOMAIN v : i < j /\ v[i].id = x /\ v[j].id = y
    BY <2>1 DEF InOrder
  <2>4. InOrder(t, z, x, y) <=> \E i, j \in DOMAIN w : i < j /\ w[i].id = x /\ w[j].id = y
    BY <2>2 DEF InOrder
  <2>5. CASE t = s /\ z = p
    <3>1. v = u /\ w = q BY <2>1, <2>2, <2>5, <1>3, <1>7
    <3>2. ASSUME NEW i \in DOMAIN u, NEW j \in DOMAIN u, i < j, u[i].id = x, u[j].id = y
          PROVE  \/ \E a, b \in DOMAIN q : a < b /\ q[a].id = x /\ q[b].id = y
                 \/ y = m /\ \E a \in DOMAIN q : q[a].id = x
      <4>1. i \in DOMAIN q
        <5>1. i # n BY <3>2, <1>8
        <5> QED BY <5>1, <1>8
      <4> QED BY <3>2, <4>1, <1>8
    <3>3. ASSUME NEW a \in DOMAIN q, NEW b \in DOMAIN q, a < b, q[a].id = x, q[b].id = y
          PROVE  \E i, j \in DOMAIN u : i < j /\ u[i].id = x /\ u[j].id = y
      BY <3>3, <1>8
    <3>4. ASSUME NEW a \in DOMAIN q, q[a].id = x, y = m
          PROVE  \E i, j \in DOMAIN u : i < j /\ u[i].id = x /\ u[j].id = y
      BY <3>4, <1>8
    <3> QED BY <3>1, <3>2, <3>3, <3>4, <2>3, <2>4, <2>5
  <2>6. CASE ~(t = s /\ z = p)
    <3>1. v = w BY <2>1, <2>2, <2>6, <1>7
    <3> QED BY <3>1, <2>3, <2>4, <2>6
  <2> QED BY <2>5, <2>6
<1>14. \A x, y : <<x, y>> \in QueueOrder' <=>
         \/ <<x, y>> \in QueueOrder
         \/ y = m /\ x \in Resting /\ RestingOrders[x].side = s /\ RestingOrders[x].price = p
  <2>1. \A x, y : <<x, y>> \in QueueOrder' <=> \E t \in Side, z \in Price : InOrder(t, z, x, y)'
    BY <1>2, AheadIsNext DEF AheadInQueue
  <2>2. \A x, y : <<x, y>> \in QueueOrder <=> \E t \in Side, z \in Price : InOrder(t, z, x, y)
    BY <1>2, AheadIs DEF AheadInQueue
  <2>3. \A x, y : <<x, y>> \in QueueOrder' <=>
          \/ <<x, y>> \in QueueOrder
          \/ y = m /\ \E i \in DOMAIN q : q[i].id = x
    <3> SUFFICES ASSUME NEW x, NEW y
                 PROVE  <<x, y>> \in QueueOrder' <=>
                          \/ <<x, y>> \in QueueOrder
                          \/ y = m /\ \E i \in DOMAIN q : q[i].id = x
      OBVIOUS
    <3>1. ASSUME NEW t \in Side, NEW z \in Price, InOrder(t, z, x, y)'
          PROVE  \/ <<x, y>> \in QueueOrder
                 \/ y = m /\ \E i \in DOMAIN q : q[i].id = x
      <4>1. CASE InOrder(t, z, x, y) BY <2>2, <4>1
      <4>2. CASE ~InOrder(t, z, x, y) BY <3>1, <4>2, <1>13
      <4> QED BY <4>1, <4>2
    <3>2. ASSUME NEW t \in Side, NEW z \in Price, InOrder(t, z, x, y)
          PROVE  <<x, y>> \in QueueOrder'
      <4>1. InOrder(t, z, x, y)' BY <3>2, <1>13
      <4> QED BY <2>1, <4>1
    <3>3. ASSUME y = m, \E i \in DOMAIN q : q[i].id = x
          PROVE  <<x, y>> \in QueueOrder'
      <4>1. InOrder(s, p, x, y)' BY <3>3, <1>13
      <4> QED BY <2>1, <4>1
    <3> QED BY <2>1, <2>2, <3>1, <3>2, <3>3
  <2> QED BY <2>3, <1>12
<1>15. QueueOrder' = QueueOrder \cup
         {<<o, m>> : o \in {k \in Resting : RestingOrders[k].side = s /\ RestingOrders[k].price = p}}
  <2>1. QueueOrder \subseteq Resting \X Resting /\ QueueOrder' \subseteq Resting' \X Resting'
    BY DEF QueueOrder
  <2> QED BY <2>1, <1>14
<1> QED BY <1>11, <1>15
------------------------------------------------------------------------------
(* OrderBookV1 implements BookPromise *)

\* The promise instantiates the operators of price-time priority anew; they are
\* the same ones.
LEMMA PromiseOperators ==
    /\ \A b, r : Promise!Killed(b, r) <=> Killed(b, r)
    /\ \A b, r : Promise!Remains(b, r) <=> Remains(b, r)
    /\ \A b, r : Promise!AfterTrades(b, r) = AfterTrades(b, r)
    /\ \A b, r : Promise!Trades(b, r) = Trades(b, r)
    /\ \A b, S : Promise!Among(b, S) = Among(b, S)
    /\ \A b, r : Promise!AfterRest(b, r) = AfterRest(b, r)
    /\ \A b, r : Promise!QueuesAfterRest(b, r) = QueuesAfterRest(b, r)
    /\ \A S : Promise!Cardinality(S) = Cardinality(S)
<1>1. \A b, r : Promise!Reached(b, r) = Reached(b, r)
  BY DEF Promise!Reached, Reached, Promise!Takes, Takes, Promise!Reaches, Reaches,
         Promise!Opposite, Opposite
<1>2. \A f, S : Promise!SumFunctionOnSet(f, S) = SumFunctionOnSet(f, S)
  BY DEF Promise!SumFunctionOnSet, SumFunctionOnSet, Promise!FoldFunctionOnSet, FoldFunctionOnSet,
         Promise!MapThenFoldSet, MapThenFoldSet
<1>3. \A S : Promise!Cardinality(S) = Cardinality(S) BY DEF Promise!Cardinality, Cardinality
<1>4. \A S : Promise!SetToSeqs(S) = SetToSeqs(S) BY <1>3 DEF Promise!SetToSeqs, SetToSeqs
<1>5. \A S : Promise!Min(S) = Min(S) BY DEF Promise!Min, Min
<1>6. \A b, S : Promise!TotalQty(b, S) = TotalQty(b, S) BY <1>2 DEF Promise!TotalQty, TotalQty
<1>7. \A b, x, y : Promise!Outranks(b, x, y) <=> Outranks(b, x, y)
  BY DEF Promise!Outranks, Outranks, Promise!BetterPrice, BetterPrice
<1>8. \A b, r, o : Promise!QtyAhead(b, r, o) = QtyAhead(b, r, o)
  BY <1>1, <1>6, <1>7 DEF Promise!QtyAhead, QtyAhead
<1>9. \A b, r : Promise!Makers(b, r) = Makers(b, r) BY <1>1, <1>8 DEF Promise!Makers, Makers
<1>10. \A b, r, o : Promise!FillOf(b, r, o) = FillOf(b, r, o)
  BY <1>5, <1>8 DEF Promise!FillOf, FillOf
<1>11. \A b, r : Promise!Exhausted(b, r) = Exhausted(b, r)
  BY <1>9, <1>10 DEF Promise!Exhausted, Exhausted
<1>12. \A b, r : Promise!Unfilled(b, r) = Unfilled(b, r)
  BY <1>1, <1>5, <1>6 DEF Promise!Unfilled, Unfilled
<1>13. \A b, r : Promise!MakersInOrder(b, r) = MakersInOrder(b, r)
  BY <1>4, <1>7, <1>9 DEF Promise!MakersInOrder, MakersInOrder
<1>14. \A b, r : Promise!Trades(b, r) = Trades(b, r)
  BY <1>10, <1>13 DEF Promise!Trades, Trades, Promise!TradeOf, TradeOf
<1>15. \A b, r : Promise!AfterTrades(b, r) = AfterTrades(b, r)
  BY <1>9, <1>10, <1>11 DEF Promise!AfterTrades, AfterTrades
<1>16. \A b, S : Promise!Among(b, S) = Among(b, S) BY DEF Promise!Among, Among
<1>17. \A b, r : Promise!Killed(b, r) <=> Killed(b, r)
  BY <1>1, <1>12 DEF Promise!Killed, Killed
<1>18. \A b, r : Promise!Remains(b, r) <=> Remains(b, r) BY <1>12 DEF Promise!Remains, Remains
<1>19. \A b, r : Promise!AfterRest(b, r) = AfterRest(b, r)
  BY <1>12, <1>15 DEF Promise!AfterRest, AfterRest
<1>20. \A b, r : Promise!QueuesAfterRest(b, r) = QueuesAfterRest(b, r)
  BY <1>15, <1>16 DEF Promise!QueuesAfterRest, QueuesAfterRest
<1> QED BY <1>3, <1>14, <1>15, <1>16, <1>17, <1>18, <1>19, <1>20

\* The book the caller of add() last saw.
Seen == [resting |-> view.resting, before |-> view.before]

\* What match_against() has done so far and what it has still to do make up what
\* the request does to the book its caller saw.
OnTrack ==
    /\ ~Killed(Seen, asked)
    /\ AfterTrades(Seen, asked) = AfterTrades(BookNow, taker)
    /\ Unfilled(Seen, asked) = Unfilled(BookNow, taker)
    /\ Trades(Seen, asked) = reply.trades \o Trades(BookNow, taker)
    /\ QueueOrder = Among(Seen, Resting)

SeenInv ==
    /\ call = "idle" => asked = NoRequest /\ view = ViewOfBook
    /\ call # "idle" => /\ asked \in Request
                        /\ taker.id = asked.id /\ taker.side = asked.side
                        /\ taker.type = asked.type /\ taker.price = asked.price
    /\ call = "check" => asked = taker /\ Seen = BookNow
    /\ call = "match" => OnTrack

\* What the invariant says of a call in progress.
LEMMA TakerIs ==
    ASSUME IInv, SeenInv, call # "idle"
    PROVE  /\ taker.side \in Side /\ taker.price \in Int /\ taker.qty \in Nat
           /\ taker.id \in OrderId \ Resting
           /\ asked # NoRequest
           /\ Agreed /\ Booked(BookNow)
<1>1. Agreed BY DEF IInv, Agreed
<1>2. Booked(BookNow) BY <1>1, NowBooked
<1>3. asked.id \in OrderId BY DEF SeenInv, Request
<1>4. asked # NoRequest BY <1>3, OrderAssumption DEF NoRequest
<1>5. taker \in [id: OrderId \cup {-1}, side: Side, type: Type, price: Int, qty: Nat]
  BY DEF IInv, CallTyped
<1> QED BY <1>1, <1>2, <1>4, <1>5 DEF IInv, Working

\* The empty book is what the promise starts from.
LEMMA SeenInit == Init => SeenInv /\ Promise!Init
<1> SUFFICES ASSUME Init PROVE SeenInv /\ Promise!Init OBVIOUS
<1>1. Resting = {} /\ call = "idle" /\ reply = NoReply BY DEF Init, Resting
<1>2. QueueOrder = {} BY <1>1 DEF QueueOrder
<1>3. RestingOrders = [id \in {} |-> NoReply] BY <1>1 DEF RestingOrders
<1>4. view = ViewOfBook /\ asked = NoRequest BY DEF Init
<1>5. SeenInv BY <1>1, <1>4 DEF SeenInv
<1>6. view.resting = RestingOrders /\ view.before = QueueOrder /\ view.reply = reply
  BY <1>4 DEF ViewOfBook
<1>7. Promise!NoReply = NoReply /\ Promise!NoRequest = NoRequest
  BY DEF Promise!NoReply, NoReply, Promise!Reply, Reply, Promise!NoRequest, NoRequest
<1>8. Promise!Init BY <1>1, <1>2, <1>3, <1>4, <1>6, <1>7 DEF Promise!Init
<1> QED BY <1>5, <1>8

\* What its caller sees of a call that ends.
LEMMA EndShows ==
    ASSUME NEW trades, NEW status, EndCall(trades, status)
    PROVE  /\ call' = "idle"
           /\ asked' = NoRequest
           /\ view'.resting = RestingOrders'
           /\ view'.before = QueueOrder'
           /\ view'.reply = Reply(trades, status)
           /\ SeenInv'
<1>1. /\ call' = "idle" /\ reply' = Reply(trades, status)
      /\ view' = ViewOfBook' /\ asked' = NoRequest
  BY DEF EndCall
<1>2. view' = [resting |-> RestingOrders', before |-> QueueOrder', reply |-> reply']
  BY <1>1 DEF ViewOfBook
<1>3. SeenInv' BY <1>1 DEF SeenInv
<1> QED BY <1>1, <1>2, <1>3

\* The book of the promise is the one last seen.
LEMMA PromiseBook == Promise!Book = Seen /\ Promise!Resting = DOMAIN view.resting
BY DEF Promise!Book, Seen, Promise!Resting

\* A call that asks for what price-time priority kills may end without a trace.
LEMMA AnswerKill ==
    ASSUME asked # NoRequest, asked' = NoRequest, Killed(Seen, asked),
           view'.resting = view.resting, view'.before = view.before, view'.reply = NoReply
    PROVE  Promise!Next
<1>1. Promise!Kill(asked)
  BY PromiseOperators, PromiseBook
  DEF Promise!Kill, Promise!NoReply, NoReply, Promise!Reply, Reply
<1>2. Promise!Answer BY <1>1 DEF Promise!Answer, Promise!NoRequest, NoRequest
<1> QED BY <1>2 DEF Promise!Next

\* One that leaves nothing to rest may end with its trades.
LEMMA AnswerTake ==
    ASSUME asked # NoRequest, asked' = NoRequest, ~Killed(Seen, asked), ~Remains(Seen, asked),
           view'.resting = AfterTrades(Seen, asked),
           view'.before = Among(Seen, DOMAIN AfterTrades(Seen, asked)),
           view'.reply = Reply(Trades(Seen, asked), "ok")
    PROVE  Promise!Next
<1>1. Promise!Take(asked)
  BY PromiseOperators, PromiseBook DEF Promise!Take, Promise!Reply, Reply
<1>2. Promise!Answer BY <1>1 DEF Promise!Answer, Promise!NoRequest, NoRequest
<1> QED BY <1>2 DEF Promise!Next

\* One that leaves a remainder may end with it at rest.
LEMMA AnswerRest ==
    ASSUME asked # NoRequest, asked' = NoRequest, ~Killed(Seen, asked), Remains(Seen, asked),
           ~(Cardinality(DOMAIN AfterTrades(Seen, asked)) >= Cardinality(OrderId)),
           view'.resting = AfterRest(Seen, asked),
           view'.before = QueuesAfterRest(Seen, asked),
           view'.reply = Reply(Trades(Seen, asked), "ok")
    PROVE  Promise!Next
<1>1. ~Promise!IsFullAfterTrades(asked)
  BY PromiseOperators, PromiseBook DEF Promise!IsFullAfterTrades
<1>2. Promise!Rest(asked)
  BY <1>1, PromiseOperators, PromiseBook DEF Promise!Rest, Promise!Reply, Reply
<1>3. Promise!Answer BY <1>2 DEF Promise!Answer, Promise!NoRequest, NoRequest
<1> QED BY <1>3 DEF Promise!Next

\* A step of the promise, or none, that keeps what its proof needs.
Kept == SeenInv' /\ [Promise!Next]_Promise!vars

\* A step in the middle of a call shows its caller nothing.
LEMMA NothingShown ==
    ASSUME view' = view, asked' = asked
    PROVE  UNCHANGED Promise!vars
BY DEF Promise!vars

\* add() is called.
LEMMA SubmitShown ==
    ASSUME IInv, SeenInv, NEW r \in Request, Submit(r)
    PROVE  Kept
<1>1. /\ call = "idle" /\ call' = "check" /\ taker' = r /\ r.id \notin Resting /\ UNCHANGED book
      /\ view' = view /\ asked' = r
  BY DEF Submit
<1>2. asked = NoRequest /\ view = ViewOfBook BY <1>1 DEF SeenInv
<1>3. RestingOrders' = RestingOrders /\ QueueOrder' = QueueOrder BY <1>1, SameOrders
<1>4. view.resting = RestingOrders /\ view.before = QueueOrder BY <1>2 DEF ViewOfBook
<1>5. Seen' = BookNow' BY <1>1, <1>3, <1>4 DEF Seen, BookNow
<1>6. SeenInv' BY <1>1, <1>5 DEF SeenInv
<1>7. Promise!Ask(r)
  BY <1>1, <1>2, <1>4, OrdersAre, PromiseBook
  DEF Promise!Ask, Promise!NoRequest, NoRequest
<1>8. Promise!Next
  <2>1. Promise!Request = Request
    BY DEF Promise!Request, Request, Promise!Side, Side, Promise!Type, Type, Promise!AnyPrice, AnyPrice
  <2> QED BY <1>7, <2>1 DEF Promise!Next
<1> QED BY <1>6, <1>8 DEF Kept

\* add() goes on to match_against().
LEMMA AcceptShown ==
    ASSUME IInv, SeenInv, Accept
    PROVE  Kept
<1>1. /\ call = "check" /\ call' = "match" /\ ~RejectedOnArrival(taker)
      /\ UNCHANGED book /\ taker' = taker /\ reply' = reply
      /\ view' = view /\ asked' = asked
  BY DEF Accept
<1>2. asked = taker /\ Seen = BookNow /\ reply.trades = <<>>
  BY <1>1 DEF SeenInv, IInv, Working, NoReply, Reply
<1>3. /\ taker.side \in Side /\ taker.price \in Int /\ taker.qty \in Nat
      /\ Agreed /\ Booked(BookNow)
  BY <1>1, TakerIs
<1>4. RestingOrders' = RestingOrders /\ QueueOrder' = QueueOrder /\ Resting' = Resting
  BY <1>1, SameOrders
<1>5. BookNow' = BookNow /\ Seen' = Seen BY <1>1, <1>4 DEF BookNow, Seen
<1>6. ~Killed(Seen, asked) BY <1>1, <1>2, <1>3, PrecheckIsExact
<1>7. Trades(Seen, asked) = reply.trades \o Trades(BookNow, taker)
  <2>1. PICK t : t = Trades(BookNow, taker) OBVIOUS
  <2>2. t \in Seq({t[i] : i \in DOMAIN t}) BY <2>1, <1>3, TradesListed
  <2>3. <<>> \o t = t BY <2>2, TradesJoin
  <2> QED BY <1>2, <2>1, <2>3
<1>8. QueueOrder = Among(Seen, Resting) BY <1>2, OrdersAre DEF Among, QueueOrder
<1>9. OnTrack' BY <1>1, <1>2, <1>4, <1>5, <1>6, <1>7, <1>8 DEF OnTrack
<1>10. SeenInv' BY <1>1, <1>9 DEF SeenInv
<1> QED BY <1>1, <1>10, NothingShown DEF Kept

\* One fill keeps the call on track.
LEMMA FillOnTrack ==
    ASSUME IInv, SeenInv, call = "match", call' = "match", view' = view, asked' = asked,
           NEW m, NEW q, SameOutcome(BookNow, taker, BookNow', taker', m, q),
           LeftOf(taker, q, taker'),
           reply'.trades = Append(reply.trades, TradeOf(m, taker.id, BookNow.resting[m].price, q)),
           Booked(BookNow'), taker'.qty \in Nat,
           Resting' \subseteq Resting, QueueOrder' = Among(BookNow, Resting')
    PROVE  Kept
<1>1. OnTrack BY DEF SeenInv
<1>2. PICK x : x = TradeOf(m, taker.id, BookNow.resting[m].price, q) OBVIOUS
<1>3. PICK t : t = Trades(BookNow', taker') OBVIOUS
<1>4. reply.trades \in Seq(TradeMade) BY DEF IInv, CallTyped
<1>5. PICK V : t \in Seq(V) BY <1>3, TradesListed
<1>6. reply.trades \o (<<x>> \o t) = Append(reply.trades, x) \o t
  <2>1. PICK u : u = reply.trades OBVIOUS
  <2>2. u \in Seq(TradeMade) BY <1>4, <2>1
  <2>3. u \o (<<x>> \o t) = Append(u, x) \o t BY <1>5, <2>2, TradesJoin
  <2> QED BY <2>1, <2>3
<1>7. Trades(BookNow, taker) = <<x>> \o t BY <1>2, <1>3 DEF SameOutcome
<1>8. Seen' = Seen BY DEF Seen
<1>9. Trades(Seen', asked') = reply'.trades \o Trades(BookNow', taker')
  BY <1>1, <1>2, <1>3, <1>6, <1>7, <1>8 DEF OnTrack
<1>10. QueueOrder' = Among(Seen', Resting') BY <1>1, <1>8, OrdersAre DEF OnTrack, Among
<1>11. OnTrack' BY <1>1, <1>8, <1>9, <1>10 DEF OnTrack, SameOutcome
<1>12. SeenInv' BY <1>11 DEF SeenInv, LeftOf
<1> QED BY <1>12, NothingShown DEF Kept

\* An order trades: the front one of the best level is the one price-time priority
\* takes first, and it is used up or the taker is.
LEMMA FillShown ==
    ASSUME IInv, SeenInv, Fill
    PROVE  Kept
<1>1. call = "match" /\ call' = "match" /\ view' = view /\ asked' = asked /\ CanMatch BY DEF Fill
<1>2. PICK s \in Side, p \in Price, m \in Resting, qty \in Nat, fill \in Nat :
        /\ s = Opposite(taker.side) /\ p = BestPrice(s) /\ p \in Prices(s)
        /\ QueueAt(s, p) # <<>> /\ 1 \in DOMAIN QueueAt(s, p)
        /\ m = QueueAt(s, p)[1].id /\ qty = QueueAt(s, p)[1].qty
        /\ fill <= taker.qty /\ fill <= qty
        /\ QueuesTyped'
        /\ \/ fill = qty /\ \E u : Leaves(s, p, 1, u)
           \/ fill = taker.qty /\ fill < qty /\ Shrinks(s, p, fill)
        /\ taker' = [taker EXCEPT !.qty = taker.qty - fill]
        /\ reply' = [reply EXCEPT !.trades = Append(reply.trades, TradeOf(m, taker.id, p, fill))]
  BY FillSteps
<1>3. /\ taker \in [id: OrderId \cup {-1}, side: Side, type: Type, price: Int, qty: Nat]
      /\ reply \in [trades: Seq(TradeMade), status: Status]
  BY DEF IInv, CallTyped
<1>4. Agreed /\ Booked(BookNow) BY <1>1, TakerIs
<1>5. taker.qty > 0 /\ Prices(s) # {} /\ Takes(taker, p) BY <1>1, <1>2 DEF CanMatch
<1>6. First(BookNow, taker, m) /\ RestingOrders[m] = [side |-> s, price |-> p, qty |-> qty]
  <2>1. taker.side \in Side /\ p = BestPrice(s) /\ m = QueueAt(s, p)[1].id /\ s = Opposite(taker.side)
    BY <1>2, <1>3
  <2>2. /\ First(BookNow, taker, m)
        /\ RestingOrders[m] = [side |-> s, price |-> p, qty |-> QueueAt(s, p)[1].qty]
    BY <2>1, <1>4, <1>5, HeadIsFirst
  <2> QED BY <2>2, <1>2
<1>7. /\ m \in DOMAIN BookNow.resting
      /\ BookNow.resting[m].price = p /\ BookNow.resting[m].qty = qty
  BY <1>6, OrdersAre
<1>8. LeftOf(taker, fill, taker') /\ taker'.qty \in Nat BY <1>2, <1>3 DEF LeftOf
<1>9. reply'.trades = Append(reply.trades, TradeOf(m, taker.id, BookNow.resting[m].price, fill))
  BY <1>2, <1>3, <1>7
<1>10. CASE fill = qty /\ \E u : Leaves(s, p, 1, u)
  <2>1. PICK u : Leaves(s, p, 1, u) BY <1>10
  <2>2. /\ Without(BookNow, m, BookNow')
        /\ Resting' = Resting \ {m}
        /\ QueueOrder' = Among(BookNow, Resting')
    BY <1>2, <1>4, <2>1, LeavesBook
  <2>3. SameOutcome(BookNow, taker, BookNow', taker', m, fill)
    <3>1. BookNow.resting[m].qty = fill /\ BookNow.resting[m].qty <= taker.qty BY <1>2, <1>7, <1>10
    <3>2. taker.qty \in Nat /\ LeftOf(taker, BookNow.resting[m].qty, taker') BY <3>1, <1>3, <1>8
    <3>3. SameOutcome(BookNow, taker, BookNow', taker', m, BookNow.resting[m].qty)
      BY <3>1, <3>2, <1>4, <1>5, <1>6, <2>2, WholeFill
    <3> QED BY <3>1, <3>3
  <2>4. Booked(BookNow') BY <1>4, <1>7, <2>2, WithoutBooked
  <2>5. Resting' \subseteq Resting BY <2>2
  <2> QED BY <1>1, <1>8, <1>9, <2>2, <2>3, <2>4, <2>5, FillOnTrack
<1>11. CASE fill = taker.qty /\ fill < qty /\ Shrinks(s, p, fill)
  <2>1. Reduced(BookNow, m, fill, BookNow') /\ Resting' = Resting /\ QueueOrder' = QueueOrder
    BY <1>2, <1>4, <1>11, SmallerBookOrder
  <2>2. SameOutcome(BookNow, taker, BookNow', taker', m, fill)
    BY <1>3, <1>4, <1>5, <1>6, <1>7, <1>8, <1>11, <2>1, PartFill
  <2>3. Booked(BookNow') BY <1>2, <1>4, <1>7, <2>1, ReducedBooked
  <2>4. QueueOrder' = Among(BookNow, Resting') BY <2>1, OrdersAre DEF Among, QueueOrder
  <2>5. Resting' \subseteq Resting BY <2>1
  <2> QED BY <1>1, <1>8, <1>9, <2>2, <2>3, <2>4, <2>5, FillOnTrack
<1> QED BY <1>2, <1>10, <1>11

\* When match_against() can do no more, the request reaches nothing that is left.
LEMMA NoneLeft ==
    ASSUME IInv, SeenInv, call = "match", ~CanMatch
    PROVE  taker.qty = 0 \/ Reached(BookNow, taker) = {}
<1>1. PICK s : s = Opposite(taker.side) OBVIOUS
<1>2. taker.side \in Side /\ taker.price \in Int /\ taker.qty \in Nat /\ Agreed BY TakerIs
<1>3. SUFFICES ASSUME taker.qty # 0 PROVE Prices(s) = {} \/ ~Takes(taker, BestPrice(s))
  BY <1>1, <1>2, NothingReached
<1>4. CASE taker.type # "PostOnly" BY <1>1, <1>2, <1>3, <1>4 DEF CanMatch
<1>5. CASE taker.type = "PostOnly"
  <2>1. ~WouldCross(taker) BY <1>5 DEF IInv, Working
  <2> QED BY <1>1, <1>5, <2>1 DEF WouldCross, Takes
<1> QED BY <1>4, <1>5

\* So the book is what the whole request makes of the one its caller saw, but for
\* the remainder.
LEMMA MatchOver ==
    ASSUME IInv, SeenInv, call = "match", ~CanMatch
    PROVE  /\ AfterTrades(Seen, asked) = RestingOrders
           /\ DOMAIN AfterTrades(Seen, asked) = Resting
           /\ Among(Seen, DOMAIN AfterTrades(Seen, asked)) = QueueOrder
           /\ Trades(Seen, asked) = reply.trades
           /\ Unfilled(Seen, asked) = taker.qty
           /\ ~Killed(Seen, asked)
           /\ Remains(Seen, asked) <=> Rests(taker)
           /\ taker.id = asked.id /\ taker.side = asked.side /\ taker.price = asked.price
<1>1. OnTrack BY DEF SeenInv
<1>2. Booked(BookNow) /\ taker.qty \in Nat BY TakerIs
<1>3. taker.qty = 0 \/ Reached(BookNow, taker) = {} BY NoneLeft
<1>4. /\ AfterTrades(BookNow, taker) = BookNow.resting
      /\ Trades(BookNow, taker) = <<>>
      /\ Unfilled(BookNow, taker) = taker.qty
  BY <1>2, <1>3, NothingTaken
<1>5. reply.trades \o <<>> = reply.trades
  <2>1. PICK u : u = reply.trades OBVIOUS
  <2>2. u \in Seq(TradeMade) BY <2>1 DEF IInv, CallTyped
  <2>3. u \o <<>> = u BY <2>2
  <2> QED BY <2>1, <2>3
<1>6. AfterTrades(Seen, asked) = RestingOrders BY <1>1, <1>4, OrdersAre DEF OnTrack
<1>7. DOMAIN AfterTrades(Seen, asked) = Resting BY <1>6, OrdersAre
<1>8. taker.id = asked.id /\ taker.side = asked.side /\ taker.type = asked.type /\ taker.price = asked.price
  BY DEF SeenInv
<1>9. Unfilled(Seen, asked) = taker.qty BY <1>1, <1>4 DEF OnTrack
<1>10. Remains(Seen, asked) <=> Rests(taker) BY <1>8, <1>9 DEF Remains, Rests
<1> QED BY <1>1, <1>4, <1>5, <1>6, <1>7, <1>8, <1>9, <1>10 DEF OnTrack

\* add() returns before it touches the book.
LEMMA RejectShown ==
    ASSUME IInv, SeenInv, Reject
    PROVE  Kept
<1>1. call = "check" /\ RejectedOnArrival(taker) /\ EndCall(<<>>, "ok") /\ UNCHANGED book
  BY DEF Reject
<1>2. /\ asked' = NoRequest /\ SeenInv'
      /\ view'.resting = RestingOrders' /\ view'.before = QueueOrder'
      /\ view'.reply = Reply(<<>>, "ok")
  BY <1>1, EndShows
<1>3. RestingOrders' = RestingOrders /\ QueueOrder' = QueueOrder BY <1>1, SameOrders
<1>4. asked = taker /\ Seen = BookNow BY <1>1 DEF SeenInv
<1>5. Seen.resting = RestingOrders /\ Seen.before = QueueOrder BY <1>4, OrdersAre
<1>6. /\ taker.side \in Side /\ taker.price \in Int /\ taker.qty \in Nat
      /\ asked # NoRequest /\ Agreed /\ Booked(BookNow)
  BY <1>1, TakerIs
<1>7. Killed(Seen, asked) \/ (asked.type = "FOK" /\ asked.qty = 0)
  BY <1>1, <1>4, <1>6, PrecheckIsExact
<1>8. ASSUME Killed(Seen, asked) PROVE Promise!Next
  <2>1. view.resting = RestingOrders /\ view.before = QueueOrder BY <1>5 DEF Seen
  <2>2. view'.reply = NoReply BY <1>2 DEF NoReply
  <2> QED BY <2>1, <2>2, <1>2, <1>3, <1>6, <1>8, AnswerKill
<1>9. ASSUME ~Killed(Seen, asked) PROVE Promise!Next
  <2>1. asked.type = "FOK" /\ asked.qty = 0 BY <1>7, <1>9
  <2>2. ~Remains(Seen, asked) BY <2>1 DEF Remains
  <2>3. AfterTrades(Seen, asked) = RestingOrders /\ Trades(Seen, asked) = <<>>
    BY <2>1, <1>4, <1>5, <1>6, NothingTaken
  <2>4. Among(Seen, DOMAIN AfterTrades(Seen, asked)) = QueueOrder
    <3>1. DOMAIN AfterTrades(Seen, asked) = Resting BY <2>3, OrdersAre
    <3> QED BY <3>1, <1>5 DEF Among, QueueOrder
  <2> QED BY <2>2, <2>3, <2>4, <1>2, <1>3, <1>6, <1>9, AnswerTake
<1> QED BY <1>2, <1>8, <1>9 DEF Kept

\* The id that is not at rest leaves room for one more.
LEMMA RoomLeft ==
    ASSUME Agreed, NEW id \in OrderId \ Resting
    PROVE  ~(Cardinality(Resting) >= Cardinality(OrderId))
<1>1. Resting \in SUBSET OrderId BY DEF Agreed, IndexTyped
<1>2. IsFiniteSet(OrderId) /\ IsFiniteSet(Resting) BY <1>1, IdAssumption, FS_Subset
<1>3. Resting # OrderId OBVIOUS
<1>4. Cardinality(Resting) \in Nat /\ Cardinality(OrderId) \in Nat BY <1>2, FS_CardinalityType
<1>5. Cardinality(Resting) <= Cardinality(OrderId) /\ Cardinality(Resting) # Cardinality(OrderId)
  BY <1>1, <1>2, <1>3, FS_Subset
<1> QED BY <1>4, <1>5

\* add() has matched what it could, and the remainder rests or is discarded.
LEMMA FinishShown ==
    ASSUME IInv, SeenInv, Finish
    PROVE  Kept
<1>1. call = "match" /\ ~CanMatch /\ EndCall(reply.trades, "ok") BY DEF Finish
<1>2. PICK trades : trades = reply.trades OBVIOUS
<1>3. /\ asked' = NoRequest /\ SeenInv'
      /\ view'.resting = RestingOrders' /\ view'.before = QueueOrder'
      /\ view'.reply = Reply(trades, "ok")
  <2>1. EndCall(trades, "ok") BY <1>1, <1>2 DEF EndCall
  <2> QED BY <2>1, EndShows
<1>4. /\ AfterTrades(Seen, asked) = RestingOrders
      /\ DOMAIN AfterTrades(Seen, asked) = Resting
      /\ Among(Seen, DOMAIN AfterTrades(Seen, asked)) = QueueOrder
      /\ Trades(Seen, asked) = trades
      /\ Unfilled(Seen, asked) = taker.qty
      /\ ~Killed(Seen, asked)
      /\ Remains(Seen, asked) <=> Rests(taker)
      /\ taker.id = asked.id /\ taker.side = asked.side /\ taker.price = asked.price
  BY <1>1, <1>2, MatchOver
<1>5. asked # NoRequest /\ taker.id \in OrderId \ Resting /\ Agreed BY <1>1, TakerIs
<1>6. ASSUME ~Rests(taker) PROVE Promise!Next
  <2>1. UNCHANGED book BY <1>6 DEF Finish
  <2>2. RestingOrders' = RestingOrders /\ QueueOrder' = QueueOrder BY <2>1, SameOrders
  <2> QED BY <1>3, <1>4, <1>5, <1>6, <2>2, AnswerTake
<1>7. ASSUME Rests(taker) PROVE Promise!Next
  <2>1. /\ RestingOrders' = [o \in Resting \cup {taker.id} |->
              IF o = taker.id THEN [side |-> taker.side, price |-> taker.price, qty |-> taker.qty]
              ELSE RestingOrders[o]]
        /\ QueueOrder' = QueueOrder \cup
             {<<o, taker.id>> : o \in {k \in Resting : /\ RestingOrders[k].side = taker.side
                                                       /\ RestingOrders[k].price = taker.price}}
    BY <1>5, <1>7, RestSteps, JoinsBook
  <2>2. RestingOrders' = AfterRest(Seen, asked) BY <1>4, <2>1 DEF AfterRest
  <2>3. QueueOrder' = QueuesAfterRest(Seen, asked) BY <1>4, <2>1 DEF QueuesAfterRest
  <2>4. ~(Cardinality(Resting) >= Cardinality(OrderId)) BY <1>5, RoomLeft
  <2> QED BY <1>3, <1>4, <1>5, <1>7, <2>2, <2>3, <2>4, AnswerRest
<1> QED BY <1>3, <1>6, <1>7 DEF Kept

\* cancel(): the order leaves and the others stay.
LEMMA CancelShown ==
    ASSUME IInv, SeenInv, NEW id \in OrderId, Cancel(id)
    PROVE  Kept
<1>1. /\ id \in Resting /\ EndCall(<<>>, "ok") /\ QueuesTyped'
      /\ \E s \in Side, p \in Price : \E k, u : Leaves(s, p, k, u) /\ id = QueueAt(s, p)[k].id
  BY CancelSteps
<1>2. call = "idle" BY DEF Cancel
<1>3. /\ asked' = NoRequest /\ SeenInv'
      /\ view'.resting = RestingOrders' /\ view'.before = QueueOrder'
      /\ view'.reply = Reply(<<>>, "ok")
  BY <1>1, EndShows
<1>4. /\ Resting' = Resting \ {id}
      /\ RestingOrders' = [o \in Resting \ {id} |-> RestingOrders[o]]
      /\ QueueOrder' = Among(BookNow, Resting')
  <2>1. PICK s \in Side, p \in Price : \E k, u : Leaves(s, p, k, u) /\ id = QueueAt(s, p)[k].id BY <1>1
  <2>2. PICK k, u : Leaves(s, p, k, u) /\ id = QueueAt(s, p)[k].id BY <2>1
  <2>3. Agreed BY DEF IInv, Agreed
  <2> QED BY <1>1, <2>2, <2>3, LeavesBook
<1>5. asked = NoRequest /\ view.resting = RestingOrders /\ view.before = QueueOrder
  BY <1>2 DEF SeenInv, ViewOfBook
<1>6. Seen = BookNow BY <1>5 DEF Seen, BookNow
<1>7. Promise!Cancel(id)
  <2>1. Promise!Idle BY <1>3, <1>5 DEF Promise!Idle, Promise!NoRequest, NoRequest
  <2>2. Promise!Resting = Resting /\ Promise!Book = BookNow BY <1>5, <1>6, OrdersAre, PromiseBook
  <2>3. view'.reply = Promise!NoReply BY <1>3 DEF Promise!NoReply, Promise!Reply, Reply
  <2>4. view'.before = Promise!Among(BookNow, Resting \ {id}) BY <1>3, <1>4, PromiseOperators
  <2> QED BY <1>1, <1>3, <1>4, <1>5, <2>1, <2>2, <2>3, <2>4 DEF Promise!Cancel
<1> QED BY <1>3, <1>7 DEF Kept, Promise!Next

\* cancel() of an id that does not rest.
LEMMA NotFoundShown ==
    ASSUME IInv, SeenInv, NEW id \in OrderId, NotFound(id)
    PROVE  Kept
<1>1. call = "idle" /\ id \notin Resting /\ EndCall(<<>>, "unknown") /\ UNCHANGED book BY DEF NotFound
<1>2. /\ asked' = NoRequest /\ SeenInv'
      /\ view'.resting = RestingOrders' /\ view'.before = QueueOrder'
      /\ view'.reply = Reply(<<>>, "unknown")
  BY <1>1, EndShows
<1>3. RestingOrders' = RestingOrders /\ QueueOrder' = QueueOrder BY <1>1, SameOrders
<1>4. asked = NoRequest /\ view.resting = RestingOrders /\ view.before = QueueOrder
  BY <1>1 DEF SeenInv, ViewOfBook
<1>5. Promise!NotFound(id)
  <2>1. Promise!Idle BY <1>2, <1>4 DEF Promise!Idle, Promise!NoRequest, NoRequest
  <2>2. Promise!Resting = Resting BY <1>4, OrdersAre, PromiseBook
  <2> QED BY <1>1, <1>2, <1>3, <1>4, <2>1, <2>2 DEF Promise!NotFound, Promise!Reply, Reply
<1> QED BY <1>2, <1>5 DEF Kept, Promise!Next

\* Nothing happens.
LEMMA StutterShown ==
    ASSUME IInv, SeenInv, UNCHANGED vars
    PROVE  Kept
<1>1. /\ UNCHANGED book /\ call' = call /\ taker' = taker /\ reply' = reply
      /\ view' = view /\ asked' = asked
  BY DEF vars, book
<1>2. RestingOrders' = RestingOrders /\ QueueOrder' = QueueOrder /\ Resting' = Resting
  BY <1>1, SameOrders
<1>3. BookNow' = BookNow /\ Seen' = Seen /\ ViewOfBook' = ViewOfBook
  BY <1>1, <1>2 DEF BookNow, Seen, ViewOfBook
<1>4. OnTrack => OnTrack' BY <1>1, <1>2, <1>3 DEF OnTrack
<1>5. SeenInv' BY <1>1, <1>3, <1>4 DEF SeenInv
<1> QED BY <1>1, <1>5, NothingShown DEF Kept

\* Whatever the book does, its caller sees a step of the promise or nothing.
LEMMA StepShown ==
    ASSUME IInv, SeenInv, [Next]_vars
    PROVE  Kept
<1>1. CASE UNCHANGED vars BY <1>1, StutterShown
<1>2. CASE \E r \in Request : Submit(r) BY <1>2, SubmitShown
<1>3. CASE Reject BY <1>3, RejectShown
<1>4. CASE Accept BY <1>4, AcceptShown
<1>5. CASE Fill BY <1>5, FillShown
<1>6. CASE Finish BY <1>6, FinishShown
<1>7. CASE \E id \in OrderId : Cancel(id) \/ NotFound(id) BY <1>7, CancelShown, NotFoundShown
<1> QED BY <1>1, <1>2, <1>3, <1>4, <1>5, <1>6, <1>7 DEF Next

\* Every call of the reference book shows its caller one atomic step of price-time
\* priority.  With the same of OrderBookV2 the differential fuzzer compares two
\* implementations of one promise, not two programs that happen to agree.
THEOREM RefinesPromise == Spec => ImplementsPromise
<1>1. Init => IInv /\ SeenInv /\ Promise!Init BY InitInv, SeenInit
<1>2. IInv /\ SeenInv /\ [Next]_vars => IInv' /\ SeenInv' /\ [Promise!Next]_Promise!vars
  BY NextInv, StepShown DEF Kept
<1> QED BY <1>1, <1>2, PTL DEF Spec, ImplementsPromise, Promise!Spec
==============================================================================
