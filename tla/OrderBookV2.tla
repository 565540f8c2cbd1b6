----------------------------- MODULE OrderBookV2 -----------------------------
(***************************************************************************)
(* The matching engine's book (cpp/src/order_book_v2.cpp): an array of     *)
(* price levels on an axis shared by both sides, one intrusive doubly      *)
(* linked FIFO per level whose nodes live in a fixed arena with a LIFO     *)
(* free list, cached best levels, and an index from order id to node.      *)
(*                                                                         *)
(* A book has a single writer, so a call runs to its end before the next   *)
(* one starts.  add() is several steps: Submit, Accept or Reject, one Fill *)
(* per iteration of match()'s inner loop, EnsureIndex                      *)
(* (ensure_index_for_price) and PushBack (push_back_order).  cancel() and  *)
(* reduce() are one step.                                                  *)
(***************************************************************************)
EXTENDS OrderTypes, PriceWindow, FiniteSetsExt

CONSTANT ArenaCapacity  \* arena_capacity_: orders that can rest at once

ASSUME ArenaAssumption == ArenaCapacity \in Nat

Node == 0 .. (ArenaCapacity - 1)
Nil == -1                       \* kNil, and "no best level"
EmptyLevel == [head |-> Nil, tail |-> Nil, total |-> 0]

VARIABLES
    window,     \* base_ and levels_.size()
    levels,     \* levels_
    best,       \* best_bid_idx_ and best_ask_idx_, by side
    arena,      \* arena_: the nodes, stale contents of freed ones included
    bump,       \* arena_bump_: nodes from here on were never handed out
    freeList,   \* free_list_, its back last
    index,      \* index_: order id -> side, level, node
    call,       \* where the writer is: "idle", "check", "match" or "push"
    taker,      \* the request add() is working on, its qty counting down
    reply       \* out_trades and how the last call ended

book == <<window, levels, best, arena, bump, freeList, index>>
vars == <<window, levels, best, arena, bump, freeList, index, call, taker, reply>>

Init ==
    /\ window = NoWindow
    /\ levels = [i \in 0 .. -1 |-> EmptyLevel]
    /\ best = [s \in Side |-> Nil]
    /\ arena = [n \in Node |-> [id |-> Nil, qty |-> 0, prev |-> Nil, next |-> Nil]]
    /\ bump = 0
    /\ freeList = <<>>
    /\ index = [id \in {} |-> Nil]
    /\ call = "idle"
    /\ taker = NoRequest
    /\ reply = NoReply

PriceAt(i) == window.base + i

Resting == DOMAIN index

\* As NextBest, without looking whether the neighbouring level is occupied.
NextBestUnscanned(s, lv, i) == IF s = "Buy" THEN i - 1 ELSE i + 1

\* The scan for the next occupied level behind level i, away from the spread.
NextBest(s, lv, i) ==
    LET behind == {j \in DOMAIN lv : lv[j].head # Nil /\ BetterPrice(s, i, j)} IN
    IF behind = {} THEN Nil ELSE IF s = "Buy" THEN Max(behind) ELSE Min(behind)

\* Levels a request reaches, from the best of the other side outwards.
ReachedLevels(r) ==
    LET s == Opposite(r.side) IN
    {i \in DOMAIN levels : /\ best[s] # Nil
                           /\ ~BetterPrice(s, i, best[s])
                           /\ Reaches(r.side, r.price, PriceAt(i))}

\* As CanFullyFill, from the best level alone.
CanFillAtBest(r) ==
    best[Opposite(r.side)] # Nil /\ levels[best[Opposite(r.side)]].total >= r.qty

\* can_fully_fill(): from the levels' cached totals, not from the orders.
CanFullyFill(r) ==
    IF best[Opposite(r.side)] = Nil THEN r.qty = 0
    ELSE /\ ReachedLevels(r) # {}
         /\ SumFunctionOnSet([i \in DOMAIN levels |-> levels[i].total], ReachedLevels(r)) >= r.qty

RejectedOnArrival(r) ==
    \/ r.type = "FOK" /\ ~CanFullyFill(r)
    \/ /\ r.type = "PostOnly"
       /\ best[Opposite(r.side)] # Nil
       /\ Reaches(r.side, r.price, PriceAt(best[Opposite(r.side)]))
------------------------------------------------------------------------------
EndCall(trades, status) ==
    /\ call' = "idle"
    /\ taker' = NoRequest
    /\ reply' = Reply(trades, status)

\* add() is called.  Callers never submit an id that still rests: the index
\* would silently drop the older order.
Submit(r) ==
    /\ call = "idle"
    /\ r.id \notin Resting
    /\ call' = "check"
    /\ taker' = r
    /\ reply' = NoReply
    /\ UNCHANGED book

\* add() returns before touching the book.
Reject ==
    /\ call = "check"
    /\ RejectedOnArrival(taker)
    /\ EndCall(<<>>, "ok")
    /\ UNCHANGED book

Accept ==
    /\ call = "check"
    /\ ~RejectedOnArrival(taker)
    /\ call' = "match"
    /\ UNCHANGED <<book, taker, reply>>

\* match() has another fill to make.  PostOnly never enters match().
CanMatch ==
    LET b == best[Opposite(taker.side)] IN
    /\ taker.type # "PostOnly"
    /\ taker.qty > 0
    /\ b # Nil
    /\ Takes(taker, PriceAt(b))

\* The trade of this iteration and the taker's remaining quantity.
Trade(level, node, fill) ==
    /\ taker' = [taker EXCEPT !.qty = @ - fill]
    /\ reply' = [reply EXCEPT !.trades =
                    Append(@, TradeOf(arena[node].id, taker.id, PriceAt(level), fill))]

\* The maker at the head of the best level is used up: it leaves the level,
\* the index and the arena, and an emptied level moves the best one back.
FillMaker ==
    /\ call = "match"
    /\ CanMatch
    /\ LET s == Opposite(taker.side)
           b == best[s]
           n == levels[b].head
           maker == arena[n]
           lv == [levels EXCEPT ![b] =
                    [head |-> maker.next,
                     tail |-> IF maker.next = Nil THEN Nil ELSE @.tail,
                     total |-> @.total - maker.qty]]
       IN
       /\ maker.qty <= taker.qty
       /\ Trade(b, n, maker.qty)
       /\ levels' = lv
       /\ arena' = [m \in Node |->
                        IF m = n THEN [maker EXCEPT !.qty = 0]
                        ELSE IF m = maker.next THEN [arena[m] EXCEPT !.prev = Nil]
                        ELSE arena[m]]
       /\ best' = [best EXCEPT ![s] = IF maker.next = Nil THEN NextBest(s, lv, b) ELSE @]
       /\ index' = [id \in Resting \ {maker.id} |-> index[id]]
       /\ freeList' = Append(freeList, n)
    /\ UNCHANGED <<window, bump, call>>

\* The maker outlasts the taker and keeps its place.
FillTaker ==
    /\ call = "match"
    /\ CanMatch
    /\ LET b == best[Opposite(taker.side)]
           n == levels[b].head
       IN
       /\ taker.qty < arena[n].qty
       /\ Trade(b, n, taker.qty)
       /\ levels' = [levels EXCEPT ![b].total = @ - taker.qty]
       /\ arena' = [arena EXCEPT ![n].qty = @ - taker.qty]
    /\ UNCHANGED <<window, best, bump, freeList, index, call>>

\* Nothing more to match and nothing to rest: the remainder is discarded.
Finish ==
    /\ call = "match"
    /\ ~CanMatch
    /\ ~Rests(taker)
    /\ EndCall(reply.trades, "ok")
    /\ UNCHANGED book

\* A rebase moves every position on the axis: the levels themselves, the best
\* ones and the one each open order remembers.
ShiftedLevels(size, shift) ==
    [i \in 0 .. (size - 1) |-> IF i - shift \in DOMAIN levels THEN levels[i - shift] ELSE EmptyLevel]

\* As ShiftedBest, with the asks' best level forgotten.
ShiftedBestBid(shift) == [best EXCEPT !["Buy"] = IF @ = Nil THEN Nil ELSE @ + shift]

ShiftedBest(shift) == [s \in Side |-> IF best[s] = Nil THEN Nil ELSE best[s] + shift]

\* As ShiftedIndex, with the open orders forgotten.
UnshiftedIndex(shift) == index

ShiftedIndex(shift) == [id \in Resting |-> [index[id] EXCEPT !.level = @ + shift]]

\* ensure_index_for_price() returned.
EnsureIndex ==
    /\ call = "match"
    /\ ~CanMatch
    /\ Rests(taker)
    /\ Fits(window, taker.price)
    /\ LET w == Covering(window, taker.price)
           shift == Shift(Anchored(window, taker.price), taker.price)
       IN
       /\ window' = w
       /\ levels' = ShiftedLevels(w.size, shift)
       /\ best' = ShiftedBest(shift)
       /\ index' = ShiftedIndex(shift)
    /\ call' = "push"
    /\ UNCHANGED <<arena, bump, freeList, taker, reply>>

\* The price implies a window past kMaxLevels: add() throws, and what match()
\* did before stays done.
ThrowWindow ==
    /\ call = "match"
    /\ ~CanMatch
    /\ Rests(taker)
    /\ ~Fits(window, taker.price)
    /\ EndCall(reply.trades, "window")
    /\ UNCHANGED book

\* As HasFreeNode and NextFree, without recycling and with a queue for a stack.
HasUnusedNode == bump < ArenaCapacity
OldestFree == IF freeList # <<>> THEN freeList[1] ELSE bump

\* alloc_node(): the node freed last, else one never used.
HasFreeNode == freeList # <<>> \/ bump < ArenaCapacity

NextFree == IF freeList # <<>> THEN freeList[Len(freeList)] ELSE bump

\* As Joined, with the level's total overwritten.
JoinedAnew(level, n, qty) ==
    [head |-> IF level.tail = Nil THEN n ELSE level.head, tail |-> n, total |-> qty]

\* A level once node n, holding qty, joined the back of its queue.
Joined(level, n, qty) ==
    [head |-> IF level.tail = Nil THEN n ELSE level.head,
     tail |-> n,
     total |-> level.total + qty]

\* push_back_order() and the update of the best level that follows it.
PushBack ==
    /\ call = "push"
    /\ HasFreeNode
    /\ LET n == NextFree
           i == Slot(window, taker.price)
           tail == levels[i].tail
           s == taker.side
       IN
       /\ IF freeList # <<>>
          THEN freeList' = SubSeq(freeList, 1, Len(freeList) - 1) /\ bump' = bump
          ELSE freeList' = freeList /\ bump' = bump + 1
       /\ arena' = [m \in Node |->
                        IF m = n THEN [id |-> taker.id, qty |-> taker.qty, prev |-> tail, next |-> Nil]
                        ELSE IF m = tail THEN [arena[m] EXCEPT !.next = n]
                        ELSE arena[m]]
       /\ levels' = [levels EXCEPT ![i] = Joined(@, n, taker.qty)]
       /\ index' = [id \in Resting \cup {taker.id} |->
                        IF id = taker.id THEN [side |-> s, level |-> i, node |-> n] ELSE index[id]]
       /\ best' = [best EXCEPT ![s] = IF @ = Nil \/ BetterPrice(s, i, @) THEN i ELSE @]
    /\ EndCall(reply.trades, "ok")
    /\ UNCHANGED window

\* alloc_node() throws; the window has grown already.
ThrowArena ==
    /\ call = "push"
    /\ ~HasFreeNode
    /\ EndCall(reply.trades, "arena")
    /\ UNCHANGED book
------------------------------------------------------------------------------
\* As Unlinked, with the successor's prev left dangling.
UnlinkedForward(n) ==
    [m \in Node |-> IF m = n.prev THEN [arena[m] EXCEPT !.next = n.next] ELSE arena[m]]

\* The arena once the neighbours of the unlinked node n point past it.
Unlinked(n) ==
    [m \in Node |-> IF m = n.prev THEN [arena[m] EXCEPT !.next = n.next]
                    ELSE IF m = n.next THEN [arena[m] EXCEPT !.prev = n.prev]
                    ELSE arena[m]]

\* The body of cancel() once the order is found.
Withdraw(id) ==
    LET e == index[id]
        n == arena[e.node]
        lv == [levels EXCEPT ![e.level] =
                [head |-> IF n.prev = Nil THEN n.next ELSE @.head,
                 tail |-> IF n.next = Nil THEN n.prev ELSE @.tail,
                 total |-> @.total - n.qty]]
    IN
    /\ arena' = Unlinked(n)
    /\ levels' = lv
    /\ best' = [best EXCEPT ![e.side] =
                    IF lv[e.level].head = Nil /\ @ = e.level
                    THEN NextBest(e.side, lv, e.level) ELSE @]
    /\ index' = [o \in Resting \ {id} |-> index[o]]
    /\ freeList' = Append(freeList, e.node)
    /\ UNCHANGED <<window, bump>>

\* cancel(), and add() of a Type::Cancel request.
Cancel(id) ==
    /\ call = "idle"
    /\ id \in Resting
    /\ Withdraw(id)
    /\ EndCall(<<>>, "ok")

\* reduce() by less than what rests: the order keeps its place in the queue.
ReducePart(id, delta) ==
    /\ call = "idle"
    /\ id \in Resting
    /\ LET e == index[id] IN
       /\ delta < arena[e.node].qty
       /\ arena' = [arena EXCEPT ![e.node].qty = @ - delta]
       /\ levels' = [levels EXCEPT ![e.level].total = @ - delta]
    /\ EndCall(<<>>, "ok")
    /\ UNCHANGED <<window, best, bump, freeList, index>>

\* reduce() to nothing or past it is a cancel().
ReduceAll(id, delta) ==
    /\ call = "idle"
    /\ id \in Resting
    /\ delta >= arena[index[id].node].qty
    /\ Withdraw(id)
    /\ EndCall(<<>>, "ok")

\* cancel() or reduce() of an id that does not rest returns false.
NotFound(id) ==
    /\ call = "idle"
    /\ id \notin Resting
    /\ EndCall(<<>>, "unknown")
    /\ UNCHANGED book

AddSteps ==
    \/ Reject
    \/ Accept
    \/ FillMaker
    \/ FillTaker
    \/ Finish
    \/ EnsureIndex
    \/ ThrowWindow
    \/ PushBack
    \/ ThrowArena

Next ==
    \/ \E r \in Request : Submit(r)
    \/ AddSteps
    \/ \E id \in OrderId : Cancel(id) \/ NotFound(id)
    \/ \E id \in OrderId, delta \in Quantity : ReducePart(id, delta) \/ ReduceAll(id, delta)

Spec == Init /\ [][Next]_vars
------------------------------------------------------------------------------
Entry == [side: Side, level: Nat, node: Node]
TradeRecord == [maker: OrderId, taker: OrderId, price: Int, qty: Nat]

\* Every variable keeps its C++ type, the best levels are positions on the axis,
\* and an order being added does not rest yet.
TypeOK ==
    /\ window \in Window
    /\ levels \in [0 .. (window.size - 1) ->
                    [head: Node \cup {Nil}, tail: Node \cup {Nil}, total: Int]]
    /\ best \in [Side -> DOMAIN levels \cup {Nil}]
    /\ arena \in [Node -> [id: OrderId \cup {Nil}, qty: Nat,
                            prev: Node \cup {Nil}, next: Node \cup {Nil}]]
    /\ bump \in 0 .. ArenaCapacity
    /\ freeList \in Seq(Node)
    /\ Resting \subseteq OrderId
    /\ index \in [Resting -> Entry]
    /\ call \in {"idle", "check", "match", "push"}
    /\ taker \in [id: OrderId \cup {Nil}, side: Side, type: Type, price: Int, qty: Nat]
    /\ call # "idle" => taker.id \in OrderId \ Resting
    /\ reply \in [trades: Seq(TradeRecord), status: Status]

\* The nodes that hold a resting order: the index leads back to them.
Live == {n \in Node : arena[n].id \in Resting /\ index[arena[n].id].node = n}

LevelOf(n) == index[arena[n].id].level

Members(i) == {n \in Live : LevelOf(n) = i}

IndexMatchesArena ==
    \A id \in Resting :
        /\ index[id].level \in DOMAIN levels
        /\ arena[index[id].node].id = id

EndsMatch ==
    \A i \in DOMAIN levels :
        /\ levels[i].head = Nil <=> levels[i].tail = Nil
        /\ levels[i].head # Nil => /\ levels[i].head \in Members(i)
                                   /\ arena[levels[i].head].prev = Nil
        /\ levels[i].tail # Nil => /\ levels[i].tail \in Members(i)
                                   /\ arena[levels[i].tail].next = Nil

LinksMatch ==
    \A n \in Live :
        /\ arena[n].prev = Nil => levels[LevelOf(n)].head = n
        /\ arena[n].next = Nil => levels[LevelOf(n)].tail = n
        /\ arena[n].prev # Nil => /\ arena[n].prev \in Members(LevelOf(n))
                                 /\ arena[arena[n].prev].next = n
        /\ arena[n].next # Nil => /\ arena[n].next \in Members(LevelOf(n))
                                 /\ arena[arena[n].next].prev = n

NoCycle == \A S \in SUBSET Live : S # {} => \E n \in S : arena[n].prev \notin S

\* unlink, push_back and match() together keep the index, the arena and the
\* levels' lists telling one story: each level's list is doubly linked from its
\* head to its tail, without a cycle, through exactly the nodes of its orders.
\* A dangling or shared node would corrupt a level long after the call that
\* caused it.
ListsSound == IndexMatchesArena /\ EndsMatch /\ LinksMatch /\ NoCycle

\* alloc_node()/free_node(): a node handed out is either in exactly one order's
\* hands or exactly once on the free list; none leaks, none is freed twice.
NodesConserved ==
    LET freed == {freeList[i] : i \in DOMAIN freeList} IN
    /\ \A i, j \in DOMAIN freeList : freeList[i] = freeList[j] => i = j
    /\ freed \cap Live = {}
    /\ freed \cup Live = 0 .. (bump - 1)

\* best_bid_idx_/best_ask_idx_ name the extreme level of their side's resting
\* orders, through every rescan, rebase and cancel.
BestExact ==
    \A s \in Side :
        LET used == {index[id].level : id \in {o \in Resting : index[o].side = s}} IN
        IF used = {} THEN best[s] = Nil
        ELSE best[s] \in used /\ \A i \in used : ~BetterPrice(s, i, best[s])

\* Bids stay strictly below asks on the shared axis, between calls and within.
NotCrossed == best["Buy"] # Nil /\ best["Sell"] # Nil => best["Buy"] < best["Sell"]

\* PriceLevel::total_qty, which FOK's pre-check trusts instead of walking the
\* list, is the sum of what rests at the level.
TotalsExact ==
    \A i \in DOMAIN levels :
        levels[i].total = SumFunctionOnSet([n \in Node |-> arena[n].qty], Members(i))

\* add() runs out of arena only when it traded nothing: a fill that leaves the
\* taker with something to rest has just freed a node.
ArenaThrowIsClean == reply.status = "arena" => reply.trades = <<>>

\* An order keeps the price it was accepted at for as long as it rests: a
\* rebase moves the axis under it and must not move it along.
KeepsPrice ==
    [][\A id \in Resting \cap Resting' :
          window'.base + index'[id].level = PriceAt(index[id].level)]_vars
==============================================================================
