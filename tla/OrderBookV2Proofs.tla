-------------------------- MODULE OrderBookV2Proofs --------------------------
(***************************************************************************)
(* OrderBookV2 for every set of orders, prices and quantities, every arena *)
(* and every window.  One inductive invariant, from which the safety       *)
(* properties of the book follow; then the book as one of price-time       *)
(* priority, what each step does to it, and with that the refinement of    *)
(* BookPromise: each fill leaves the rest of the matching to do what the   *)
(* whole request would have done (WholeFill and PartFill).                 *)
(* The last part is about the index, FlatHashMap, by itself.               *)
(***************************************************************************)
EXTENDS OrderBookV2Refinement, FlatHashMap, PriceTimePriorityProofs

\* Every resting order is on the axis, not ahead of its side's best level.
BestBoundsSides ==
    \A id \in Resting :
        LET s == index[id].side IN
        best[s] # Nil /\ ~BetterPrice(s, index[id].level, best[s])

BestOccupied == \A s \in Side : best[s] # Nil => levels[best[s]].head # Nil

\* The taker does not reach the best order of the other side.
Apart(r) ==
    LET b == best[Opposite(r.side)] IN
    b = Nil \/ ~Reaches(r.side, r.price, PriceAt(b))

\* What is known of the taker once match() is over, and of a PostOnly order,
\* which never matches, from the moment it is accepted.
TakerReady ==
    /\ call = "push" => /\ Rests(taker)
                        /\ Slot(window, taker.price) \in DOMAIN levels
                        /\ Apart(taker)
    /\ call = "match" /\ taker.type = "PostOnly" => Apart(taker)

\* A fill that left the taker wanting more freed a node; nothing has failed yet.
FillFreesNode ==
    /\ call # "idle" => reply.status = "ok"
    /\ call = "check" => reply.trades = <<>>
    /\ call # "idle" /\ taker.type = "PostOnly" => reply.trades = <<>>
    /\ call # "idle" /\ reply.trades # <<>> /\ taker.qty > 0 => freeList # <<>>

IInv ==
    /\ TypeOK
    /\ ListsSound
    /\ NodesConserved
    /\ NotCrossed
    /\ BestBoundsSides
    /\ BestOccupied
    /\ TakerReady
    /\ FillFreesNode
    /\ ArenaThrowIsClean
    /\ TotalsExact
------------------------------------------------------------------------------
(* A node leaves its list: what FillMaker and Withdraw have in common *)

Detaches(x) ==
    LET i == LevelOf(x) IN
    /\ DOMAIN levels' = DOMAIN levels
    /\ \A j \in DOMAIN levels :
        /\ levels'[j].head = IF j = i /\ arena[x].prev = Nil THEN arena[x].next ELSE levels[j].head
        /\ levels'[j].tail = IF j = i /\ arena[x].next = Nil THEN arena[x].prev ELSE levels[j].tail
    /\ \A m \in Node : arena'[m].id = arena[m].id
    /\ \A m \in Node \ {x} :
        /\ arena'[m].next = IF m = arena[x].prev THEN arena[x].next ELSE arena[m].next
        /\ arena'[m].prev = IF m = arena[x].next THEN arena[x].prev ELSE arena[m].prev
    /\ index' = [o \in Resting \ {arena[x].id} |-> index[o]]

\* What the level of node x loses with it.
TakesQty(x) ==
    /\ \A j \in DOMAIN levels :
         levels'[j].total = IF j = LevelOf(x) THEN levels[j].total - arena[x].qty ELSE levels[j].total
    /\ \A m \in Node \ {x} : arena'[m].qty = arena[m].qty

\* A node's neighbours are two different nodes, and not the node itself.
LEMMA Neighbours ==
    ASSUME TypeOK, LinksMatch, NoCycle, NEW x \in Live
    PROVE  /\ arena[x].prev # x
           /\ arena[x].next # x
           /\ arena[x].prev = arena[x].next => arena[x].prev = Nil
<1>1. Live \subseteq Node /\ Nil \notin Node BY DEF Live, Node, Nil
<1>2. \A y \in Live : {x, y} \in SUBSET Live OBVIOUS
<1>3. arena[x].prev # x BY <1>2 DEF NoCycle
<1>4. arena[x].next # x BY <1>3, <1>1 DEF LinksMatch
<1>5. ASSUME arena[x].prev = arena[x].next, arena[x].prev # Nil PROVE FALSE
  <2> DEFINE y == arena[x].prev
  <2>1. y \in Live /\ arena[y].prev = x BY <1>5 DEF LinksMatch, Members
  <2>2. \E n \in {x, y} : arena[n].prev \notin {x, y} BY <1>2, <2>1 DEF NoCycle
  <2> QED BY <2>1, <2>2
<1> QED BY <1>3, <1>4, <1>5

\* The detached node is no longer live; every other node keeps its level.
LEMMA DetachLive ==
    ASSUME TypeOK, IndexMatchesArena, NEW x \in Live, Detaches(x)
    PROVE  /\ Live' = Live \ {x}
           /\ \A n \in Live' : LevelOf(n)' = LevelOf(n)
           /\ \A j \in DOMAIN levels : Members(j)' = Members(j) \ {x}
<1>1. Resting' = Resting \ {arena[x].id} BY DEF Detaches, Resting
<1>2. \A o \in Resting' : index'[o] = index[o] BY DEF Detaches, Resting
<1>3. \A n \in Node : arena'[n].id = arena[n].id BY DEF Detaches
<1>4. x \in Node /\ arena[x].id \in Resting /\ index[arena[x].id].node = x BY DEF Live
<1>5. Live' = Live \ {x} BY <1>1, <1>2, <1>3, <1>4 DEF Live
<1>6. \A n \in Live' : n \in Node /\ arena'[n].id \in Resting' BY DEF Live
<1>7. \A n \in Live' : LevelOf(n)' = LevelOf(n) BY <1>2, <1>3, <1>6 DEF LevelOf
<1> QED BY <1>5, <1>7 DEF Members

\* The heads and tails after a node left its list.
LEMMA DetachEnds ==
    ASSUME TypeOK, ListsSound, NEW x \in Live, Detaches(x)
    PROVE  EndsMatch'
<1> DEFINE i == LevelOf(x)
<1>1. EndsMatch /\ LinksMatch /\ NoCycle /\ IndexMatchesArena BY DEF ListsSound
<1>2. Nil \notin Node /\ Live \subseteq Node /\ x \in Node BY DEF Live, Node, Nil
<1>3. /\ Live' = Live \ {x}
      /\ \A n \in Live' : LevelOf(n)' = LevelOf(n)
      /\ \A j \in DOMAIN levels : Members(j)' = Members(j) \ {x}
  BY <1>1, DetachLive
<1>4. /\ arena[x].prev # x
      /\ arena[x].next # x
      /\ arena[x].prev = arena[x].next => arena[x].prev = Nil
  BY <1>1, Neighbours
<1>5. x \in Members(i) /\ i \in DOMAIN levels
  BY <1>1 DEF Members, Live, LevelOf, IndexMatchesArena
<1>6. /\ arena[x].prev = Nil => levels[i].head = x
      /\ arena[x].next = Nil => levels[i].tail = x
      /\ arena[x].prev # Nil => arena[x].prev \in Members(i) /\ arena[arena[x].prev].next = x
      /\ arena[x].next # Nil => arena[x].next \in Members(i) /\ arena[arena[x].next].prev = x
  BY <1>1 DEF LinksMatch
<1>7. SUFFICES ASSUME NEW j \in DOMAIN levels
      PROVE  /\ levels'[j].head = Nil <=> levels'[j].tail = Nil
             /\ levels'[j].head # Nil => /\ levels'[j].head \in Members(j)'
                                        /\ arena'[levels'[j].head].prev = Nil
             /\ levels'[j].tail # Nil => /\ levels'[j].tail \in Members(j)'
                                        /\ arena'[levels'[j].tail].next = Nil
  BY DEF EndsMatch, Detaches
<1>8. Members(j) \subseteq Node BY <1>2 DEF Members
<1>9. /\ levels[j].head = Nil <=> levels[j].tail = Nil
      /\ levels[j].head # Nil => levels[j].head \in Members(j) /\ arena[levels[j].head].prev = Nil
      /\ levels[j].tail # Nil => levels[j].tail \in Members(j) /\ arena[levels[j].tail].next = Nil
  BY <1>1 DEF EndsMatch
<1>10. CASE j # i
  <2>1. levels'[j].head = levels[j].head /\ levels'[j].tail = levels[j].tail
    BY <1>10 DEF Detaches
  <2>2. Members(j)' = Members(j) /\ arena[x].next \notin Members(j) /\ arena[x].prev \notin Members(j)
    BY <1>3, <1>5, <1>6, <1>8, <1>2, <1>10 DEF Members
  <2> QED BY <2>1, <2>2, <1>3, <1>8, <1>9 DEF Detaches
<1>11. CASE j = i
  <2>1. /\ levels'[j].head = IF arena[x].prev = Nil THEN arena[x].next ELSE levels[j].head
        /\ levels'[j].tail = IF arena[x].next = Nil THEN arena[x].prev ELSE levels[j].tail
    BY <1>11 DEF Detaches
  <2>2. Members(j)' = Members(j) \ {x} BY <1>3
  <2>3. \A m \in Members(j) \ {x} :
          /\ arena'[m].next = IF m = arena[x].prev THEN arena[x].next ELSE arena[m].next
          /\ arena'[m].prev = IF m = arena[x].next THEN arena[x].prev ELSE arena[m].prev
    BY <1>8 DEF Detaches
  <2>4. levels[j].head # x => arena[x].prev # Nil BY <1>6, <1>11
  <2>5. levels[j].tail # x => arena[x].next # Nil BY <1>6, <1>11
  <2>6. arena[x].prev # Nil => levels[j].head # x BY <1>9, <1>5, <1>2
  <2>7. arena[x].next # Nil => levels[j].tail # x BY <1>9, <1>5, <1>2
  <2>8. Nil \notin Members(j) BY <1>8, <1>2
  <2> HIDE DEF i
  <2>9. x # Nil BY <1>2
  <2>10. CASE arena[x].prev = Nil
    BY <2>1, <2>2, <2>3, <2>5, <2>7, <2>8, <2>9, <2>10, <1>4, <1>6, <1>9, <1>11
  <2>11. CASE arena[x].prev # Nil
    BY <2>1, <2>2, <2>3, <2>5, <2>6, <2>7, <2>8, <2>9, <2>11, <1>4, <1>6, <1>9, <1>11
  <2> QED BY <2>10, <2>11
<1> QED BY <1>10, <1>11

\* The index and the links of the remaining nodes after a node left its list.
LEMMA DetachLinks ==
    ASSUME TypeOK, ListsSound, NEW x \in Live, Detaches(x)
    PROVE  IndexMatchesArena' /\ LinksMatch'
<1> DEFINE i == LevelOf(x)
<1>1. EndsMatch /\ LinksMatch /\ NoCycle /\ IndexMatchesArena BY DEF ListsSound
<1>2. Nil \notin Node /\ Live \subseteq Node /\ x \in Node BY DEF Live, Node, Nil
<1>3. /\ Live' = Live \ {x}
      /\ \A n \in Live' : LevelOf(n)' = LevelOf(n)
      /\ \A j \in DOMAIN levels : Members(j)' = Members(j) \ {x}
  BY <1>1, DetachLive
<1>4. /\ arena[x].prev # x
      /\ arena[x].next # x
      /\ arena[x].prev = arena[x].next => arena[x].prev = Nil
  BY <1>1, Neighbours
<1>5. \A n \in Live : n \in Members(LevelOf(n)) /\ LevelOf(n) \in DOMAIN levels
  BY <1>1 DEF Members, Live, LevelOf, IndexMatchesArena
<1>6. IndexMatchesArena'
  <2>1. \A o \in Resting' : o \in Resting /\ index'[o] = index[o] BY DEF Detaches, Resting
  <2>2. \A o \in Resting : index[o].node \in Node BY DEF TypeOK, Entry
  <2>3. \A o \in Resting' : arena'[index'[o].node].id = arena[index[o].node].id
    BY <2>1, <2>2 DEF Detaches
  <2>4. DOMAIN levels' = DOMAIN levels BY DEF Detaches
  <2> QED BY <1>1, <2>1, <2>3, <2>4 DEF IndexMatchesArena
<1>7. SUFFICES ASSUME NEW n \in Live'
      PROVE  /\ arena'[n].prev = Nil => levels'[LevelOf(n)].head = n
             /\ arena'[n].next = Nil => levels'[LevelOf(n)].tail = n
             /\ arena'[n].prev # Nil => /\ arena'[n].prev \in Members(LevelOf(n))'
                                       /\ arena'[arena'[n].prev].next = n
             /\ arena'[n].next # Nil => /\ arena'[n].next \in Members(LevelOf(n))'
                                       /\ arena'[arena'[n].next].prev = n
  BY <1>3, <1>6 DEF LinksMatch
<1> DEFINE k == LevelOf(n)
<1>8. n \in Live /\ n # x /\ n \in Node /\ k \in DOMAIN levels BY <1>2, <1>3, <1>5
<1>9. /\ Members(k)' = Members(k) \ {x}
      /\ Members(k) \subseteq Node
      /\ k # i => x \notin Members(k)
      /\ \A m \in Members(k) : m \in Live /\ LevelOf(m) = k
  BY <1>2, <1>3, <1>8 DEF Members
<1>10. /\ arena[n].prev = Nil => levels[k].head = n
       /\ arena[n].next = Nil => levels[k].tail = n
       /\ arena[n].prev # Nil => arena[n].prev \in Members(k) /\ arena[arena[n].prev].next = n
       /\ arena[n].next # Nil => arena[n].next \in Members(k) /\ arena[arena[n].next].prev = n
  BY <1>1, <1>8 DEF LinksMatch
<1>11. /\ arena[x].prev = Nil => levels[i].head = x
       /\ arena[x].next = Nil => levels[i].tail = x
       /\ arena[x].prev # Nil => arena[x].prev \in Members(i) /\ arena[arena[x].prev].next = x
       /\ arena[x].next # Nil => arena[x].next \in Members(i) /\ arena[arena[x].next].prev = x
  BY <1>1 DEF LinksMatch
<1>12. /\ levels'[k].head = IF k = i /\ arena[x].prev = Nil THEN arena[x].next ELSE levels[k].head
       /\ levels'[k].tail = IF k = i /\ arena[x].next = Nil THEN arena[x].prev ELSE levels[k].tail
  BY <1>8 DEF Detaches
<1>13. \A m \in Node \ {x} :
         /\ arena'[m].next = IF m = arena[x].prev THEN arena[x].next ELSE arena[m].next
         /\ arena'[m].prev = IF m = arena[x].next THEN arena[x].prev ELSE arena[m].prev
  BY DEF Detaches
<1>14. \A m \in Members(i) : LevelOf(m) = i BY DEF Members
<1> HIDE DEF i, k
<1>15. arena[n].prev = x => n = arena[x].next
  BY <1>2, <1>10
<1>16. arena[n].next = x => n = arena[x].prev
  BY <1>2, <1>10
<1>17. n = arena[x].next \/ n = arena[x].prev => k = i
  BY <1>2, <1>8, <1>11, <1>14 DEF k
<1>18. /\ arena'[n].prev = Nil => levels'[k].head = n
       /\ arena'[n].next = Nil => levels'[k].tail = n
  BY <1>2, <1>4, <1>8, <1>10, <1>11, <1>12, <1>13, <1>15, <1>16, <1>17
<1>19. arena'[n].prev # Nil => arena'[n].prev \in Members(k)' /\ arena'[arena'[n].prev].next = n
  <2>1. CASE n = arena[x].next
    BY <2>1, <1>2, <1>4, <1>8, <1>9, <1>11, <1>13, <1>17
  <2>2. CASE n # arena[x].next
    <3>1. arena'[n].prev = arena[n].prev BY <2>2, <1>8, <1>13
    <3>2. arena[n].prev # x BY <2>2, <1>15
    <3> QED BY <3>1, <3>2, <1>8, <1>9, <1>10, <1>11, <1>13
  <2> QED BY <2>1, <2>2
<1>20. arena'[n].next # Nil => arena'[n].next \in Members(k)' /\ arena'[arena'[n].next].prev = n
  <2>1. CASE n = arena[x].prev
    BY <2>1, <1>2, <1>4, <1>8, <1>9, <1>11, <1>13, <1>17
  <2>2. CASE n # arena[x].prev
    <3>1. arena'[n].next = arena[n].next BY <2>2, <1>8, <1>13
    <3>2. arena[n].next # x BY <2>2, <1>16
    <3> QED BY <3>1, <3>2, <1>8, <1>9, <1>10, <1>11, <1>13
  <2> QED BY <2>1, <2>2
<1> QED BY <1>18, <1>19, <1>20 DEF k

\* Bridging a node closes no cycle: a set closed under the new prev links would,
\* with the node added, be closed under the old ones.
LEMMA DetachNoCycle ==
    ASSUME TypeOK, ListsSound, NEW x \in Live, Detaches(x)
    PROVE  NoCycle'
<1>1. LinksMatch /\ NoCycle /\ IndexMatchesArena BY DEF ListsSound
<1>2. Live' = Live \ {x} /\ Live \subseteq Node /\ Nil \notin Live
  BY <1>1, DetachLive DEF Live, Node, Nil
<1>3. \A m \in Node \ {x} :
        arena'[m].prev = IF m = arena[x].next THEN arena[x].prev ELSE arena[m].prev
  BY DEF Detaches
<1>4. SUFFICES ASSUME NEW S \in SUBSET Live', S # {},
                      \A n \in S : arena'[n].prev \in S
               PROVE  FALSE
  BY DEF NoCycle
<1>5. S \in SUBSET Live /\ x \notin S /\ S \in SUBSET Node BY <1>2
<1>6. PICK n \in S : arena[n].prev \notin S BY <1>1, <1>4, <1>5 DEF NoCycle
<1>7. n = arena[x].next /\ arena[x].prev \in S BY <1>3, <1>4, <1>5, <1>6
<1>8. arena[n].prev = x BY <1>1, <1>2, <1>5, <1>7 DEF LinksMatch
<1>9. PICK k \in S \cup {x} : arena[k].prev \notin S \cup {x}
  <2>1. S \cup {x} \in SUBSET Live BY <1>5
  <2> QED BY <1>1, <2>1 DEF NoCycle
<1>10. k \in S /\ k # n BY <1>7, <1>8, <1>9
<1> QED BY <1>3, <1>4, <1>5, <1>7, <1>9, <1>10

HasHeads == \A n \in Live : levels[LevelOf(n)].head # Nil

\* A level with orders has a head: otherwise its nodes' prev links, none of
\* which leaves the level, would close a cycle.
LEMMA OrdersHaveHeads == ListsSound => HasHeads
<1> SUFFICES ASSUME ListsSound, NEW n \in Live, levels[LevelOf(n)].head = Nil
             PROVE  FALSE
  BY DEF HasHeads
<1> DEFINE S == Members(LevelOf(n))
<1>1. S \in SUBSET Live /\ n \in S BY DEF Members
<1>2. PICK m \in S : arena[m].prev \notin S BY <1>1 DEF ListsSound, NoCycle
<1>3. m \in Live /\ LevelOf(m) = LevelOf(n) /\ m # Nil BY <1>1 DEF Members, Live, Node, Nil
<1> QED BY <1>2, <1>3 DEF ListsSound, LinksMatch

\* What the scan for the next level finds.
IsNextBest(s, lv, i, r) ==
    /\ r = Nil => \A j \in DOMAIN lv : lv[j].head # Nil => ~BetterPrice(s, i, j)
    /\ r # Nil => /\ r \in DOMAIN lv
                  /\ lv[r].head # Nil
                  /\ BetterPrice(s, i, r)
                  /\ \A j \in DOMAIN lv :
                       lv[j].head # Nil /\ BetterPrice(s, i, j) => ~BetterPrice(s, j, r)

\* The scan returns the nearest occupied level behind level i, or Nil when none is.
LEMMA NextBestFinds ==
    ASSUME NEW s \in Side, NEW width \in Nat, NEW lv, DOMAIN lv = 0 .. (width - 1), NEW i \in Int
    PROVE  IsNextBest(s, lv, i, NextBest(s, lv, i))
<1> DEFINE behind == {j \in DOMAIN lv : lv[j].head # Nil /\ BetterPrice(s, i, j)}
<1>1. CASE behind = {}
  BY <1>1 DEF NextBest, IsNextBest
<1>2. CASE behind # {} /\ s = "Buy"
  <2>1. width \in Nat /\ behind \in SUBSET (0 .. width) OBVIOUS
  <2>2. Max(behind) \in behind /\ \A j \in behind : j <= Max(behind) BY <1>2, <2>1, MaxOfNats
  <2>3. NextBest(s, lv, i) = Max(behind) BY <1>2 DEF NextBest
  <2>4. NextBest(s, lv, i) \in behind BY <2>2, <2>3
  <2>5. \A j \in behind : ~BetterPrice(s, j, NextBest(s, lv, i))
    <3> SUFFICES ASSUME NEW j \in behind PROVE ~BetterPrice(s, j, NextBest(s, lv, i))
      OBVIOUS
    <3> DEFINE r == NextBest(s, lv, i)
    <3>1. j \in Int /\ r \in Int /\ j <= r BY <2>1, <2>2, <2>3
    <3> HIDE DEF r
    <3>2. ~BetterPrice(s, j, r) BY <1>2, <3>1 DEF BetterPrice
    <3> QED BY <3>2 DEF r
  <2> QED BY <2>4, <2>5 DEF Nil, IsNextBest
<1>3. CASE behind # {} /\ s # "Buy"
  <2>1. behind \in SUBSET Nat OBVIOUS
  <2>2. Min(behind) \in behind /\ \A j \in behind : Min(behind) <= j BY <1>3, <2>1, MinOfNats
  <2>3. NextBest(s, lv, i) = Min(behind) BY <1>3 DEF NextBest
  <2>4. NextBest(s, lv, i) \in behind BY <2>2, <2>3
  <2>5. \A j \in behind : ~BetterPrice(s, j, NextBest(s, lv, i))
    <3> SUFFICES ASSUME NEW j \in behind PROVE ~BetterPrice(s, j, NextBest(s, lv, i))
      OBVIOUS
    <3> DEFINE r == NextBest(s, lv, i)
    <3>1. j \in Int /\ r \in Int /\ r <= j BY <2>1, <2>2, <2>3
    <3> HIDE DEF r
    <3>2. ~BetterPrice(s, j, r) BY <1>3, <3>1 DEF BetterPrice
    <3> QED BY <3>2 DEF r
  <2> QED BY <2>4, <2>5 DEF Nil, IsNextBest
<1> QED BY <1>1, <1>2, <1>3

\* The side of every order at a side's best level is that side.
LEMMA BestSide ==
    ASSUME TypeOK, IndexMatchesArena, NotCrossed, BestBoundsSides,
           NEW s \in Side, best[s] # Nil, NEW id \in Resting, index[id].level = best[s]
    PROVE  index[id].side = s
<1>1. index[id].side \in Side /\ index[id].level \in Nat BY DEF TypeOK, Entry
<1>2. best["Buy"] \in DOMAIN levels \cup {Nil} /\ best["Sell"] \in DOMAIN levels \cup {Nil}
  BY DEF TypeOK, Side
<1>3. DOMAIN levels \subseteq Nat BY DEF TypeOK, Window
<1>4. best[index[id].side] # Nil /\ ~BetterPrice(index[id].side, index[id].level, best[index[id].side])
  BY DEF BestBoundsSides
<1> QED BY <1>1, <1>2, <1>3, <1>4 DEF NotCrossed, BetterPrice, Side, Nil

\* The best levels after an order left: a side whose best level emptied moves to
\* the next occupied one behind it.
LEMMA DetachBest ==
    ASSUME TypeOK, ListsSound, NotCrossed, BestBoundsSides, BestOccupied,
           NEW x \in Live, Detaches(x), HasHeads', IndexMatchesArena',
           NEW s, s = index[arena[x].id].side, NEW i, i = LevelOf(x),
           best' = [best EXCEPT ![s] = IF levels'[i].head = Nil /\ best[s] = i
                                       THEN NextBest(s, levels', i) ELSE best[s]]
    PROVE  /\ best' \in [Side -> DOMAIN levels' \cup {Nil}]
           /\ NotCrossed'
           /\ BestBoundsSides'
           /\ BestOccupied'
<1> DEFINE nb == NextBest(s, levels', i)
<1>1. /\ arena[x].id \in Resting
      /\ s \in Side
      /\ i \in DOMAIN levels
      /\ DOMAIN levels = 0 .. (window.size - 1)
      /\ window.size \in Nat
      /\ DOMAIN levels' = DOMAIN levels
      /\ best \in [Side -> DOMAIN levels \cup {Nil}]
  BY DEF Live, LevelOf, TypeOK, Entry, Window, Detaches, ListsSound, IndexMatchesArena
<1>2. /\ nb = Nil => \A j \in DOMAIN levels : levels'[j].head # Nil => ~BetterPrice(s, i, j)
      /\ nb # Nil => /\ nb \in DOMAIN levels
                     /\ levels'[nb].head # Nil
                     /\ BetterPrice(s, i, nb)
                     /\ \A j \in DOMAIN levels :
                          levels'[j].head # Nil /\ BetterPrice(s, i, j) => ~BetterPrice(s, j, nb)
  <2>1. i \in Int BY <1>1
  <2>2. IsNextBest(s, levels', i, nb) BY <1>1, <2>1, NextBestFinds
  <2> QED BY <1>1, <2>2 DEF IsNextBest
<1>3. \A j \in DOMAIN levels : j # i => levels'[j].head = levels[j].head BY DEF Detaches
<1>4. best[s] # Nil /\ ~BetterPrice(s, i, best[s])
  BY <1>1 DEF BestBoundsSides, LevelOf
<1> HIDE DEF nb
<1>5. /\ best' \in [Side -> DOMAIN levels' \cup {Nil}]
      /\ best'[s] = IF levels'[i].head = Nil /\ best[s] = i THEN nb ELSE best[s]
      /\ \A t \in Side : t # s => best'[t] = best[t]
  BY <1>1, <1>2 DEF nb
<1>6. \A t \in Side : t # s => best[t] # i
  BY <1>1, <1>4 DEF NotCrossed, BetterPrice, Side, Nil
<1>7. BestOccupied'
  BY <1>1, <1>2, <1>3, <1>5, <1>6 DEF BestOccupied
<1>8. NotCrossed'
  <2>1. best'[s] # Nil => best'[s] = best[s] \/ (best[s] = i /\ BetterPrice(s, i, best'[s]))
    BY <1>2, <1>5
  <2> QED BY <2>1, <1>1, <1>4, <1>5 DEF NotCrossed, BetterPrice, Side, Nil
<1>9. BestBoundsSides'
  <2> SUFFICES ASSUME NEW id \in Resting'
      PROVE  /\ best'[index'[id].side] # Nil
             /\ ~BetterPrice(index'[id].side, index'[id].level, best'[index'[id].side])
    BY DEF BestBoundsSides
  <2>1. id \in Resting /\ index'[id] = index[id] /\ index[id] \in Entry BY DEF Detaches, Resting, TypeOK
  <2>2. best[index[id].side] # Nil /\ ~BetterPrice(index[id].side, index[id].level, best[index[id].side])
    BY <2>1 DEF BestBoundsSides
  <2>3. index[id].side \in Side /\ index[id].level \in DOMAIN levels
    BY <2>1 DEF Entry, ListsSound, IndexMatchesArena
  <2>4. levels'[index[id].level].head # Nil
    <3>1. PICK n \in Node : n = index'[id].node /\ arena'[n].id = id
      BY <2>1 DEF IndexMatchesArena, Entry
    <3>2. n \in Live' /\ LevelOf(n)' = index'[id].level
      BY <3>1 DEF Live, LevelOf
    <3> QED BY <2>1, <3>2 DEF HasHeads
  <2>5. CASE index[id].side # s BY <2>1, <2>2, <2>3, <2>5, <1>5
  <2>6. CASE index[id].side = s /\ ~(levels'[i].head = Nil /\ best[s] = i)
    BY <2>1, <2>2, <2>6, <1>5
  <2>7. CASE index[id].side = s /\ levels'[i].head = Nil /\ best[s] = i
    <3>1. index[id].level # i BY <2>4, <2>7
    <3>2. BetterPrice(s, i, index[id].level)
      BY <3>1, <2>2, <2>3, <2>7, <1>1 DEF BetterPrice
    <3>3. best'[s] = nb /\ nb # Nil /\ ~BetterPrice(s, index[id].level, nb)
      BY <3>2, <2>3, <2>4, <2>7, <1>2, <1>5
    <3> QED BY <3>3, <2>1, <2>7
  <2> QED BY <2>5, <2>6, <2>7
<1> QED BY <1>5, <1>7, <1>8, <1>9

\* The node that left its list goes to the free list.
LEMMA DetachConserves ==
    ASSUME TypeOK, NodesConserved, NEW x \in Live,
           Live' = Live \ {x}, freeList' = Append(freeList, x), bump' = bump
    PROVE  NodesConserved'
<1> DEFINE freed == {freeList[i] : i \in DOMAIN freeList}
           n == Len(freeList)
<1>1. freeList \in Seq(Node) /\ x \in Node /\ n \in Nat BY DEF TypeOK, Live
<1>2. /\ DOMAIN freeList = 1 .. n
      /\ DOMAIN freeList' = 1 .. (n + 1)
      /\ freeList'[n + 1] = x
      /\ \A i \in 1 .. n : freeList'[i] = freeList[i]
  BY <1>1
<1>3. x \notin freed BY DEF NodesConserved
<1>4. {freeList'[i] : i \in DOMAIN freeList'} = freed \cup {x}
  <2>1. \A i \in DOMAIN freeList' : freeList'[i] \in freed \cup {x} BY <1>1, <1>2
  <2>2. n + 1 \in DOMAIN freeList' /\ \A i \in DOMAIN freeList : i \in DOMAIN freeList' BY <1>1, <1>2
  <2>3. \A y \in freed \cup {x} : \E i \in DOMAIN freeList' : y = freeList'[i]
    BY <1>1, <1>2, <2>2
  <2> QED BY <2>1, <2>3
<1>5. \A i, j \in DOMAIN freeList' : freeList'[i] = freeList'[j] => i = j
  <2> SUFFICES ASSUME NEW i \in DOMAIN freeList', NEW j \in DOMAIN freeList', freeList'[i] = freeList'[j]
               PROVE  i = j
    OBVIOUS
  <2>1. (i \in 1 .. n \/ i = n + 1) /\ (j \in 1 .. n \/ j = n + 1) BY <1>1, <1>2
  <2>2. \A k \in 1 .. n : freeList[k] # x BY <1>2, <1>3
  <2> QED BY <1>2, <2>1, <2>2 DEF NodesConserved
<1>6. freed \cap Live = {} /\ freed \cup Live = 0 .. (bump - 1) BY DEF NodesConserved
<1> HIDE DEF freed
<1>7. (freed \cup {x}) \cap Live' = {} /\ (freed \cup {x}) \cup Live' = 0 .. (bump' - 1) BY <1>6
<1> QED BY <1>4, <1>5, <1>7 DEF NodesConserved
------------------------------------------------------------------------------
(* The cached totals of the levels *)

QtyOf == [n \in Node |-> arena[n].qty]

\* The nodes of a level are finitely many, and their quantities are numbers.
LEMMA Addends ==
    ASSUME arena \in [Node -> [id: OrderId \cup {Nil}, qty: Nat,
                               prev: Node \cup {Nil}, next: Node \cup {Nil}]],
           NEW i
    PROVE  /\ Members(i) \subseteq Node
           /\ IsFiniteSet(Members(i))
           /\ \A n \in Node : QtyOf[n] = arena[n].qty /\ QtyOf[n] \in Int
<1>1. IsFiniteSet(Node) BY FS_Interval, ArenaAssumption DEF Node
<1>2. Members(i) \subseteq Node BY DEF Members, Live
<1>3. IsFiniteSet(Members(i)) BY <1>1, <1>2, FS_Subset
<1> QED BY <1>2, <1>3 DEF QtyOf

\* A level whose orders and their quantities stay keeps its sum.
LEMMA SameTotal ==
    ASSUME TypeOK, NEW i, NEW j, Members(j)' = Members(i),
           \A n \in Members(i) : arena'[n].qty = arena[n].qty
    PROVE  SumFunctionOnSet(QtyOf, Members(j))' = SumFunctionOnSet(QtyOf, Members(i))
<1>1. Members(i) \subseteq Node /\ IsFiniteSet(Members(i)) BY Addends DEF TypeOK
<1>2. \A n \in Members(i) : QtyOf'[n] = QtyOf[n] BY <1>1 DEF QtyOf
<1> QED BY <1>1, <1>2, SumSame

\* An order that leaves takes its quantity out of its level's total.
LEMMA DetachTotals ==
    ASSUME TypeOK, IndexMatchesArena, TotalsExact, NEW x \in Live, Detaches(x), TakesQty(x)
    PROVE  TotalsExact'
<1>1. /\ DOMAIN levels' = DOMAIN levels
      /\ \A j \in DOMAIN levels : Members(j)' = Members(j) \ {x}
  BY DetachLive DEF Detaches
<1>2. SUFFICES ASSUME NEW j \in DOMAIN levels
      PROVE  levels'[j].total = SumFunctionOnSet(QtyOf, Members(j))'
  BY <1>1 DEF TotalsExact, QtyOf
<1>3. levels[j].total = SumFunctionOnSet(QtyOf, Members(j)) BY DEF TotalsExact, QtyOf
<1>4. /\ Members(j) \subseteq Node
      /\ IsFiniteSet(Members(j))
      /\ \A n \in Node : QtyOf[n] = arena[n].qty /\ QtyOf[n] \in Int
  BY Addends DEF TypeOK
<1>5. CASE j = LevelOf(x)
  <2>1. x \in Members(j) BY <1>5 DEF Members
  <2>2. \A n \in Members(j) \ {x} : QtyOf'[n] = QtyOf[n] BY <1>4 DEF TakesQty, QtyOf
  <2>3. SumFunctionOnSet(QtyOf', Members(j) \ {x}) = SumFunctionOnSet(QtyOf, Members(j)) - QtyOf[x]
    BY <1>4, <2>1, <2>2, SumLess
  <2>4. levels'[j].total = levels[j].total - QtyOf[x] BY <1>4, <1>5, <2>1 DEF TakesQty
  <2> QED BY <1>1, <1>3, <2>3, <2>4
<1>6. CASE j # LevelOf(x)
  <2>1. x \notin Members(j) BY <1>6 DEF Members
  <2>2. Members(j)' = Members(j) BY <1>1, <2>1
  <2>3. \A n \in Members(j) : arena'[n].qty = arena[n].qty BY <1>4, <2>1 DEF TakesQty
  <2>4. levels'[j].total = levels[j].total BY <1>6 DEF TakesQty
  <2> QED BY <1>3, <2>2, <2>3, <2>4, SameTotal
<1> QED BY <1>5, <1>6
------------------------------------------------------------------------------
(* Quantities change and nothing else: FillTaker and ReducePart *)

SameLinks ==
    /\ DOMAIN levels' = DOMAIN levels
    /\ \A j \in DOMAIN levels : levels'[j].head = levels[j].head /\ levels'[j].tail = levels[j].tail
    /\ \A m \in Node : /\ arena'[m].id = arena[m].id
                       /\ arena'[m].prev = arena[m].prev
                       /\ arena'[m].next = arena[m].next
    /\ index' = index

\* Lists depend on links and the index alone, not on quantities.
LEMMA SameLinksSound ==
    ASSUME TypeOK, ListsSound, SameLinks
    PROVE  ListsSound' /\ Live' = Live
<1>1. EndsMatch /\ LinksMatch /\ NoCycle /\ IndexMatchesArena BY DEF ListsSound
<1>2. Resting' = Resting BY DEF SameLinks, Resting
<1>3. Live' = Live /\ Live \subseteq Node BY <1>2 DEF SameLinks, Live
<1>4. \A n \in Node : LevelOf(n)' = LevelOf(n) BY DEF SameLinks, LevelOf
<1>5. \A j : Members(j)' = Members(j) BY <1>3, <1>4 DEF Members
<1>6. \A j : Members(j) \subseteq Node BY <1>3 DEF Members
<1>7. IndexMatchesArena'
  <2>1. \A o \in Resting : index[o].node \in Node BY DEF TypeOK, Entry
  <2> QED BY <1>1, <1>2, <2>1 DEF IndexMatchesArena, SameLinks
<1>8. EndsMatch' BY <1>1, <1>5, <1>6 DEF EndsMatch, SameLinks
<1>9. LinksMatch'
  <2> SUFFICES ASSUME NEW n \in Live
      PROVE  /\ arena'[n].prev = Nil => levels'[LevelOf(n)].head = n
             /\ arena'[n].next = Nil => levels'[LevelOf(n)].tail = n
             /\ arena'[n].prev # Nil => /\ arena'[n].prev \in Members(LevelOf(n))
                                       /\ arena'[arena'[n].prev].next = n
             /\ arena'[n].next # Nil => /\ arena'[n].next \in Members(LevelOf(n))
                                       /\ arena'[arena'[n].next].prev = n
    BY <1>3, <1>4, <1>5 DEF LinksMatch
  <2>1. LevelOf(n) \in DOMAIN levels BY <1>1 DEF Live, LevelOf, IndexMatchesArena
  <2> QED BY <1>1, <1>3, <1>6, <2>1 DEF LinksMatch, SameLinks
<1>10. NoCycle' BY <1>1, <1>3 DEF NoCycle, SameLinks
<1> QED BY <1>3, <1>7, <1>8, <1>9, <1>10 DEF ListsSound
------------------------------------------------------------------------------
(* The axis moves by k levels: EnsureIndex *)

Shifts(k) ==
    /\ \A i \in DOMAIN levels : i + k \in DOMAIN levels' /\ levels'[i + k] = levels[i]
    /\ \A j \in DOMAIN levels' : j - k \notin DOMAIN levels => levels'[j] = EmptyLevel
    /\ index' = ShiftedIndex(k)
    /\ best' = ShiftedBest(k)
    /\ arena' = arena

\* A rebase moves the levels and what the index remembers by the same distance,
\* so every list stays where its orders are.
LEMMA ShiftSound ==
    ASSUME TypeOK, ListsSound, NEW k \in Nat, Shifts(k), DOMAIN levels' \subseteq Nat
    PROVE  ListsSound' /\ Live' = Live
<1>1. EndsMatch /\ LinksMatch /\ NoCycle /\ IndexMatchesArena BY DEF ListsSound
<1>2. DOMAIN levels \subseteq Nat BY DEF TypeOK, Window
<1>3. /\ Resting' = Resting
      /\ \A o \in Resting : /\ index'[o].level = index[o].level + k
                            /\ index'[o].node = index[o].node
                            /\ index[o].level \in Nat
  BY DEF Shifts, ShiftedIndex, Resting, TypeOK, Entry
<1>4. Live' = Live BY <1>3 DEF Live, Shifts
<1>5. \A n \in Live : LevelOf(n)' = LevelOf(n) + k /\ LevelOf(n) \in DOMAIN levels
  BY <1>1, <1>3 DEF Live, LevelOf, Shifts, IndexMatchesArena
<1>6. \A j \in DOMAIN levels : Members(j + k)' = Members(j)
  BY <1>4, <1>5, <1>2 DEF Members
<1>7. IndexMatchesArena' BY <1>1, <1>3 DEF IndexMatchesArena, Shifts
<1>8. EndsMatch'
  <2> SUFFICES ASSUME NEW j \in DOMAIN levels'
      PROVE  /\ levels'[j].head = Nil <=> levels'[j].tail = Nil
             /\ levels'[j].head # Nil => /\ levels'[j].head \in Members(j)'
                                        /\ arena'[levels'[j].head].prev = Nil
             /\ levels'[j].tail # Nil => /\ levels'[j].tail \in Members(j)'
                                        /\ arena'[levels'[j].tail].next = Nil
    BY DEF EndsMatch
  <2>1. CASE j - k \notin DOMAIN levels
    BY <2>1 DEF Shifts, EmptyLevel
  <2>2. CASE j - k \in DOMAIN levels
    <3>1. PICK i \in DOMAIN levels : j = i + k BY <2>2, <1>2
    <3> QED BY <3>1, <1>1, <1>6 DEF Shifts, EndsMatch
  <2> QED BY <2>1, <2>2
<1>9. LinksMatch'
  BY <1>1, <1>4, <1>5, <1>6 DEF LinksMatch, Shifts
<1>10. NoCycle' BY <1>1, <1>4 DEF NoCycle, Shifts
<1> QED BY <1>4, <1>7, <1>8, <1>9, <1>10 DEF ListsSound

\* A rebase moves both best levels along.
LEMMA ShiftBest ==
    ASSUME TypeOK, ListsSound, NotCrossed, BestBoundsSides, BestOccupied,
           NEW k \in Nat, Shifts(k)
    PROVE  /\ best' \in [Side -> DOMAIN levels' \cup {Nil}]
           /\ NotCrossed'
           /\ BestBoundsSides'
           /\ BestOccupied'
<1>1. /\ DOMAIN levels \subseteq Nat
      /\ best \in [Side -> DOMAIN levels \cup {Nil}]
  BY DEF TypeOK, Window
<1>2. /\ best' \in [Side -> DOMAIN levels' \cup {Nil}]
      /\ \A s \in Side : /\ best'[s] = Nil <=> best[s] = Nil
                         /\ best[s] # Nil => best'[s] = best[s] + k
                                             /\ best[s] \in DOMAIN levels
                                             /\ levels'[best'[s]] = levels[best[s]]
  BY <1>1 DEF Shifts, ShiftedBest, Nil
<1>3. NotCrossed' BY <1>1, <1>2 DEF NotCrossed, Side
<1>4. BestOccupied' BY <1>2 DEF BestOccupied
<1>5. BestBoundsSides'
  <2>1. /\ Resting' = Resting
        /\ \A o \in Resting : /\ index'[o].level = index[o].level + k
                              /\ index'[o].side = index[o].side
                              /\ index[o].level \in Nat
                              /\ index[o].side \in Side
    BY DEF Shifts, ShiftedIndex, Resting, TypeOK, Entry
  <2> QED BY <1>1, <1>2, <2>1 DEF BestBoundsSides, BetterPrice
<1> QED BY <1>2, <1>3, <1>4, <1>5

\* Levels keep their totals on the way, and new ones are empty.
LEMMA ShiftTotals ==
    ASSUME TypeOK, IndexMatchesArena, TotalsExact, NEW k \in Nat, Shifts(k), DOMAIN levels' \subseteq Nat
    PROVE  TotalsExact'
<1>1. DOMAIN levels \subseteq Nat BY DEF TypeOK, Window
<1>2. /\ Resting' = Resting
      /\ \A o \in Resting : /\ index'[o].level = index[o].level + k
                            /\ index'[o].node = index[o].node
                            /\ index[o].level \in DOMAIN levels
  BY DEF Shifts, ShiftedIndex, Resting, TypeOK, Entry, IndexMatchesArena
<1>3. Live' = Live BY <1>2 DEF Live, Shifts
<1>4. \A n \in Live : LevelOf(n)' = LevelOf(n) + k /\ LevelOf(n) \in DOMAIN levels
  BY <1>2 DEF Live, LevelOf, Shifts
<1>5. SUFFICES ASSUME NEW j \in DOMAIN levels'
      PROVE  levels'[j].total = SumFunctionOnSet(QtyOf, Members(j))'
  BY DEF TotalsExact, QtyOf
<1>6. CASE j - k \in DOMAIN levels
  <2>1. PICK i \in DOMAIN levels : j = i + k BY <1>6, <1>1
  <2>2. Members(j)' = Members(i) BY <1>1, <1>3, <1>4, <2>1 DEF Members
  <2>3. SumFunctionOnSet(QtyOf, Members(j))' = SumFunctionOnSet(QtyOf, Members(i))
    BY <2>2, SameTotal DEF Shifts
  <2> QED BY <2>1, <2>3 DEF Shifts, TotalsExact, QtyOf
<1>7. CASE j - k \notin DOMAIN levels
  <2>1. Members(j)' = {} BY <1>1, <1>3, <1>4, <1>7 DEF Members
  <2>2. SumFunctionOnSet(QtyOf', {}) = 0 BY FS_EmptySet, SumTakeOne
  <2> QED BY <1>7, <2>1, <2>2 DEF Shifts, EmptyLevel
<1> QED BY <1>6, <1>7

------------------------------------------------------------------------------
(* Node x joins the back of level i for order id: PushBack *)

Attaches(x, i, id) ==
    /\ DOMAIN levels' = DOMAIN levels
    /\ \A j \in DOMAIN levels :
        /\ levels'[j].head = IF j = i /\ levels[j].tail = Nil THEN x ELSE levels[j].head
        /\ levels'[j].tail = IF j = i THEN x ELSE levels[j].tail
    /\ arena'[x].id = id /\ arena'[x].prev = levels[i].tail /\ arena'[x].next = Nil
    /\ \A m \in Node \ {x} :
        /\ arena'[m].id = arena[m].id
        /\ arena'[m].prev = arena[m].prev
        /\ arena'[m].next = IF m = levels[i].tail THEN x ELSE arena[m].next
    /\ Resting' = Resting \cup {id}
    /\ \A o \in Resting : index'[o] = index[o]
    /\ index'[id].level = i /\ index'[id].node = x

\* The attached node becomes live, at its level, and nothing else changes hands.
LEMMA AttachLive ==
    ASSUME TypeOK, IndexMatchesArena, NEW x \in Node \ Live, NEW i \in DOMAIN levels,
           NEW id, id \notin Resting, Attaches(x, i, id)
    PROVE  /\ Live' = Live \cup {x}
           /\ \A n \in Live : LevelOf(n)' = LevelOf(n)
           /\ LevelOf(x)' = i
           /\ \A j : Members(j)' = IF j = i THEN Members(j) \cup {x} ELSE Members(j)
<1>1. \A n \in Node : n \in Live' <=> n \in Live \cup {x}
  <2> SUFFICES ASSUME NEW n \in Node PROVE n \in Live' <=> n \in Live \cup {x}
    OBVIOUS
  <2>1. CASE n = x BY <2>1 DEF Live, Attaches
  <2>2. CASE n # x
    <3>1. arena'[n].id = arena[n].id BY <2>2 DEF Attaches
    <3>2. CASE arena[n].id = id BY <2>2, <3>1, <3>2 DEF Live, Attaches
    <3>3. CASE arena[n].id # id BY <2>2, <3>1, <3>3 DEF Live, Attaches
    <3> QED BY <3>2, <3>3
  <2> QED BY <2>1, <2>2
<1>2. Live' = Live \cup {x}
  <2>1. Live \subseteq Node /\ Live' \subseteq Node BY DEF Live
  <2> QED BY <1>1, <2>1
<1>3. \A n \in Live : LevelOf(n)' = LevelOf(n) BY DEF Live, LevelOf, Attaches
<1>4. LevelOf(x)' = i BY DEF LevelOf, Attaches
<1>5. \A j : Members(j)' = IF j = i THEN Members(j) \cup {x} ELSE Members(j)
  BY <1>2, <1>3, <1>4 DEF Members
<1> QED BY <1>2, <1>3, <1>4, <1>5

\* The level's total grows by what joins it.
LEMMA AttachTotals ==
    ASSUME TypeOK, IndexMatchesArena, TotalsExact, NEW x \in Node \ Live, NEW i \in DOMAIN levels,
           NEW id, id \notin Resting, Attaches(x, i, id), NEW q \in Nat,
           levels' = [levels EXCEPT ![i] = Joined(levels[i], x, q)],
           arena' = [m \in Node |->
                       IF m = x THEN [id |-> id, qty |-> q, prev |-> levels[i].tail, next |-> Nil]
                       ELSE IF m = levels[i].tail THEN [arena[m] EXCEPT !.next = x]
                       ELSE arena[m]]
    PROVE  TotalsExact'
<1>1. \A j : Members(j)' = IF j = i THEN Members(j) \cup {x} ELSE Members(j) BY AttachLive
<1>2. SUFFICES ASSUME NEW j \in DOMAIN levels
      PROVE  levels'[j].total = SumFunctionOnSet(QtyOf, Members(j))'
  BY DEF TotalsExact, QtyOf, Attaches
<1>3. levels[j].total = SumFunctionOnSet(QtyOf, Members(j)) BY DEF TotalsExact, QtyOf
<1>4. /\ Members(j) \subseteq Node
      /\ IsFiniteSet(Members(j))
      /\ \A n \in Node : QtyOf[n] = arena[n].qty /\ QtyOf[n] \in Int
  BY Addends DEF TypeOK
<1>5. x \in Node /\ x \notin Members(j) BY DEF Members
<1>6. \A m \in Members(j) : arena'[m].qty = arena[m].qty
  <2>1. \A m \in Members(j) : m \in Node /\ m # x BY <1>4, <1>5
  <2> QED BY <2>1 DEF TypeOK
<1>7. CASE j = i
  <2>1. levels'[j].total = levels[j].total + q BY <1>7 DEF Joined, TypeOK
  <2>2. arena'[x].qty = q BY <1>5
  <2>3. QtyOf'[x] = q BY <1>5, <2>2 DEF QtyOf
  <2>4. \A m \in Members(j) : QtyOf'[m] = QtyOf[m] BY <1>4, <1>6 DEF QtyOf
  <2>5. SumFunctionOnSet(QtyOf', Members(j) \cup {x}) = SumFunctionOnSet(QtyOf, Members(j)) + QtyOf'[x]
    <3>1. \A m \in Members(j) : QtyOf[m] \in Int BY <1>4
    <3>2. QtyOf'[x] \in Int BY <2>3
    <3> QED BY <1>4, <1>5, <2>4, <3>1, <3>2, SumMore
  <2> QED BY <1>1, <1>3, <1>7, <2>1, <2>3, <2>5
<1>8. CASE j # i
  <2>1. levels'[j].total = levels[j].total BY <1>8 DEF TypeOK
  <2> QED BY <1>1, <1>3, <1>6, <1>8, <2>1, SameTotal
<1> QED BY <1>7, <1>8

\* A node joining the back of a level leaves every list sound.
LEMMA AttachSound ==
    ASSUME TypeOK, ListsSound, NEW x \in Node \ Live, NEW i \in DOMAIN levels,
           NEW id, id \notin Resting, Attaches(x, i, id)
    PROVE  ListsSound'
<1>1. EndsMatch /\ LinksMatch /\ NoCycle /\ IndexMatchesArena BY DEF ListsSound
<1>2. Nil \notin Node /\ Live \subseteq Node /\ x \in Node BY DEF Live, Node, Nil
<1>3. /\ Live' = Live \cup {x}
      /\ \A n \in Live : LevelOf(n)' = LevelOf(n)
      /\ LevelOf(x)' = i
      /\ \A j : Members(j)' = IF j = i THEN Members(j) \cup {x} ELSE Members(j)
  BY <1>1, AttachLive
<1>4. \A j : Members(j) \subseteq Live BY DEF Members
<1>5. /\ levels[i].head = Nil <=> levels[i].tail = Nil
      /\ levels[i].tail # Nil => levels[i].tail \in Members(i) /\ arena[levels[i].tail].next = Nil
  BY <1>1 DEF EndsMatch
<1>6. levels[i].tail # x BY <1>2, <1>4, <1>5
<1>7. IndexMatchesArena'
  <2>1. \A o \in Resting : index[o].node \in Live
    BY <1>1 DEF IndexMatchesArena, TypeOK, Entry, Live
  <2>2. \A o \in Resting : arena'[index[o].node].id = arena[index[o].node].id
    BY <1>2, <2>1 DEF Attaches
  <2> QED BY <1>1, <2>2 DEF IndexMatchesArena, Attaches
<1>8. EndsMatch'
  <2> SUFFICES ASSUME NEW j \in DOMAIN levels
      PROVE  /\ levels'[j].head = Nil <=> levels'[j].tail = Nil
             /\ levels'[j].head # Nil => /\ levels'[j].head \in Members(j)'
                                        /\ arena'[levels'[j].head].prev = Nil
             /\ levels'[j].tail # Nil => /\ levels'[j].tail \in Members(j)'
                                        /\ arena'[levels'[j].tail].next = Nil
    BY DEF EndsMatch, Attaches
  <2>1. /\ levels[j].head = Nil <=> levels[j].tail = Nil
        /\ levels[j].head # Nil => levels[j].head \in Members(j) /\ arena[levels[j].head].prev = Nil
        /\ levels[j].tail # Nil => levels[j].tail \in Members(j) /\ arena[levels[j].tail].next = Nil
    BY <1>1 DEF EndsMatch
  <2>2. CASE j = i
    BY <2>1, <2>2, <1>2, <1>3, <1>4 DEF Attaches
  <2>3. CASE j # i
    <3>1. levels[i].tail \notin Members(j) BY <1>2, <1>4, <1>5, <2>3 DEF Members
    <3> QED BY <2>1, <2>3, <3>1, <1>2, <1>3, <1>4 DEF Attaches
  <2> QED BY <2>2, <2>3
<1>9. LinksMatch'
  <2>1. ASSUME NEW n \in Live, NEW k, k = LevelOf(n)
        PROVE  /\ arena'[n].prev = Nil => levels'[k].head = n
               /\ arena'[n].next = Nil => levels'[k].tail = n
               /\ arena'[n].prev # Nil => /\ arena'[n].prev \in Members(k)'
                                         /\ arena'[arena'[n].prev].next = n
               /\ arena'[n].next # Nil => /\ arena'[n].next \in Members(k)'
                                         /\ arena'[arena'[n].next].prev = n
    <3>1. n \in Node /\ n # x /\ k \in DOMAIN levels /\ n \in Members(k)
      BY <2>1, <1>1, <1>2 DEF Live, LevelOf, IndexMatchesArena, Members
    <3>2. /\ arena[n].prev = Nil => levels[k].head = n
          /\ arena[n].next = Nil => levels[k].tail = n
          /\ arena[n].prev # Nil => arena[n].prev \in Members(k) /\ arena[arena[n].prev].next = n
          /\ arena[n].next # Nil => arena[n].next \in Members(k) /\ arena[arena[n].next].prev = n
      BY <2>1, <1>1 DEF LinksMatch
    <3>3. n = levels[i].tail => k = i BY <1>2, <1>5, <3>1 DEF Members
    <3>4. levels[k].head = n => levels[k].tail # Nil BY <1>1, <1>2, <3>1 DEF EndsMatch
    <3>5. /\ arena'[n].prev = arena[n].prev
          /\ arena'[n].next = IF n = levels[i].tail THEN x ELSE arena[n].next
          /\ levels'[k].head = IF k = i /\ levels[k].tail = Nil THEN x ELSE levels[k].head
          /\ levels'[k].tail = IF k = i THEN x ELSE levels[k].tail
      BY <3>1 DEF Attaches
    <3>6. arena'[n].prev = Nil => levels'[k].head = n BY <3>2, <3>4, <3>5
    <3>7. arena'[n].next = Nil => levels'[k].tail = n
      BY <1>2, <3>2, <3>5
    <3>8. arena'[n].prev # Nil => arena'[n].prev \in Members(k)' /\ arena'[arena'[n].prev].next = n
      <4> SUFFICES ASSUME arena[n].prev # Nil
                   PROVE  arena[n].prev \in Members(k)' /\ arena'[arena[n].prev].next = n
        BY <3>5
      <4>1. arena[n].prev \in Members(k) /\ arena[arena[n].prev].next = n BY <3>2
      <4>2. arena[n].prev # levels[i].tail BY <1>2, <1>5, <4>1, <3>1
      <4>3. arena[n].prev \in Node \ {x} BY <1>2, <1>4, <4>1
      <4> QED BY <1>3, <4>1, <4>2, <4>3 DEF Attaches
    <3>9. arena'[n].next # Nil => arena'[n].next \in Members(k)' /\ arena'[arena'[n].next].prev = n
      <4>1. CASE n = levels[i].tail
        BY <4>1, <3>3, <3>5, <1>3 DEF Attaches
      <4>2. CASE n # levels[i].tail
        <5>1. arena'[n].next = arena[n].next BY <4>2, <3>5
        <5>2. arena[n].next # Nil => arena[n].next \in Node \ {x} BY <3>2, <1>2, <1>4
        <5> QED BY <5>1, <5>2, <3>2, <1>3 DEF Attaches
      <4> QED BY <4>1, <4>2
    <3> QED BY <3>6, <3>7, <3>8, <3>9
  <2>2. /\ arena'[x].prev = Nil => levels'[i].head = x
        /\ arena'[x].next = Nil => levels'[i].tail = x
        /\ arena'[x].prev # Nil => /\ arena'[x].prev \in Members(i)'
                                  /\ arena'[arena'[x].prev].next = x
        /\ arena'[x].next # Nil => /\ arena'[x].next \in Members(i)'
                                  /\ arena'[arena'[x].next].prev = x
    <3>1. levels[i].tail # Nil => levels[i].tail \in Node \ {x} BY <1>2, <1>4, <1>5, <1>6
    <3> QED BY <1>3, <1>5, <3>1 DEF Attaches
  <2> QED BY <1>3, <2>1, <2>2 DEF LinksMatch
<1>10. NoCycle'
  <2> SUFFICES ASSUME NEW S \in SUBSET (Live \cup {x}), S # {}
               PROVE  \E n \in S : arena'[n].prev \notin S
    BY <1>3 DEF NoCycle
  <2>1. \A n \in Live : arena'[n].prev = arena[n].prev BY <1>2 DEF Attaches
  <2>2. \A n \in Live : arena[n].prev # x
    BY <1>1, <1>2, <1>4 DEF LinksMatch
  <2>3. CASE S \ {x} = {}
    <3>1. S = {x} BY <2>3
    <3>2. arena'[x].prev # x BY <1>6 DEF Attaches
    <3> QED BY <3>1, <3>2
  <2>4. CASE S \ {x} # {}
    <3>1. S \ {x} \in SUBSET Live OBVIOUS
    <3>2. PICK n \in S \ {x} : arena[n].prev \notin S \ {x} BY <1>1, <2>4, <3>1 DEF NoCycle
    <3> QED BY <2>1, <2>2, <3>1, <3>2
  <2> QED BY <2>3, <2>4
<1> QED BY <1>7, <1>8, <1>9, <1>10 DEF ListsSound

\* The best levels after an order joined that does not reach the other side.
LEMMA AttachBest ==
    ASSUME TypeOK, ListsSound, NotCrossed, BestBoundsSides, BestOccupied,
           NEW x \in Node, NEW i \in DOMAIN levels, NEW id, id \notin Resting, Attaches(x, i, id),
           NEW s \in Side, index'[id].side = s,
           best[Opposite(s)] = Nil \/ BetterPrice(s, best[Opposite(s)], i),
           best' = [best EXCEPT ![s] = IF best[s] = Nil \/ BetterPrice(s, i, best[s])
                                       THEN i ELSE best[s]]
    PROVE  /\ best' \in [Side -> DOMAIN levels' \cup {Nil}]
           /\ NotCrossed'
           /\ BestBoundsSides'
           /\ BestOccupied'
<1>1. /\ DOMAIN levels \subseteq Nat
      /\ DOMAIN levels' = DOMAIN levels
      /\ best \in [Side -> DOMAIN levels \cup {Nil}]
  BY DEF TypeOK, Window, Attaches
<1>2. /\ best' \in [Side -> DOMAIN levels' \cup {Nil}]
      /\ best'[s] = IF best[s] = Nil \/ BetterPrice(s, i, best[s]) THEN i ELSE best[s]
      /\ \A t \in Side : t # s => best'[t] = best[t]
  BY <1>1
<1>3. NotCrossed'
  BY <1>1, <1>2 DEF NotCrossed, BetterPrice, Opposite, Side, Nil
<1>4. BestOccupied'
  <2>1. \A j \in DOMAIN levels : levels[j].head # Nil => levels'[j].head # Nil
    <3>1. x # Nil BY DEF Node, Nil
    <3> QED BY <3>1 DEF Attaches
  <2>2. levels'[i].head # Nil
    <3>1. x # Nil BY DEF Node, Nil
    <3>2. levels[i].tail # Nil => levels[i].head # Nil BY DEF ListsSound, EndsMatch
    <3> QED BY <3>1, <3>2 DEF Attaches
  <2> QED BY <1>1, <1>2, <2>1, <2>2 DEF BestOccupied
<1>5. BestBoundsSides'
  <2> SUFFICES ASSUME NEW o \in Resting'
      PROVE  /\ best'[index'[o].side] # Nil
             /\ ~BetterPrice(index'[o].side, index'[o].level, best'[index'[o].side])
    BY DEF BestBoundsSides
  <2>1. CASE o = id
    BY <2>1, <1>1, <1>2 DEF Attaches, BetterPrice, Nil
  <2>2. CASE o # id
    <3>1. o \in Resting /\ index'[o] = index[o] /\ index[o] \in Entry
      BY <2>2 DEF Attaches, TypeOK
    <3>2. index[o].side \in Side /\ index[o].level \in Nat BY <3>1 DEF Entry
    <3>3. best[index[o].side] # Nil /\ ~BetterPrice(index[o].side, index[o].level, best[index[o].side])
      BY <3>1 DEF BestBoundsSides
    <3> QED BY <3>1, <3>2, <3>3, <1>1, <1>2 DEF BetterPrice, Nil
  <2> QED BY <2>1, <2>2
<1> QED BY <1>2, <1>3, <1>4, <1>5

\* alloc_node() hands out a node nobody holds.
LEMMA NextFreeIsFree ==
    ASSUME TypeOK, NodesConserved, HasFreeNode
    PROVE  NextFree \in Node \ Live
<1>1. freeList \in Seq(Node) /\ bump \in 0 .. ArenaCapacity BY DEF TypeOK
<1>2. CASE freeList # <<>>
  <2>1. Len(freeList) \in DOMAIN freeList /\ freeList[Len(freeList)] \in Node BY <1>1, <1>2
  <2> QED BY <1>2, <2>1 DEF NextFree, NodesConserved
<1>3. CASE freeList = <<>>
  <2>1. NextFree = bump /\ bump < ArenaCapacity BY <1>3 DEF NextFree, HasFreeNode
  <2>2. Live \subseteq 0 .. (bump - 1) BY DEF NodesConserved
  <2> QED BY <1>1, <2>1, <2>2, ArenaAssumption DEF Node
<1> QED BY <1>2, <1>3

\* The node alloc_node() handed out is no longer free.
LEMMA AttachConserves ==
    ASSUME TypeOK, NodesConserved, HasFreeNode, Live' = Live \cup {NextFree},
           IF freeList # <<>>
           THEN freeList' = SubSeq(freeList, 1, Len(freeList) - 1) /\ bump' = bump
           ELSE freeList' = freeList /\ bump' = bump + 1
    PROVE  /\ NodesConserved'
           /\ freeList' \in Seq(Node)
           /\ bump' \in 0 .. ArenaCapacity
<1> DEFINE freed == {freeList[i] : i \in DOMAIN freeList}
           n == Len(freeList)
<1>1. freeList \in Seq(Node) /\ bump \in 0 .. ArenaCapacity /\ n \in Nat BY DEF TypeOK
<1>2. NextFree \in Node \ Live BY NextFreeIsFree
<1>3. freed \cap Live = {} /\ freed \cup Live = 0 .. (bump - 1) BY DEF NodesConserved
<1>4. \A i, j \in DOMAIN freeList : freeList[i] = freeList[j] => i = j BY DEF NodesConserved
<1>5. CASE freeList # <<>>
  <2>1. NextFree = freeList[n] /\ n \in 1 .. n BY <1>1, <1>5 DEF NextFree
  <2>2. /\ freeList' \in Seq(Node)
        /\ DOMAIN freeList = 1 .. n
        /\ DOMAIN freeList' = 1 .. (n - 1)
        /\ \A i \in 1 .. (n - 1) : freeList'[i] = freeList[i]
    BY <1>1, <1>5, <2>1
  <2>3. {freeList'[i] : i \in DOMAIN freeList'} = freed \ {NextFree}
    <3>1. \A i \in DOMAIN freeList' : i \in 1 .. n /\ i # n BY <1>1, <2>2
    <3>2. \A i \in DOMAIN freeList' : freeList'[i] \in freed \ {NextFree}
      BY <1>4, <2>1, <2>2, <3>1
    <3>3. \A i \in DOMAIN freeList : freeList[i] # NextFree => i \in DOMAIN freeList'
      BY <1>1, <2>1, <2>2
    <3>4. \A y \in freed \ {NextFree} : \E i \in DOMAIN freeList' : y = freeList'[i]
      BY <2>2, <3>3
    <3> QED BY <3>2, <3>4
  <2>4. \A i, j \in DOMAIN freeList' : freeList'[i] = freeList'[j] => i = j
    BY <1>1, <1>4, <2>2
  <2>5. NextFree \in freed BY <2>1, <2>2
  <2>6. bump' = bump BY <1>5
  <2> HIDE DEF freed
  <2>7. (freed \ {NextFree}) \cap Live' = {} /\ (freed \ {NextFree}) \cup Live' = 0 .. (bump' - 1)
    BY <1>2, <1>3, <2>5, <2>6
  <2> QED BY <1>1, <2>2, <2>3, <2>4, <2>6, <2>7 DEF NodesConserved
<1>6. CASE freeList = <<>>
  <2>1. NextFree = bump /\ bump < ArenaCapacity BY <1>6 DEF NextFree, HasFreeNode
  <2>2. freeList' = freeList /\ bump' = bump + 1 BY <1>6
  <2>3. freed = {} BY <1>6
  <2>4. Live' = 0 .. (bump' - 1) BY <1>1, <1>3, <2>1, <2>2, <2>3
  <2>5. {freeList'[i] : i \in DOMAIN freeList'} = {} BY <1>6, <2>2
  <2>6. bump' \in 0 .. ArenaCapacity BY <1>1, <2>1, <2>2, ArenaAssumption
  <2> QED BY <1>1, <1>4, <2>2, <2>4, <2>5, <2>6 DEF NodesConserved
<1> QED BY <1>5, <1>6

------------------------------------------------------------------------------
(* Every step keeps the invariant *)

BookInv ==
    /\ window \in Window
    /\ levels \in [0 .. (window.size - 1) ->
                    [head: Node \cup {Nil}, tail: Node \cup {Nil}, total: Int]]
    /\ best \in [Side -> DOMAIN levels \cup {Nil}]
    /\ arena \in [Node -> [id: OrderId \cup {Nil}, qty: Nat,
                            prev: Node \cup {Nil}, next: Node \cup {Nil}]]
    /\ bump \in 0 .. ArenaCapacity
    /\ freeList \in Seq(Node)
    /\ Resting \subseteq OrderId
    /\ index \in [Resting -> Entry]
    /\ ListsSound
    /\ NodesConserved
    /\ NotCrossed
    /\ BestBoundsSides
    /\ BestOccupied
    /\ TotalsExact

CallInv ==
    /\ call \in {"idle", "check", "match", "push"}
    /\ taker \in [id: OrderId \cup {Nil}, side: Side, type: Type, price: Int, qty: Nat]
    /\ call # "idle" => taker.id \in OrderId \ Resting
    /\ reply \in [trades: Seq(TradeRecord), status: Status]
    /\ TakerReady
    /\ FillFreesNode
    /\ ArenaThrowIsClean

\* The invariant, split into what is about the book and what about the call.
LEMMA Split == IInv <=> BookInv /\ CallInv
BY DEF IInv, BookInv, CallInv, TypeOK

\* The empty book satisfies the invariant.
LEMMA InitInv == Init => IInv
<1> SUFFICES ASSUME Init PROVE BookInv /\ CallInv BY Split
<1>1. Resting = {} /\ Live = {} /\ DOMAIN levels = {} BY DEF Init, Resting, Live
<1>2. BookInv
  <2>1. ListsSound BY <1>1 DEF ListsSound, IndexMatchesArena, EndsMatch, LinksMatch, NoCycle
  <2>2. NodesConserved BY <1>1 DEF NodesConserved, Init
  <2>3. NotCrossed /\ BestBoundsSides /\ BestOccupied
    BY <1>1 DEF Init, NotCrossed, BestBoundsSides, BestOccupied, Side
  <2>4. levels \in [0 .. (window.size - 1) ->
                    [head: Node \cup {Nil}, tail: Node \cup {Nil}, total: Int]]
    BY <1>1 DEF Init, NoWindow
  <2>5. index \in [Resting -> Entry] BY <1>1 DEF Init, Resting
  <2>6. TotalsExact BY <1>1 DEF TotalsExact
  <2> QED BY <1>1, <2>1, <2>2, <2>3, <2>4, <2>5, <2>6, ArenaAssumption DEF BookInv, Init, NoWindow, Window, Nil
<1>3. CallInv
  BY DEF CallInv, Init, NoRequest, NoReply, Reply, Nil, Side, Type, Status, TakerReady,
         FillFreesNode, ArenaThrowIsClean
<1> QED BY <1>2, <1>3

\* A step that leaves the book alone keeps what is known of it.
LEMMA SameBook ==
    ASSUME BookInv, UNCHANGED book
    PROVE  BookInv' /\ Resting' = Resting
<1>1. /\ window' = window /\ levels' = levels /\ best' = best /\ arena' = arena
      /\ bump' = bump /\ freeList' = freeList /\ index' = index
  BY DEF book
<1>2. Resting' = Resting BY <1>1 DEF Resting
<1>3. Live' = Live BY <1>1, <1>2 DEF Live
<1>4. \A n : LevelOf(n)' = LevelOf(n) BY <1>1 DEF LevelOf
<1>5. \A j : Members(j)' = Members(j) BY <1>3, <1>4 DEF Members
<1>6. ListsSound'
  <2>1. IndexMatchesArena' BY <1>1, <1>2 DEF IndexMatchesArena, BookInv, ListsSound
  <2>2. EndsMatch' BY <1>1, <1>5 DEF EndsMatch, BookInv, ListsSound
  <2>3. LinksMatch' BY <1>1, <1>3, <1>4, <1>5 DEF LinksMatch, BookInv, ListsSound
  <2>4. NoCycle' BY <1>1, <1>3 DEF NoCycle, BookInv, ListsSound
  <2> QED BY <2>1, <2>2, <2>3, <2>4 DEF ListsSound
<1>7. NodesConserved' BY <1>1, <1>3 DEF NodesConserved, BookInv
<1>8. NotCrossed' BY <1>1 DEF NotCrossed, BookInv
<1>9. BestBoundsSides' BY <1>1, <1>2 DEF BestBoundsSides, BookInv
<1>10. BestOccupied' BY <1>1 DEF BestOccupied, BookInv
<1>11. TotalsExact' BY <1>1, <1>5 DEF TotalsExact, BookInv
<1> QED BY <1>1, <1>2, <1>6, <1>7, <1>8, <1>9, <1>10, <1>11 DEF BookInv

\* A call that ends leaves nothing to be known of its taker.
LEMMA EndCallInv ==
    ASSUME NEW trades \in Seq(TradeRecord), NEW status \in Status, EndCall(trades, status),
           status = "arena" => trades = <<>>
    PROVE  CallInv'
<1>1. call' = "idle" BY DEF EndCall
<1>2. taker' \in [id: OrderId \cup {Nil}, side: Side, type: Type, price: Int, qty: Nat]
  BY DEF EndCall, NoRequest, Nil, Side, Type
<1>3. /\ reply' \in [trades: Seq(TradeRecord), status: Status]
      /\ reply'.trades = trades /\ reply'.status = status
  BY DEF EndCall, Reply
<1>4. TakerReady' BY <1>1 DEF TakerReady
<1>5. FillFreesNode' BY <1>1 DEF FillFreesNode
<1>6. ArenaThrowIsClean' BY <1>3 DEF ArenaThrowIsClean
<1> QED BY <1>1, <1>2, <1>3, <1>4, <1>5, <1>6 DEF CallInv

\* A call that ends without touching the book.
LEMMA QuietEnd ==
    ASSUME IInv, UNCHANGED book,
           NEW trades \in Seq(TradeRecord), NEW status \in Status, EndCall(trades, status),
           status = "arena" => trades = <<>>
    PROVE  IInv'
<1>1. BookInv' BY Split, SameBook
<1>2. CallInv' BY EndCallInv
<1> QED BY <1>1, <1>2, Split, PTL

\* add() is called with a request whose id does not rest.
LEMMA SubmitStep == ASSUME IInv, NEW r \in Request, Submit(r) PROVE IInv'
<1>1. BookInv' /\ Resting' = Resting BY Split, SameBook DEF Submit
<1>2. CallInv'
  <2>1. call' = "check" /\ taker' = r /\ reply' = NoReply /\ r.id \notin Resting BY DEF Submit
  <2>2. r \in [id: OrderId \cup {Nil}, side: Side, type: Type, price: Int, qty: Nat] /\ r.id \in OrderId
    BY OrderAssumption DEF Request
  <2>3. /\ NoReply \in [trades: Seq(TradeRecord), status: Status]
        /\ NoReply.trades = <<>> /\ NoReply.status = "ok"
    BY DEF NoReply, Reply, Status
  <2>4. TakerReady' BY <2>1 DEF TakerReady
  <2>5. FillFreesNode' BY <2>1, <2>3 DEF FillFreesNode
  <2>6. ArenaThrowIsClean' BY <2>1, <2>3 DEF ArenaThrowIsClean
  <2> QED BY <1>1, <2>1, <2>2, <2>3, <2>4, <2>5, <2>6 DEF CallInv
<1> QED BY <1>1, <1>2, Split, PTL

\* The book is untouched and the request stays: rejected, it ends the call;
\* accepted, a PostOnly order does not reach the other side.
LEMMA CheckSteps == ASSUME IInv, Reject \/ Accept PROVE IInv'
<1>1. CASE Reject
  <2>1. <<>> \in Seq(TradeRecord) /\ "ok" \in Status BY DEF Status
  <2>2. EndCall(<<>>, "ok") /\ UNCHANGED book BY <1>1 DEF Reject
  <2> QED BY <2>1, <2>2, QuietEnd
<1>2. CASE Accept
  <2>1. BookInv' /\ Resting' = Resting BY <1>2, Split, SameBook DEF Accept
  <2>2. /\ call = "check" /\ call' = "match" /\ taker' = taker /\ reply' = reply
        /\ freeList' = freeList /\ best' = best /\ window' = window
        /\ ~RejectedOnArrival(taker)
    BY <1>2 DEF Accept, book
  <2>3. TakerReady'
    <3>1. taker.type = "PostOnly" => Apart(taker) BY <2>2 DEF RejectedOnArrival, Apart
    <3>2. Apart(taker)' <=> Apart(taker) BY <2>2 DEF Apart, PriceAt
    <3> QED BY <2>2, <3>1, <3>2 DEF TakerReady
  <2>4. FillFreesNode' BY <2>2 DEF FillFreesNode, IInv
  <2>5. ArenaThrowIsClean' BY <2>2 DEF ArenaThrowIsClean, IInv
  <2>6. CallInv' BY <2>1, <2>2, <2>3, <2>4, <2>5 DEF CallInv, IInv, TypeOK
  <2> QED BY <2>1, <2>6, Split, PTL
<1> QED BY <1>1, <1>2

\* add() ends without resting anything.
LEMMA EndSteps ==
    ASSUME IInv, Finish \/ ThrowWindow \/ ThrowArena
    PROVE  IInv'
<1>1. reply.trades \in Seq(TradeRecord) BY DEF IInv, TypeOK
<1>2. CASE Finish BY <1>1, <1>2, QuietEnd DEF Finish, Status
<1>3. CASE ThrowWindow BY <1>1, <1>3, QuietEnd DEF ThrowWindow, Status
<1>4. CASE ThrowArena
  <2>1. freeList = <<>> /\ call = "push" BY <1>4 DEF ThrowArena, HasFreeNode
  <2>2. Rests(taker) BY <2>1 DEF IInv, TakerReady
  <2>3. taker.type = "PostOnly" \/ taker.qty > 0 BY <2>2 DEF Rests
  <2>4. reply.trades = <<>> BY <2>1, <2>3 DEF IInv, FillFreesNode
  <2> QED BY <1>1, <1>4, <2>4, QuietEnd DEF ThrowArena, Status
<1> QED BY <1>2, <1>3, <1>4

\* cancel() or reduce() of an id that does not rest.
LEMMA NotFoundStep == ASSUME IInv, NEW id, NotFound(id) PROVE IInv'
<1>1. <<>> \in Seq(TradeRecord) /\ "unknown" \in Status BY DEF Status
<1>2. EndCall(<<>>, "unknown") /\ UNCHANGED book BY DEF NotFound
<1> QED BY <1>1, <1>2, QuietEnd

\* match() at work: the maker it takes is the order at the head of the best
\* level of the other side.
LEMMA MakerFound ==
    ASSUME IInv, CanMatch, NEW s, s = Opposite(taker.side), NEW b, b = best[s],
           NEW n, n = levels[b].head
    PROVE  /\ s \in Side
           /\ b \in DOMAIN levels
           /\ b \in Nat
           /\ n \in Live
           /\ n \in Node
           /\ n # Nil
           /\ LevelOf(n) = b
           /\ arena[n].prev = Nil
           /\ arena[n].id \in Resting
           /\ arena[n].id \in OrderId
           /\ arena[n].qty \in Nat
           /\ index[arena[n].id].side = s
<1>1. s \in Side BY DEF Opposite, Side
<1>2. b # Nil BY DEF CanMatch
<1>3. b \in DOMAIN levels /\ b \in Nat BY <1>1, <1>2 DEF IInv, TypeOK, Window
<1>4. n # Nil BY <1>1, <1>2 DEF IInv, BestOccupied
<1>5. n \in Members(b) /\ arena[n].prev = Nil BY <1>3, <1>4 DEF IInv, ListsSound, EndsMatch
<1>6. n \in Live /\ n \in Node /\ LevelOf(n) = b BY <1>5 DEF Members, Live
<1>7. arena[n].id \in Resting /\ arena[n].id \in OrderId /\ arena[n].qty \in Nat
  BY <1>6 DEF Live, IInv, TypeOK
<1>8. index[arena[n].id].side = s
  BY <1>1, <1>2, <1>6, <1>7, BestSide DEF LevelOf, IInv, ListsSound
<1> QED BY <1>1, <1>3, <1>4, <1>5, <1>6, <1>7, <1>8

\* What one iteration of match() does to the call.
LEMMA TradeCall ==
    ASSUME IInv, call = "match", call' = call, CanMatch,
           NEW b, b = best[Opposite(taker.side)], NEW n, n = levels[b].head,
           NEW fill \in Nat, fill <= taker.qty, Trade(b, n, fill),
           Resting' \subseteq Resting, fill < taker.qty => freeList' # <<>>
    PROVE  CallInv'
<1>1. b \in Nat /\ n \in Node /\ arena[n].id \in OrderId BY MakerFound
<1>2. /\ taker \in [id: OrderId \cup {Nil}, side: Side, type: Type, price: Int, qty: Nat]
      /\ taker.id \in OrderId \ Resting
      /\ taker.type # "PostOnly"
      /\ reply \in [trades: Seq(TradeRecord), status: Status]
      /\ reply.status = "ok"
      /\ window.base \in Int
  BY DEF IInv, TypeOK, CanMatch, FillFreesNode, Window
<1>3. /\ taker' \in [id: OrderId \cup {Nil}, side: Side, type: Type, price: Int, qty: Nat]
      /\ taker'.id = taker.id
      /\ taker'.type = taker.type
      /\ taker'.qty = taker.qty - fill
      /\ taker.qty \in Nat
  <2>1. taker' = [taker EXCEPT !.qty = taker.qty - fill] BY DEF Trade
  <2>2. taker.qty \in Nat /\ taker.qty - fill \in Nat BY <1>2
  <2> QED BY <1>2, <2>1, <2>2
<1>4. TradeOf(arena[n].id, taker.id, PriceAt(b), fill) \in TradeRecord
  BY <1>1, <1>2 DEF TradeOf, TradeRecord, PriceAt
<1>5. reply' \in [trades: Seq(TradeRecord), status: Status] /\ reply'.status = "ok"
  <2> DEFINE new == Append(reply.trades, TradeOf(arena[n].id, taker.id, PriceAt(b), fill))
  <2>1. reply' = [reply EXCEPT !.trades = new] BY DEF Trade
  <2>2. new \in Seq(TradeRecord) BY <1>2, <1>4
  <2> HIDE DEF new
  <2> QED BY <1>2, <2>1, <2>2
<1>6. TakerReady' BY <1>2, <1>3 DEF TakerReady
<1>7. FillFreesNode' BY <1>2, <1>3, <1>5 DEF FillFreesNode
<1>8. ArenaThrowIsClean' BY <1>5 DEF ArenaThrowIsClean
<1> QED BY <1>2, <1>3, <1>5, <1>6, <1>7, <1>8 DEF CallInv

\* An order keeps its place and loses part of its quantity.
LEMMA SmallerOrder ==
    ASSUME IInv, NEW n \in Live, NEW b \in DOMAIN levels, b = LevelOf(n),
           NEW q \in Nat, q <= arena[n].qty,
           arena' = [arena EXCEPT ![n].qty = @ - q],
           levels' = [levels EXCEPT ![b].total = @ - q],
           UNCHANGED <<window, best, bump, freeList, index>>
    PROVE  BookInv' /\ Resting' = Resting
<1>1. /\ window' = window /\ best' = best /\ bump' = bump /\ freeList' = freeList /\ index' = index
      /\ DOMAIN levels' = DOMAIN levels
  OBVIOUS
<1>2. n \in Node BY DEF Live
<1>3. SameLinks BY DEF SameLinks, IInv, TypeOK
<1>4. ListsSound' /\ Live' = Live BY <1>3, SameLinksSound DEF IInv
<1>5. Resting' = Resting BY <1>1 DEF Resting
<1>6. levels' \in [0 .. (window'.size - 1) ->
                    [head: Node \cup {Nil}, tail: Node \cup {Nil}, total: Int]]
  <2> DEFINE L == [head: Node \cup {Nil}, tail: Node \cup {Nil}, total: Int]
  <2>1. levels \in [0 .. (window.size - 1) -> L] BY DEF IInv, TypeOK
  <2>2. \A l \in L : [l EXCEPT !.total = l.total - q] \in L OBVIOUS
  <2>3. levels' = [levels EXCEPT ![b] = [levels[b] EXCEPT !.total = levels[b].total - q]] OBVIOUS
  <2> HIDE DEF L
  <2>4. levels' \in [0 .. (window.size - 1) -> L] BY <2>1, <2>2, <2>3
  <2> QED BY <1>1, <2>4 DEF L
<1>7. arena' \in [Node -> [id: OrderId \cup {Nil}, qty: Nat,
                            prev: Node \cup {Nil}, next: Node \cup {Nil}]]
  <2> DEFINE R == [id: OrderId \cup {Nil}, qty: Nat, prev: Node \cup {Nil}, next: Node \cup {Nil}]
  <2>1. arena \in [Node -> R] BY DEF IInv, TypeOK
  <2>2. \A r \in R : r.qty - q \in Nat => [r EXCEPT !.qty = r.qty - q] \in R OBVIOUS
  <2>3. arena' = [arena EXCEPT ![n] = [arena[n] EXCEPT !.qty = arena[n].qty - q]] OBVIOUS
  <2>4. arena[n].qty - q \in Nat BY <1>2, <2>1
  <2> HIDE DEF R
  <2>5. arena' \in [Node -> R] BY <2>1, <2>2, <2>3, <2>4
  <2> QED BY <2>5 DEF R
<1>8. NodesConserved' BY <1>1, <1>4 DEF NodesConserved, IInv
<1>9. NotCrossed' BY <1>1 DEF NotCrossed, IInv
<1>10. BestBoundsSides' BY <1>1, <1>5 DEF BestBoundsSides, IInv
<1>11. BestOccupied'
  <2>1. \A s \in Side : best[s] # Nil => best[s] \in DOMAIN levels BY DEF IInv, TypeOK
  <2> QED BY <1>1, <1>3, <2>1 DEF BestOccupied, IInv, SameLinks
<1>12. TotalsExact'
  <2> SUFFICES ASSUME NEW j \in DOMAIN levels
               PROVE  levels'[j].total = SumFunctionOnSet(QtyOf, Members(j))'
    BY <1>1 DEF TotalsExact, QtyOf
  <2>1. levels[j].total = SumFunctionOnSet(QtyOf, Members(j)) BY DEF TotalsExact, QtyOf, IInv
  <2>2. /\ Members(j) \subseteq Node
        /\ IsFiniteSet(Members(j))
        /\ \A m \in Node : QtyOf[m] = arena[m].qty /\ QtyOf[m] \in Int
    BY Addends DEF IInv, TypeOK
  <2>3. Members(j)' = Members(j)
    <3>1. \A m \in Live : arena'[m].id = arena[m].id BY <1>3 DEF SameLinks, Live
    <3> QED BY <1>1, <1>4, <3>1 DEF Members, LevelOf
  <2>4. \A m \in Node : arena'[m].qty = IF m = n THEN arena[n].qty - q ELSE arena[m].qty
    BY DEF IInv, TypeOK
  <2>5. levels'[j].total = IF j = b THEN levels[b].total - q ELSE levels[j].total
    BY DEF IInv, TypeOK
  <2>6. CASE j = b
    <3>1. n \in Members(j) BY <2>6 DEF Members
    <3>2. \A m \in Members(j) \ {n} : QtyOf'[m] = QtyOf[m] BY <2>2, <2>4 DEF QtyOf
    <3>3. QtyOf'[n] = QtyOf[n] - q /\ QtyOf'[n] \in Int BY <1>2, <2>2, <2>4 DEF QtyOf
    <3>4. SumFunctionOnSet(QtyOf', Members(j))
            = SumFunctionOnSet(QtyOf, Members(j)) - QtyOf[n] + QtyOf'[n]
      BY <2>2, <3>1, <3>2, <3>3, SumChange
    <3>5. QtyOf[n] \in Int /\ levels[j].total \in Int BY <1>2, <2>2 DEF IInv, TypeOK
    <3> QED BY <2>1, <2>3, <2>5, <2>6, <3>3, <3>4, <3>5
  <2>7. CASE j # b
    <3>1. n \notin Members(j) BY <2>7 DEF Members
    <3>2. \A m \in Members(j) : arena'[m].qty = arena[m].qty BY <2>2, <2>4, <3>1
    <3>3. SumFunctionOnSet(QtyOf, Members(j))' = SumFunctionOnSet(QtyOf, Members(j))
      BY <2>3, <3>2, SameTotal DEF IInv
    <3> QED BY <2>1, <2>5, <2>7, <3>3
  <2> QED BY <2>6, <2>7
<1> QED BY <1>1, <1>4, <1>5, <1>6, <1>7, <1>8, <1>9, <1>10, <1>11, <1>12 DEF BookInv, IInv, TypeOK

\* The maker outlasts the taker.
LEMMA FillTakerStep == ASSUME IInv, FillTaker PROVE IInv'
<1> DEFINE b == best[Opposite(taker.side)]
           n == levels[b].head
<1>1. /\ call = "match" /\ call' = call /\ CanMatch
      /\ taker.qty < arena[n].qty
      /\ Trade(b, n, taker.qty)
      /\ levels' = [levels EXCEPT ![b].total = @ - taker.qty]
      /\ arena' = [arena EXCEPT ![n].qty = @ - taker.qty]
      /\ UNCHANGED <<window, best, bump, freeList, index>>
  BY DEF FillTaker
<1>2. b \in DOMAIN levels /\ n \in Live /\ b = LevelOf(n) /\ arena[n].qty \in Nat
  BY <1>1, MakerFound
<1>3. taker.qty \in Nat BY DEF IInv, TypeOK
<1>4. taker.qty <= arena[n].qty BY <1>1, <1>2, <1>3
<1> HIDE DEF b, n
<1>5. BookInv' /\ Resting' = Resting BY <1>1, <1>2, <1>3, <1>4, SmallerOrder
<1> USE DEF b, n
<1>6. CallInv' BY <1>1, <1>3, <1>5, TradeCall
<1> QED BY <1>5, <1>6, Split, PTL

\* reduce() by less than what rests.
LEMMA ReducePartStep ==
    ASSUME IInv, NEW id, NEW delta \in Quantity, ReducePart(id, delta) PROVE IInv'
<1> DEFINE e == index[id]
<1>1. /\ id \in Resting
      /\ delta < arena[e.node].qty
      /\ arena' = [arena EXCEPT ![e.node].qty = @ - delta]
      /\ levels' = [levels EXCEPT ![e.level].total = @ - delta]
      /\ EndCall(<<>>, "ok")
      /\ UNCHANGED <<window, best, bump, freeList, index>>
  BY DEF ReducePart
<1>2. e.node \in Live /\ e.level \in DOMAIN levels /\ e.level = LevelOf(e.node)
  BY <1>1 DEF IInv, TypeOK, Entry, ListsSound, IndexMatchesArena, Live, LevelOf
<1>3. delta \in Nat /\ arena[e.node].qty \in Nat BY <1>2, OrderAssumption DEF IInv, TypeOK, Live
<1>4. delta <= arena[e.node].qty BY <1>1, <1>3
<1> HIDE DEF e
<1>5. BookInv' BY <1>1, <1>2, <1>3, <1>4, SmallerOrder
<1>6. <<>> \in Seq(TradeRecord) /\ "ok" \in Status BY DEF Status
<1>7. CallInv' BY <1>1, <1>6, EndCallInv
<1> QED BY <1>5, <1>7, Split, PTL

\* The order of node x, at level i of side s, leaves the book, and the node
\* goes back to the free list.
Leaves(x, s, i) ==
    /\ Detaches(x)
    /\ TakesQty(x)
    /\ s = index[arena[x].id].side
    /\ i = LevelOf(x)
    /\ levels' \in [0 .. (window.size - 1) ->
                      [head: Node \cup {Nil}, tail: Node \cup {Nil}, total: Int]]
    /\ arena' \in [Node -> [id: OrderId \cup {Nil}, qty: Nat,
                             prev: Node \cup {Nil}, next: Node \cup {Nil}]]
    /\ best' = [best EXCEPT ![s] = IF levels'[i].head = Nil /\ best[s] = i
                                   THEN NextBest(s, levels', i) ELSE best[s]]
    /\ freeList' = Append(freeList, x)
    /\ window' = window
    /\ bump' = bump

\* Whatever order leaves, the rest of the book stays in order.
LEMMA SmallerBook ==
    ASSUME IInv, NEW x \in Live, NEW s, NEW i, Leaves(x, s, i)
    PROVE  BookInv' /\ Resting' = Resting \ {arena[x].id}
<1> USE DEF Leaves
<1>1. ListsSound'
  BY DetachEnds, DetachLinks, DetachNoCycle DEF ListsSound, IInv
<1>2. HasHeads' BY <1>1, OrdersHaveHeads, PTL
<1>3. IndexMatchesArena' BY <1>1 DEF ListsSound
<1>4. /\ best' \in [Side -> DOMAIN levels' \cup {Nil}]
      /\ NotCrossed'
      /\ BestBoundsSides'
      /\ BestOccupied'
  BY <1>2, <1>3, DetachBest DEF IInv
<1>5. Live' = Live \ {x} BY DetachLive DEF IInv, ListsSound
<1>6. NodesConserved' BY <1>5, DetachConserves DEF IInv
<1>7. freeList' \in Seq(Node) BY DEF IInv, TypeOK, Live
<1>8. /\ Resting' = Resting \ {arena[x].id}
      /\ Resting' \subseteq OrderId
      /\ index' \in [Resting' -> Entry]
  BY DEF Detaches, Resting, IInv, TypeOK
<1>9. TotalsExact' BY DetachTotals DEF IInv, ListsSound
<1> QED BY <1>1, <1>4, <1>6, <1>7, <1>8, <1>9 DEF BookInv, IInv, TypeOK

\* The body of cancel() takes the order's node out of its list.
LEMMA WithdrawLeaves ==
    ASSUME IInv, NEW id \in Resting, Withdraw(id)
    PROVE  \E x \in Live : /\ arena[x].id = id
                           /\ \E s, i : Leaves(x, s, i)
<1>1. PICK x \in Live : x = index[id].node /\ arena[x].id = id
  BY DEF IInv, ListsSound, IndexMatchesArena, Live, TypeOK, Entry
<1>2. PICK i : i = index[id].level /\ i = LevelOf(x) BY <1>1 DEF LevelOf
<1>3. PICK s : s = index[id].side OBVIOUS
<1>4. /\ x \in Node
      /\ i \in DOMAIN levels
      /\ DOMAIN levels = 0 .. (window.size - 1)
  BY <1>1, <1>2 DEF Live, IInv, ListsSound, IndexMatchesArena, TypeOK
<1>5. /\ arena[x].prev # x /\ arena[x].next # x
      /\ arena[x].prev = arena[x].next => arena[x].prev = Nil
  BY <1>1, Neighbours DEF IInv, ListsSound
<1>6. /\ levels' = [levels EXCEPT ![i] =
                     [head |-> IF arena[x].prev = Nil THEN arena[x].next ELSE levels[i].head,
                      tail |-> IF arena[x].next = Nil THEN arena[x].prev ELSE levels[i].tail,
                      total |-> levels[i].total - arena[x].qty]]
      /\ arena' = Unlinked(arena[x])
      /\ index' = [o \in Resting \ {arena[x].id} |-> index[o]]
      /\ freeList' = Append(freeList, x)
      /\ window' = window
      /\ bump' = bump
  BY <1>1, <1>2 DEF Withdraw
<1>7. best' = [best EXCEPT ![s] = IF levels'[i].head = Nil /\ best[s] = i
                                  THEN NextBest(s, levels', i) ELSE best[s]]
  BY <1>1, <1>2, <1>3 DEF Withdraw
<1>8. /\ arena[x].qty \in Nat
      /\ arena[x].prev \in Node \cup {Nil} /\ arena[x].next \in Node \cup {Nil}
      /\ arena \in [Node -> [id: OrderId \cup {Nil}, qty: Nat,
                              prev: Node \cup {Nil}, next: Node \cup {Nil}]]
      /\ levels \in [0 .. (window.size - 1) ->
                        [head: Node \cup {Nil}, tail: Node \cup {Nil}, total: Int]]
  BY <1>4 DEF IInv, TypeOK
<1>9. Detaches(x)
  <2>1. \A m \in Node \ {x} :
          /\ arena'[m].next = IF m = arena[x].prev THEN arena[x].next ELSE arena[m].next
          /\ arena'[m].prev = IF m = arena[x].next THEN arena[x].prev ELSE arena[m].prev
    <3>1. Nil \notin Node BY DEF Node, Nil
    <3> QED BY <1>5, <1>6, <1>8, <3>1 DEF Unlinked
  <2>2. \A m \in Node : arena'[m].id = arena[m].id BY <1>6, <1>8 DEF Unlinked
  <2> QED BY <1>2, <1>4, <1>6, <1>8, <2>1, <2>2 DEF Detaches
<1>10. levels' \in [0 .. (window.size - 1) ->
                      [head: Node \cup {Nil}, tail: Node \cup {Nil}, total: Int]]
  <2> DEFINE L == [head: Node \cup {Nil}, tail: Node \cup {Nil}, total: Int]
             l == [head |-> IF arena[x].prev = Nil THEN arena[x].next ELSE levels[i].head,
                   tail |-> IF arena[x].next = Nil THEN arena[x].prev ELSE levels[i].tail,
                   total |-> levels[i].total - arena[x].qty]
  <2>1. l \in L BY <1>4, <1>8
  <2>2. levels' = [levels EXCEPT ![i] = l] BY <1>6
  <2>3. levels \in [0 .. (window.size - 1) -> L] BY <1>8
  <2> HIDE DEF L, l
  <2>4. levels' \in [0 .. (window.size - 1) -> L] BY <2>1, <2>2, <2>3
  <2> QED BY <2>4 DEF L
<1>11. arena' \in [Node -> [id: OrderId \cup {Nil}, qty: Nat,
                             prev: Node \cup {Nil}, next: Node \cup {Nil}]]
  <2> DEFINE R == [id: OrderId \cup {Nil}, qty: Nat, prev: Node \cup {Nil}, next: Node \cup {Nil}]
             p == arena[x].prev
             q == arena[x].next
  <2>1. arena \in [Node -> R] BY <1>8
  <2>2. p \in Node \cup {Nil} /\ q \in Node \cup {Nil} BY <1>8
  <2>3. arena' = [m \in Node |-> IF m = p THEN [arena[m] EXCEPT !.next = q]
                                 ELSE IF m = q THEN [arena[m] EXCEPT !.prev = p]
                                 ELSE arena[m]]
    BY <1>6 DEF Unlinked
  <2> HIDE DEF p, q
  <2>4. \A r \in R : [r EXCEPT !.next = q] \in R /\ [r EXCEPT !.prev = p] \in R BY <2>2
  <2> HIDE DEF R
  <2>5. arena' \in [Node -> R] BY <2>1, <2>3, <2>4
  <2> QED BY <2>5 DEF R
<1>12. s = index[arena[x].id].side BY <1>1, <1>3
<1>13. Leaves(x, s, i)
  <2>1. freeList' = Append(freeList, x) /\ window' = window /\ bump' = bump BY <1>6
  <2>2. \A m \in Node : arena'[m].qty = arena[m].qty BY <1>6, <1>8 DEF Unlinked
  <2>3. TakesQty(x) BY <2>2, <1>2, <1>4, <1>6, <1>8 DEF TakesQty
  <2> QED BY <2>1, <2>3, <1>2, <1>7, <1>9, <1>10, <1>11, <1>12, Zenon DEF Leaves
<1> QED BY <1>1, <1>13

\* What cancel() leaves of the book.
LEMMA WithdrawBook ==
    ASSUME IInv, NEW id \in Resting, Withdraw(id)
    PROVE  BookInv' /\ Resting' = Resting \ {id}
BY WithdrawLeaves, SmallerBook

\* cancel(), and reduce() to nothing.
LEMMA WithdrawSteps ==
    ASSUME IInv, NEW id, NEW delta, Cancel(id) \/ ReduceAll(id, delta)
    PROVE  IInv'
<1>1. id \in Resting /\ Withdraw(id) /\ EndCall(<<>>, "ok") BY DEF Cancel, ReduceAll
<1>2. BookInv' BY <1>1, WithdrawBook
<1>3. <<>> \in Seq(TradeRecord) /\ "ok" \in Status BY DEF Status
<1>4. CallInv' BY <1>1, <1>3, EndCallInv
<1> QED BY <1>2, <1>4, Split, PTL

\* The maker at the head of the best level is used up: it leaves its list.
LEMMA FillMakerLeaves ==
    ASSUME IInv, FillMaker
    PROVE  \E s, b, n : /\ s = Opposite(taker.side) /\ b = best[s] /\ n = levels[b].head
                        /\ n \in Live
                        /\ Leaves(n, s, b)
                        /\ arena[n].qty \in Nat
                        /\ arena[n].qty <= taker.qty
                        /\ Trade(b, n, arena[n].qty)
<1>1. call = "match" /\ call' = call /\ CanMatch BY DEF FillMaker
<1>2. PICK s : s = Opposite(taker.side) OBVIOUS
<1>3. PICK b : b = best[s] OBVIOUS
<1>4. PICK n : n = levels[b].head OBVIOUS
<1>5. /\ s \in Side /\ b \in DOMAIN levels /\ n \in Live /\ n \in Node /\ LevelOf(n) = b
      /\ arena[n].prev = Nil /\ arena[n].qty \in Nat /\ index[arena[n].id].side = s
  BY <1>1, <1>2, <1>3, <1>4, MakerFound
<1>6. /\ arena[n].qty <= taker.qty
      /\ Trade(b, n, arena[n].qty)
      /\ levels' = [levels EXCEPT ![b] =
                     [head |-> arena[n].next,
                      tail |-> IF arena[n].next = Nil THEN Nil ELSE levels[b].tail,
                      total |-> levels[b].total - arena[n].qty]]
      /\ arena' = [m \in Node |->
                     IF m = n THEN [arena[n] EXCEPT !.qty = 0]
                     ELSE IF m = arena[n].next THEN [arena[m] EXCEPT !.prev = Nil]
                     ELSE arena[m]]
      /\ index' = [o \in Resting \ {arena[n].id} |-> index[o]]
      /\ freeList' = Append(freeList, n)
      /\ window' = window
      /\ bump' = bump
  BY <1>2, <1>3, <1>4 DEF FillMaker
<1>7. best' = [best EXCEPT ![s] = IF arena[n].next = Nil THEN NextBest(s, levels', b) ELSE best[s]]
  BY <1>2, <1>3, <1>4 DEF FillMaker
<1>8. /\ arena[n].next \in Node \cup {Nil}
      /\ DOMAIN levels = 0 .. (window.size - 1)
      /\ arena \in [Node -> [id: OrderId \cup {Nil}, qty: Nat,
                              prev: Node \cup {Nil}, next: Node \cup {Nil}]]
      /\ levels \in [0 .. (window.size - 1) ->
                        [head: Node \cup {Nil}, tail: Node \cup {Nil}, total: Int]]
      /\ freeList \in Seq(Node)
  BY <1>5 DEF IInv, TypeOK
<1>9. Detaches(n)
  <2>1. \A m \in Node \ {n} :
          /\ arena'[m].next = IF m = arena[n].prev THEN arena[n].next ELSE arena[m].next
          /\ arena'[m].prev = IF m = arena[n].next THEN arena[n].prev ELSE arena[m].prev
    <3>1. Nil \notin Node BY DEF Node, Nil
    <3> QED BY <1>5, <1>6, <1>8, <3>1
  <2>2. \A m \in Node : arena'[m].id = arena[m].id BY <1>6, <1>8
  <2>3. /\ DOMAIN levels' = DOMAIN levels
        /\ \A j \in DOMAIN levels :
             /\ levels'[j].head = IF j = b THEN arena[n].next ELSE levels[j].head
             /\ levels'[j].tail = IF j = b /\ arena[n].next = Nil THEN Nil ELSE levels[j].tail
    BY <1>5, <1>6, <1>8
  <2> QED BY <1>5, <1>6, <2>1, <2>2, <2>3 DEF Detaches
<1>10. levels' \in [0 .. (window.size - 1) ->
                      [head: Node \cup {Nil}, tail: Node \cup {Nil}, total: Int]]
  <2> DEFINE L == [head: Node \cup {Nil}, tail: Node \cup {Nil}, total: Int]
             l == [head |-> arena[n].next,
                   tail |-> IF arena[n].next = Nil THEN Nil ELSE levels[b].tail,
                   total |-> levels[b].total - arena[n].qty]
  <2>1. l \in L BY <1>5, <1>8
  <2>2. levels' = [levels EXCEPT ![b] = l] BY <1>6
  <2>3. levels \in [0 .. (window.size - 1) -> L] BY <1>8
  <2> HIDE DEF L, l
  <2>4. levels' \in [0 .. (window.size - 1) -> L] BY <2>1, <2>2, <2>3
  <2> QED BY <2>4 DEF L
<1>11. arena' \in [Node -> [id: OrderId \cup {Nil}, qty: Nat,
                             prev: Node \cup {Nil}, next: Node \cup {Nil}]]
  <2> DEFINE R == [id: OrderId \cup {Nil}, qty: Nat, prev: Node \cup {Nil}, next: Node \cup {Nil}]
  <2>1. arena \in [Node -> R] BY <1>8
  <2>2. \A r \in R : [r EXCEPT !.qty = 0] \in R /\ [r EXCEPT !.prev = Nil] \in R OBVIOUS
  <2> HIDE DEF R
  <2>3. arena' \in [Node -> R] BY <1>6, <2>1, <2>2
  <2> QED BY <2>3 DEF R
<1>12. best' = [best EXCEPT ![s] = IF levels'[b].head = Nil /\ best[s] = b
                                   THEN NextBest(s, levels', b) ELSE best[s]]
  <2>1. levels'[b].head = arena[n].next BY <1>5, <1>6
  <2> QED BY <1>3, <1>7, <2>1
<1>13. Leaves(n, s, b)
  <2>1. freeList' = Append(freeList, n) /\ window' = window /\ bump' = bump BY <1>6
  <2>2. s = index[arena[n].id].side /\ b = LevelOf(n) BY <1>5
  <2>3. \A m \in Node \ {n} : arena'[m].qty = arena[m].qty BY <1>6, <1>8
  <2>4. TakesQty(n) BY <2>2, <2>3, <1>5, <1>6, <1>8 DEF TakesQty
  <2> QED BY <2>1, <2>2, <2>4, <1>9, <1>10, <1>11, <1>12, Zenon DEF Leaves
<1> QED BY <1>2, <1>3, <1>4, <1>5, <1>6, <1>13

\* The call goes on without the maker it used up.
LEMMA FillMakerStep == ASSUME IInv, FillMaker PROVE IInv'
<1>1. call = "match" /\ call' = call /\ CanMatch BY DEF FillMaker
<1>2. PICK s, b, n : /\ s = Opposite(taker.side) /\ b = best[s] /\ n = levels[b].head
                     /\ n \in Live
                     /\ Leaves(n, s, b)
                     /\ arena[n].qty \in Nat
                     /\ arena[n].qty <= taker.qty
                     /\ Trade(b, n, arena[n].qty)
  BY FillMakerLeaves
<1>3. BookInv' /\ Resting' = Resting \ {arena[n].id} BY <1>2, SmallerBook
<1>4. CallInv'
  <2>1. freeList' # <<>>
    <3>1. freeList \in Seq(Node) /\ n \in Node BY <1>2 DEF IInv, TypeOK, Live
    <3>2. freeList' = Append(freeList, n) BY <1>2 DEF Leaves
    <3> QED BY <3>1, <3>2
  <2>2. Resting' \subseteq Resting BY <1>3
  <2> QED BY <1>1, <1>2, <2>1, <2>2, TradeCall
<1> QED BY <1>3, <1>4, Split, PTL

\* The remainder rests: push_back_order() and the new best level.
LEMMA PushBackAttaches ==
    ASSUME IInv, PushBack
    PROVE  \E n, i, s, id :
             /\ n = NextFree /\ i = Slot(window, taker.price) /\ s = taker.side /\ id = taker.id
             /\ n \in Node \ Live
             /\ i \in DOMAIN levels /\ i \in Int
             /\ s \in Side /\ id \in OrderId \ Resting /\ taker.qty \in Nat
             /\ arena' = [m \in Node |->
                            IF m = n THEN [id |-> id, qty |-> taker.qty, prev |-> levels[i].tail, next |-> Nil]
                            ELSE IF m = levels[i].tail THEN [arena[m] EXCEPT !.next = n]
                            ELSE arena[m]]
             /\ levels' = [levels EXCEPT ![i] = Joined(levels[i], n, taker.qty)]
             /\ Resting' \subseteq OrderId
             /\ index' \in [Resting' -> Entry]
             /\ index'[id].side = s
             /\ Attaches(n, i, id)
<1>1. call = "push" /\ HasFreeNode BY DEF PushBack
<1>2. PICK n : n = NextFree OBVIOUS
<1>3. PICK i : i = Slot(window, taker.price) OBVIOUS
<1>4. PICK s : s = taker.side OBVIOUS
<1>5. PICK id : id = taker.id OBVIOUS
<1>6. n \in Node \ Live BY <1>1, <1>2, NextFreeIsFree DEF IInv
<1>7. i \in DOMAIN levels /\ window.base \in Int /\ taker.price \in Int /\ i \in Int
  BY <1>1, <1>3 DEF IInv, TakerReady, TypeOK, Window, Slot
<1>8. s \in Side /\ id \in OrderId \ Resting /\ taker.qty \in Nat
  BY <1>1, <1>4, <1>5 DEF IInv, TypeOK
<1>9. /\ arena' = [m \in Node |->
                     IF m = n THEN [id |-> id, qty |-> taker.qty, prev |-> levels[i].tail, next |-> Nil]
                     ELSE IF m = levels[i].tail THEN [arena[m] EXCEPT !.next = n]
                     ELSE arena[m]]
      /\ levels' = [levels EXCEPT ![i] = Joined(levels[i], n, taker.qty)]
      /\ index' = [o \in Resting \cup {id} |->
                     IF o = id THEN [side |-> s, level |-> i, node |-> n] ELSE index[o]]
      /\ window' = window
      /\ EndCall(reply.trades, "ok")
  BY <1>2, <1>3, <1>4, <1>5 DEF PushBack
<1>10. /\ DOMAIN levels = 0 .. (window.size - 1)
       /\ levels[i].tail \in Node \cup {Nil}
       /\ arena \in [Node -> [id: OrderId \cup {Nil}, qty: Nat,
                               prev: Node \cup {Nil}, next: Node \cup {Nil}]]
       /\ levels \in [0 .. (window.size - 1) ->
                         [head: Node \cup {Nil}, tail: Node \cup {Nil}, total: Int]]
       /\ index \in [Resting -> Entry]
       /\ window \in Window
  BY <1>7 DEF IInv, TypeOK
<1>11. /\ Resting' = Resting \cup {id}
       /\ Resting' \subseteq OrderId
       /\ index' \in [Resting' -> Entry]
       /\ index'[id].side = s
  <2>1. Resting' = Resting \cup {id} BY <1>9 DEF Resting
  <2>2. i \in Nat BY <1>7, <1>10 DEF Window
  <2>3. [side |-> s, level |-> i, node |-> n] \in Entry BY <2>2, <1>6, <1>8 DEF Entry
  <2> QED BY <2>1, <2>3, <1>8, <1>9, <1>10 DEF IInv, TypeOK
<1>12. Attaches(n, i, id)
  <2>1. /\ DOMAIN levels' = DOMAIN levels
        /\ \A j \in DOMAIN levels :
             /\ levels'[j].head = IF j = i /\ levels[j].tail = Nil THEN n ELSE levels[j].head
             /\ levels'[j].tail = IF j = i THEN n ELSE levels[j].tail
    BY <1>9, <1>10 DEF Joined
  <2>2. arena'[n].id = id /\ arena'[n].prev = levels[i].tail /\ arena'[n].next = Nil
    BY <1>6, <1>9
  <2>3. \A m \in Node \ {n} :
          /\ arena'[m].id = arena[m].id
          /\ arena'[m].prev = arena[m].prev
          /\ arena'[m].next = IF m = levels[i].tail THEN n ELSE arena[m].next
    BY <1>9, <1>10
  <2>4. /\ \A o \in Resting : index'[o] = index[o]
        /\ index'[id].level = i /\ index'[id].node = n
    BY <1>8, <1>9
  <2> QED BY <2>1, <2>2, <2>3, <2>4, <1>11 DEF Attaches
<1> QED BY <1>2, <1>3, <1>4, <1>5, <1>6, <1>7, <1>8, <1>9, <1>11, <1>12

\* The book once the remainder rests.
LEMMA PushBackStep == ASSUME IInv, PushBack PROVE IInv'
<1>1. call = "push" /\ HasFreeNode BY DEF PushBack
<1>2. PICK n, i, s, id :
        /\ n = NextFree /\ i = Slot(window, taker.price) /\ s = taker.side /\ id = taker.id
        /\ n \in Node \ Live
        /\ i \in DOMAIN levels /\ i \in Int
        /\ s \in Side /\ id \in OrderId \ Resting /\ taker.qty \in Nat
        /\ arena' = [m \in Node |->
                       IF m = n THEN [id |-> id, qty |-> taker.qty, prev |-> levels[i].tail, next |-> Nil]
                       ELSE IF m = levels[i].tail THEN [arena[m] EXCEPT !.next = n]
                       ELSE arena[m]]
        /\ levels' = [levels EXCEPT ![i] = Joined(levels[i], n, taker.qty)]
        /\ Resting' \subseteq OrderId
        /\ index' \in [Resting' -> Entry]
        /\ index'[id].side = s
        /\ Attaches(n, i, id)
  BY PushBackAttaches
<1>3. Apart(taker) /\ window.base \in Int /\ taker.price \in Int
  BY <1>1 DEF IInv, TakerReady, TypeOK, Window
<1>4. window' = window /\ EndCall(reply.trades, "ok") BY DEF PushBack
<1>5. best' = [best EXCEPT ![s] = IF best[s] = Nil \/ BetterPrice(s, i, best[s]) THEN i ELSE best[s]]
  BY <1>2 DEF PushBack
<1>6. IF freeList # <<>>
      THEN freeList' = SubSeq(freeList, 1, Len(freeList) - 1) /\ bump' = bump
      ELSE freeList' = freeList /\ bump' = bump + 1
  BY DEF PushBack
<1>7. /\ DOMAIN levels = 0 .. (window.size - 1)
      /\ levels[i].tail \in Node \cup {Nil}
      /\ arena \in [Node -> [id: OrderId \cup {Nil}, qty: Nat,
                              prev: Node \cup {Nil}, next: Node \cup {Nil}]]
      /\ levels \in [0 .. (window.size - 1) ->
                        [head: Node \cup {Nil}, tail: Node \cup {Nil}, total: Int]]
      /\ window \in Window
  BY <1>2 DEF IInv, TypeOK
<1>8. ListsSound' BY <1>2, AttachSound DEF IInv
<1>9. Live' = Live \cup {NextFree} BY <1>2, AttachLive DEF IInv, ListsSound
<1>10. NodesConserved' /\ freeList' \in Seq(Node) /\ bump' \in 0 .. ArenaCapacity
  BY <1>1, <1>6, <1>9, AttachConserves DEF IInv
<1>11. best[Opposite(s)] = Nil \/ BetterPrice(s, best[Opposite(s)], i)
  <2>1. Opposite(s) \in Side BY DEF Opposite, Side
  <2>2. best[Opposite(s)] # Nil => best[Opposite(s)] \in Int
    BY <2>1, <1>7 DEF IInv, TypeOK, Window
  <2> QED BY <1>2, <1>3, <2>2 DEF Apart, Reaches, BetterPrice, PriceAt, Slot, Side
<1>12. /\ best' \in [Side -> DOMAIN levels' \cup {Nil}]
       /\ NotCrossed'
       /\ BestBoundsSides'
       /\ BestOccupied'
  BY <1>2, <1>5, <1>11, AttachBest DEF IInv
<1>13. levels' \in [0 .. (window.size - 1) ->
                      [head: Node \cup {Nil}, tail: Node \cup {Nil}, total: Int]]
  <2> DEFINE L == [head: Node \cup {Nil}, tail: Node \cup {Nil}, total: Int]
  <2>1. Joined(levels[i], n, taker.qty) \in L BY <1>2, <1>7 DEF Joined
  <2>2. levels \in [0 .. (window.size - 1) -> L] BY <1>7
  <2> HIDE DEF L
  <2>3. levels' \in [0 .. (window.size - 1) -> L] BY <2>1, <2>2, <1>2
  <2> QED BY <2>3 DEF L
<1>14. arena' \in [Node -> [id: OrderId \cup {Nil}, qty: Nat,
                             prev: Node \cup {Nil}, next: Node \cup {Nil}]]
  <2> DEFINE R == [id: OrderId \cup {Nil}, qty: Nat, prev: Node \cup {Nil}, next: Node \cup {Nil}]
             r == [id |-> id, qty |-> taker.qty, prev |-> levels[i].tail, next |-> Nil]
  <2>1. arena \in [Node -> R] BY <1>7
  <2>2. r \in R BY <1>2, <1>7
  <2>3. \A q \in R : [q EXCEPT !.next = n] \in R BY <1>2
  <2>4. arena' = [m \in Node |-> IF m = n THEN r
                                 ELSE IF m = levels[i].tail THEN [arena[m] EXCEPT !.next = n]
                                 ELSE arena[m]]
    BY <1>2
  <2> HIDE DEF R, r
  <2>5. arena' \in [Node -> R] BY <2>1, <2>2, <2>3, <2>4
  <2> QED BY <2>5 DEF R
<1>15. TotalsExact'
  <2>1. /\ TypeOK /\ IndexMatchesArena /\ TotalsExact
        /\ n \in Node \ Live /\ i \in DOMAIN levels /\ id \notin Resting /\ Attaches(n, i, id)
        /\ taker.qty \in Nat
    BY <1>2 DEF IInv, ListsSound
  <2>2. /\ levels' = [levels EXCEPT ![i] = Joined(levels[i], n, taker.qty)]
        /\ arena' = [m \in Node |->
                       IF m = n THEN [id |-> id, qty |-> taker.qty, prev |-> levels[i].tail, next |-> Nil]
                       ELSE IF m = levels[i].tail THEN [arena[m] EXCEPT !.next = n]
                       ELSE arena[m]]
    BY <1>2
  <2> QED BY <2>1, <2>2, AttachTotals
<1>16. BookInv' BY <1>2, <1>4, <1>7, <1>8, <1>10, <1>12, <1>13, <1>14, <1>15 DEF BookInv
<1>17. CallInv'
  <2>1. reply.trades \in Seq(TradeRecord) /\ "ok" \in Status BY DEF IInv, TypeOK, Status
  <2> QED BY <2>1, <1>4, EndCallInv
<1> QED BY <1>16, <1>17, Split, PTL

\* ensure_index_for_price(): the window it makes covers the price, and holds
\* every level of the old one, moved by the shift.
LEMMA CoveringWindow ==
    ASSUME NEW v \in Window, NEW p \in Int,
           NEW k, k = Shift(Anchored(v, p), p), NEW w, w = Covering(v, p)
    PROVE  /\ k \in Nat
           /\ w \in Window
           /\ Slot(w, p) \in 0 .. (w.size - 1)
           /\ \A i \in 0 .. (v.size - 1) : i + k \in 0 .. (w.size - 1)
           /\ v.size # 0 => w.base = v.base - k
<1> DEFINE q == InitialWindow \div 4
           h == InitialWindow \div 2
           c == Anchored(v, p)
<1>1. q \in Nat /\ h \in Nat /\ h < InitialWindow /\ InitialWindow \in Nat
  BY WindowAssumption
<1>2. v.base \in Int /\ v.size \in Nat BY DEF Window
<1>3. /\ c.base = IF v.size = 0 THEN p - h ELSE v.base
      /\ c.size = IF v.size = 0 THEN InitialWindow ELSE v.size
  BY DEF Anchored
<1>4. w.base = c.base - k /\ w.size = SizeFor(c, p) /\ w = [base |-> w.base, size |-> w.size]
  BY DEF Covering
<1>5. /\ k = IF p - c.base < 0 THEN -(p - c.base) + q + 1 ELSE 0
      /\ SizeFor(c, p) = IF p - c.base < 0 THEN c.size + k
                         ELSE IF p - c.base >= c.size THEN p - c.base + q + 1 ELSE c.size
  BY DEF Shift, SizeFor, Slot
<1>6. c.base \in Int /\ c.size \in Nat /\ c.size >= v.size /\ (v.size = 0 => p - c.base >= 0)
  BY <1>1, <1>2, <1>3
<1> HIDE DEF q, h, c
<1>7. k \in Nat BY <1>1, <1>5, <1>6
<1>8. w.base \in Int /\ w.size \in Nat BY <1>1, <1>4, <1>5, <1>6, <1>7
<1>9. w \in Window BY <1>4, <1>8 DEF Window
<1>10. Slot(w, p) \in 0 .. (w.size - 1) BY <1>1, <1>4, <1>5, <1>6, <1>7, <1>8 DEF Slot
<1>11. \A i \in 0 .. (v.size - 1) : i + k \in 0 .. (w.size - 1)
  BY <1>1, <1>2, <1>4, <1>5, <1>6, <1>7, <1>8
<1> QED BY <1>3, <1>4, <1>7, <1>9, <1>10, <1>11

\* The window moves or grows before the remainder rests.
LEMMA EnsureIndexStep == ASSUME IInv, EnsureIndex PROVE IInv'
<1>1. call = "match" /\ ~CanMatch /\ Rests(taker) BY DEF EnsureIndex
<1>2. PICK k : k = Shift(Anchored(window, taker.price), taker.price) OBVIOUS
<1>3. PICK w : w = Covering(window, taker.price) OBVIOUS
<1>4. /\ window' = w
      /\ levels' = ShiftedLevels(w.size, k)
      /\ best' = ShiftedBest(k)
      /\ index' = ShiftedIndex(k)
      /\ call' = "push"
      /\ arena' = arena /\ bump' = bump /\ freeList' = freeList /\ taker' = taker /\ reply' = reply
  BY <1>2, <1>3 DEF EnsureIndex
<1>5. /\ window \in Window
      /\ window.size \in Nat
      /\ window.base \in Int
      /\ taker.price \in Int
      /\ levels \in [0 .. (window.size - 1) ->
                        [head: Node \cup {Nil}, tail: Node \cup {Nil}, total: Int]]
      /\ DOMAIN levels = 0 .. (window.size - 1)
      /\ best \in [Side -> DOMAIN levels \cup {Nil}]
      /\ index \in [Resting -> Entry]
  BY DEF IInv, TypeOK, Window
<1>6. /\ k \in Nat
      /\ w \in Window
      /\ Slot(w, taker.price) \in 0 .. (w.size - 1)
      /\ \A i \in 0 .. (window.size - 1) : i + k \in 0 .. (w.size - 1)
      /\ window.size # 0 => w.base = window.base - k
  BY <1>2, <1>3, <1>5, CoveringWindow
<1>7. w.size \in Nat /\ w.base \in Int BY <1>6 DEF Window
<1>8. /\ levels' \in [0 .. (w.size - 1) ->
                        [head: Node \cup {Nil}, tail: Node \cup {Nil}, total: Int]]
      /\ DOMAIN levels' = 0 .. (w.size - 1)
  BY <1>4, <1>5 DEF ShiftedLevels, EmptyLevel
<1>9. Shifts(k)
  <2>1. \A i \in DOMAIN levels : i + k \in DOMAIN levels' /\ levels'[i + k] = levels[i]
    <3> SUFFICES ASSUME NEW i \in DOMAIN levels
                 PROVE  i + k \in DOMAIN levels' /\ levels'[i + k] = levels[i]
      OBVIOUS
    <3>1. i + k \in 0 .. (w.size - 1) /\ (i + k) - k = i BY <1>5, <1>6
    <3> QED BY <3>1, <1>4, <1>8 DEF ShiftedLevels
  <2>2. \A j \in DOMAIN levels' : j - k \notin DOMAIN levels => levels'[j] = EmptyLevel
    BY <1>4, <1>8 DEF ShiftedLevels
  <2> QED BY <2>1, <2>2, <1>4 DEF Shifts
<1>10. ListsSound' /\ Live' = Live
  <2>1. DOMAIN levels' \subseteq Nat BY <1>7, <1>8
  <2> QED BY <2>1, <1>6, <1>9, ShiftSound DEF IInv
<1>11. /\ best' \in [Side -> DOMAIN levels' \cup {Nil}]
       /\ NotCrossed'
       /\ BestBoundsSides'
       /\ BestOccupied'
  BY <1>6, <1>9, ShiftBest DEF IInv
<1>12. /\ Resting' = Resting
       /\ index' \in [Resting' -> Entry]
  <2>1. Resting' = Resting BY <1>4 DEF ShiftedIndex, Resting
  <2>2. \A e \in Entry : [e EXCEPT !.level = e.level + k] \in Entry BY <1>6 DEF Entry
  <2>3. index' = [o \in Resting |-> [index[o] EXCEPT !.level = index[o].level + k]]
    BY <1>4 DEF ShiftedIndex
  <2> QED BY <2>1, <2>2, <2>3, <1>5
<1>13. NodesConserved' BY <1>4, <1>10 DEF NodesConserved, IInv
<1>14. TotalsExact'
  <2>1. DOMAIN levels' \subseteq Nat BY <1>7, <1>8
  <2> QED BY <2>1, <1>6, <1>9, ShiftTotals DEF IInv, ListsSound
<1>15. BookInv' BY <1>4, <1>6, <1>8, <1>10, <1>11, <1>12, <1>13, <1>14 DEF BookInv, IInv, TypeOK
<1>16. TakerReady'
  <2> DEFINE o == Opposite(taker.side)
  <2>1. o \in Side BY DEF Opposite, Side
  <2>2. Apart(taker)
    <3>1. taker.type = "Limit" \/ taker.type = "PostOnly" BY <1>1 DEF Rests
    <3>2. taker.type = "PostOnly" => Apart(taker) BY <1>1 DEF IInv, TakerReady
    <3>3. taker.type = "Limit" => taker.qty > 0 BY <1>1 DEF Rests
    <3> QED BY <1>1, <3>1, <3>2, <3>3 DEF CanMatch, Takes, Apart
  <2>3. /\ best'[o] = IF best[o] = Nil THEN Nil ELSE best[o] + k
        /\ best[o] # Nil => best[o] \in DOMAIN levels
    BY <2>1, <1>4, <1>5 DEF ShiftedBest
  <2>4. best[o] # Nil => best[o] \in Int /\ window.size # 0 BY <2>3, <1>5
  <2>5. best[o] # Nil => w.base + best'[o] = window.base + best[o]
    BY <2>3, <2>4, <1>5, <1>6, <1>7
  <2>6. Apart(taker)'
    <3>1. best[o] = Nil \/ ~Reaches(taker.side, taker.price, window.base + best[o])
      BY <2>2 DEF Apart, PriceAt
    <3>2. best'[o] = Nil \/ ~Reaches(taker.side, taker.price, w.base + best'[o])
      BY <2>3, <2>5, <3>1
    <3> QED BY <3>2, <1>4 DEF Apart, PriceAt
  <2>7. Rests(taker)' BY <1>1, <1>4 DEF Rests
  <2>8. Slot(window, taker.price)' \in DOMAIN levels' BY <1>4, <1>6, <1>8
  <2> QED BY <2>6, <2>7, <2>8, <1>4 DEF TakerReady
<1>17. FillFreesNode' BY <1>1, <1>4 DEF FillFreesNode, IInv
<1>18. ArenaThrowIsClean' BY <1>4 DEF ArenaThrowIsClean, IInv
<1>19. CallInv' BY <1>1, <1>4, <1>12, <1>16, <1>17, <1>18 DEF CallInv, IInv, TypeOK
<1> QED BY <1>15, <1>19, Split, PTL
------------------------------------------------------------------------------
(* The results *)

\* Every step of every call keeps the invariant.
LEMMA NextInv == IInv /\ [Next]_vars => IInv'
<1> SUFFICES ASSUME IInv, [Next]_vars PROVE IInv' OBVIOUS
<1>1. ASSUME NEW r \in Request, Submit(r) PROVE IInv' BY <1>1, SubmitStep
<1>2. CASE Reject \/ Accept BY <1>2, CheckSteps
<1>3. CASE FillMaker BY <1>3, FillMakerStep
<1>4. CASE FillTaker BY <1>4, FillTakerStep
<1>5. CASE Finish \/ ThrowWindow \/ ThrowArena BY <1>5, EndSteps
<1>6. CASE EnsureIndex BY <1>6, EnsureIndexStep
<1>7. CASE PushBack BY <1>7, PushBackStep
<1>8. ASSUME NEW id \in OrderId, Cancel(id) PROVE IInv' BY <1>8, WithdrawSteps
<1>9. ASSUME NEW id \in OrderId, NotFound(id) PROVE IInv' BY <1>9, NotFoundStep
<1>10. ASSUME NEW id \in OrderId, NEW delta \in Quantity, ReducePart(id, delta) PROVE IInv'
  BY <1>10, ReducePartStep
<1>11. ASSUME NEW id \in OrderId, NEW delta \in Quantity, ReduceAll(id, delta) PROVE IInv'
  BY <1>11, WithdrawSteps
<1>12. CASE UNCHANGED vars
  <2>1. UNCHANGED book /\ call' = call /\ taker' = taker /\ reply' = reply
    BY <1>12 DEF vars, book
  <2>2. BookInv' /\ Resting' = Resting BY <2>1, Split, SameBook
  <2>3. CallInv'
    <3>1. window' = window /\ levels' = levels /\ best' = best /\ freeList' = freeList
      BY <2>1 DEF book
    <3>2. Apart(taker)' <=> Apart(taker) BY <2>1, <3>1 DEF Apart, PriceAt
    <3>3. TakerReady' BY <2>1, <3>1, <3>2 DEF TakerReady, IInv
    <3>4. FillFreesNode' BY <2>1, <3>1 DEF FillFreesNode, IInv
    <3>5. ArenaThrowIsClean' BY <2>1 DEF ArenaThrowIsClean, IInv
    <3> QED BY <2>1, <2>2, <3>3, <3>4, <3>5 DEF CallInv, IInv, TypeOK
  <2> QED BY <2>2, <2>3, Split, PTL
<1> QED BY <1>1, <1>2, <1>3, <1>4, <1>5, <1>6, <1>7, <1>8, <1>9, <1>10, <1>11, <1>12
        DEF Next, AddSteps

\* The invariant holds in every state the book can reach.
THEOREM Invariance == Spec => []IInv
<1>1. Init => IInv BY InitInv
<1>2. IInv /\ [Next]_vars => IInv' BY NextInv
<1> QED BY <1>1, <1>2, PTL DEF Spec

\* The cached best levels are exact: nothing of a side is ahead of its best
\* level, and the order at its head is one of that side.
LEMMA InvBestExact == IInv => BestExact
<1> SUFFICES ASSUME IInv, NEW s \in Side
             PROVE  LET used == {index[id].level : id \in {o \in Resting : index[o].side = s}} IN
                    IF used = {} THEN best[s] = Nil
                    ELSE best[s] \in used /\ \A i \in used : ~BetterPrice(s, i, best[s])
  BY DEF BestExact
<1> DEFINE used == {index[id].level : id \in {o \in Resting : index[o].side = s}}
<1>1. \A i \in used : best[s] # Nil /\ ~BetterPrice(s, i, best[s])
  BY DEF IInv, BestBoundsSides
<1>2. best[s] # Nil => best[s] \in used
  <2> SUFFICES ASSUME best[s] # Nil PROVE best[s] \in used OBVIOUS
  <2>1. best[s] \in DOMAIN levels BY DEF IInv, TypeOK
  <2>2. levels[best[s]].head # Nil BY DEF IInv, BestOccupied
  <2>3. PICK n \in Members(best[s]) : TRUE BY <2>1, <2>2 DEF IInv, ListsSound, EndsMatch
  <2>4. PICK id \in Resting : index[id].level = best[s] BY <2>3 DEF Members, Live, LevelOf
  <2>5. index[id].side = s BY <2>4, BestSide DEF IInv, ListsSound
  <2> QED BY <2>4, <2>5
<1> QED BY <1>1, <1>2

\* TypeOK of OrderBookV2, for every window, arena and set of requests.
THEOREM TypeCorrect == Spec => []TypeOK
BY Invariance, PTL DEF IInv

\* The lists threaded through the arena stay sound through every fill, cancel
\* and rebase.
THEOREM ListsStaySound == Spec => []ListsSound
BY Invariance, PTL DEF IInv

\* alloc_node() and free_node() neither leak a node nor hand one out twice.
THEOREM NodesAreConserved == Spec => []NodesConserved
BY Invariance, PTL DEF IInv

\* The book is never crossed, not even in the middle of a call.
THEOREM NeverCrossed == Spec => []NotCrossed
BY Invariance, PTL DEF IInv

\* The cached best levels are the extreme levels that hold orders.
THEOREM BestIsExact == Spec => []BestExact
BY Invariance, InvBestExact, PTL

\* PriceLevel::total_qty is the sum of the orders at the level after every fill,
\* cancel, reduction and rebase.
THEOREM TotalsAreExact == Spec => []TotalsExact
BY Invariance, PTL DEF IInv

\* add() throws for lack of arena only when it has not traded.
THEOREM ArenaThrowsClean == Spec => []ArenaThrowIsClean
BY Invariance, PTL DEF IInv

\* What no step but a rebase does: move the axis, or an order along it.
StaysPut ==
    /\ window' = window
    /\ \A id \in Resting \cap Resting' : index'[id] = index[id]

\* Only ensure_index_for_price() moves orders, and it moves the axis as far.
LEMMA StepKeepsPrice ==
    IInv /\ [Next]_vars =>
        [\A id \in Resting \cap Resting' :
            window'.base + index'[id].level = PriceAt(index[id].level)]_vars
<1> SUFFICES ASSUME IInv, [Next]_vars,
                    NEW id \in Resting \cap Resting'
             PROVE  window'.base + index'[id].level = PriceAt(index[id].level)
  OBVIOUS
<1>1. SUFFICES ASSUME ~EnsureIndex PROVE StaysPut
  <2>1. CASE EnsureIndex
    <3>1. PICK k : k = Shift(Anchored(window, taker.price), taker.price) OBVIOUS
    <3>2. PICK w : w = Covering(window, taker.price) OBVIOUS
    <3>3. window' = w /\ index' = ShiftedIndex(k) BY <2>1, <3>1, <3>2 DEF EnsureIndex
    <3>4. /\ window \in Window /\ taker.price \in Int /\ window.base \in Int
          /\ index[id].level \in Int /\ index[id] \in Entry
      BY DEF IInv, TypeOK, Window, Entry
    <3>5. window.size # 0
      <4>1. index[id].level \in 0 .. (window.size - 1)
        BY DEF IInv, ListsSound, IndexMatchesArena, TypeOK
      <4> QED BY <4>1
    <3>6. k \in Nat /\ w.base = window.base - k BY <3>1, <3>2, <3>4, <3>5, CoveringWindow
    <3>7. index'[id].level = index[id].level + k BY <3>3, <3>4 DEF ShiftedIndex, Entry
    <3> QED BY <3>3, <3>4, <3>6, <3>7 DEF PriceAt
  <2>2. CASE ~EnsureIndex
    <3>1. StaysPut BY <1>1, <2>2
    <3> QED BY <3>1 DEF StaysPut, PriceAt
  <2> QED BY <2>1, <2>2
<1>2. ASSUME NEW r \in Request, Submit(r) PROVE StaysPut BY <1>2 DEF Submit, book, StaysPut
<1>3. CASE Reject \/ Accept BY <1>3 DEF Reject, Accept, book, StaysPut
<1>4. CASE FillMaker
  BY <1>4 DEF FillMaker, StaysPut, Resting
<1>5. CASE FillTaker BY <1>5 DEF FillTaker, StaysPut
<1>6. CASE Finish \/ ThrowWindow \/ ThrowArena
  BY <1>6 DEF Finish, ThrowWindow, ThrowArena, book, StaysPut
<1>7. CASE PushBack
  <2>1. taker.id \notin Resting BY <1>7 DEF PushBack, IInv, TypeOK
  <2> QED BY <1>7, <2>1 DEF PushBack, StaysPut
<1>8. ASSUME NEW o \in OrderId, Withdraw(o) PROVE StaysPut
  BY <1>8 DEF Withdraw, StaysPut, Resting
<1>9. ASSUME NEW o \in OrderId, NEW delta \in Quantity, ReduceAll(o, delta) \/ ReducePart(o, delta)
      PROVE  StaysPut
  BY <1>8, <1>9 DEF ReduceAll, ReducePart, StaysPut
<1>10. ASSUME NEW o \in OrderId, Cancel(o) \/ NotFound(o) PROVE StaysPut
  BY <1>8, <1>10 DEF Cancel, NotFound, book, StaysPut
<1>11. CASE UNCHANGED vars BY <1>11 DEF vars, StaysPut
<1> QED BY <1>1, <1>2, <1>3, <1>4, <1>5, <1>6, <1>7, <1>9, <1>10, <1>11
        DEF Next, AddSteps

\* A resting order keeps its price through every rebase of the axis.
THEOREM PricesAreKept == Spec => KeepsPrice
BY Invariance, StepKeepsPrice, PTL DEF Spec, KeepsPrice

------------------------------------------------------------------------------
(* The queue of a level, as the next links give it *)

\* A set of nodes that no next link leaves.
Closed(S) == \A k \in S : arena[k].next \in S \cup {Nil}

\* The nodes behind a node are those of the least closed set around it.
LEMMA FromOnIsLeast ==
    ASSUME LinksMatch, NEW n \in Live
    PROVE  /\ n \in FromOn(n)
           /\ FromOn(n) \subseteq Members(LevelOf(n))
           /\ Closed(FromOn(n))
           /\ \A S \in SUBSET Live : n \in S /\ Closed(S) => FromOn(n) \subseteq S
<1>1. \A S \in SUBSET Live : n \in S /\ Closed(S) => FromOn(n) \subseteq S BY DEF FromOn, Closed
<1>2. n \in FromOn(n) BY DEF FromOn
<1>3. FromOn(n) \subseteq Members(LevelOf(n))
  <2>1. Members(LevelOf(n)) \in SUBSET Live /\ n \in Members(LevelOf(n)) BY DEF Members
  <2>2. Closed(Members(LevelOf(n)))
    <3>1. \A k \in Members(LevelOf(n)) : k \in Live /\ LevelOf(k) = LevelOf(n) BY DEF Members
    <3> QED BY <3>1 DEF LinksMatch, Closed
  <2> QED BY <2>1, <2>2, <1>1
<1>4. Closed(FromOn(n))
  <2> SUFFICES ASSUME NEW k \in FromOn(n), arena[k].next # Nil PROVE arena[k].next \in FromOn(n)
    BY DEF Closed
  <2>1. k \in Live /\ arena[k].next \in Live BY DEF FromOn, LinksMatch, Members
  <2>2. \A S \in SUBSET Live : n \in S /\ Closed(S) => arena[k].next \in S
    BY <1>1 DEF Closed
  <2> QED BY <2>1, <2>2 DEF FromOn, Closed
<1> QED BY <1>1, <1>2, <1>3, <1>4

\* Who is behind a node behind x is behind x, and so is the node before any of
\* them but x.
LEMMA FromOnWithin ==
    ASSUME LinksMatch, NEW x \in Live, NEW m \in FromOn(x)
    PROVE  /\ m \in Live
           /\ LevelOf(m) = LevelOf(x)
           /\ FromOn(m) \subseteq FromOn(x)
           /\ m # x => arena[m].prev \in FromOn(x)
<1>1. /\ x \in FromOn(x)
      /\ FromOn(x) \subseteq Members(LevelOf(x))
      /\ Closed(FromOn(x))
      /\ \A S \in SUBSET Live : x \in S /\ Closed(S) => FromOn(x) \subseteq S
  BY FromOnIsLeast
<1>2. m \in Live /\ LevelOf(m) = LevelOf(x) /\ FromOn(x) \in SUBSET Live BY <1>1 DEF Members
<1>3. FromOn(m) \subseteq FromOn(x) BY <1>1, <1>2, FromOnIsLeast
<1>4. ASSUME m # x, arena[m].prev \notin FromOn(x) PROVE FALSE
  <2> DEFINE S == FromOn(x) \ {m}
  <2>1. \A k \in S : arena[k].next # m BY <1>2, <1>4 DEF LinksMatch, Live, Node, Nil
  <2>2. Closed(S) BY <2>1, <1>1 DEF Closed
  <2>3. x \in S /\ S \in SUBSET Live BY <1>1, <1>2, <1>4
  <2> QED BY <2>2, <2>3, <1>1
<1> QED BY <1>2, <1>3, <1>4

\* The queue starts at the head of the level: everyone there is behind it.
LEMMA HeadFirst ==
    ASSUME ListsSound, NEW n \in Live
    PROVE  LET h == levels[LevelOf(n)].head IN h \in Live /\ LevelOf(h) = LevelOf(n) /\ n \in FromOn(h)
<1> DEFINE i == LevelOf(n)
           h == levels[i].head
           Bad == Members(i) \ FromOn(h)
<1>1. EndsMatch /\ LinksMatch /\ NoCycle /\ IndexMatchesArena BY DEF ListsSound
<1>2. h # Nil BY OrdersHaveHeads DEF HasHeads
<1>3. i \in DOMAIN levels BY <1>1 DEF Live, LevelOf, IndexMatchesArena
<1>4. h \in Live /\ LevelOf(h) = i BY <1>1, <1>2, <1>3 DEF EndsMatch, Members
<1>5. h \in FromOn(h) /\ Closed(FromOn(h)) BY <1>1, <1>4, FromOnIsLeast
<1>6. ASSUME Bad # {} PROVE FALSE
  <2>1. Bad \in SUBSET Live BY DEF Members
  <2>2. PICK m \in Bad : arena[m].prev \notin Bad BY <1>6, <2>1, <1>1 DEF NoCycle
  <2>3. m \in Live /\ LevelOf(m) = i /\ m # h /\ m # Nil BY <1>5, <2>1 DEF Members, Live, Node, Nil
  <2>4. arena[m].prev \in Members(i) /\ arena[arena[m].prev].next = m BY <1>1, <2>3 DEF LinksMatch
  <2>5. arena[m].prev \in FromOn(h) BY <2>2, <2>4
  <2>6. m \in FromOn(h) BY <1>5, <2>3, <2>4, <2>5 DEF Closed
  <2> QED BY <2>6
<1>7. n \in Members(i) BY DEF Members
<1> QED BY <1>4, <1>6, <1>7

\* One of two orders of a level is behind the other, ...
LEMMA QueueTotal ==
    ASSUME ListsSound, NEW x \in Live, NEW y \in Live, LevelOf(x) = LevelOf(y)
    PROVE  y \in FromOn(x) \/ x \in FromOn(y)
<1> DEFINE i == LevelOf(x)
           Bad == {m \in Members(i) : m \notin FromOn(x) /\ x \notin FromOn(m)}
<1>1. LinksMatch /\ NoCycle BY DEF ListsSound
<1>2. ASSUME Bad # {} PROVE FALSE
  <2>1. Bad \in SUBSET Live BY DEF Members
  <2>2. PICK m \in Bad : arena[m].prev \notin Bad BY <1>2, <2>1, <1>1 DEF NoCycle
  <2>3. m \in Live /\ LevelOf(m) = i /\ m # Nil BY <2>1 DEF Members, Live, Node, Nil
  <2>4. arena[m].prev # Nil
    <3>1. ASSUME arena[m].prev = Nil PROVE FALSE
      <4>1. levels[LevelOf(x)].head = m BY <3>1, <1>1, <2>3 DEF LinksMatch
      <4> QED BY <4>1, HeadFirst
    <3> QED BY <3>1
  <2>5. PICK p : p = arena[m].prev OBVIOUS
  <2>6. p \in Members(i) /\ p \in Live /\ arena[p].next = m BY <1>1, <2>3, <2>4, <2>5 DEF LinksMatch, Members
  <2>7. p \notin FromOn(x)
    <3>1. Closed(FromOn(x)) BY <1>1, FromOnIsLeast
    <3> QED BY <2>3, <2>6, <3>1 DEF Closed
  <2>8. x \in FromOn(p) /\ x # p BY <2>2, <2>5, <2>6, <2>7, <1>1, FromOnIsLeast
  <2>9. FromOn(p) \subseteq {p} \cup FromOn(m)
    <3>1. /\ m \in FromOn(m) /\ Closed(FromOn(m)) /\ FromOn(m) \subseteq Members(LevelOf(m))
      BY <1>1, <2>3, FromOnIsLeast
    <3>2. {p} \cup FromOn(m) \in SUBSET Live BY <3>1, <2>6 DEF Members
    <3>3. Closed({p} \cup FromOn(m)) BY <3>1, <2>6 DEF Closed
    <3> QED BY <3>2, <3>3, <2>6, <1>1, FromOnIsLeast
  <2> QED BY <2>8, <2>9
<1>3. y \in Members(i) BY DEF Members
<1> QED BY <1>2, <1>3

\* ... and not the other way round as well.
LEMMA QueueStrict ==
    ASSUME ListsSound, NEW x \in Live, NEW y \in FromOn(x), x # y
    PROVE  x \notin FromOn(y)
<1>1. LinksMatch /\ NoCycle BY DEF ListsSound
<1> SUFFICES ASSUME x \in FromOn(y) PROVE FALSE OBVIOUS
<1>2. y \in Live /\ FromOn(y) \subseteq FromOn(x) BY <1>1, FromOnWithin
<1>3. FromOn(x) \subseteq FromOn(y) BY <1>1, <1>2, FromOnWithin
<1>4. \A m \in FromOn(x) : arena[m].prev \in FromOn(x)
  <2> SUFFICES ASSUME NEW m \in FromOn(x) PROVE arena[m].prev \in FromOn(x) OBVIOUS
  <2>1. CASE m # x BY <2>1, <1>1, FromOnWithin
  <2>2. CASE m # y BY <2>2, <1>1, <1>2, <1>3, FromOnWithin
  <2> QED BY <2>1, <2>2
<1>5. FromOn(x) \in SUBSET Live BY DEF FromOn
<1> QED BY <1>1, <1>4, <1>5 DEF NoCycle

\* The tail of a level is behind everyone there.
LEMMA TailLast ==
    ASSUME ListsSound, NEW n \in Live, NEW t, t = levels[LevelOf(n)].tail
    PROVE  t \in FromOn(n)
<1>1. EndsMatch /\ LinksMatch /\ IndexMatchesArena BY DEF ListsSound
<1>2. LevelOf(n) \in DOMAIN levels BY <1>1 DEF Live, LevelOf, IndexMatchesArena
<1>3. levels[LevelOf(n)].head # Nil BY OrdersHaveHeads DEF HasHeads
<1>4. t \in Live /\ LevelOf(t) = LevelOf(n) /\ arena[t].next = Nil
  BY <1>1, <1>2, <1>3 DEF EndsMatch, Members
<1>5. FromOn(t) \subseteq {t}
  <2>1. Closed({t}) BY <1>4 DEF Closed
  <2> QED BY <2>1, <1>1, <1>4, FromOnIsLeast
<1>6. t \in FromOn(n) \/ n \in FromOn(t) BY <1>4, QueueTotal
<1>7. n \in FromOn(n) BY <1>1, FromOnIsLeast
<1> QED BY <1>5, <1>6, <1>7

------------------------------------------------------------------------------
(* What the steps do to the queues *)

\* FromOn and QueueOrder of the nodes, of arena a and of index e.
BehindIn(nodes, a, n) ==
    {m \in nodes : \A S \in SUBSET nodes :
        n \in S /\ (\A k \in S : a[k].next \in S \cup {Nil}) => m \in S}

OrderIn(nodes, a, e) ==
    {pair \in (DOMAIN e) \X (DOMAIN e) :
        pair[1] # pair[2] /\ e[pair[2]].node \in BehindIn(nodes, a, e[pair[1]].node)}

\* The queues before and after a step, as values.
LEMMA QueueIs ==
    /\ QueueOrder = OrderIn(Live, arena, index)
    /\ QueueOrder' = OrderIn(Live', arena', index')
    /\ \A n : FromOn(n) = BehindIn(Live, arena, n) /\ FromOn(n)' = BehindIn(Live', arena', n)
<1>1. QueueOrder = OrderIn(Live, arena, index) BY DEF QueueOrder, OrderIn, FromOn, BehindIn, Resting
<1>2. QueueOrder' = OrderIn(Live', arena', index') BY DEF QueueOrder, OrderIn, FromOn, BehindIn, Resting
<1> QED BY <1>1, <1>2 DEF FromOn, BehindIn

\* Queues are the same where the nodes of the orders and their next links are.
LEMMA SameQueue ==
    ASSUME IndexMatchesArena, TypeOK, Live' = Live, Resting' = Resting,
           \A m \in Live : arena'[m].next = arena[m].next,
           \A o \in Resting : index'[o].node = index[o].node
    PROVE  QueueOrder' = QueueOrder
<1>1. \A n : BehindIn(Live', arena', n) = BehindIn(Live, arena, n) BY DEF BehindIn
<1>2. DOMAIN index' = DOMAIN index BY DEF Resting
<1>3. OrderIn(Live', arena', index') = OrderIn(Live, arena, index)
  BY <1>1, <1>2 DEF OrderIn, Resting
<1> QED BY <1>3, QueueIs

\* A node that leaves its list leaves every queue, and no other node does.
LEMMA DetachFromOn ==
    ASSUME TypeOK, ListsSound, NEW x \in Live, Detaches(x), NEW n \in Live, n # x
    PROVE  FromOn(n)' = FromOn(n) \ {x}
<1>1. LinksMatch /\ NoCycle /\ IndexMatchesArena BY DEF ListsSound
<1>2. Live' = Live \ {x} /\ Live \subseteq Node /\ Nil \notin Node BY <1>1, DetachLive DEF Live, Node, Nil
<1>3. arena[x].next # x /\ arena[x].prev # x BY <1>1, Neighbours
<1>4. \A m \in Live \ {x} : arena'[m].next = IF m = arena[x].prev THEN arena[x].next ELSE arena[m].next
  BY <1>2 DEF Detaches
<1>5. \A m \in Live : arena[m].next = x => m = arena[x].prev
  BY <1>1, <1>2 DEF LinksMatch
<1>6. arena[x].prev # Nil => arena[x].prev \in Live /\ arena[arena[x].prev].next = x
  BY <1>1 DEF LinksMatch, Members
<1>7. /\ n \in FromOn(n) /\ FromOn(n) \in SUBSET Live /\ Closed(FromOn(n))
      /\ \A S \in SUBSET Live : n \in S /\ Closed(S) => FromOn(n) \subseteq S
  BY <1>1, FromOnIsLeast DEF Members
<1>8. FromOn(n)' \subseteq FromOn(n) \ {x}
  <2> DEFINE S == FromOn(n) \ {x}
  <2>1. S \in SUBSET Live' /\ n \in S BY <1>2, <1>7
  <2>2. \A k \in S : arena'[k].next \in S \cup {Nil}
    <3> SUFFICES ASSUME NEW k \in S PROVE arena'[k].next \in S \cup {Nil} OBVIOUS
    <3>1. k \in Live \ {x} /\ k \in FromOn(n) BY <1>7
    <3>2. CASE k = arena[x].prev
      <4>1. arena[k].next = x BY <3>1, <3>2, <1>2, <1>6
      <4>2. x \in FromOn(n) BY <4>1, <3>1, <1>2, <1>7 DEF Closed
      <4>3. arena[x].next \in S \cup {Nil} BY <4>2, <1>3, <1>7 DEF Closed
      <4> QED BY <4>3, <3>1, <3>2, <1>4
    <3>3. CASE k # arena[x].prev BY <3>1, <3>3, <1>4, <1>5, <1>7 DEF Closed
    <3> QED BY <3>2, <3>3
  <2> HIDE DEF S
  <2>3. FromOn(n)' \subseteq S BY <2>1, <2>2 DEF FromOn
  <2> QED BY <2>3 DEF S
<1>9. FromOn(n) \ {x} \subseteq FromOn(n)'
  <2> SUFFICES ASSUME NEW m \in FromOn(n), m # x,
                      NEW S \in SUBSET (Live \ {x}), n \in S,
                      \A k \in S : arena'[k].next \in S \cup {Nil}
               PROVE  m \in S
    BY <1>2, <1>7 DEF FromOn
  <2>1. CASE arena[x].prev \in S
    <3>1. arena[x].next \in S \cup {Nil} BY <2>1, <1>4
    <3>2. \A k \in S : arena[k].next \in S \cup {x, Nil} BY <1>4, <1>6, <1>2
    <3>3. Closed(S \cup {x}) BY <3>1, <3>2 DEF Closed
    <3>4. S \cup {x} \in SUBSET Live OBVIOUS
    <3> QED BY <3>3, <3>4, <1>7
  <2>2. CASE arena[x].prev \notin S
    <3>1. Closed(S) BY <2>2, <1>4 DEF Closed
    <3> QED BY <3>1, <1>7
  <2> QED BY <2>1, <2>2
<1> QED BY <1>8, <1>9

\* The index and the arena name each other: an order has one node and a node has
\* one order.
LEMMA NodeOf ==
    ASSUME TypeOK, IndexMatchesArena, NEW o \in Resting
    PROVE  /\ index[o].node \in Live
           /\ arena[index[o].node].id = o
           /\ LevelOf(index[o].node) = index[o].level
           /\ index[o].side \in Side
           /\ arena[index[o].node].qty \in Nat
BY DEF TypeOK, IndexMatchesArena, Entry, Live, LevelOf

\* An order that leaves takes its pairs out of the queues.
LEMMA DetachQueue ==
    ASSUME TypeOK, ListsSound, NEW x \in Live, Detaches(x)
    PROVE  QueueOrder' = {pair \in QueueOrder : pair[1] \in Resting' /\ pair[2] \in Resting'}
<1>1. IndexMatchesArena BY DEF ListsSound
<1>2. Resting' = Resting \ {arena[x].id} /\ \A o \in Resting' : index'[o] = index[o]
  BY DEF Detaches, Resting
<1>3. \A o \in Resting : index[o].node \in Live /\ arena[index[o].node].id = o
  BY <1>1, NodeOf
<1>4. \A o \in Resting' : /\ index'[o].node = index[o].node
                          /\ index[o].node \in Live /\ index[o].node # x
  BY <1>2, <1>3
<1>5. \A n \in Live \ {x} : BehindIn(Live', arena', n) = BehindIn(Live, arena, n) \ {x}
  <2>1. \A n \in Live : n # x => FromOn(n)' = FromOn(n) \ {x} BY DetachFromOn
  <2> QED BY <2>1, QueueIs
<1>6. \A o, p \in Resting' : index'[p].node \in BehindIn(Live', arena', index'[o].node)
                              <=> index[p].node \in BehindIn(Live, arena, index[o].node)
  BY <1>4, <1>5
<1>7. DOMAIN index = Resting /\ DOMAIN index' = Resting' BY DEF Resting
<1>8. OrderIn(Live', arena', index')
        = {pair \in OrderIn(Live, arena, index) : pair[1] \in Resting' /\ pair[2] \in Resting'}
  BY <1>2, <1>6, <1>7 DEF OrderIn
<1> QED BY <1>8, QueueIs

\* A node that joins the back of a level gets behind every node there, and behind
\* no other.
LEMMA AttachFromOn ==
    ASSUME TypeOK, ListsSound, NEW x \in Node \ Live, NEW i \in DOMAIN levels,
           NEW id, id \notin Resting, Attaches(x, i, id)
    PROVE  /\ \A n \in Live : BehindIn(Live', arena', n)
                                = FromOn(n) \cup {y \in {x} : LevelOf(n) = i}
           /\ BehindIn(Live', arena', x) = {x}
<1>1. EndsMatch /\ LinksMatch /\ NoCycle /\ IndexMatchesArena BY DEF ListsSound
<1>2. Nil \notin Node /\ Live \subseteq Node /\ x \in Node BY DEF Live, Node, Nil
<1>3. Live' = Live \cup {x} BY <1>1, AttachLive
<1>4. PICK t : t = levels[i].tail OBVIOUS
<1>5. t # Nil => t \in Live /\ LevelOf(t) = i /\ arena[t].next = Nil
  BY <1>1, <1>4 DEF EndsMatch, Members
<1>6. \A m \in Live : /\ arena'[m].next = IF m = t THEN x ELSE arena[m].next
                      /\ arena[m].next \in Live \cup {Nil}
  BY <1>1, <1>2, <1>4 DEF Attaches, LinksMatch, Members
<1>7. arena'[x].next = Nil BY DEF Attaches
<1>8. BehindIn(Live', arena', x) = {x}
  <2>1. \A m \in BehindIn(Live', arena', x) : m \in {x}
    <3>1. {x} \in SUBSET Live' /\ \A k \in {x} : arena'[k].next \in {x} \cup {Nil} BY <1>3, <1>7
    <3> QED BY <3>1 DEF BehindIn
  <2>2. x \in BehindIn(Live', arena', x) BY <1>3 DEF BehindIn
  <2> QED BY <2>1, <2>2
<1>9. ASSUME NEW n \in Live PROVE BehindIn(Live', arena', n) = FromOn(n) \cup {y \in {x} : LevelOf(n) = i}
  <2>1. /\ n \in FromOn(n) /\ FromOn(n) \in SUBSET Live /\ Closed(FromOn(n))
        /\ FromOn(n) \subseteq Members(LevelOf(n))
        /\ \A S \in SUBSET Live : n \in S /\ Closed(S) => FromOn(n) \subseteq S
    BY <1>1, FromOnIsLeast DEF Members
  <2>2. BehindIn(Live', arena', n) \subseteq FromOn(n) \cup {y \in {x} : LevelOf(n) = i}
    <3> DEFINE S == FromOn(n) \cup {y \in {x} : LevelOf(n) = i}
    <3>1. S \in SUBSET Live' /\ n \in S BY <1>3, <2>1
    <3>2. \A k \in S : arena'[k].next \in S \cup {Nil}
      <4> SUFFICES ASSUME NEW k \in S PROVE arena'[k].next \in S \cup {Nil} OBVIOUS
      <4>1. CASE k = x BY <4>1, <1>7
      <4>2. CASE k # x /\ k = t
        <5>1. LevelOf(n) = i BY <4>2, <2>1, <1>2, <1>5 DEF Members
        <5> QED BY <5>1, <4>2, <2>1, <1>6
      <4>3. CASE k # x /\ k # t BY <4>3, <2>1, <1>6 DEF Closed
      <4> QED BY <4>1, <4>2, <4>3
    <3> HIDE DEF S
    <3>3. BehindIn(Live', arena', n) \subseteq S BY <3>1, <3>2 DEF BehindIn
    <3> QED BY <3>3 DEF S
  <2>3. ASSUME NEW S \in SUBSET Live', n \in S, \A k \in S : arena'[k].next \in S \cup {Nil}
        PROVE  /\ FromOn(n) \subseteq S
               /\ LevelOf(n) = i => x \in S
    <3>1. S \ {x} \in SUBSET Live /\ n \in S \ {x} BY <2>3, <1>3, <1>2
    <3>2. Closed(S \ {x})
      <4> SUFFICES ASSUME NEW k \in S \ {x} PROVE arena[k].next \in (S \ {x}) \cup {Nil} BY DEF Closed
      <4>1. k \in Live BY <3>1
      <4>2. CASE k = t BY <4>1, <4>2, <1>2, <1>5
      <4>3. CASE k # t BY <4>1, <4>3, <1>6, <2>3
      <4> QED BY <4>2, <4>3
    <3>3. FromOn(n) \subseteq S \ {x} BY <2>1, <3>1, <3>2
    <3>4. ASSUME LevelOf(n) = i PROVE x \in S
      <4>1. t \in FromOn(n) BY <3>4, <1>4, TailLast
      <4>2. t \in S /\ t \in Live BY <4>1, <3>3, <2>1
      <4>3. arena'[t].next = x BY <4>2, <1>6
      <4>4. x # Nil BY <1>2
      <4> QED BY <4>2, <4>3, <4>4, <2>3
    <3> QED BY <3>3, <3>4
  <2>4. FromOn(n) \cup {y \in {x} : LevelOf(n) = i} \subseteq BehindIn(Live', arena', n)
    BY <2>3, <2>1, <1>3 DEF BehindIn
  <2> QED BY <2>2, <2>4
<1> QED BY <1>8, <1>9

\* An order that joins gets behind the orders of its level.
LEMMA AttachQueue ==
    ASSUME TypeOK, ListsSound, NEW x \in Node \ Live, NEW i \in DOMAIN levels,
           NEW id, id \notin Resting, Attaches(x, i, id)
    PROVE  QueueOrder' = QueueOrder \cup {<<o, id>> : o \in {p \in Resting : index[p].level = i}}
<1>1. IndexMatchesArena BY DEF ListsSound
<1>2. /\ Resting' = Resting \cup {id}
      /\ \A o \in Resting : index'[o] = index[o]
      /\ index'[id].node = x
  BY DEF Attaches
<1>3. \A o \in Resting : /\ index[o].node \in Live /\ arena[index[o].node].id = o
                         /\ LevelOf(index[o].node) = index[o].level
  BY <1>1, NodeOf
<1>4. /\ \A n \in Live : BehindIn(Live', arena', n)
                           = FromOn(n) \cup {y \in {x} : LevelOf(n) = i}
      /\ BehindIn(Live', arena', x) = {x}
  BY AttachFromOn
<1>5. \A n : FromOn(n) = BehindIn(Live, arena, n) BY QueueIs
<1>6. \A o, p \in Resting : index'[p].node \in BehindIn(Live', arena', index'[o].node)
                             <=> index[p].node \in BehindIn(Live, arena, index[o].node)
  BY <1>2, <1>3, <1>4, <1>5
<1>7. \A o \in Resting : /\ index'[id].node \in BehindIn(Live', arena', index'[o].node) <=> index[o].level = i
                         /\ index'[o].node \notin BehindIn(Live', arena', index'[id].node)
  <2>1. \A n : FromOn(n) \subseteq Live BY DEF FromOn
  <2> QED BY <1>2, <1>3, <1>4, <2>1
<1>8. DOMAIN index = Resting /\ DOMAIN index' = Resting' BY DEF Resting
<1>9. \A o, p : <<o, p>> \in OrderIn(Live', arena', index') <=>
        \/ <<o, p>> \in OrderIn(Live, arena, index)
        \/ o \in Resting /\ p = id /\ index[o].level = i
  <2> SUFFICES ASSUME NEW o, NEW p
               PROVE  <<o, p>> \in OrderIn(Live', arena', index') <=>
                        \/ <<o, p>> \in OrderIn(Live, arena, index)
                        \/ o \in Resting /\ p = id /\ index[o].level = i
    OBVIOUS
  <2>1. <<o, p>> \in OrderIn(Live', arena', index') <=>
          /\ o \in Resting' /\ p \in Resting' /\ o # p
          /\ index'[p].node \in BehindIn(Live', arena', index'[o].node)
    BY <1>8 DEF OrderIn
  <2>2. <<o, p>> \in OrderIn(Live, arena, index) <=>
          /\ o \in Resting /\ p \in Resting /\ o # p
          /\ index[p].node \in BehindIn(Live, arena, index[o].node)
    BY <1>8 DEF OrderIn
  <2>3. CASE o \in Resting /\ p \in Resting BY <2>1, <2>2, <2>3, <1>2, <1>6
  <2>4. CASE o \in Resting /\ p = id BY <2>1, <2>2, <2>4, <1>2, <1>7
  <2>5. CASE o = id \/ o \notin Resting'
    BY <2>1, <2>2, <2>5, <1>2, <1>7
  <2>6. CASE p \notin Resting' BY <2>1, <2>2, <2>6, <1>2
  <2> QED BY <2>3, <2>4, <2>5, <2>6, <1>2
<1>10. /\ \A w \in OrderIn(Live', arena', index') : w = <<w[1], w[2]>>
       /\ \A w \in OrderIn(Live, arena, index) : w = <<w[1], w[2]>>
  BY DEF OrderIn
<1>11. OrderIn(Live', arena', index')
         = OrderIn(Live, arena, index) \cup {<<o, id>> : o \in {p \in Resting : index[p].level = i}}
  <2> DEFINE A == OrderIn(Live', arena', index')
             B == OrderIn(Live, arena, index)
             N == {<<o, id>> : o \in {p \in Resting : index[p].level = i}}
  <2>1. \A o, p : <<o, p>> \in N <=> o \in Resting /\ p = id /\ index[o].level = i OBVIOUS
  <2>2. \A w \in N : w = <<w[1], w[2]>> OBVIOUS
  <2>3. \A o, p : <<o, p>> \in A <=> <<o, p>> \in B \cup N BY <1>9, <2>1
  <2>4. /\ \A w \in A : w = <<w[1], w[2]>>
        /\ \A w \in B \cup N : w = <<w[1], w[2]>>
    BY <1>10, <2>2
  <2> HIDE DEF A, B, N
  <2>5. A = B \cup N BY <2>3, <2>4
  <2> QED BY <2>5 DEF A, B, N
<1> QED BY <1>11, QueueIs

------------------------------------------------------------------------------
(* The array-and-linked-list book as one of price-time priority *)

BookNow == [resting |-> RestingOrders, before |-> QueueOrder]

\* The orders stand at prices the callers quoted.
PricesQuoted == \A o \in Resting : RestingOrders[o].price \in Price

\* What rests, order by order.
LEMMA OrdersAre ==
    /\ BookNow.resting = RestingOrders /\ BookNow.before = QueueOrder
    /\ DOMAIN RestingOrders = Resting
    /\ \A o \in Resting : /\ RestingOrders[o].side = index[o].side
                          /\ RestingOrders[o].price = PriceAt(index[o].level)
                          /\ RestingOrders[o].qty = arena[index[o].node].qty
BY DEF BookNow, RestingOrders

\* A level holds orders of one side.
LEMMA OneSide ==
    ASSUME TypeOK, IndexMatchesArena, NotCrossed, BestBoundsSides,
           NEW o \in Resting, NEW p \in Resting, index[o].level = index[p].level
    PROVE  index[o].side = index[p].side
<1>1. /\ index[o].side \in Side /\ index[p].side \in Side /\ index[o].level \in Nat
      /\ \A s \in Side : best[s] \in Int
  BY DEF TypeOK, Entry, Window, Nil
<1>2. /\ best[index[o].side] # Nil /\ ~BetterPrice(index[o].side, index[o].level, best[index[o].side])
      /\ best[index[p].side] # Nil /\ ~BetterPrice(index[p].side, index[p].level, best[index[p].side])
  BY DEF BestBoundsSides
<1> QED BY <1>1, <1>2 DEF NotCrossed, BetterPrice, Side

\* There are as many orders as live nodes.
LEMMA OrdersCounted ==
    ASSUME TypeOK, IndexMatchesArena
    PROVE  IsFiniteSet(Live) /\ IsFiniteSet(Resting) /\ Cardinality(Resting) = Cardinality(Live)
<1>1. IsFiniteSet(Live)
  <2>1. IsFiniteSet(Node) BY FS_Interval, ArenaAssumption DEF Node
  <2> QED BY <2>1, FS_Subset DEF Live
<1>2. ExistsBijection(Live, Resting)
  <2> DEFINE f == [n \in Live |-> arena[n].id]
  <2>1. f \in [Live -> Resting] BY DEF Live
  <2>2. \A m, n \in Live : f[m] = f[n] => m = n BY DEF Live
  <2>3. \A o \in Resting : \E n \in Live : f[n] = o BY NodeOf
  <2> HIDE DEF f
  <2>4. f \in Bijection(Live, Resting) BY <2>1, <2>2, <2>3 DEF Bijection, Injection, Surjection, IsInjective
  <2> QED BY <2>4 DEF ExistsBijection
<1> QED BY <1>1, <1>2, FS_Bijection

\* alloc_node() fails exactly when as many orders rest as the arena has nodes.
LEMMA ArenaIsFull ==
    ASSUME TypeOK, ListsSound, NodesConserved
    PROVE  HasFreeNode <=> ~(Cardinality(Resting) >= ArenaCapacity)
<1>1. /\ IsFiniteSet(Live) /\ Cardinality(Resting) = Cardinality(Live) /\ Cardinality(Live) \in Nat
      /\ Live \subseteq Node
  BY OrdersCounted, FS_CardinalityType DEF ListsSound, Live
<1>2. IsFiniteSet(Node) /\ Cardinality(Node) = ArenaCapacity
  BY FS_Interval, ArenaAssumption DEF Node
<1>3. ASSUME HasFreeNode PROVE Cardinality(Live) < ArenaCapacity
  <2>1. NextFree \in Node \ Live BY <1>3, NextFreeIsFree
  <2>2. Live # Node BY <2>1
  <2>3. Live \in SUBSET Node BY <1>1
  <2>4. Cardinality(Live) <= Cardinality(Node) /\ (Cardinality(Node) = Cardinality(Live) => Node = Live)
    BY <1>2, <2>3, FS_Subset
  <2> QED BY <2>2, <2>4, <1>1, <1>2, ArenaAssumption
<1>4. ASSUME ~HasFreeNode PROVE Cardinality(Live) = ArenaCapacity
  <2>1. freeList = <<>> /\ bump = ArenaCapacity BY <1>4, ArenaAssumption DEF HasFreeNode, TypeOK
  <2>2. {freeList[i] : i \in DOMAIN freeList} = {} BY <2>1
  <2>3. Live = Node BY <2>1, <2>2 DEF NodesConserved, Node
  <2> QED BY <2>3, <1>2
<1> QED BY <1>1, <1>3, <1>4, ArenaAssumption

\* Seen from outside, the book is one of price-time priority.
LEMMA NowBooked ==
    ASSUME IInv, PricesQuoted
    PROVE  Booked(BookNow)
<1>1. /\ TypeOK /\ ListsSound /\ IndexMatchesArena /\ LinksMatch /\ NotCrossed /\ BestBoundsSides
  BY DEF IInv, ListsSound
<1>2. /\ BookNow.resting = RestingOrders /\ BookNow.before = QueueOrder
      /\ DOMAIN RestingOrders = Resting
      /\ \A o \in Resting : /\ RestingOrders[o].side = index[o].side
                            /\ RestingOrders[o].price = PriceAt(index[o].level)
                            /\ RestingOrders[o].qty = arena[index[o].node].qty
  BY OrdersAre
<1>3. \A o \in Resting : /\ index[o].node \in Live
                         /\ arena[index[o].node].id = o
                         /\ LevelOf(index[o].node) = index[o].level
                         /\ index[o].side \in Side
                         /\ arena[index[o].node].qty \in Nat
  BY <1>1, NodeOf
<1>4. IsFiniteSet(Resting) BY <1>1, OrdersCounted
<1>5. RestingOrders \in [Resting -> OrderAt]
  BY <1>3 DEF RestingOrders, PricesQuoted, OrderAt
<1>6. \A o, p : <<o, p>> \in QueueOrder <=>
        /\ o \in Resting /\ p \in Resting /\ o # p
        /\ index[p].node \in FromOn(index[o].node)
  BY DEF QueueOrder
<1>7. \A o, p \in Resting : index[p].node \in FromOn(index[o].node) => index[p].level = index[o].level
  <2> SUFFICES ASSUME NEW o \in Resting, NEW p \in Resting, index[p].node \in FromOn(index[o].node)
               PROVE  index[p].level = index[o].level
    OBVIOUS
  <2>1. LevelOf(index[p].node) = LevelOf(index[o].node) BY <1>1, <1>3, FromOnWithin
  <2> QED BY <2>1, <1>3
<1>8. \A o, p \in Resting : index[p].level = index[o].level =>
        index[p].node \in FromOn(index[o].node) \/ index[o].node \in FromOn(index[p].node)
  <2> SUFFICES ASSUME NEW o \in Resting, NEW p \in Resting, index[p].level = index[o].level
               PROVE  index[p].node \in FromOn(index[o].node) \/ index[o].node \in FromOn(index[p].node)
    OBVIOUS
  <2>1. LevelOf(index[p].node) = LevelOf(index[o].node) BY <1>3
  <2> QED BY <2>1, <1>1, <1>3, QueueTotal
<1>9. \A o, p \in Resting : SamePlace(BookNow, o, p) <=> index[o].level = index[p].level
  <2> SUFFICES ASSUME NEW o \in Resting, NEW p \in Resting
               PROVE  SamePlace(BookNow, o, p) <=> index[o].level = index[p].level
    OBVIOUS
  <2>1. index[o].level = index[p].level => index[o].side = index[p].side BY <1>1, OneSide
  <2>2. window.base \in Int /\ index[o].level \in Int /\ index[p].level \in Int
    BY <1>1 DEF TypeOK, Window, Entry
  <2>3. PriceAt(index[o].level) = PriceAt(index[p].level) <=> index[o].level = index[p].level
    <3>1. PICK i \in Int, j \in Int, k \in Int :
            i = index[o].level /\ j = index[p].level /\ k = window.base
      BY <2>2
    <3>2. k + i = k + j <=> i = j OBVIOUS
    <3> QED BY <3>1, <3>2 DEF PriceAt
  <2> QED BY <2>1, <2>3, <1>2 DEF SamePlace
<1>10. Queued(BookNow)
  <2>1. \A x, y : <<x, y>> \in QueueOrder => x \in Resting /\ y \in Resting /\ x # y /\ SamePlace(BookNow, x, y)
    BY <1>6, <1>7, <1>9
  <2>2. \A x, y \in Resting : x # y /\ SamePlace(BookNow, x, y) => <<x, y>> \in QueueOrder \/ <<y, x>> \in QueueOrder
    BY <1>6, <1>8, <1>9
  <2>3. ASSUME NEW x, NEW y, NEW z, <<x, y>> \in QueueOrder, <<y, z>> \in QueueOrder
        PROVE  <<x, z>> \in QueueOrder
    <3>1. /\ x \in Resting /\ y \in Resting /\ z \in Resting /\ x # y
          /\ index[y].node \in FromOn(index[x].node) /\ index[z].node \in FromOn(index[y].node)
      BY <2>3, <1>6
    <3>2. index[x].node \in Live /\ index[y].node \in Live /\ index[x].node # index[y].node
      BY <3>1, <1>3
    <3>3. index[z].node \in FromOn(index[x].node) BY <3>1, <3>2, <1>1, FromOnWithin
    <3>4. index[x].node \notin FromOn(index[y].node) BY <3>1, <3>2, <1>1, QueueStrict
    <3>5. x # z BY <3>1, <3>4
    <3> QED BY <3>1, <3>3, <3>5, <1>6
  <2> QED BY <2>1, <2>2, <2>3, <1>2 DEF Queued
<1> QED BY <1>2, <1>4, <1>5, <1>10 DEF Booked

\* A request reaches nothing when it does not reach the other side's best level.
LEMMA NothingReached ==
    ASSUME IInv, NEW r, r.side \in Side, r.price \in Int, NEW s, s = Opposite(r.side),
           best[s] = Nil \/ ~Takes(r, PriceAt(best[s]))
    PROVE  Reached(BookNow, r) = {}
<1> SUFFICES ASSUME NEW o \in Resting, index[o].side = s, Takes(r, PriceAt(index[o].level))
             PROVE  FALSE
  BY OrdersAre DEF Reached
<1>1. s \in Side /\ window.base \in Int /\ index[o].level \in Int /\ best[s] \in Int
  BY DEF IInv, TypeOK, Window, Entry, Nil, Opposite, Side
<1>2. best[s] # Nil /\ ~BetterPrice(s, index[o].level, best[s]) BY DEF IInv, BestBoundsSides
<1>3. ~Takes(r, PriceAt(best[s])) BY <1>2
<1> QED BY <1>1, <1>2, <1>3 DEF Takes, Reaches, BetterPrice, PriceAt, Opposite, Side

\* The order at the head of the best level is the one a request takes first.
LEMMA HeadIsFirst ==
    ASSUME IInv, NEW r, r.side \in Side, NEW s, s = Opposite(r.side), NEW b, b = best[s],
           b # Nil, Takes(r, PriceAt(b)), NEW n, n = levels[b].head
    PROVE  /\ n \in Live
           /\ First(BookNow, r, arena[n].id)
           /\ arena[n].id \in Resting
           /\ index[arena[n].id].node = n
           /\ RestingOrders[arena[n].id].price = PriceAt(b)
           /\ RestingOrders[arena[n].id].qty = arena[n].qty
<1>1. /\ TypeOK /\ ListsSound /\ IndexMatchesArena /\ NotCrossed /\ BestBoundsSides
      /\ s \in Side
  BY DEF IInv, ListsSound, Opposite, Side
<1>2. b \in DOMAIN levels /\ b \in Int /\ window.base \in Int BY <1>1 DEF TypeOK, Window
<1>3. n # Nil BY <1>1 DEF IInv, BestOccupied
<1>4. n \in Live /\ LevelOf(n) = b BY <1>2, <1>3, <1>1 DEF ListsSound, EndsMatch, Members
<1>5. PICK m : m = arena[n].id OBVIOUS
<1>6. m \in Resting /\ index[m].node = n /\ index[m].level = b BY <1>4, <1>5 DEF Live, LevelOf
<1>7. index[m].side = s BY <1>1, <1>6, BestSide
<1>8. \A o \in Resting : o \in Reached(BookNow, r) <=> index[o].side = s /\ Takes(r, PriceAt(index[o].level))
  BY OrdersAre DEF Reached
<1>9. Reached(BookNow, r) \subseteq Resting BY OrdersAre DEF Reached
<1>10. ASSUME NEW o \in Reached(BookNow, r), o # m PROVE Outranks(BookNow, m, o)
  <2>1. o \in Resting /\ index[o].side = s BY <1>8, <1>9, <1>10
  <2>2. index[o].level \in Int /\ ~BetterPrice(s, index[o].level, b)
    BY <2>1, <1>1 DEF TypeOK, Entry, BestBoundsSides
  <2>3. CASE index[o].level = b
    <3>1. index[o].node \in Live /\ LevelOf(index[o].node) = b BY <2>1, <2>3, <1>1, NodeOf
    <3>2. index[o].node \in FromOn(n) BY <3>1, <1>1, HeadFirst
    <3>3. <<m, o>> \in QueueOrder BY <3>2, <2>1, <1>6, <1>10 DEF QueueOrder
    <3> QED BY <3>3, OrdersAre DEF Outranks
  <2>4. CASE index[o].level # b
    <3>1. BetterPrice(s, PriceAt(b), PriceAt(index[o].level))
      BY <2>2, <2>4, <1>1, <1>2 DEF BetterPrice, PriceAt, Side
    <3> QED BY <3>1, <1>6, <1>7, <2>1, OrdersAre DEF Outranks
  <2> QED BY <2>3, <2>4
<1>11. m \in Reached(BookNow, r) BY <1>6, <1>7, <1>8
<1>12. First(BookNow, r, m) BY <1>10, <1>11 DEF First
<1> QED BY <1>4, <1>5, <1>6, <1>12, OrdersAre

------------------------------------------------------------------------------
(* What add() decides before it matches *)

\* The orders a request reaches are those of the levels it reaches: a level behind
\* the best one of a side holds no order of the other.
LEMMA ReachedByLevel ==
    ASSUME IInv, NEW r, r.side \in Side, r.type # "Market",
           NEW s, s = Opposite(r.side), best[s] # Nil, NEW o \in Resting
    PROVE  o \in Reached(BookNow, r) <=> index[o].level \in ReachedLevels(r)
<1>1. /\ TypeOK /\ NotCrossed /\ BestBoundsSides /\ s \in Side /\ IndexMatchesArena
  BY DEF IInv, ListsSound, Opposite, Side
<1>2. o \in Reached(BookNow, r) <=> index[o].side = s /\ Reaches(r.side, r.price, PriceAt(index[o].level))
  BY OrdersAre DEF Reached, Takes
<1>3. index[o].level \in ReachedLevels(r) <=>
        ~BetterPrice(s, index[o].level, best[s]) /\ Reaches(r.side, r.price, PriceAt(index[o].level))
  BY <1>1 DEF ReachedLevels, IndexMatchesArena
<1>4. index[o].side = s => ~BetterPrice(s, index[o].level, best[s]) BY <1>1 DEF BestBoundsSides
<1>5. ~BetterPrice(s, index[o].level, best[s]) => index[o].side = s
  <2>1. /\ index[o].side \in Side /\ index[o].level \in Int /\ best["Buy"] \in Int /\ best["Sell"] \in Int
    BY <1>1 DEF TypeOK, Entry, Window, Nil, Side
  <2>2. best[index[o].side] # Nil /\ ~BetterPrice(index[o].side, index[o].level, best[index[o].side])
    BY <1>1 DEF BestBoundsSides
  <2> QED BY <1>1, <2>1, <2>2 DEF NotCrossed, BetterPrice, Side
<1> QED BY <1>2, <1>3, <1>4, <1>5

\* The levels' cached totals add up to what rests within the request's reach.
LEMMA TotalsReached ==
    ASSUME IInv, PricesQuoted, NEW r, r.side \in Side, r.type # "Market",
           best[Opposite(r.side)] # Nil
    PROVE  SumFunctionOnSet([i \in DOMAIN levels |-> levels[i].total], ReachedLevels(r))
             = TotalQty(BookNow, Reached(BookNow, r))
<1> DEFINE I == ReachedLevels(r)
           P == [i \in I |-> Members(i)]
           U == UNION {P[i] : i \in I}
           t == [i \in DOMAIN levels |-> levels[i].total]
           h == [n \in Live |-> arena[n].id]
           g == [o \in Resting |-> RestingOrders[o].qty]
<1>1. TypeOK /\ IndexMatchesArena /\ TotalsExact BY DEF IInv, ListsSound
<1>2. IsFiniteSet(I) /\ I \subseteq DOMAIN levels
  <2>1. IsFiniteSet(DOMAIN levels) BY <1>1, FS_Interval DEF TypeOK, Window
  <2>2. I \in SUBSET DOMAIN levels BY DEF ReachedLevels
  <2> QED BY <2>1, <2>2, FS_Subset
<1>3. /\ \A i : Members(i) \subseteq Node /\ IsFiniteSet(Members(i))
      /\ \A n \in Node : QtyOf[n] = arena[n].qty /\ QtyOf[n] \in Int
  BY <1>1, Addends DEF TypeOK
<1>4. SumFunctionOnSet(t, I) = SumFunctionOnSet(QtyOf, U)
  <2>1. \A i \in I : IsFiniteSet(P[i]) BY <1>3
  <2>2. \A i, j \in I : i # j => P[i] \cap P[j] = {} BY DEF Members
  <2>3. \A i \in I : \A x \in P[i] : QtyOf[x] \in Int BY <1>3
  <2>4. \A i \in I : t[i] = SumFunctionOnSet(QtyOf, P[i])
    BY <1>1, <1>2 DEF TotalsExact, QtyOf
  <2> HIDE DEF I, P, t
  <2> QED BY <1>2, <2>1, <2>2, <2>3, <2>4, SumOfSums
<1>5. U \subseteq Live /\ U \subseteq Node /\ \A n : n \in U <=> n \in Live /\ LevelOf(n) \in I
  BY DEF Members, Live
<1>6. {h[n] : n \in U} = Reached(BookNow, r)
  <2>1. \A o \in Resting : o \in Reached(BookNow, r) <=> index[o].level \in I
    BY ReachedByLevel
  <2>2. Reached(BookNow, r) \subseteq Resting BY OrdersAre DEF Reached
  <2>3. \A n \in Live : /\ h[n] \in Resting /\ index[h[n]].level = LevelOf(n)
    BY DEF Live, LevelOf
  <2>4. \A o \in Resting : \E n \in Live : h[n] = o /\ LevelOf(n) = index[o].level
    BY <1>1, NodeOf
  <2> HIDE DEF h, I, U
  <2> QED BY <2>1, <2>2, <2>3, <2>4, <1>5
<1>7. SumFunctionOnSet(g, {h[n] : n \in U}) = SumFunctionOnSet(QtyOf, U)
  <2>1. IsFiniteSet(U)
    <3>1. IsFiniteSet(Live) BY <1>1, OrdersCounted
    <3> QED BY <3>1, <1>5, FS_Subset
  <2>2. \A n \in U : QtyOf[n] \in Int BY <1>3, <1>5
  <2>3. \A m, n \in U : h[m] = h[n] => m = n BY <1>5 DEF Live
  <2>4. \A n \in U : g[h[n]] = QtyOf[n]
    <3> SUFFICES ASSUME NEW n \in U PROVE g[h[n]] = QtyOf[n] OBVIOUS
    <3>1. n \in Live /\ n \in Node BY <1>5
    <3>2. h[n] \in Resting /\ index[h[n]].node = n BY <3>1 DEF Live
    <3>3. RestingOrders[h[n]].qty = arena[n].qty BY <3>2, OrdersAre
    <3> HIDE DEF h
    <3> QED BY <3>1, <3>2, <3>3, <1>3
  <2> HIDE DEF U, h, g
  <2> QED BY <2>1, <2>2, <2>3, <2>4, SumRename
<1>8. TotalQty(BookNow, Reached(BookNow, r)) = SumFunctionOnSet(g, Reached(BookNow, r))
  BY OrdersAre DEF TotalQty
<1> HIDE DEF g, h, U, t, I
<1>9. SumFunctionOnSet(t, I) = TotalQty(BookNow, Reached(BookNow, r)) BY <1>4, <1>6, <1>7, <1>8
<1> QED BY <1>9 DEF t, I

\* can_fully_fill() and the PostOnly check reject the requests that price-time
\* priority kills, and besides only an FOK order of quantity 0, which takes nothing.
THEOREM PrecheckIsExact ==
    ASSUME IInv, PricesQuoted, NEW r, r.side \in Side, r.price \in Int, r.qty \in Nat
    PROVE  /\ ~RejectedOnArrival(r) => ~Killed(BookNow, r)
           /\ RejectedOnArrival(r) => Killed(BookNow, r) \/ (r.type = "FOK" /\ r.qty = 0)
<1> DEFINE s == Opposite(r.side)
           T == TotalQty(BookNow, Reached(BookNow, r))
<1>1. Booked(BookNow) BY NowBooked
<1>2. T \in Nat
  <2>1. Reached(BookNow, r) \in SUBSET DOMAIN BookNow.resting BY DEF Reached
  <2> QED BY <2>1, <1>1, TotalIsNat
<1>3. Unfilled(BookNow, r) > 0 <=> T < r.qty
  <2>1. Unfilled(BookNow, r) = r.qty - Min({r.qty, T}) BY DEF Unfilled
  <2>2. Min({r.qty, T}) = IF r.qty <= T THEN r.qty ELSE T BY <1>2, MinOfTwo
  <2> HIDE DEF T
  <2> QED BY <1>2, <2>1, <2>2
<1>4. best[s] = Nil => Reached(BookNow, r) = {} BY NothingReached
<1>5. Reached(BookNow, r) = {} => T = 0
  <2>1. ASSUME Reached(BookNow, r) = {} PROVE Unfilled(BookNow, r) = r.qty BY <2>1, <1>1, NothingTaken
  <2>2. ASSUME Reached(BookNow, r) = {} PROVE T = 0
    <3>1. T = SumFunctionOnSet([o \in DOMAIN BookNow.resting |-> BookNow.resting[o].qty], {})
      BY <2>2 DEF TotalQty
    <3> QED BY <3>1, FS_EmptySet, SumTakeOne
  <2> QED BY <2>2
<1>6. ASSUME r.type = "FOK", best[s] # Nil
      PROVE  /\ CanFullyFill(r) => T >= r.qty
             /\ ~CanFullyFill(r) => T < r.qty \/ r.qty = 0
  <2>1. SumFunctionOnSet([i \in DOMAIN levels |-> levels[i].total], ReachedLevels(r)) = T
    BY <1>6, TotalsReached
  <2>2. CanFullyFill(r) <=> ReachedLevels(r) # {} /\ T >= r.qty
    <3> HIDE DEF T
    <3> QED BY <2>1, <1>6 DEF CanFullyFill
  <2>3. ReachedLevels(r) = {} => Reached(BookNow, r) = {}
    <3>1. \A o \in Resting : o \in Reached(BookNow, r) <=> index[o].level \in ReachedLevels(r)
      BY <1>6, ReachedByLevel
    <3>2. Reached(BookNow, r) \subseteq Resting BY OrdersAre DEF Reached
    <3> QED BY <3>1, <3>2
  <2> HIDE DEF T, s
  <2> QED BY <2>2, <2>3, <1>2, <1>5
<1>7. ASSUME r.type = "FOK", best[s] = Nil
      PROVE  T = 0 /\ (CanFullyFill(r) <=> r.qty = 0)
  BY <1>4, <1>5, <1>7 DEF CanFullyFill
<1>8. CASE r.type = "FOK"
  <2>1. Killed(BookNow, r) <=> T < r.qty BY <1>3, <1>8 DEF Killed
  <2>2. RejectedOnArrival(r) <=> ~CanFullyFill(r) BY <1>8 DEF RejectedOnArrival
  <2> HIDE DEF T, s
  <2> QED BY <2>1, <2>2, <1>2, <1>6, <1>7, <1>8
<1>9. CASE r.type = "PostOnly"
  <2>1. Killed(BookNow, r) <=> Reached(BookNow, r) # {} BY <1>9 DEF Killed
  <2>2. RejectedOnArrival(r) <=> best[s] # Nil /\ Reaches(r.side, r.price, PriceAt(best[s]))
    BY <1>9 DEF RejectedOnArrival
  <2>3. \A p : Takes(r, p) <=> Reaches(r.side, r.price, p) BY <1>9 DEF Takes
  <2>4. ~RejectedOnArrival(r) => Reached(BookNow, r) = {} BY <2>2, <2>3, NothingReached
  <2>5. RejectedOnArrival(r) => Reached(BookNow, r) # {}
    <3> SUFFICES ASSUME RejectedOnArrival(r) PROVE Reached(BookNow, r) # {} OBVIOUS
    <3>1. First(BookNow, r, arena[levels[best[s]].head].id) BY <2>2, <2>3, HeadIsFirst
    <3> QED BY <3>1 DEF First
  <2> QED BY <2>1, <2>4, <2>5
<1>10. CASE r.type # "FOK" /\ r.type # "PostOnly" BY <1>10 DEF Killed, RejectedOnArrival
<1> QED BY <1>8, <1>9, <1>10

------------------------------------------------------------------------------
(* What the steps do to the book as one of price-time priority *)

\* A step that leaves the book alone leaves its orders and queues alone.
LEMMA SameOrders ==
    ASSUME TypeOK, ListsSound, UNCHANGED book
    PROVE  RestingOrders' = RestingOrders /\ QueueOrder' = QueueOrder
<1>1. window' = window /\ arena' = arena /\ index' = index BY DEF book
<1>2. Resting' = Resting BY <1>1 DEF Resting
<1>3. Live' = Live BY <1>1, <1>2 DEF Live
<1>4. QueueOrder' = QueueOrder BY <1>1, <1>2, <1>3, SameQueue DEF ListsSound
<1>5. RestingOrders' = RestingOrders BY <1>1, <1>2 DEF RestingOrders, PriceAt
<1> QED BY <1>4, <1>5

\* A rebase moves the axis and the orders on it: neither prices nor queues change.
LEMMA ShiftOrders ==
    ASSUME IInv, EnsureIndex
    PROVE  RestingOrders' = RestingOrders /\ QueueOrder' = QueueOrder
<1>1. PICK k : index' = ShiftedIndex(k) BY DEF EnsureIndex
<1>2. arena' = arena BY DEF EnsureIndex
<1>3. /\ Resting' = Resting
      /\ \A o \in Resting : /\ index'[o].node = index[o].node
                            /\ index'[o].side = index[o].side
  BY <1>1 DEF ShiftedIndex, Resting, IInv, TypeOK, Entry
<1>4. Live' = Live BY <1>2, <1>3 DEF Live
<1>5. QueueOrder' = QueueOrder BY <1>2, <1>3, <1>4, SameQueue DEF IInv, ListsSound
<1>6. \A o \in Resting : window'.base + index'[o].level = PriceAt(index[o].level)
  <2>1. [Next]_vars BY DEF Next, AddSteps
  <2>2. CASE UNCHANGED vars BY <2>2 DEF vars, PriceAt
  <2>3. CASE ~(UNCHANGED vars)
    <3>1. \A id \in Resting \cap Resting' : window'.base + index'[id].level = PriceAt(index[id].level)
      BY <2>1, <2>3, StepKeepsPrice
    <3> QED BY <3>1, <1>3
  <2> QED BY <2>2, <2>3
<1>7. RestingOrders' = RestingOrders
  <2>1. RestingOrders' = [o \in Resting |-> [side |-> index'[o].side,
                                             price |-> window'.base + index'[o].level,
                                             qty |-> arena'[index'[o].node].qty]]
    BY <1>3 DEF RestingOrders, PriceAt
  <2> QED BY <2>1, <1>2, <1>3, <1>6 DEF RestingOrders
<1> QED BY <1>5, <1>7

\* An order that leaves takes itself and its place out of the book.
LEMMA LeavesBook ==
    ASSUME IInv, NEW x \in Live, NEW s, NEW i, Leaves(x, s, i), NEW m, m = arena[x].id
    PROVE  /\ Without(BookNow, m, BookNow')
           /\ Resting' = Resting \ {m}
           /\ RestingOrders' = [o \in Resting \ {m} |-> RestingOrders[o]]
           /\ QueueOrder' = Among(BookNow, Resting')
<1>1. Detaches(x) /\ TakesQty(x) /\ window' = window BY DEF Leaves
<1>2. TypeOK /\ ListsSound /\ IndexMatchesArena BY DEF IInv, ListsSound
<1>3. Resting' = Resting \ {m} /\ \A o \in Resting \ {m} : index'[o] = index[o]
  BY <1>1 DEF Detaches, Resting
<1>4. \A o \in Resting \ {m} : arena'[index[o].node].qty = arena[index[o].node].qty
  <2>1. \A o \in Resting \ {m} : index[o].node \in Node /\ index[o].node # x
    BY <1>2, NodeOf DEF Live
  <2> QED BY <2>1, <1>1 DEF TakesQty
<1>5. RestingOrders' = [o \in Resting \ {m} |-> RestingOrders[o]]
  <2>1. RestingOrders' = [o \in Resting \ {m} |-> [side |-> index'[o].side,
                                                   price |-> window'.base + index'[o].level,
                                                   qty |-> arena'[index'[o].node].qty]]
    BY <1>3 DEF RestingOrders, PriceAt
  <2> QED BY <2>1, <1>1, <1>3, <1>4 DEF RestingOrders, PriceAt
<1>6. QueueOrder' = Among(BookNow, Resting')
  <2>1. QueueOrder' = {pair \in QueueOrder : pair[1] \in Resting' /\ pair[2] \in Resting'}
    BY <1>1, <1>2, DetachQueue
  <2> QED BY <2>1, OrdersAre DEF Among
<1>7. /\ BookNow.resting = RestingOrders
      /\ BookNow'.resting = RestingOrders' /\ BookNow'.before = QueueOrder'
      /\ DOMAIN RestingOrders = Resting
  BY DEF BookNow, RestingOrders
<1>8. Without(BookNow, m, BookNow')
  <2>1. DOMAIN RestingOrders' = Resting' BY <1>3, <1>5
  <2> QED BY <2>1, <1>5, <1>6, <1>7 DEF Without
<1> QED BY <1>3, <1>5, <1>6, <1>8

\* An order that loses quantity keeps its place.
LEMMA SmallerBookOrder ==
    ASSUME IInv, NEW n \in Live, NEW b \in DOMAIN levels, b = LevelOf(n),
           NEW q \in Nat, q <= arena[n].qty,
           arena' = [arena EXCEPT ![n].qty = @ - q],
           levels' = [levels EXCEPT ![b].total = @ - q],
           UNCHANGED <<window, best, bump, freeList, index>>,
           NEW m, m = arena[n].id
    PROVE  /\ Reduced(BookNow, m, q, BookNow')
           /\ Resting' = Resting
           /\ RestingOrders' = [RestingOrders EXCEPT ![m].qty = @ - q]
           /\ QueueOrder' = QueueOrder
<1>1. TypeOK /\ ListsSound /\ IndexMatchesArena BY DEF IInv, ListsSound
<1>2. window' = window /\ index' = index /\ Resting' = Resting BY DEF Resting
<1>3. n \in Node /\ \A k \in Node : /\ arena'[k].qty = IF k = n THEN arena[n].qty - q ELSE arena[k].qty
                                    /\ arena'[k].next = arena[k].next
                                    /\ arena'[k].id = arena[k].id
  BY <1>1 DEF TypeOK, Live
<1>4. Live' = Live BY <1>2, <1>3 DEF Live
<1>5. QueueOrder' = QueueOrder
  <2>1. \A k \in Live : arena'[k].next = arena[k].next BY <1>3 DEF Live
  <2> QED BY <2>1, <1>1, <1>2, <1>4, SameQueue
<1>6. \A o \in Resting : /\ index[o].node \in Node
                         /\ index[o].node = n <=> o = m
  BY <1>1, NodeOf DEF Live
<1>7. RestingOrders' = [RestingOrders EXCEPT ![m].qty = @ - q]
  <2>1. m \in Resting /\ RestingOrders[m].qty = arena[n].qty /\ index[m].node = n
    BY OrdersAre DEF Live
  <2>2. RestingOrders' = [o \in Resting |-> [side |-> index[o].side,
                                             price |-> PriceAt(index[o].level),
                                             qty |-> arena'[index[o].node].qty]]
    BY <1>2 DEF RestingOrders, PriceAt
  <2>3. RestingOrders' = [o \in Resting |->
          IF o = m THEN [RestingOrders[o] EXCEPT !.qty = RestingOrders[o].qty - q] ELSE RestingOrders[o]]
    <3>1. ASSUME NEW o \in Resting
          PROVE  [side |-> index[o].side, price |-> PriceAt(index[o].level), qty |-> arena'[index[o].node].qty]
                 = IF o = m THEN [RestingOrders[o] EXCEPT !.qty = RestingOrders[o].qty - q] ELSE RestingOrders[o]
      BY <1>3, <1>6, <2>1 DEF RestingOrders
    <3> QED BY <2>2, <3>1
  <2> QED BY <2>1, <2>3, OrdersAre
<1>8. /\ BookNow.resting = RestingOrders /\ BookNow.before = QueueOrder
      /\ BookNow'.resting = RestingOrders' /\ BookNow'.before = QueueOrder'
  BY DEF BookNow
<1>9. Reduced(BookNow, m, q, BookNow') BY <1>5, <1>7, <1>8 DEF Reduced
<1> QED BY <1>2, <1>5, <1>7, <1>9

\* An order that joins stands behind those of its side and price.
LEMMA JoinsBook ==
    ASSUME IInv, PushBack
    PROVE  /\ RestingOrders' = [o \in Resting \cup {taker.id} |->
                 IF o = taker.id THEN [side |-> taker.side, price |-> taker.price, qty |-> taker.qty]
                 ELSE RestingOrders[o]]
           /\ QueueOrder' = QueueOrder \cup
                {<<o, taker.id>> : o \in {k \in Resting : /\ RestingOrders[k].side = taker.side
                                                          /\ RestingOrders[k].price = taker.price}}
<1>1. PICK n, i, s, id :
        /\ n = NextFree /\ i = Slot(window, taker.price) /\ s = taker.side /\ id = taker.id
        /\ n \in Node \ Live
        /\ i \in DOMAIN levels /\ i \in Int
        /\ s \in Side /\ id \in OrderId \ Resting /\ taker.qty \in Nat
        /\ arena' = [m \in Node |->
                       IF m = n THEN [id |-> id, qty |-> taker.qty, prev |-> levels[i].tail, next |-> Nil]
                       ELSE IF m = levels[i].tail THEN [arena[m] EXCEPT !.next = n]
                       ELSE arena[m]]
        /\ levels' = [levels EXCEPT ![i] = Joined(levels[i], n, taker.qty)]
        /\ Resting' \subseteq OrderId
        /\ index' \in [Resting' -> Entry]
        /\ index'[id].side = s
        /\ Attaches(n, i, id)
  BY PushBackAttaches
<1>2. /\ TypeOK /\ ListsSound /\ IndexMatchesArena /\ NotCrossed /\ BestBoundsSides
      /\ window' = window /\ Apart(taker)
      /\ window.base \in Int /\ taker.price \in Int
      /\ \A o \in Resting : index[o].level \in Int
      /\ \A t \in Side : best[t] \in Int
  <2>1. /\ TypeOK /\ ListsSound /\ IndexMatchesArena /\ NotCrossed /\ BestBoundsSides
    BY DEF IInv, ListsSound
  <2>2. window' = window /\ Apart(taker) BY DEF IInv, PushBack, TakerReady
  <2>3. window.base \in Int /\ taker.price \in Int /\ \A o \in Resting : index[o].level \in Int
    BY <2>1 DEF TypeOK, Window, Entry
  <2>4. \A t \in Side : best[t] \in Int BY <2>1 DEF TypeOK, Window, Nil
  <2> QED BY <2>1, <2>2, <2>3, <2>4
<1>3. PriceAt(i) = taker.price BY <1>1, <1>2 DEF PriceAt, Slot
<1>4. /\ Resting' = Resting \cup {id}
      /\ \A o \in Resting : index'[o] = index[o]
      /\ index'[id].level = i /\ index'[id].node = n
  BY <1>1 DEF Attaches
<1>5. \A o \in Resting : /\ index[o].node \in Node /\ index[o].node # n /\ index[o].node \in Live
  BY <1>1, <1>2, NodeOf DEF Live
<1>6. arena'[n].qty = taker.qty /\ \A o \in Resting : arena'[index[o].node].qty = arena[index[o].node].qty
  BY <1>1, <1>2, <1>5 DEF TypeOK
<1>7. RestingOrders' = [o \in Resting \cup {id} |->
         IF o = id THEN [side |-> s, price |-> taker.price, qty |-> taker.qty] ELSE RestingOrders[o]]
  <2>1. RestingOrders' = [o \in Resting \cup {id} |-> [side |-> index'[o].side,
                                                       price |-> window.base + index'[o].level,
                                                       qty |-> arena'[index'[o].node].qty]]
    BY <1>2, <1>4 DEF RestingOrders, PriceAt
  <2>2. window.base + i = taker.price BY <1>3 DEF PriceAt
  <2>3. ASSUME NEW o \in Resting \cup {id}
        PROVE  [side |-> index'[o].side, price |-> window.base + index'[o].level,
                qty |-> arena'[index'[o].node].qty]
               = IF o = id THEN [side |-> s, price |-> taker.price, qty |-> taker.qty] ELSE RestingOrders[o]
    <3>1. CASE o = id BY <3>1, <2>2, <1>1, <1>4, <1>6
    <3>2. CASE o # id BY <3>2, <1>4, <1>6 DEF RestingOrders, PriceAt
    <3> QED BY <3>1, <3>2
  <2> QED BY <2>1, <2>3
<1>8. \A o \in Resting : RestingOrders[o].side = s /\ RestingOrders[o].price = taker.price
                         <=> index[o].level = i
  <2> SUFFICES ASSUME NEW o \in Resting
               PROVE  RestingOrders[o].side = s /\ RestingOrders[o].price = taker.price <=> index[o].level = i
    OBVIOUS
  <2>1. RestingOrders[o].price = window.base + index[o].level /\ RestingOrders[o].side = index[o].side
    BY OrdersAre DEF PriceAt
  <2>2. taker.price = window.base + i BY <1>3 DEF PriceAt
  <2>3. RestingOrders[o].price = taker.price <=> index[o].level = i
    <3>1. PICK j \in Int, k \in Int : j = index[o].level /\ k = window.base BY <1>2
    <3>2. k + j = k + i <=> j = i BY <1>1
    <3> QED BY <3>1, <3>2, <2>1, <2>2
  <2>4. ASSUME index[o].level = i PROVE index[o].side = s
    <3>1. index[o].side \in Side /\ best[index[o].side] # Nil
          /\ ~BetterPrice(index[o].side, i, best[index[o].side])
      BY <2>4, <1>2 DEF BestBoundsSides, TypeOK, Entry
    <3>2. best[Opposite(s)] = Nil \/ ~Reaches(s, window.base + i, window.base + best[Opposite(s)])
      BY <1>1, <1>2, <2>2 DEF Apart, PriceAt
    <3>3. Opposite(s) \in Side BY DEF Opposite, Side
    <3> QED BY <3>1, <3>2, <3>3, <1>1, <1>2 DEF Reaches, BetterPrice, Opposite, Side
  <2> QED BY <2>1, <2>3, <2>4
<1>9. QueueOrder' = QueueOrder \cup {<<o, id>> : o \in {p \in Resting : index[p].level = i}}
  BY <1>1, <1>2, AttachQueue
<1>10. {p \in Resting : index[p].level = i}
        = {k \in Resting : RestingOrders[k].side = s /\ RestingOrders[k].price = taker.price}
  BY <1>8
<1> QED BY <1>1, <1>7, <1>9, <1>10

------------------------------------------------------------------------------
(* OrderBookV2 implements BookPromise *)

\* The promise instantiates the operators of price-time priority anew; they are
\* the same ones.
LEMMA PromiseOperators ==
    /\ \A b, r : Promise!Killed(b, r) <=> Killed(b, r)
    /\ \A b, r : Promise!Remains(b, r) <=> Remains(b, r)
    /\ \A b, r : Promise!AfterTrades(b, r) = AfterTrades(b, r)
    /\ \A b, r : Promise!Trades(b, r) = Trades(b, r)
    /\ \A b, S : Promise!Among(b, S) = Among(b, S)
    /\ \A b, r : Promise!AfterRest(b, r) = AfterRest(b, r)
    /\ \A b, r : Promise!QueuesAfterRest(b, r) = QueuesAfterRest(b, r)
    /\ \A S : Promise!Cardinality(S) = Cardinality(S)
<1>1. \A b, r : Promise!Reached(b, r) = Reached(b, r)
  BY DEF Promise!Reached, Reached, Promise!Takes, Takes, Promise!Reaches, Reaches,
         Promise!Opposite, Opposite
<1>2. \A f, S : Promise!SumFunctionOnSet(f, S) = SumFunctionOnSet(f, S)
  BY DEF Promise!SumFunctionOnSet, SumFunctionOnSet, Promise!FoldFunctionOnSet, FoldFunctionOnSet,
         Promise!MapThenFoldSet, MapThenFoldSet
<1>3. \A S : Promise!Cardinality(S) = Cardinality(S) BY DEF Promise!Cardinality, Cardinality
<1>4. \A S : Promise!SetToSeqs(S) = SetToSeqs(S) BY <1>3 DEF Promise!SetToSeqs, SetToSeqs
<1>5. \A S : Promise!Min(S) = Min(S) BY DEF Promise!Min, Min
<1>6. \A b, S : Promise!TotalQty(b, S) = TotalQty(b, S) BY <1>2 DEF Promise!TotalQty, TotalQty
<1>7. \A b, x, y : Promise!Outranks(b, x, y) <=> Outranks(b, x, y)
  BY DEF Promise!Outranks, Outranks, Promise!BetterPrice, BetterPrice
<1>8. \A b, r, o : Promise!QtyAhead(b, r, o) = QtyAhead(b, r, o)
  BY <1>1, <1>6, <1>7 DEF Promise!QtyAhead, QtyAhead
<1>9. \A b, r : Promise!Makers(b, r) = Makers(b, r) BY <1>1, <1>8 DEF Promise!Makers, Makers
<1>10. \A b, r, o : Promise!FillOf(b, r, o) = FillOf(b, r, o)
  BY <1>5, <1>8 DEF Promise!FillOf, FillOf
<1>11. \A b, r : Promise!Exhausted(b, r) = Exhausted(b, r)
  BY <1>9, <1>10 DEF Promise!Exhausted, Exhausted
<1>12. \A b, r : Promise!Unfilled(b, r) = Unfilled(b, r)
  BY <1>1, <1>5, <1>6 DEF Promise!Unfilled, Unfilled
<1>13. \A b, r : Promise!MakersInOrder(b, r) = MakersInOrder(b, r)
  BY <1>4, <1>7, <1>9 DEF Promise!MakersInOrder, MakersInOrder
<1>14. \A b, r : Promise!Trades(b, r) = Trades(b, r)
  BY <1>10, <1>13 DEF Promise!Trades, Trades, Promise!TradeOf, TradeOf
<1>15. \A b, r : Promise!AfterTrades(b, r) = AfterTrades(b, r)
  BY <1>9, <1>10, <1>11 DEF Promise!AfterTrades, AfterTrades
<1>16. \A b, S : Promise!Among(b, S) = Among(b, S) BY DEF Promise!Among, Among
<1>17. \A b, r : Promise!Killed(b, r) <=> Killed(b, r)
  BY <1>1, <1>12 DEF Promise!Killed, Killed
<1>18. \A b, r : Promise!Remains(b, r) <=> Remains(b, r) BY <1>12 DEF Promise!Remains, Remains
<1>19. \A b, r : Promise!AfterRest(b, r) = AfterRest(b, r)
  BY <1>12, <1>15 DEF Promise!AfterRest, AfterRest
<1>20. \A b, r : Promise!QueuesAfterRest(b, r) = QueuesAfterRest(b, r)
  BY <1>15, <1>16 DEF Promise!QueuesAfterRest, QueuesAfterRest
<1> QED BY <1>3, <1>14, <1>15, <1>16, <1>17, <1>18, <1>19, <1>20

\* The book the caller of add() last saw.
Seen == [resting |-> view.resting, before |-> view.before]

\* What match() has done so far and what it has still to do make up what the
\* request does to the book its caller saw.
OnTrack ==
    /\ ~Killed(Seen, asked)
    /\ AfterTrades(Seen, asked) = AfterTrades(BookNow, taker)
    /\ Unfilled(Seen, asked) = Unfilled(BookNow, taker)
    /\ Trades(Seen, asked) = reply.trades \o Trades(BookNow, taker)
    /\ QueueOrder = Among(Seen, Resting)

SeenInv ==
    /\ PricesQuoted
    /\ call = "idle" => asked = NoRequest /\ view = ViewOfBook
    /\ call # "idle" => /\ asked \in Request
                        /\ taker.id = asked.id /\ taker.side = asked.side
                        /\ taker.type = asked.type /\ taker.price = asked.price
    /\ call = "check" => asked = taker /\ Seen = BookNow
    /\ call \in {"match", "push"} => OnTrack

\* A call in progress works on what its caller asked for.
LEMMA TakerIs ==
    ASSUME IInv, SeenInv, call # "idle"
    PROVE  /\ taker.side \in Side /\ taker.price \in Int /\ taker.price \in Price /\ taker.qty \in Nat
           /\ asked # NoRequest
           /\ Booked(BookNow)
<1>1. Booked(BookNow) BY NowBooked DEF SeenInv
<1>2. asked.id \in OrderId /\ asked.price \in Price BY DEF SeenInv, Request
<1>3. asked # NoRequest BY <1>2, OrderAssumption DEF NoRequest
<1> QED BY <1>1, <1>2, <1>3 DEF SeenInv, IInv, TypeOK

\* The empty book is what the promise starts from.
LEMMA SeenInit == HInit => SeenInv /\ Promise!Init
<1> SUFFICES ASSUME HInit PROVE SeenInv /\ Promise!Init OBVIOUS
<1>1. Resting = {} /\ call = "idle" /\ reply = NoReply BY DEF HInit, Init, Resting
<1>2. QueueOrder = {} BY <1>1 DEF QueueOrder
<1>3. RestingOrders = [id \in {} |-> NoReply] BY <1>1 DEF RestingOrders
<1>4. view = ViewOfBook /\ asked = NoRequest BY DEF HInit
<1>5. SeenInv BY <1>1, <1>4 DEF SeenInv, PricesQuoted
<1>6. view.resting = RestingOrders /\ view.before = QueueOrder /\ view.reply = reply
  BY <1>4 DEF ViewOfBook
<1>7. Promise!NoReply = NoReply /\ Promise!NoRequest = NoRequest
  BY DEF Promise!NoReply, NoReply, Promise!Reply, Reply, Promise!NoRequest, NoRequest
<1>8. Promise!Init BY <1>1, <1>2, <1>3, <1>4, <1>6, <1>7 DEF Promise!Init
<1> QED BY <1>5, <1>8

\* What its caller sees of a call that ends.
LEMMA EndShows ==
    ASSUME HNext, NEW trades, NEW status, EndCall(trades, status)
    PROVE  /\ call' = "idle"
           /\ asked' = NoRequest
           /\ view' = ViewOfBook'
           /\ view'.resting = RestingOrders'
           /\ view'.before = QueueOrder'
           /\ view'.reply = Reply(trades, status)
<1>1. call' = "idle" /\ reply' = Reply(trades, status) BY DEF EndCall
<1>2. view' = ViewOfBook' /\ asked' = NoRequest BY <1>1 DEF HNext
<1>3. view' = [resting |-> RestingOrders', before |-> QueueOrder', reply |-> reply'] BY <1>2 DEF ViewOfBook
<1> QED BY <1>1, <1>2, <1>3

\* A call that ends has shown its whole effect.
LEMMA EndSeen ==
    ASSUME call' = "idle", asked' = NoRequest, view' = ViewOfBook', PricesQuoted'
    PROVE  SeenInv'
BY DEF SeenInv

\* The book of the promise is the one last seen.
LEMMA PromiseBook == Promise!Book = Seen /\ Promise!Resting = DOMAIN view.resting
BY DEF Promise!Book, Seen, Promise!Resting

\* A call that asks for what price-time priority kills may end without a trace.
LEMMA AnswerKill ==
    ASSUME asked # NoRequest, asked' = NoRequest, Killed(Seen, asked),
           view'.resting = view.resting, view'.before = view.before, view'.reply = NoReply
    PROVE  Promise!Next
<1>1. Promise!Kill(asked)
  BY PromiseOperators, PromiseBook
  DEF Promise!Kill, Promise!NoReply, NoReply, Promise!Reply, Reply
<1>2. Promise!Answer BY <1>1 DEF Promise!Answer, Promise!NoRequest, NoRequest
<1> QED BY <1>2 DEF Promise!Next

\* One that leaves nothing to rest may end with its trades.
LEMMA AnswerTake ==
    ASSUME asked # NoRequest, asked' = NoRequest, ~Killed(Seen, asked), ~Remains(Seen, asked),
           view'.resting = AfterTrades(Seen, asked),
           view'.before = Among(Seen, DOMAIN AfterTrades(Seen, asked)),
           view'.reply = Reply(Trades(Seen, asked), "ok")
    PROVE  Promise!Next
<1>1. Promise!Take(asked)
  BY PromiseOperators, PromiseBook DEF Promise!Take, Promise!Reply, Reply
<1>2. Promise!Answer BY <1>1 DEF Promise!Answer, Promise!NoRequest, NoRequest
<1> QED BY <1>2 DEF Promise!Next

\* One that leaves a remainder may end with it refused.
LEMMA AnswerRefuse ==
    ASSUME asked # NoRequest, asked' = NoRequest, ~Killed(Seen, asked), Remains(Seen, asked),
           NEW status \in {"window", "arena"},
           status = "arena" => Cardinality(DOMAIN AfterTrades(Seen, asked)) >= ArenaCapacity,
           view'.resting = AfterTrades(Seen, asked),
           view'.before = Among(Seen, DOMAIN AfterTrades(Seen, asked)),
           view'.reply = Reply(Trades(Seen, asked), status)
    PROVE  Promise!Next
<1>1. status = "arena" => Promise!IsFullAfterTrades(asked)
  BY PromiseOperators, PromiseBook DEF Promise!IsFullAfterTrades
<1>2. Promise!Refuse(asked, status)
  BY <1>1, PromiseOperators, PromiseBook DEF Promise!Refuse, Promise!Reply, Reply
<1>3. Promise!Answer BY <1>2 DEF Promise!Answer, Promise!NoRequest, NoRequest
<1> QED BY <1>3 DEF Promise!Next

\* Or with it at rest.
LEMMA AnswerRest ==
    ASSUME asked # NoRequest, asked' = NoRequest, ~Killed(Seen, asked), Remains(Seen, asked),
           ~(Cardinality(DOMAIN AfterTrades(Seen, asked)) >= ArenaCapacity),
           view'.resting = AfterRest(Seen, asked),
           view'.before = QueuesAfterRest(Seen, asked),
           view'.reply = Reply(Trades(Seen, asked), "ok")
    PROVE  Promise!Next
<1>1. ~Promise!IsFullAfterTrades(asked)
  BY PromiseOperators, PromiseBook DEF Promise!IsFullAfterTrades
<1>2. Promise!Rest(asked)
  BY <1>1, PromiseOperators, PromiseBook DEF Promise!Rest, Promise!Reply, Reply
<1>3. Promise!Answer BY <1>2 DEF Promise!Answer, Promise!NoRequest, NoRequest
<1> QED BY <1>3 DEF Promise!Next

\* A step of the promise, or none, that keeps what its proof needs.
Kept == SeenInv' /\ [Promise!Next]_Promise!vars

\* A step in the middle of a call shows its caller nothing.
LEMMA NothingShown ==
    ASSUME view' = view, asked' = asked
    PROVE  UNCHANGED Promise!vars
BY DEF Promise!vars

\* add() is called.
LEMMA SubmitShown ==
    ASSUME IInv, SeenInv, HNext, NEW r \in Request, Submit(r)
    PROVE  Kept
<1>1. call = "idle" /\ call' = "check" /\ taker' = r /\ r.id \notin Resting /\ UNCHANGED book
  BY DEF Submit
<1>2. view' = view /\ asked' = r BY <1>1 DEF HNext
<1>3. asked = NoRequest /\ view = ViewOfBook BY <1>1 DEF SeenInv
<1>4. RestingOrders' = RestingOrders /\ QueueOrder' = QueueOrder BY <1>1, SameOrders DEF IInv
<1>5. view.resting = RestingOrders /\ view.before = QueueOrder BY <1>3 DEF ViewOfBook
<1>6. Seen' = BookNow' BY <1>2, <1>4, <1>5 DEF Seen, BookNow
<1>7. PricesQuoted'
  <2>1. Resting' = Resting BY <1>1 DEF book, Resting
  <2> QED BY <2>1, <1>4 DEF SeenInv, PricesQuoted
<1>8. SeenInv' BY <1>1, <1>2, <1>6, <1>7 DEF SeenInv
<1>9. Promise!Ask(r)
  BY <1>1, <1>2, <1>3, <1>5, OrdersAre, PromiseBook
  DEF Promise!Ask, Promise!NoRequest, NoRequest
<1>10. Promise!Next
  <2>1. Promise!Request = Request
    BY DEF Promise!Request, Request, Promise!Side, Side, Promise!Type, Type, Promise!AnyPrice, AnyPrice
  <2> QED BY <1>9, <2>1 DEF Promise!Next
<1> QED BY <1>8, <1>10 DEF Kept

\* add() goes on to match().
LEMMA AcceptShown ==
    ASSUME IInv, SeenInv, HNext, Accept
    PROVE  Kept
<1>1. /\ call = "check" /\ call' = "match" /\ ~RejectedOnArrival(taker)
      /\ UNCHANGED book /\ taker' = taker /\ reply' = reply
  BY DEF Accept
<1>2. view' = view /\ asked' = asked BY <1>1 DEF HNext
<1>3. /\ asked = taker /\ Seen = BookNow /\ reply.trades = <<>>
  BY <1>1 DEF SeenInv, IInv, FillFreesNode
<1>4. /\ taker.side \in Side /\ taker.price \in Int /\ taker.price \in Price /\ taker.qty \in Nat
      /\ Booked(BookNow)
  BY <1>1, TakerIs
<1>5. RestingOrders' = RestingOrders /\ QueueOrder' = QueueOrder /\ Resting' = Resting
  BY <1>1, SameOrders DEF IInv, book, Resting
<1>6. BookNow' = BookNow /\ Seen' = Seen BY <1>2, <1>5 DEF BookNow, Seen
<1>7. PricesQuoted' BY <1>5 DEF SeenInv, PricesQuoted
<1>8. ~Killed(Seen, asked) BY <1>1, <1>3, <1>4, PrecheckIsExact DEF SeenInv
<1>9. Trades(Seen, asked) = reply.trades \o Trades(BookNow, taker)
  <2>1. PICK t : t = Trades(BookNow, taker) OBVIOUS
  <2>2. t \in Seq({t[i] : i \in DOMAIN t}) BY <2>1, <1>4, TradesListed
  <2>3. <<>> \o t = t BY <2>2, TradesJoin
  <2> QED BY <1>3, <2>1, <2>3
<1>10. QueueOrder = Among(Seen, Resting)
  BY <1>3, OrdersAre DEF Among, QueueOrder
<1>11. OnTrack' BY <1>1, <1>2, <1>3, <1>5, <1>6, <1>8, <1>9, <1>10 DEF OnTrack
<1>12. SeenInv' BY <1>1, <1>2, <1>7, <1>11 DEF SeenInv
<1> QED BY <1>2, <1>12, NothingShown DEF Kept

\* One fill keeps the call on track.
LEMMA FillOnTrack ==
    ASSUME IInv, SeenInv, call = "match", call' = "match", view' = view, asked' = asked,
           NEW m, NEW q, SameOutcome(BookNow, taker, BookNow', taker', m, q),
           LeftOf(taker, q, taker'),
           reply'.trades = Append(reply.trades, TradeOf(m, taker.id, BookNow.resting[m].price, q)),
           Booked(BookNow'), taker'.qty \in Nat,
           Resting' \subseteq Resting, QueueOrder' = Among(BookNow, Resting'),
           PricesQuoted'
    PROVE  Kept
<1>1. OnTrack BY DEF SeenInv
<1>2. PICK x : x = TradeOf(m, taker.id, BookNow.resting[m].price, q) OBVIOUS
<1>3. PICK t : t = Trades(BookNow', taker') OBVIOUS
<1>4. reply.trades \in Seq(TradeRecord) BY DEF IInv, TypeOK
<1>5. PICK V : t \in Seq(V) BY <1>3, TradesListed
<1>6. reply.trades \o (<<x>> \o t) = Append(reply.trades, x) \o t
  <2>1. PICK u : u = reply.trades OBVIOUS
  <2>2. u \in Seq(TradeRecord) BY <1>4, <2>1
  <2>3. u \o (<<x>> \o t) = Append(u, x) \o t BY <1>5, <2>2, TradesJoin
  <2> QED BY <2>1, <2>3
<1>7. Trades(BookNow, taker) = <<x>> \o t BY <1>2, <1>3 DEF SameOutcome
<1>8. Seen' = Seen BY DEF Seen
<1>9. Trades(Seen', asked') = reply'.trades \o Trades(BookNow', taker')
  BY <1>1, <1>2, <1>3, <1>6, <1>7, <1>8 DEF OnTrack
<1>10. QueueOrder' = Among(Seen', Resting')
  BY <1>1, <1>8, OrdersAre DEF OnTrack, Among
<1>11. OnTrack' BY <1>1, <1>8, <1>9, <1>10 DEF OnTrack, SameOutcome
<1>12. SeenInv' BY <1>11 DEF SeenInv, LeftOf
<1> QED BY <1>12, NothingShown DEF Kept

\* A trade is at the price its maker was quoted at, and the taker wants that much less.
LEMMA TradeShown ==
    ASSUME IInv, SeenInv, CanMatch, NEW b, b = best[Opposite(taker.side)],
           NEW n, n = levels[b].head, NEW q \in Nat, q <= taker.qty, Trade(b, n, q)
    PROVE  /\ LeftOf(taker, q, taker') /\ taker'.qty \in Nat
           /\ taker.qty > 0
           /\ First(BookNow, taker, arena[n].id)
           /\ arena[n].id \in DOMAIN BookNow.resting
           /\ BookNow.resting[arena[n].id].qty = arena[n].qty
           /\ reply'.trades = Append(reply.trades,
                TradeOf(arena[n].id, taker.id, BookNow.resting[arena[n].id].price, q))
<1> DEFINE m == arena[n].id
<1>1. /\ taker \in [id: OrderId \cup {Nil}, side: Side, type: Type, price: Int, qty: Nat]
      /\ reply \in [trades: Seq(TradeRecord), status: Status]
  BY DEF IInv, TypeOK
<1>2. b # Nil /\ Takes(taker, PriceAt(b)) /\ taker.qty > 0 BY DEF CanMatch
<1>3. /\ First(BookNow, taker, m) /\ m \in Resting
      /\ RestingOrders[m].price = PriceAt(b) /\ RestingOrders[m].qty = arena[n].qty
  BY <1>1, <1>2, HeadIsFirst
<1>4. taker' = [taker EXCEPT !.qty = taker.qty - q] BY DEF Trade
<1>5. LeftOf(taker, q, taker') /\ taker'.qty \in Nat BY <1>1, <1>4 DEF LeftOf
<1>6. reply' = [reply EXCEPT !.trades = Append(reply.trades, TradeOf(m, taker.id, PriceAt(b), q))]
  BY DEF Trade
<1>7. reply'.trades = Append(reply.trades, TradeOf(m, taker.id, PriceAt(b), q)) BY <1>1, <1>6
<1> HIDE DEF m
<1>8. BookNow.resting[m].price = PriceAt(b) /\ BookNow.resting[m].qty = arena[n].qty
      /\ m \in DOMAIN BookNow.resting
  BY <1>3, OrdersAre
<1>9. reply'.trades = Append(reply.trades, TradeOf(m, taker.id, BookNow.resting[m].price, q))
  BY <1>7, <1>8
<1> QED BY <1>2, <1>3, <1>5, <1>8, <1>9 DEF m

\* An order that is reduced keeps its price.
LEMMA ReducedPrices ==
    ASSUME NEW m, NEW q, NEW orders, orders = [RestingOrders EXCEPT ![m].qty = @ - q], NEW o \in Resting
    PROVE  orders[o].price = RestingOrders[o].price
<1>1. o \in DOMAIN RestingOrders BY OrdersAre
<1>2. CASE o # m BY <1>1, <1>2
<1>3. CASE o = m
  <2>1. orders[m] = [RestingOrders[m] EXCEPT !.qty = RestingOrders[m].qty - q] BY <1>1, <1>3
  <2>2. RestingOrders[m] = [side |-> index[m].side, price |-> PriceAt(index[m].level),
                            qty |-> arena[index[m].node].qty]
    BY <1>3 DEF RestingOrders
  <2> QED BY <1>3, <2>1, <2>2
<1> QED BY <1>2, <1>3

\* A maker is used up.
LEMMA FillMakerShown ==
    ASSUME IInv, SeenInv, HNext, FillMaker
    PROVE  Kept
<1>1. call = "match" /\ call' = "match" /\ CanMatch BY DEF FillMaker
<1>2. view' = view /\ asked' = asked BY <1>1 DEF HNext
<1>3. PICK s, b, n : /\ s = Opposite(taker.side) /\ b = best[s] /\ n = levels[b].head
                     /\ n \in Live
                     /\ Leaves(n, s, b)
                     /\ arena[n].qty \in Nat
                     /\ arena[n].qty <= taker.qty
                     /\ Trade(b, n, arena[n].qty)
  BY FillMakerLeaves
<1>4. PICK m : m = arena[n].id OBVIOUS
<1>5. PICK q : q = arena[n].qty OBVIOUS
<1>6. taker.qty \in Nat /\ Booked(BookNow) BY <1>1, TakerIs
<1>7. /\ LeftOf(taker, q, taker') /\ taker'.qty \in Nat
      /\ taker.qty > 0
      /\ First(BookNow, taker, m)
      /\ m \in DOMAIN BookNow.resting /\ BookNow.resting[m].qty = q
      /\ reply'.trades = Append(reply.trades, TradeOf(m, taker.id, BookNow.resting[m].price, q))
  <2>1. b = best[Opposite(taker.side)] /\ Trade(b, n, q) /\ q \in Nat /\ q <= taker.qty BY <1>3, <1>5
  <2>2. /\ LeftOf(taker, q, taker') /\ taker'.qty \in Nat
        /\ taker.qty > 0
        /\ First(BookNow, taker, arena[n].id)
        /\ arena[n].id \in DOMAIN BookNow.resting
        /\ BookNow.resting[arena[n].id].qty = arena[n].qty
        /\ reply'.trades = Append(reply.trades,
             TradeOf(arena[n].id, taker.id, BookNow.resting[arena[n].id].price, q))
    BY <2>1, <1>1, <1>3, TradeShown
  <2> QED BY <2>2, <1>4, <1>5
<1>8. /\ Without(BookNow, m, BookNow')
      /\ Resting' = Resting \ {m}
      /\ RestingOrders' = [o \in Resting \ {m} |-> RestingOrders[o]]
      /\ QueueOrder' = Among(BookNow, Resting')
  BY <1>3, <1>4, LeavesBook
<1>9. SameOutcome(BookNow, taker, BookNow', taker', m, q)
  BY <1>3, <1>5, <1>6, <1>7, <1>8, WholeFill
<1>10. Booked(BookNow') BY <1>6, <1>7, <1>8, WithoutBooked
<1>11. PricesQuoted' BY <1>8 DEF SeenInv, PricesQuoted
<1>12. Resting' \subseteq Resting BY <1>8
<1> QED BY <1>1, <1>2, <1>7, <1>8, <1>9, <1>10, <1>11, <1>12, FillOnTrack

\* A maker outlasts the taker.
LEMMA FillTakerShown ==
    ASSUME IInv, SeenInv, HNext, FillTaker
    PROVE  Kept
<1>1. call = "match" /\ call' = "match" /\ CanMatch BY DEF FillTaker
<1>2. view' = view /\ asked' = asked BY <1>1 DEF HNext
<1>3. PICK s : s = Opposite(taker.side) OBVIOUS
<1>4. PICK b : b = best[s] OBVIOUS
<1>5. PICK n : n = levels[b].head OBVIOUS
<1>6. PICK m : m = arena[n].id OBVIOUS
<1>7. PICK q : q = taker.qty OBVIOUS
<1>8. /\ q < arena[n].qty
      /\ Trade(b, n, q)
      /\ levels' = [levels EXCEPT ![b].total = @ - q]
      /\ arena' = [arena EXCEPT ![n].qty = @ - q]
      /\ UNCHANGED <<window, best, bump, freeList, index>>
  BY <1>3, <1>4, <1>5, <1>7 DEF FillTaker
<1>9. b \in DOMAIN levels /\ n \in Live /\ b = LevelOf(n) /\ arena[n].qty \in Nat
  BY <1>1, <1>3, <1>4, <1>5, MakerFound
<1>10. q \in Nat /\ Booked(BookNow) BY <1>1, <1>7, TakerIs
<1>11. q <= arena[n].qty /\ q <= taker.qty BY <1>7, <1>8, <1>9, <1>10
<1>12. /\ LeftOf(taker, q, taker') /\ taker'.qty \in Nat
       /\ taker.qty > 0
       /\ First(BookNow, taker, m)
       /\ m \in DOMAIN BookNow.resting /\ BookNow.resting[m].qty = arena[n].qty
       /\ reply'.trades = Append(reply.trades, TradeOf(m, taker.id, BookNow.resting[m].price, q))
  <2>1. b = best[Opposite(taker.side)] BY <1>3, <1>4
  <2>2. /\ LeftOf(taker, q, taker') /\ taker'.qty \in Nat
        /\ taker.qty > 0
        /\ First(BookNow, taker, arena[n].id)
        /\ arena[n].id \in DOMAIN BookNow.resting
        /\ BookNow.resting[arena[n].id].qty = arena[n].qty
        /\ reply'.trades = Append(reply.trades,
             TradeOf(arena[n].id, taker.id, BookNow.resting[arena[n].id].price, q))
    BY <2>1, <1>1, <1>5, <1>8, <1>10, <1>11, TradeShown
  <2> QED BY <2>2, <1>6
<1>13. /\ Reduced(BookNow, m, q, BookNow')
       /\ Resting' = Resting
       /\ RestingOrders' = [RestingOrders EXCEPT ![m].qty = @ - q]
       /\ QueueOrder' = QueueOrder
  BY <1>6, <1>8, <1>9, <1>10, <1>11, SmallerBookOrder
<1>14. SameOutcome(BookNow, taker, BookNow', taker', m, q)
  BY <1>7, <1>8, <1>10, <1>12, <1>13, PartFill
<1>15. Booked(BookNow') BY <1>10, <1>11, <1>12, <1>13, ReducedBooked
<1>16. QueueOrder' = Among(BookNow, Resting') BY <1>13, OrdersAre DEF Among, QueueOrder
<1>17. PricesQuoted'
  <2>1. \A o \in Resting : RestingOrders'[o].price = RestingOrders[o].price BY <1>13, ReducedPrices
  <2> QED BY <2>1, <1>13 DEF SeenInv, PricesQuoted
<1>18. Resting' \subseteq Resting BY <1>13
<1> QED BY <1>1, <1>2, <1>12, <1>14, <1>15, <1>16, <1>17, <1>18, FillOnTrack

\* A rebase shows nothing.
LEMMA EnsureIndexShown ==
    ASSUME IInv, SeenInv, HNext, EnsureIndex
    PROVE  Kept
<1>1. /\ call = "match" /\ call' = "push" /\ taker' = taker /\ reply' = reply
      /\ Resting' = Resting
  BY DEF EnsureIndex, ShiftedIndex, Resting
<1>2. view' = view /\ asked' = asked BY <1>1 DEF HNext
<1>3. RestingOrders' = RestingOrders /\ QueueOrder' = QueueOrder BY ShiftOrders
<1>4. BookNow' = BookNow /\ Seen' = Seen BY <1>2, <1>3 DEF BookNow, Seen
<1>5. PricesQuoted' BY <1>1, <1>3 DEF SeenInv, PricesQuoted
<1>6. OnTrack' BY <1>1, <1>2, <1>3, <1>4 DEF SeenInv, OnTrack
<1>7. SeenInv' BY <1>1, <1>2, <1>5, <1>6 DEF SeenInv
<1> QED BY <1>2, <1>7, NothingShown DEF Kept

\* When match() can do no more, the request reaches nothing that is left.
LEMMA NoneLeft ==
    ASSUME IInv, SeenInv, (call = "match" /\ ~CanMatch) \/ call = "push"
    PROVE  taker.qty = 0 \/ Reached(BookNow, taker) = {}
<1>1. PICK s : s = Opposite(taker.side) OBVIOUS
<1>2. call # "idle" OBVIOUS
<1>3. taker.side \in Side /\ taker.price \in Int /\ taker.qty \in Nat BY <1>2, TakerIs
<1>4. SUFFICES ASSUME taker.qty # 0 PROVE best[s] = Nil \/ ~Takes(taker, PriceAt(best[s]))
  BY <1>1, <1>3, NothingReached
<1>5. CASE call = "match" /\ taker.type # "PostOnly" BY <1>1, <1>3, <1>4, <1>5 DEF CanMatch
<1>6. CASE call = "match" /\ taker.type = "PostOnly"
  BY <1>1, <1>6 DEF IInv, TakerReady, Apart, Takes
<1>7. CASE call = "push"
  <2>1. Apart(taker) /\ taker.type # "Market" BY <1>7 DEF IInv, TakerReady, Rests
  <2> QED BY <2>1, <1>1 DEF Apart, Takes
<1> QED BY <1>5, <1>6, <1>7

\* So the book is what the whole request makes of the one its caller saw, but for
\* the remainder.
LEMMA MatchOver ==
    ASSUME IInv, SeenInv, (call = "match" /\ ~CanMatch) \/ call = "push"
    PROVE  /\ AfterTrades(Seen, asked) = RestingOrders
           /\ DOMAIN AfterTrades(Seen, asked) = Resting
           /\ Among(Seen, DOMAIN AfterTrades(Seen, asked)) = QueueOrder
           /\ Trades(Seen, asked) = reply.trades
           /\ Unfilled(Seen, asked) = taker.qty
           /\ ~Killed(Seen, asked)
           /\ Remains(Seen, asked) <=> Rests(taker)
           /\ asked # NoRequest
           /\ taker.id = asked.id /\ taker.side = asked.side /\ taker.price = asked.price
<1>1. call # "idle" OBVIOUS
<1>2. OnTrack BY DEF SeenInv
<1>3. Booked(BookNow) /\ taker.qty \in Nat /\ asked # NoRequest BY <1>1, TakerIs
<1>4. taker.qty = 0 \/ Reached(BookNow, taker) = {} BY NoneLeft
<1>5. /\ AfterTrades(BookNow, taker) = BookNow.resting
      /\ Trades(BookNow, taker) = <<>>
      /\ Unfilled(BookNow, taker) = taker.qty
  BY <1>3, <1>4, NothingTaken
<1>6. reply.trades \o <<>> = reply.trades
  <2>1. reply.trades \in Seq(TradeRecord) BY DEF IInv, TypeOK
  <2>2. PICK u : u = reply.trades OBVIOUS
  <2>3. u \in Seq(TradeRecord) BY <2>1, <2>2
  <2> QED BY <2>2, <2>3
<1>7. AfterTrades(Seen, asked) = RestingOrders BY <1>2, <1>5, OrdersAre DEF OnTrack
<1>8. DOMAIN AfterTrades(Seen, asked) = Resting BY <1>7, OrdersAre
<1>9. taker.id = asked.id /\ taker.side = asked.side /\ taker.type = asked.type /\ taker.price = asked.price
  BY <1>1 DEF SeenInv
<1>10. Unfilled(Seen, asked) = taker.qty BY <1>2, <1>5 DEF OnTrack
<1>11. Remains(Seen, asked) <=> Rests(taker) BY <1>9, <1>10 DEF Remains, Rests
<1> QED BY <1>2, <1>3, <1>5, <1>6, <1>7, <1>8, <1>9, <1>10, <1>11 DEF OnTrack

\* A call that ends leaving the book alone keeps what its orders were quoted at.
LEMMA QuietlyQuoted ==
    ASSUME IInv, SeenInv, UNCHANGED book
    PROVE  RestingOrders' = RestingOrders /\ QueueOrder' = QueueOrder /\ PricesQuoted'
<1>1. RestingOrders' = RestingOrders /\ QueueOrder' = QueueOrder BY SameOrders DEF IInv
<1>2. Resting' = Resting BY DEF book, Resting
<1> QED BY <1>1, <1>2 DEF SeenInv, PricesQuoted

\* add() returns before it touches the book.
LEMMA RejectShown ==
    ASSUME IInv, SeenInv, HNext, Reject
    PROVE  Kept
<1>1. call = "check" /\ RejectedOnArrival(taker) /\ EndCall(<<>>, "ok") /\ UNCHANGED book
  BY DEF Reject
<1>2. /\ call' = "idle" /\ asked' = NoRequest /\ view' = ViewOfBook'
      /\ view'.resting = RestingOrders' /\ view'.before = QueueOrder'
      /\ view'.reply = Reply(<<>>, "ok")
  BY <1>1, EndShows
<1>3. RestingOrders' = RestingOrders /\ QueueOrder' = QueueOrder /\ PricesQuoted'
  BY <1>1, QuietlyQuoted
<1>4. asked = taker /\ Seen = BookNow BY <1>1 DEF SeenInv
<1>5. Seen.resting = RestingOrders /\ Seen.before = QueueOrder BY <1>4, OrdersAre
<1>6. /\ taker.side \in Side /\ taker.price \in Int /\ taker.qty \in Nat
      /\ asked # NoRequest /\ Booked(BookNow)
  BY <1>1, TakerIs
<1>7. Killed(Seen, asked) \/ (asked.type = "FOK" /\ asked.qty = 0)
  BY <1>1, <1>4, <1>6, PrecheckIsExact DEF SeenInv
<1>8. ASSUME Killed(Seen, asked) PROVE Promise!Next
  <2>1. view.resting = RestingOrders /\ view.before = QueueOrder BY <1>5 DEF Seen
  <2>2. view'.reply = NoReply BY <1>2 DEF NoReply
  <2> QED BY <2>1, <2>2, <1>2, <1>3, <1>6, <1>8, AnswerKill
<1>9. ASSUME ~Killed(Seen, asked) PROVE Promise!Next
  <2>1. asked.type = "FOK" /\ asked.qty = 0 BY <1>7, <1>9
  <2>2. ~Remains(Seen, asked) BY <2>1 DEF Remains
  <2>3. AfterTrades(Seen, asked) = RestingOrders /\ Trades(Seen, asked) = <<>>
    BY <2>1, <1>4, <1>5, <1>6, NothingTaken
  <2>4. Among(Seen, DOMAIN AfterTrades(Seen, asked)) = QueueOrder
    <3>1. DOMAIN AfterTrades(Seen, asked) = Resting BY <2>3, OrdersAre
    <3> QED BY <3>1, <1>5 DEF Among, QueueOrder
  <2> QED BY <2>2, <2>3, <2>4, <1>2, <1>3, <1>6, <1>9, AnswerTake
<1>10. SeenInv' BY <1>2, <1>3, EndSeen
<1> QED BY <1>8, <1>9, <1>10 DEF Kept

\* match() is over and nothing of the request rests.
LEMMA EndShown ==
    ASSUME IInv, SeenInv, HNext, Finish \/ ThrowWindow \/ ThrowArena
    PROVE  Kept
<1>1. PICK status \in Status :
        /\ EndCall(reply.trades, status) /\ UNCHANGED book
        /\ (call = "match" /\ ~CanMatch) \/ call = "push"
        /\ status = "ok" => ~Rests(taker)
        /\ status # "ok" => Rests(taker) /\ status \in {"window", "arena"}
        /\ status = "arena" => ~HasFreeNode
  <2>1. CASE Finish BY <2>1 DEF Finish, Status
  <2>2. CASE ThrowWindow BY <2>2 DEF ThrowWindow, Status
  <2>3. CASE ThrowArena
    <3>1. call = "push" /\ ~HasFreeNode /\ EndCall(reply.trades, "arena") /\ UNCHANGED book
      BY <2>3 DEF ThrowArena
    <3>2. Rests(taker) BY <3>1 DEF IInv, TakerReady
    <3> QED BY <3>1, <3>2 DEF Status
  <2> QED BY <2>1, <2>2, <2>3
<1>2. PICK trades : trades = reply.trades OBVIOUS
<1>3. /\ call' = "idle" /\ asked' = NoRequest /\ view' = ViewOfBook'
      /\ view'.resting = RestingOrders' /\ view'.before = QueueOrder'
      /\ view'.reply = Reply(trades, status)
  <2>1. EndCall(trades, status) BY <1>1, <1>2 DEF EndCall
  <2> QED BY <2>1, EndShows
<1>4. RestingOrders' = RestingOrders /\ QueueOrder' = QueueOrder /\ PricesQuoted'
  BY <1>1, QuietlyQuoted
<1>5. /\ AfterTrades(Seen, asked) = RestingOrders
      /\ DOMAIN AfterTrades(Seen, asked) = Resting
      /\ Among(Seen, DOMAIN AfterTrades(Seen, asked)) = QueueOrder
      /\ Trades(Seen, asked) = trades
      /\ ~Killed(Seen, asked)
      /\ Remains(Seen, asked) <=> Rests(taker)
      /\ asked # NoRequest
  BY <1>1, <1>2, MatchOver
<1>6. ASSUME status = "ok" PROVE Promise!Next BY <1>1, <1>3, <1>4, <1>5, <1>6, AnswerTake
<1>7. ASSUME status # "ok" PROVE Promise!Next
  <2>1. status = "arena" => Cardinality(Resting) >= ArenaCapacity
    BY <1>1, ArenaIsFull DEF IInv
  <2> QED BY <2>1, <1>1, <1>3, <1>4, <1>5, <1>7, AnswerRefuse
<1>8. SeenInv' BY <1>3, <1>4, EndSeen
<1> QED BY <1>6, <1>7, <1>8 DEF Kept

\* The remainder rests.
LEMMA PushBackShown ==
    ASSUME IInv, SeenInv, HNext, PushBack
    PROVE  Kept
<1>1. call = "push" /\ HasFreeNode /\ EndCall(reply.trades, "ok") BY DEF PushBack
<1>2. PICK trades : trades = reply.trades OBVIOUS
<1>3. /\ call' = "idle" /\ asked' = NoRequest /\ view' = ViewOfBook'
      /\ view'.resting = RestingOrders' /\ view'.before = QueueOrder'
      /\ view'.reply = Reply(trades, "ok")
  <2>1. EndCall(trades, "ok") BY <1>1, <1>2 DEF EndCall
  <2> QED BY <2>1, EndShows
<1>4. /\ AfterTrades(Seen, asked) = RestingOrders
      /\ DOMAIN AfterTrades(Seen, asked) = Resting
      /\ Among(Seen, DOMAIN AfterTrades(Seen, asked)) = QueueOrder
      /\ Trades(Seen, asked) = trades
      /\ Unfilled(Seen, asked) = taker.qty
      /\ ~Killed(Seen, asked)
      /\ Remains(Seen, asked) <=> Rests(taker)
      /\ asked # NoRequest
      /\ taker.id = asked.id /\ taker.side = asked.side /\ taker.price = asked.price
  BY <1>1, <1>2, MatchOver
<1>5. Rests(taker) BY <1>1 DEF IInv, TakerReady
<1>6. /\ RestingOrders' = [o \in Resting \cup {taker.id} |->
            IF o = taker.id THEN [side |-> taker.side, price |-> taker.price, qty |-> taker.qty]
            ELSE RestingOrders[o]]
      /\ QueueOrder' = QueueOrder \cup
           {<<o, taker.id>> : o \in {k \in Resting : /\ RestingOrders[k].side = taker.side
                                                     /\ RestingOrders[k].price = taker.price}}
  BY JoinsBook
<1>7. RestingOrders' = AfterRest(Seen, asked) BY <1>4, <1>6 DEF AfterRest
<1>8. QueueOrder' = QueuesAfterRest(Seen, asked) BY <1>4, <1>6 DEF QueuesAfterRest
<1>9. ~(Cardinality(Resting) >= ArenaCapacity) BY <1>1, ArenaIsFull DEF IInv
<1>10. Promise!Next BY <1>3, <1>4, <1>5, <1>7, <1>8, <1>9, AnswerRest
<1>11. PricesQuoted'
  <2>1. call # "idle" BY <1>1
  <2>2. taker.price \in Price BY <2>1, TakerIs
  <2>3. Resting' = Resting \cup {taker.id} BY DEF PushBack, Resting
  <2> QED BY <2>2, <2>3, <1>6 DEF SeenInv, PricesQuoted
<1>12. SeenInv' BY <1>3, <1>11, EndSeen
<1> QED BY <1>10, <1>12 DEF Kept

\* cancel(), and reduce() to nothing: the order leaves and the others stay.
LEMMA WithdrawShown ==
    ASSUME IInv, SeenInv, HNext, NEW id \in OrderId, NEW delta,
           Cancel(id) \/ ReduceAll(id, delta)
    PROVE  Kept
<1>1. call = "idle" /\ id \in Resting /\ Withdraw(id) /\ EndCall(<<>>, "ok") BY DEF Cancel, ReduceAll
<1>2. /\ call' = "idle" /\ asked' = NoRequest /\ view' = ViewOfBook'
      /\ view'.resting = RestingOrders' /\ view'.before = QueueOrder'
      /\ view'.reply = Reply(<<>>, "ok")
  BY <1>1, EndShows
<1>3. PICK x \in Live : arena[x].id = id /\ \E s, i : Leaves(x, s, i) BY <1>1, WithdrawLeaves
<1>4. /\ Resting' = Resting \ {id}
      /\ RestingOrders' = [o \in Resting \ {id} |-> RestingOrders[o]]
      /\ QueueOrder' = Among(BookNow, Resting')
  <2>1. PICK s, i : Leaves(x, s, i) BY <1>3
  <2> QED BY <1>3, <2>1, LeavesBook
<1>5. asked = NoRequest /\ view.resting = RestingOrders /\ view.before = QueueOrder
  BY <1>1 DEF SeenInv, ViewOfBook
<1>6. Seen = BookNow BY <1>5 DEF Seen, BookNow
<1>7. PricesQuoted' BY <1>4 DEF SeenInv, PricesQuoted
<1>8. Promise!Cancel(id)
  <2>1. Promise!Idle BY <1>2, <1>5 DEF Promise!Idle, Promise!NoRequest, NoRequest
  <2>2. Promise!Resting = Resting /\ Promise!Book = BookNow BY <1>5, <1>6, OrdersAre, PromiseBook
  <2>3. view'.reply = Promise!NoReply BY <1>2 DEF Promise!NoReply, Promise!Reply, Reply
  <2>4. view'.before = Promise!Among(BookNow, Resting \ {id}) BY <1>2, <1>4, PromiseOperators
  <2> QED BY <1>1, <1>2, <1>4, <1>5, <2>1, <2>2, <2>3, <2>4 DEF Promise!Cancel
<1>9. SeenInv' BY <1>2, <1>7, EndSeen
<1> QED BY <1>8, <1>9 DEF Kept, Promise!Next

\* reduce() by less than what rests: the order keeps its place.
LEMMA ReducePartShown ==
    ASSUME IInv, SeenInv, HNext, NEW id \in OrderId, NEW delta \in Quantity, ReducePart(id, delta)
    PROVE  Kept
<1>1. PICK n : n = index[id].node OBVIOUS
<1>2. PICK b : b = index[id].level OBVIOUS
<1>3. /\ call = "idle" /\ id \in Resting
      /\ delta < arena[n].qty
      /\ arena' = [arena EXCEPT ![n].qty = @ - delta]
      /\ levels' = [levels EXCEPT ![b].total = @ - delta]
      /\ EndCall(<<>>, "ok")
      /\ UNCHANGED <<window, best, bump, freeList, index>>
  BY <1>1, <1>2 DEF ReducePart
<1>4. n \in Live /\ b \in DOMAIN levels /\ b = LevelOf(n) /\ arena[n].id = id
  BY <1>1, <1>2, <1>3 DEF IInv, TypeOK, Entry, ListsSound, IndexMatchesArena, Live, LevelOf
<1>5. delta \in Nat /\ arena[n].qty \in Nat BY <1>4, OrderAssumption DEF IInv, TypeOK, Live
<1>6. delta <= arena[n].qty BY <1>3, <1>5
<1>7. /\ call' = "idle" /\ asked' = NoRequest /\ view' = ViewOfBook'
      /\ view'.resting = RestingOrders' /\ view'.before = QueueOrder'
      /\ view'.reply = Reply(<<>>, "ok")
  BY <1>3, EndShows
<1>8. /\ Resting' = Resting
      /\ RestingOrders' = [RestingOrders EXCEPT ![id].qty = @ - delta]
      /\ QueueOrder' = QueueOrder
  BY <1>3, <1>4, <1>5, <1>6, SmallerBookOrder
<1>9. asked = NoRequest /\ view.resting = RestingOrders /\ view.before = QueueOrder
  BY <1>3 DEF SeenInv, ViewOfBook
<1>10. PricesQuoted'
  <2>1. \A o \in Resting : RestingOrders'[o].price = RestingOrders[o].price BY <1>8, ReducedPrices
  <2> QED BY <2>1, <1>8 DEF SeenInv, PricesQuoted
<1>11. Promise!Reduce(id, delta)
  <2>1. Promise!Idle BY <1>7, <1>9 DEF Promise!Idle, Promise!NoRequest, NoRequest
  <2>2. Promise!Resting = Resting BY <1>9, OrdersAre, PromiseBook
  <2>3. view'.reply = Promise!NoReply BY <1>7 DEF Promise!NoReply, Promise!Reply, Reply
  <2>4. RestingOrders[id].qty = arena[n].qty BY <1>1, <1>3, OrdersAre
  <2> QED BY <1>3, <1>7, <1>8, <1>9, <2>1, <2>2, <2>3, <2>4 DEF Promise!Reduce
<1>12. SeenInv' BY <1>7, <1>10, EndSeen
<1> QED BY <1>11, <1>12 DEF Kept, Promise!Next

\* cancel() or reduce() of an id that does not rest.
LEMMA NotFoundShown ==
    ASSUME IInv, SeenInv, HNext, NEW id \in OrderId, NotFound(id)
    PROVE  Kept
<1>1. call = "idle" /\ id \notin Resting /\ EndCall(<<>>, "unknown") /\ UNCHANGED book BY DEF NotFound
<1>2. /\ call' = "idle" /\ asked' = NoRequest /\ view' = ViewOfBook'
      /\ view'.resting = RestingOrders' /\ view'.before = QueueOrder'
      /\ view'.reply = Reply(<<>>, "unknown")
  BY <1>1, EndShows
<1>3. RestingOrders' = RestingOrders /\ QueueOrder' = QueueOrder /\ PricesQuoted'
  BY <1>1, QuietlyQuoted
<1>4. asked = NoRequest /\ view.resting = RestingOrders /\ view.before = QueueOrder
  BY <1>1 DEF SeenInv, ViewOfBook
<1>5. Promise!NotFound(id)
  <2>1. Promise!Idle BY <1>2, <1>4 DEF Promise!Idle, Promise!NoRequest, NoRequest
  <2>2. Promise!Resting = Resting BY <1>4, OrdersAre, PromiseBook
  <2> QED BY <1>1, <1>2, <1>3, <1>4, <2>1, <2>2 DEF Promise!NotFound, Promise!Reply, Reply
<1>6. SeenInv' BY <1>2, <1>3, EndSeen
<1> QED BY <1>5, <1>6 DEF Kept, Promise!Next

\* Nothing happens.
LEMMA StutterShown ==
    ASSUME IInv, SeenInv, UNCHANGED <<vars, view, asked>>
    PROVE  Kept
<1>1. /\ UNCHANGED book /\ call' = call /\ taker' = taker /\ reply' = reply
      /\ view' = view /\ asked' = asked
  BY DEF vars, book
<1>2. RestingOrders' = RestingOrders /\ QueueOrder' = QueueOrder /\ PricesQuoted'
  BY <1>1, QuietlyQuoted
<1>3. Resting' = Resting BY <1>1 DEF book, Resting
<1>4. BookNow' = BookNow /\ Seen' = Seen /\ ViewOfBook' = ViewOfBook
  BY <1>1, <1>2 DEF BookNow, Seen, ViewOfBook
<1>5. OnTrack => OnTrack' BY <1>1, <1>2, <1>3, <1>4 DEF OnTrack
<1>6. SeenInv' BY <1>1, <1>2, <1>4, <1>5 DEF SeenInv
<1> QED BY <1>1, <1>6, NothingShown DEF Kept

\* Whatever the book does, its caller sees a step of the promise or nothing.
LEMMA StepShown ==
    ASSUME IInv, SeenInv, [HNext]_<<vars, view, asked>>
    PROVE  Kept
<1>1. CASE UNCHANGED <<vars, view, asked>> BY <1>1, StutterShown
<1>2. CASE HNext
  <2>1. CASE \E r \in Request : Submit(r) BY <1>2, <2>1, SubmitShown
  <2>2. CASE AddSteps
    BY <1>2, <2>2, RejectShown, AcceptShown, FillMakerShown, FillTakerShown, EnsureIndexShown,
       EndShown, PushBackShown
    DEF AddSteps
  <2>3. CASE \E id \in OrderId : Cancel(id) \/ NotFound(id)
    <3>1. PICK id \in OrderId : Cancel(id) \/ NotFound(id) BY <2>3
    <3>2. CASE NotFound(id) BY <1>2, <3>2, NotFoundShown
    <3>3. CASE Cancel(id) BY <1>2, <3>3, WithdrawShown
    <3> QED BY <3>1, <3>2, <3>3
  <2>4. CASE \E id \in OrderId, delta \in Quantity : ReducePart(id, delta) \/ ReduceAll(id, delta)
    BY <1>2, <2>4, WithdrawShown, ReducePartShown
  <2> QED BY <1>2, <2>1, <2>2, <2>3, <2>4 DEF HNext, Next
<1> QED BY <1>1, <1>2

\* Every call of the array-and-linked-list book, however many fills it takes,
\* shows its caller one atomic step of price-time priority: the same trades in the
\* same order, the same orders left, in the same queues, the same ending.
THEOREM RefinesPromise == HSpec => ImplementsPromise
<1>1. HInit => IInv /\ SeenInv /\ Promise!Init
  <2>1. HInit => Init BY DEF HInit
  <2> QED BY <2>1, InitInv, SeenInit
<1>2. IInv /\ SeenInv /\ [HNext]_<<vars, view, asked>> =>
        IInv' /\ SeenInv' /\ [Promise!Next]_Promise!vars
  <2> SUFFICES ASSUME IInv, SeenInv, [HNext]_<<vars, view, asked>>
               PROVE  IInv' /\ SeenInv' /\ [Promise!Next]_Promise!vars
    OBVIOUS
  <2>1. [Next]_vars BY DEF HNext
  <2>2. IInv' BY <2>1, NextInv
  <2> QED BY <2>2, StepShown DEF Kept
<1> QED BY <1>1, <1>2, PTL DEF HSpec, ImplementsPromise, Promise!Spec
------------------------------------------------------------------------------
(***************************************************************************)
(* The index: FlatHashMap for every set of keys and every capacity.  No    *)
(* key is stored twice, every probe ends, and find() sees what an ideal    *)
(* map holds.                                                              *)
(*                                                                         *)
(* As in SpscRingProofs, counting modulo the capacity is kept out of the   *)
(* induction: Ahead(h, i, n) is the distance a probe that starts at h has  *)
(* gone when it looks at slot i of n.                                      *)
(***************************************************************************)

\* Steps from slot h to slot i, going up and round the end.
Ahead(h, i, n) == IF h <= i THEN i - h ELSE i - h + n

\* What a slot can hold.
Entries == {Free} \cup {EntryOf(k, v) : k \in Key, v \in Value}

\* The slots in use.
Used(tb) == {i \in DOMAIN tb : tb[i].used}

\* No key is in two slots.
Distinct(tb, n) ==
    \A i, j \in 0 .. (n - 1) : tb[i].used /\ tb[j].used /\ tb[i].key = tb[j].key => i = j

\* An entry can be reached from its home: the slots on the way are in use.
\* The one exception is the slot g that erase() has emptied, for the entries
\* behind the slot s up to which its loop has looked.
Chained(tb, n, g, s) ==
    \A i \in 0 .. (n - 1) : tb[i].used =>
        \A j \in 0 .. (n - 1) :
            Ahead(Home(tb[i].key, n), j, n) < Ahead(Home(tb[i].key, n), i, n) =>
                tb[j].used \/ (j = g /\ Ahead(g, s, n) < Ahead(g, i, n))

\* The table tb holds what the ideal map c does.
Stores(tb, n, c) ==
    /\ \A i \in 0 .. (n - 1) : tb[i].used => tb[i].key \in DOMAIN c /\ tb[i].value = c[tb[i].key]
    /\ \A k \in DOMAIN c : \E i \in 0 .. (n - 1) : tb[i].used /\ tb[i].key = k

\* The slot erase() is about is empty, and there are two of them or none.
Erasing ==
    /\ gap = -1 <=> scan = -1
    /\ gap # -1 => ~slots[gap].used

\* maybe_grow() keeps the load at or under kMaxLoad.
LightlyLoaded == live * 10 <= size * 7

\* MapTypeOK, with the set of entries.
Typed ==
    /\ size \in Capacities
    /\ slots \in [0 .. (size - 1) -> Entries]
    /\ live = Cardinality(Used(slots))
    /\ gap \in (0 .. (size - 1)) \cup {-1}
    /\ scan \in (0 .. (size - 1)) \cup {-1}

MapIInv ==
    /\ Typed
    /\ Distinct(slots, size)
    /\ Chained(slots, size, gap, scan)
    /\ Stores(slots, size, contents)
    /\ Erasing
    /\ LightlyLoaded
------------------------------------------------------------------------------
(* Slots, entries and distances *)

\* What "%" does where a probe wraps round.
LEMMA ModSize ==
    ASSUME NEW n \in Nat, n > 0, NEW a \in Nat
    PROVE  /\ a < n => a % n = a
           /\ n <= a /\ a < 2 * n => a % n = a - n
           /\ a % n \in 0 .. (n - 1)
<1>1. a < n => a % n = a OBVIOUS
<1>2. n <= a /\ a < 2 * n => a % n = a - n OBVIOUS
<1>3. a % n \in 0 .. (n - 1) OBVIOUS
<1> QED BY <1>1, <1>2, <1>3

\* A key's home is a slot.
LEMMA HomeType ==
    ASSUME NEW n \in Nat, n > 0, NEW k \in Key
    PROVE  Home(k, n) \in 0 .. (n - 1)
BY ModSize, MapAssumption DEF Home

\* The entries, without their records.
LEMMA EntryFacts ==
    /\ Free \in Entries
    /\ ~Free.used
    /\ \A k \in Key, v \in Value :
          /\ EntryOf(k, v) \in Entries /\ EntryOf(k, v).used
          /\ EntryOf(k, v).key = k /\ EntryOf(k, v).value = v
    /\ \A e \in Entries :
          /\ e.used \in BOOLEAN
          /\ ~e.used => e = Free
          /\ e.used => e.key \in Key /\ e.value \in Value /\ e = EntryOf(e.key, e.value)
<1>1. ~Free.used BY DEF Free
<1>2. \A k, v : EntryOf(k, v).used /\ EntryOf(k, v).key = k /\ EntryOf(k, v).value = v BY DEF EntryOf
<1>3. Free.used \in BOOLEAN /\ \A k, v : EntryOf(k, v).used \in BOOLEAN BY DEF Free, EntryOf
<1> QED BY <1>1, <1>2, <1>3 DEF Entries

\* Distances are smaller than the table, tell slots apart, and lead where "%"
\* does.
LEMMA Distances ==
    ASSUME NEW n \in Nat, n > 0, NEW h \in 0 .. (n - 1)
    PROVE  /\ \A i \in 0 .. (n - 1) : Ahead(h, i, n) \in 0 .. (n - 1) /\ (h + Ahead(h, i, n)) % n = i
           /\ \A i, j \in 0 .. (n - 1) : Ahead(h, i, n) = Ahead(h, j, n) => i = j
           /\ \A d \in 0 .. (n - 1) : (h + d) % n \in 0 .. (n - 1) /\ Ahead(h, (h + d) % n, n) = d
<1>1. \A i \in 0 .. (n - 1) : Ahead(h, i, n) \in 0 .. (n - 1) BY DEF Ahead
<1>2. \A i, j \in 0 .. (n - 1) : Ahead(h, i, n) = Ahead(h, j, n) => i = j BY DEF Ahead
<1>3. ASSUME NEW i \in 0 .. (n - 1) PROVE (h + Ahead(h, i, n)) % n = i
  <2>1. h + Ahead(h, i, n) \in Nat /\ (h + Ahead(h, i, n) = i \/ h + Ahead(h, i, n) = i + n) BY DEF Ahead
  <2> QED BY <2>1, ModSize
<1>4. ASSUME NEW d \in 0 .. (n - 1)
      PROVE  (h + d) % n \in 0 .. (n - 1) /\ Ahead(h, (h + d) % n, n) = d
  <2>1. h + d \in Nat /\ h + d < 2 * n OBVIOUS
  <2>2. (h + d) % n = IF h + d < n THEN h + d ELSE h + d - n BY <2>1, ModSize
  <2> QED BY <2>2 DEF Ahead
<1> QED BY <1>1, <1>2, <1>3, <1>4

\* A table with fewer entries than slots has a free slot.
LEMMA RoomLeft ==
    ASSUME NEW n \in Nat, n > 0, NEW tb, DOMAIN tb = 0 .. (n - 1)
    PROVE  /\ IsFiniteSet(Used(tb)) /\ Cardinality(Used(tb)) \in Nat
           /\ Cardinality(Used(tb)) < n => \E i \in 0 .. (n - 1) : ~tb[i].used
<1>1. IsFiniteSet(0 .. (n - 1)) /\ Cardinality(0 .. (n - 1)) = n BY FS_Interval
<1>2. Used(tb) \in SUBSET (0 .. (n - 1)) BY DEF Used
<1>3. IsFiniteSet(Used(tb)) BY <1>1, <1>2, FS_Subset
<1>4. Cardinality(Used(tb)) \in Nat BY <1>3, FS_CardinalityType
<1>5. ASSUME Cardinality(Used(tb)) < n PROVE \E i \in 0 .. (n - 1) : ~tb[i].used
  <2>1. Used(tb) # 0 .. (n - 1) BY <1>1, <1>4, <1>5
  <2> QED BY <2>1 DEF Used
<1> QED BY <1>3, <1>4, <1>5
------------------------------------------------------------------------------
(* Probes *)

\* A probe ends at the first slot that is free or holds the key.
LEMMA ProbeEndIs ==
    ASSUME NEW n \in Nat, n > 0, NEW tb \in [0 .. (n - 1) -> Entries], NEW k \in Key,
           \E f \in 0 .. (n - 1) : ~tb[f].used
    PROVE  /\ ProbeEnd(k, tb, n) \in 0 .. (n - 1)
           /\ tb[ProbeEnd(k, tb, n)].used => tb[ProbeEnd(k, tb, n)].key = k
           /\ \A j \in 0 .. (n - 1) :
                 Ahead(Home(k, n), j, n) < Ahead(Home(k, n), ProbeEnd(k, tb, n), n) =>
                    tb[j].used /\ tb[j].key # k
<1> DEFINE h == Home(k, n)
           S == Stops(k, tb, n)
           m == Min(S)
<1>1. h \in 0 .. (n - 1) BY HomeType
<1>2. S \in SUBSET Nat /\ S \subseteq 0 .. (n - 1) BY DEF Stops
<1>3. \A d \in 0 .. (n - 1) : d \in S <=> (tb[(h + d) % n].used => tb[(h + d) % n].key = k)
  BY DEF Stops
<1> HIDE DEF S, h
<1>4. S # {}
  <2>1. PICK f \in 0 .. (n - 1) : ~tb[f].used OBVIOUS
  <2>2. Ahead(h, f, n) \in 0 .. (n - 1) /\ (h + Ahead(h, f, n)) % n = f BY <1>1, Distances
  <2>3. Ahead(h, f, n) \in S BY <2>1, <2>2, <1>3
  <2> QED BY <2>3
<1>5. m \in S /\ \A d \in S : m <= d BY <1>2, <1>4, MinOfNats
<1> HIDE DEF m
<1>6. m \in 0 .. (n - 1) BY <1>2, <1>5
<1> DEFINE p == (h + m) % n
<1>7. ProbeEnd(k, tb, n) = p BY DEF ProbeEnd, p, m, S, h
<1>8. p \in 0 .. (n - 1) /\ Ahead(h, p, n) = m BY <1>1, <1>6, Distances
<1>9. tb[p].used => tb[p].key = k BY <1>3, <1>5, <1>6
<1> HIDE DEF p
<1>10. ASSUME NEW j \in 0 .. (n - 1), Ahead(h, j, n) < m
       PROVE  tb[j].used /\ tb[j].key # k
  <2>1. Ahead(h, j, n) \in 0 .. (n - 1) /\ (h + Ahead(h, j, n)) % n = j BY <1>1, Distances
  <2>2. Ahead(h, j, n) \notin S BY <2>1, <1>5, <1>6, <1>10
  <2>3. tb[j].used \in BOOLEAN BY EntryFacts
  <2> QED BY <2>1, <2>2, <2>3, <1>3
<1> QED BY <1>7, <1>8, <1>9, <1>10 DEF h

\* Where nothing is being erased, the probe finds the key if some slot has it.
LEMMA ProbeFinds ==
    ASSUME NEW n \in Nat, n > 0, NEW tb \in [0 .. (n - 1) -> Entries], NEW k \in Key,
           \E f \in 0 .. (n - 1) : ~tb[f].used,
           Chained(tb, n, -1, -1),
           NEW i \in 0 .. (n - 1), tb[i].used, tb[i].key = k
    PROVE  tb[ProbeEnd(k, tb, n)].used /\ tb[ProbeEnd(k, tb, n)].key = k
<1> DEFINE h == Home(k, n)
           p == ProbeEnd(k, tb, n)
<1>1. h \in 0 .. (n - 1) BY HomeType
<1>2. /\ p \in 0 .. (n - 1)
      /\ tb[p].used => tb[p].key = k
      /\ \A j \in 0 .. (n - 1) : Ahead(h, j, n) < Ahead(h, p, n) => tb[j].used /\ tb[j].key # k
  BY ProbeEndIs
<1>3. \A j \in 0 .. (n - 1) : Ahead(h, j, n) < Ahead(h, i, n) => tb[j].used
  <2>1. \A j \in 0 .. (n - 1) : j # -1 OBVIOUS
  <2> QED BY <2>1 DEF Chained
<1> HIDE DEF h, p
<1>4. p \in 0 .. (n - 1) BY <1>2
<1>5. Ahead(h, i, n) \in 0 .. (n - 1) /\ Ahead(h, p, n) \in 0 .. (n - 1) BY <1>1, <1>4, Distances
<1>6. Ahead(h, i, n) = Ahead(h, p, n) => i = p BY <1>1, <1>4, Distances
<1>7. Ahead(h, i, n) \in Nat /\ Ahead(h, p, n) \in Nat /\ (Ahead(h, i, n) = Ahead(h, p, n) => i = p)
  BY <1>5, <1>6
<1>8. ~(Ahead(h, i, n) < Ahead(h, p, n)) BY <1>2
<1>9. i = p \/ Ahead(h, p, n) < Ahead(h, i, n) BY <1>7, <1>8
<1>10. tb[p].used BY <1>2, <1>3, <1>9
<1> QED BY <1>2, <1>10 DEF p

\* The table with an entry put where the probe for its key ends.
WithEntry(tb, n, k, v) == [tb EXCEPT ![ProbeEnd(k, tb, n)] = EntryOf(k, v)]

\* A table into which an entry can be put: nothing is being erased, and there
\* is a free slot.
Insertable(tb, n) ==
    /\ tb \in [0 .. (n - 1) -> Entries]
    /\ Distinct(tb, n)
    /\ Chained(tb, n, -1, -1)
    /\ \E f \in 0 .. (n - 1) : ~tb[f].used

\* What putting an entry there does: the slot was free or had the key, no other
\* slot has it, only that slot changes, and the table is as sound as before.
InsertsOne(tb, n, k, v) ==
    LET p == ProbeEnd(k, tb, n)
        new == WithEntry(tb, n, k, v)
    IN
    /\ p \in 0 .. (n - 1)
    /\ tb[p].used => tb[p].key = k
    /\ \A i \in 0 .. (n - 1) : i # p /\ tb[i].used => tb[i].key # k
    /\ new \in [0 .. (n - 1) -> Entries]
    /\ new[p] = EntryOf(k, v) /\ \A i \in 0 .. (n - 1) : i # p => new[i] = tb[i]
    /\ Used(new) = Used(tb) \cup {p}
    /\ Distinct(new, n)
    /\ Chained(new, n, -1, -1)

\* operator[] for a key, in a table that has room.
LEMMA Inserted ==
    ASSUME NEW n \in Nat, n > 0, NEW tb, Insertable(tb, n), NEW k \in Key, NEW v \in Value
    PROVE  InsertsOne(tb, n, k, v)
<1> USE DEF Insertable
<1> DEFINE p == ProbeEnd(k, tb, n)
           new == WithEntry(tb, n, k, v)
<1>1. p = ProbeEnd(k, tb, n) /\ new = [tb EXCEPT ![p] = EntryOf(k, v)] BY DEF WithEntry
<1> HIDE DEF p, new
<1> DEFINE h == Home(k, n)
<1>2. /\ p \in 0 .. (n - 1)
      /\ tb[p].used => tb[p].key = k
      /\ \A j \in 0 .. (n - 1) : Ahead(h, j, n) < Ahead(h, p, n) => tb[j].used /\ tb[j].key # k
  BY <1>1, ProbeEndIs
<1>3. \A i \in 0 .. (n - 1) : i # p /\ tb[i].used => tb[i].key # k
  <2> SUFFICES ASSUME NEW i \in 0 .. (n - 1), i # p, tb[i].used, tb[i].key = k PROVE FALSE
    OBVIOUS
  <2>1. tb[p].used /\ tb[p].key = k BY <1>1, ProbeFinds
  <2> QED BY <2>1, <1>2 DEF Distinct
<1>4. /\ EntryOf(k, v) \in Entries /\ EntryOf(k, v).used /\ EntryOf(k, v).key = k BY EntryFacts
<1>5. new \in [0 .. (n - 1) -> Entries] BY <1>1, <1>4
<1>6. new[p] = EntryOf(k, v) /\ \A i \in 0 .. (n - 1) : i # p => new[i] = tb[i] BY <1>1, <1>2
<1>7. Used(new) = Used(tb) \cup {p}
  <2>1. DOMAIN new = 0 .. (n - 1) /\ DOMAIN tb = 0 .. (n - 1) BY <1>5
  <2> QED BY <2>1, <1>2, <1>4, <1>6 DEF Used
<1> HIDE DEF h
<1>8. Distinct(new, n)
  <2> SUFFICES ASSUME NEW i \in 0 .. (n - 1), NEW j \in 0 .. (n - 1),
                      new[i].used, new[j].used, new[i].key = new[j].key
               PROVE  i = j
    BY DEF Distinct
  <2>1. CASE i # p /\ j # p BY <2>1, <1>6 DEF Distinct
  <2>2. CASE i = p \/ j = p BY <2>2, <1>3, <1>4, <1>6
  <2> QED BY <2>1, <2>2
<1>9. Chained(new, n, -1, -1)
  <2> SUFFICES ASSUME NEW i \in 0 .. (n - 1), new[i].used, NEW j \in 0 .. (n - 1),
                      Ahead(Home(new[i].key, n), j, n) < Ahead(Home(new[i].key, n), i, n)
               PROVE  new[j].used
    BY DEF Chained
  <2>1. CASE j = p BY <2>1, <1>4, <1>6
  <2>2. CASE j # p /\ i = p
    <3>1. new[i].key = k BY <2>2, <1>4, <1>6
    <3>2. Ahead(h, j, n) < Ahead(h, p, n) BY <2>2, <3>1 DEF h
    <3> QED BY <2>2, <3>2, <1>2, <1>6 DEF h
  <2>3. CASE j # p /\ i # p
    <3>1. new[i] = tb[i] /\ new[j] = tb[j] BY <2>3, <1>6
    <3>2. j # -1 OBVIOUS
    <3> QED BY <3>1, <3>2 DEF Chained
  <2> QED BY <2>1, <2>2, <2>3
<1> QED BY <1>2, <1>3, <1>5, <1>6, <1>7, <1>8, <1>9 DEF p, new, InsertsOne
------------------------------------------------------------------------------
(* Growth *)

\* What the recursive definition of the capacities says.
LEMMA DoubledIs ==
    \A i \in 0 .. MaxCapacity : Doubled[i] = IF i = 0 THEN MinCapacity ELSE Doubled[i - 1] * 2
<1> USE MapAssumption
<1> DEFINE IsDoubled(f, m) == f = [i \in 0 .. m |-> IF i = 0 THEN MinCapacity ELSE f[i - 1] * 2]
           Missing == {m \in 0 .. MaxCapacity : ~\E f : IsDoubled(f, m)}
<1>1. Missing = {}
  <2> SUFFICES ASSUME Missing # {} PROVE FALSE OBVIOUS
  <2>1. Missing \in SUBSET Nat OBVIOUS
  <2>2. PICK x \in Missing : \A y \in Missing : x <= y BY <2>1, LeastNat
  <2>3. x # 0
    <3>1. IsDoubled([i \in 0 .. 0 |-> MinCapacity], 0) OBVIOUS
    <3> QED BY <3>1
  <2>4. x \in 0 .. MaxCapacity /\ x - 1 \in 0 .. MaxCapacity /\ ~(x <= x - 1) BY <2>3
  <2>5. x - 1 \notin Missing BY <2>2, <2>4
  <2>6. PICK f : IsDoubled(f, x - 1) BY <2>4, <2>5
  <2> DEFINE g == [i \in 0 .. x |-> IF i = x THEN f[x - 1] * 2 ELSE f[i]]
  <2>7. \A i \in 0 .. (x - 1) : f[i] = IF i = 0 THEN MinCapacity ELSE f[i - 1] * 2 BY <2>6
  <2>8. \A i \in 0 .. x : g[i] = IF i = 0 THEN MinCapacity ELSE g[i - 1] * 2
    <3> TAKE i \in 0 .. x
    <3>1. CASE i = x BY <3>1, <2>3, <2>4
    <3>2. CASE i # x
      <4>1. i \in 0 .. (x - 1) /\ g[i] = f[i] BY <3>2, <2>4
      <4>2. i # 0 => g[i - 1] = f[i - 1] BY <4>1, <2>4
      <4> QED BY <4>1, <4>2, <2>7
    <3> QED BY <3>1, <3>2
  <2>9. IsDoubled(g, x) BY <2>8
  <2> QED BY <2>9
<1> HIDE DEF IsDoubled
<1>2. \E f : IsDoubled(f, MaxCapacity)
  <2>1. MaxCapacity \in 0 .. MaxCapacity OBVIOUS
  <2> QED BY <2>1, <1>1
<1> USE DEF IsDoubled
<1>3. IsDoubled(Doubled, MaxCapacity) BY <1>2 DEF Doubled
<1> QED BY <1>3

\* Doubling a capacity gives a capacity, if it is not too large.
LEMMA DoubleOfCapacity ==
    ASSUME NEW n \in Capacities, n * 2 <= MaxCapacity
    PROVE  n * 2 \in Capacities
<1> USE MapAssumption
<1>1. n \in MinCapacity .. MaxCapacity /\ n \in Nat /\ n > 0 BY DEF Capacities
<1>2. PICK i \in 0 .. n : n = Doubled[i] BY DEF Capacities
<1>3. i + 1 \in 0 .. MaxCapacity /\ i + 1 \in 0 .. (n * 2) /\ i + 1 # 0 /\ i + 1 - 1 = i BY <1>1
<1>4. Doubled[i + 1] = n * 2 BY <1>2, <1>3, DoubledIs
<1>5. n * 2 \in MinCapacity .. MaxCapacity BY <1>1
<1> QED BY <1>3, <1>4, <1>5 DEF Capacities

\* A capacity is a number of slots.
LEMMA CapacityType == \A n \in Capacities : n \in Nat /\ n > 1 /\ n <= MaxCapacity
BY MapAssumption DEF Capacities

\* The table of n slots after the entry of slot i - 1, if it has one, has been
\* moved too.
OneMoved(tb, n, i) ==
    IF slots[i - 1].used
    THEN [tb EXCEPT ![ProbeEnd(slots[i - 1].key, tb, n)] = slots[i - 1]]
    ELSE tb

IsMove(f, n, m) ==
    f = [i \in 0 .. m |-> IF i = 0 THEN [j \in 0 .. (n - 1) |-> Free] ELSE OneMoved(f[i - 1], n, i)]

\* The recursion of rehash() describes tables, and Moved(n) is the last.
LEMMA MovedIs ==
    ASSUME NEW n \in Nat, size \in Nat
    PROVE  \E f : /\ Moved(n) = f[size]
                  /\ f[0] = [j \in 0 .. (n - 1) |-> Free]
                  /\ \A i \in 1 .. size : f[i] = OneMoved(f[i - 1], n, i)
<1> DEFINE Missing == {m \in Nat : ~\E f : IsMove(f, n, m)}
           none == [j \in 0 .. (n - 1) |-> Free]
<1>1. Missing = {}
  <2> SUFFICES ASSUME Missing # {} PROVE FALSE OBVIOUS
  <2>1. PICK x \in Missing : \A y \in Missing : x <= y BY LeastNat
  <2>2. x # 0
    <3>1. IsMove([i \in 0 .. 0 |-> none], n, 0) BY DEF IsMove
    <3> QED BY <3>1
  <2>3. x - 1 \in Nat /\ x - 1 \notin Missing BY <2>1, <2>2
  <2>4. PICK f : IsMove(f, n, x - 1) BY <2>3
  <2> DEFINE g == [i \in 0 .. x |-> IF i = x THEN OneMoved(f[x - 1], n, x) ELSE f[i]]
  <2>5. \A i \in 0 .. (x - 1) : f[i] = IF i = 0 THEN none ELSE OneMoved(f[i - 1], n, i)
    BY <2>4 DEF IsMove
  <2>6. \A i \in 0 .. x : g[i] = IF i = 0 THEN none ELSE OneMoved(g[i - 1], n, i)
    <3> TAKE i \in 0 .. x
    <3>1. CASE i = x BY <3>1, <2>2, <2>3
    <3>2. CASE i # x
      <4>1. i \in 0 .. (x - 1) /\ g[i] = f[i] BY <3>2, <2>3
      <4>2. i # 0 => g[i - 1] = f[i - 1] BY <4>1, <2>3
      <4> QED BY <4>1, <4>2, <2>5
    <3> QED BY <3>1, <3>2
  <2>7. IsMove(g, n, x) BY <2>6 DEF IsMove
  <2> QED BY <2>7
<1> DEFINE f == CHOOSE moved : IsMove(moved, n, size)
<1>2. IsMove(f, n, size) BY <1>1
<1>3. Moved(n) = f[size] BY DEF Moved, IsMove, OneMoved
<1> HIDE DEF f
<1>4. \A i \in 0 .. size : f[i] = IF i = 0 THEN none ELSE OneMoved(f[i - 1], n, i)
  BY <1>2 DEF IsMove
<1>5. 0 \in 0 .. size /\ \A i \in 1 .. size : i \in 0 .. size /\ i # 0 OBVIOUS
<1>6. f[0] = none BY <1>4, <1>5
<1>7. \A i \in 1 .. size : f[i] = OneMoved(f[i - 1], n, i) BY <1>4, <1>5
<1> QED BY <1>3, <1>6, <1>7

\* A table of n slots into which the first i slots have been moved.
MovedSoFar(tb, n, i) ==
    /\ tb \in [0 .. (n - 1) -> Entries]
    /\ Distinct(tb, n)
    /\ Chained(tb, n, -1, -1)
    /\ Cardinality(Used(tb)) = Cardinality({m \in 0 .. (i - 1) : slots[m].used})
    /\ \A j \in 0 .. (n - 1) : tb[j].used => \E m \in 0 .. (i - 1) : slots[m] = tb[j]
    /\ \A m \in 0 .. (i - 1) : slots[m].used => \E j \in 0 .. (n - 1) : tb[j] = slots[m]

\* rehash() loses no entry, makes no second copy and leaves every entry where
\* a probe finds it.
LEMMA MovedSound ==
    ASSUME NEW n \in Nat, n > 0, size \in Nat, slots \in [0 .. (size - 1) -> Entries],
           Distinct(slots, size), Cardinality(Used(slots)) < n
    PROVE  /\ MovedSoFar(Moved(n), n, size)
           /\ Cardinality(Used(Moved(n))) = Cardinality(Used(slots))
<1>1. PICK f : /\ Moved(n) = f[size]
               /\ f[0] = [j \in 0 .. (n - 1) |-> Free]
               /\ \A i \in 1 .. size : f[i] = OneMoved(f[i - 1], n, i)
  BY MovedIs
<1> DEFINE Before(i) == {m \in 0 .. (i - 1) : slots[m].used}
           Bad == {i \in 0 .. size : ~MovedSoFar(f[i], n, i)}
<1>2. MovedSoFar(f[0], n, 0)
  <2>1. \A j \in 0 .. (n - 1) : f[0][j] = Free /\ ~f[0][j].used BY <1>1, EntryFacts
  <2>2. f[0] \in [0 .. (n - 1) -> Entries] BY <1>1, EntryFacts
  <2>3. Used(f[0]) = {} BY <2>1, <2>2 DEF Used
  <2>4. 0 .. (0 - 1) = {} OBVIOUS
  <2>5. {m \in 0 .. (0 - 1) : slots[m].used} = {} BY <2>4
  <2>6. Cardinality(Used(f[0])) = Cardinality({m \in 0 .. (0 - 1) : slots[m].used}) BY <2>3, <2>5
  <2>7. Distinct(f[0], n) BY <2>1 DEF Distinct
  <2>8. Chained(f[0], n, -1, -1) BY <2>1 DEF Chained
  <2> QED BY <2>1, <2>2, <2>4, <2>6, <2>7, <2>8 DEF MovedSoFar
<1>3. ASSUME NEW i \in 1 .. size, MovedSoFar(f[i - 1], n, i - 1)
      PROVE  MovedSoFar(f[i], n, i)
  <2> DEFINE tb == f[i - 1]
             e == slots[i - 1]
  <2>1. i \in Nat /\ i - 1 \in 0 .. (size - 1) /\ i - 1 \in 0 .. (i - 1) /\ (i - 1) \notin 0 .. (i - 1 - 1)
        /\ 0 .. (i - 1) = (0 .. (i - 1 - 1)) \cup {i - 1} /\ 0 .. (i - 1 - 1) \subseteq 0 .. (size - 1)
    OBVIOUS
  <2>2. f[i] = OneMoved(tb, n, i) BY <1>1
  <2>3. /\ tb \in [0 .. (n - 1) -> Entries]
        /\ Distinct(tb, n)
        /\ Chained(tb, n, -1, -1)
        /\ Cardinality(Used(tb)) = Cardinality(Before(i - 1))
        /\ \A j \in 0 .. (n - 1) : tb[j].used => \E m \in 0 .. (i - 1 - 1) : slots[m] = tb[j]
        /\ \A m \in 0 .. (i - 1 - 1) : slots[m].used => \E j \in 0 .. (n - 1) : tb[j] = slots[m]
    BY <1>3 DEF MovedSoFar
  <2>4. e \in Entries BY <2>1
  <2>5. /\ Before(i - 1) \subseteq Used(slots)
        /\ e.used => Before(i) = Before(i - 1) \cup {i - 1} /\ (i - 1) \notin Before(i - 1)
        /\ ~e.used => Before(i) = Before(i - 1)
    <3>1. Before(i - 1) \subseteq Used(slots) BY <2>1 DEF Used
    <3>2. e.used => Before(i) = Before(i - 1) \cup {i - 1} BY <2>1
    <3>3. (i - 1) \notin Before(i - 1) BY <2>1
    <3>4. ~e.used => Before(i) = Before(i - 1) BY <2>1
    <3> QED BY <3>1, <3>2, <3>3, <3>4
  <2> HIDE DEF tb, e, Before
  <2>6. CASE ~e.used
    <3>1. f[i] = tb BY <2>2, <2>6 DEF OneMoved, e
    <3>2. Cardinality(Used(tb)) = Cardinality(Before(i)) BY <2>3, <2>5, <2>6
    <3>3. \A m \in 0 .. (i - 1) : slots[m].used => m \in 0 .. (i - 1 - 1) BY <2>1, <2>6 DEF e
    <3>4. \A m \in 0 .. (i - 1 - 1) : m \in 0 .. (i - 1) BY <2>1
    <3> QED BY <3>1, <3>2, <3>3, <3>4, <2>3 DEF MovedSoFar, Before
  <2>7. CASE e.used
    <3> DEFINE k == e.key
               p == ProbeEnd(k, tb, n)
               new == WithEntry(tb, n, k, e.value)
    <3>1. k \in Key /\ e.value \in Value /\ e = EntryOf(k, e.value) BY <2>4, <2>7, EntryFacts
    <3>2. f[i] = new BY <2>2, <2>7, <3>1 DEF OneMoved, WithEntry, e
    <3>3. IsFiniteSet(Used(slots)) /\ Cardinality(Used(slots)) \in Nat
      <4>1. size > 0 /\ DOMAIN slots = 0 .. (size - 1) BY <2>1
      <4> QED BY <4>1, RoomLeft
    <3>4. IsFiniteSet(Before(i - 1)) /\ Cardinality(Before(i - 1)) <= Cardinality(Used(slots))
      BY <2>5, <3>3, FS_Subset
    <3>5. DOMAIN tb = 0 .. (n - 1) BY <2>3
    <3>6. IsFiniteSet(Used(tb)) /\ Cardinality(Used(tb)) \in Nat BY <3>5, RoomLeft
    <3>7. Cardinality(Used(tb)) < n BY <3>3, <3>4, <3>6, <2>3
    <3>8. \E r \in 0 .. (n - 1) : ~tb[r].used BY <3>5, <3>7, RoomLeft
    <3> HIDE DEF k, p, new
    <3>9. /\ p \in 0 .. (n - 1)
          /\ tb[p].used => tb[p].key = k
          /\ new \in [0 .. (n - 1) -> Entries]
          /\ new[p] = EntryOf(k, e.value) /\ \A j \in 0 .. (n - 1) : j # p => new[j] = tb[j]
          /\ Used(new) = Used(tb) \cup {p}
          /\ Distinct(new, n)
          /\ Chained(new, n, -1, -1)
      <4>1. Insertable(tb, n) BY <2>3, <3>8 DEF Insertable
      <4>2. InsertsOne(tb, n, k, e.value) BY <4>1, <3>1, Inserted
      <4> QED BY <4>2 DEF InsertsOne, p, new
    <3>10. ~tb[p].used
      <4> SUFFICES ASSUME tb[p].used PROVE FALSE OBVIOUS
      <4>1. PICK m \in 0 .. (i - 1 - 1) : slots[m] = tb[p] BY <2>3, <3>9
      <4>2. slots[m].used /\ slots[m].key = k /\ m \in 0 .. (size - 1) /\ m # i - 1
        BY <4>1, <3>9, <2>1
      <4> QED BY <4>2, <2>1, <2>7 DEF Distinct, e, k
    <3>11. Cardinality(Used(new)) = Cardinality(Before(i))
      <4>1. p \notin Used(tb) BY <3>10 DEF Used
      <4>2. Cardinality(Used(tb) \cup {p}) = Cardinality(Used(tb)) + 1 BY <4>1, <3>6, FS_AddElement
      <4>3. Cardinality(Before(i - 1) \cup {i - 1}) = Cardinality(Before(i - 1)) + 1
        BY <2>5, <2>7, <3>4, FS_AddElement
      <4> QED BY <4>2, <4>3, <2>3, <2>5, <2>7, <3>9
    <3>12. \A j \in 0 .. (n - 1) : new[j].used => \E m \in 0 .. (i - 1) : slots[m] = new[j]
      <4> SUFFICES ASSUME NEW j \in 0 .. (n - 1), new[j].used
                   PROVE  \E m \in 0 .. (i - 1) : slots[m] = new[j]
        OBVIOUS
      <4>1. CASE j = p BY <4>1, <3>1, <3>9, <2>1 DEF e
      <4>2. CASE j # p BY <4>2, <3>9, <2>1, <2>3
      <4> QED BY <4>1, <4>2
    <3>13. \A m \in 0 .. (i - 1) : slots[m].used => \E j \in 0 .. (n - 1) : new[j] = slots[m]
      <4> SUFFICES ASSUME NEW m \in 0 .. (i - 1), slots[m].used
                   PROVE  \E j \in 0 .. (n - 1) : new[j] = slots[m]
        OBVIOUS
      <4>1. CASE m = i - 1 BY <4>1, <3>1, <3>9 DEF e
      <4>2. CASE m # i - 1
        <5>1. m \in 0 .. (i - 1 - 1) BY <4>2, <2>1
        <5>2. PICK j \in 0 .. (n - 1) : tb[j] = slots[m] BY <5>1, <2>3
        <5>3. j # p BY <5>2, <3>10
        <5> QED BY <5>2, <5>3, <3>9
      <4> QED BY <4>1, <4>2
    <3> QED BY <3>2, <3>9, <3>11, <3>12, <3>13 DEF MovedSoFar, Before
  <2> QED BY <2>6, <2>7
<1>4. Bad = {}
  <2> SUFFICES ASSUME Bad # {} PROVE FALSE OBVIOUS
  <2>1. Bad \in SUBSET Nat OBVIOUS
  <2>2. PICK x \in Bad : \A y \in Bad : x <= y BY <2>1, LeastNat
  <2>3. x # 0 BY <1>2, <2>2
  <2>4. x \in 1 .. size /\ x - 1 \in 0 .. size /\ ~(x <= x - 1) BY <2>2, <2>3
  <2>5. MovedSoFar(f[x - 1], n, x - 1) BY <2>2, <2>4
  <2> QED BY <2>2, <2>4, <2>5, <1>3
<1>5. size \in 0 .. size OBVIOUS
<1>6. MovedSoFar(Moved(n), n, size) BY <1>1, <1>4, <1>5
<1>7. Used(slots) = {m \in 0 .. (size - 1) : slots[m].used} BY DEF Used
<1> QED BY <1>6, <1>7 DEF MovedSoFar
------------------------------------------------------------------------------
(* The invariant *)

\* The table always has a free slot.
LEMMA HasRoom ==
    ASSUME MapIInv
    PROVE  /\ size \in Nat /\ size > 1
           /\ live \in Nat /\ live < size
           /\ \E i \in 0 .. (size - 1) : ~slots[i].used
           /\ Idle => Insertable(slots, size)
<1>1. size \in Nat /\ size > 1 BY CapacityType DEF MapIInv, Typed
<1>2. DOMAIN slots = 0 .. (size - 1) BY DEF MapIInv, Typed
<1>3. live \in Nat BY <1>1, <1>2, RoomLeft DEF MapIInv, Typed
<1>4. live < size BY <1>1, <1>3 DEF MapIInv, LightlyLoaded
<1>5. \E i \in 0 .. (size - 1) : ~slots[i].used BY <1>1, <1>2, <1>4, RoomLeft DEF MapIInv, Typed
<1>6. Idle => Insertable(slots, size) BY <1>5 DEF MapIInv, Typed, Erasing, Idle, Insertable
<1> QED BY <1>1, <1>3, <1>4, <1>5, <1>6

\* A larger table that rehash() fills holds what the old one did, and has room.
LEMMA Regrown ==
    ASSUME MapIInv, NEW n \in Nat, n >= size
    PROVE  /\ Insertable(Moved(n), n)
           /\ Stores(Moved(n), n, contents)
           /\ Cardinality(Used(Moved(n))) = live
<1> DEFINE tb == Moved(n)
<1>1. size \in Nat /\ live \in Nat /\ live < size /\ live < n /\ n > 0 BY HasRoom
<1>2. slots \in [0 .. (size - 1) -> Entries] /\ live = Cardinality(Used(slots)) /\ Distinct(slots, size)
  BY DEF MapIInv, Typed
<1>3. MovedSoFar(tb, n, size) /\ Cardinality(Used(tb)) = live BY <1>1, <1>2, MovedSound
<1> HIDE DEF tb
<1>4. /\ tb \in [0 .. (n - 1) -> Entries]
      /\ Distinct(tb, n)
      /\ Chained(tb, n, -1, -1)
      /\ \A j \in 0 .. (n - 1) : tb[j].used => \E m \in 0 .. (size - 1) : slots[m] = tb[j]
      /\ \A m \in 0 .. (size - 1) : slots[m].used => \E j \in 0 .. (n - 1) : tb[j] = slots[m]
  BY <1>3 DEF MovedSoFar
<1>5. \E f \in 0 .. (n - 1) : ~tb[f].used BY <1>1, <1>3, <1>4, RoomLeft
<1>6. Insertable(tb, n) BY <1>4, <1>5 DEF Insertable
<1>7. Stores(slots, size, contents) BY DEF MapIInv
<1>8. Stores(tb, n, contents) 
  <2>1. \A i \in 0 .. (n - 1) : tb[i].used =>
           tb[i].key \in DOMAIN contents /\ tb[i].value = contents[tb[i].key]
    BY <1>4, <1>7 DEF Stores
  <2>2. ASSUME NEW k \in DOMAIN contents PROVE \E i \in 0 .. (n - 1) : tb[i].used /\ tb[i].key = k
    <3>1. PICK m \in 0 .. (size - 1) : slots[m].used /\ slots[m].key = k BY <1>7 DEF Stores
    <3>2. PICK j \in 0 .. (n - 1) : tb[j] = slots[m] BY <3>1, <1>4
    <3> QED BY <3>1, <3>2
  <2> QED BY <2>1, <2>2 DEF Stores
<1> QED BY <1>3, <1>6, <1>8 DEF tb

\* A new map.
LEMMA StartsSound == ASSUME MapInit PROVE MapIInv
<1> USE DEF MapInit
<1>1. MinCapacity \in Nat /\ MinCapacity > 1 BY MapAssumption
<1>2. size \in Capacities
  <2>1. Doubled[0] = MinCapacity BY DoubledIs, MapAssumption
  <2> QED BY <1>1, <2>1, MapAssumption DEF Capacities
<1>3. slots \in [0 .. (size - 1) -> Entries] /\ \A i \in 0 .. (size - 1) : ~slots[i].used
  BY EntryFacts
<1>4. live = Cardinality(Used(slots))
  <2>1. Used(slots) = {} BY <1>3 DEF Used
  <2> QED BY <2>1, FS_EmptySet
<1>5. Typed BY <1>2, <1>3, <1>4 DEF Typed
<1>6. Distinct(slots, size) BY <1>3 DEF Distinct
<1>7. Chained(slots, size, gap, scan) BY <1>3 DEF Chained
<1>8. Stores(slots, size, contents) BY <1>3 DEF Stores
<1>9. Erasing BY DEF Erasing
<1>10. LightlyLoaded BY <1>1 DEF LightlyLoaded
<1> QED BY <1>5, <1>6, <1>7, <1>8, <1>9, <1>10 DEF MapIInv

\* operator[] and the assignment through it.
LEMMA PutKeeps == ASSUME MapIInv, NEW k \in Key, NEW v \in Value, Put(k, v) PROVE MapIInv'
<1> DEFINE n == IF TooFull(live + 1, size) THEN size * 2 ELSE size
           tb == IF n = size THEN slots ELSE Moved(n)
           p == ProbeEnd(k, tb, n)
           new == WithEntry(tb, n, k, v)
<1>1. /\ gap = -1 /\ scan = -1 /\ gap' = -1 /\ scan' = -1
      /\ n <= MaxCapacity /\ size' = n
      /\ slots' = new
      /\ live' = IF tb[p].used THEN live ELSE live + 1
      /\ contents' = [o \in DOMAIN contents \cup {k} |-> IF o = k THEN v ELSE contents[o]]
  BY DEF Put, Idle, WithEntry, MapIInv, Erasing
<1>2. size \in Nat /\ size > 1 /\ live \in Nat /\ live < size /\ live * 10 <= size * 7
      /\ size \in Capacities
  BY HasRoom DEF MapIInv, LightlyLoaded, Typed
<1>3. n \in Nat /\ n >= size /\ (live + 1) * 10 <= n * 7 BY <1>2 DEF TooFull
<1>4. n \in Capacities BY <1>1, <1>2, DoubleOfCapacity
<1>5. /\ Insertable(tb, n)
      /\ Stores(tb, n, contents)
      /\ Cardinality(Used(tb)) = live
  <2>1. CASE n = size BY <2>1, <1>1, HasRoom DEF MapIInv, Typed, Idle
  <2>2. CASE n # size BY <2>2, <1>3, Regrown
  <2> QED BY <2>1, <2>2
<1> HIDE DEF n, tb
<1>6. InsertsOne(tb, n, k, v) BY <1>2, <1>3, <1>5, Inserted
<1>7. /\ p \in 0 .. (n - 1)
      /\ tb[p].used => tb[p].key = k
      /\ \A i \in 0 .. (n - 1) : i # p /\ tb[i].used => tb[i].key # k
      /\ new \in [0 .. (n - 1) -> Entries]
      /\ new[p] = EntryOf(k, v) /\ \A i \in 0 .. (n - 1) : i # p => new[i] = tb[i]
      /\ Used(new) = Used(tb) \cup {p}
      /\ Distinct(new, n)
      /\ Chained(new, n, -1, -1)
  BY <1>6 DEF InsertsOne
<1> HIDE DEF p, new
<1>8. tb \in [0 .. (n - 1) -> Entries] /\ DOMAIN tb = 0 .. (n - 1) /\ n > 0
  BY <1>2, <1>3, <1>5 DEF Insertable
<1>9. live' = Cardinality(Used(slots'))
  <2>1. IsFiniteSet(Used(tb)) BY <1>3, <1>8, RoomLeft
  <2>2. p \in Used(tb) <=> tb[p].used BY <1>7, <1>8 DEF Used
  <2> QED BY <2>1, <2>2, <1>1, <1>5, <1>7, FS_AddElement
<1>10. Typed' BY <1>1, <1>4, <1>7, <1>9 DEF Typed
<1>11. Stores(slots', size', contents')
  <2>1. EntryOf(k, v).used /\ EntryOf(k, v).key = k /\ EntryOf(k, v).value = v BY EntryFacts
  <2>2. DOMAIN contents' = DOMAIN contents \cup {k} BY <1>1
  <2>3. ASSUME NEW i \in 0 .. (n - 1), new[i].used
        PROVE  new[i].key \in DOMAIN contents' /\ new[i].value = contents'[new[i].key]
    <3>1. CASE i = p BY <3>1, <2>1, <2>2, <1>1, <1>7
    <3>2. CASE i # p
      <4>1. new[i] = tb[i] /\ tb[i].used /\ tb[i].key # k BY <3>2, <2>3, <1>7
      <4>2. tb[i].key \in DOMAIN contents /\ tb[i].value = contents[tb[i].key] BY <4>1, <1>5 DEF Stores
      <4> QED BY <4>1, <4>2, <1>1
    <3> QED BY <3>1, <3>2
  <2>4. ASSUME NEW o \in DOMAIN contents' PROVE \E i \in 0 .. (n - 1) : new[i].used /\ new[i].key = o
    <3>1. CASE o = k BY <3>1, <2>1, <1>7
    <3>2. CASE o # k
      <4>1. o \in DOMAIN contents BY <3>2, <2>2
      <4>2. PICK i \in 0 .. (n - 1) : tb[i].used /\ tb[i].key = o BY <4>1, <1>5 DEF Stores
      <4>3. i # p BY <4>2, <3>2, <1>7
      <4> QED BY <4>2, <4>3, <1>7
    <3> QED BY <3>1, <3>2
  <2> QED BY <2>3, <2>4, <1>1 DEF Stores
<1>12. Erasing' BY <1>1 DEF Erasing
<1>13. LightlyLoaded' BY <1>1, <1>2, <1>3 DEF LightlyLoaded
<1> QED BY <1>1, <1>7, <1>10, <1>11, <1>12, <1>13 DEF MapIInv

\* reserve()
LEMMA ReserveKeeps == ASSUME MapIInv, NEW n \in Capacities, Reserve(n) PROVE MapIInv'
<1>1. /\ gap = -1 /\ scan = -1 /\ gap' = -1 /\ scan' = -1
      /\ n > size /\ size' = n /\ slots' = Moved(n) /\ live' = live /\ contents' = contents
  BY DEF Reserve, Idle, MapIInv, Erasing
<1>2. size \in Nat /\ live \in Nat /\ n \in Nat /\ live * 10 <= size * 7
  BY HasRoom, CapacityType DEF MapIInv, LightlyLoaded
<1>3. /\ Insertable(Moved(n), n)
      /\ Stores(Moved(n), n, contents)
      /\ Cardinality(Used(Moved(n))) = live
  BY <1>1, <1>2, Regrown
<1>4. Typed' BY <1>1, <1>3 DEF Typed, Insertable
<1>5. Distinct(slots', size') /\ Chained(slots', size', gap', scan') BY <1>1, <1>3 DEF Insertable
<1>6. Erasing' BY <1>1 DEF Erasing
<1>7. LightlyLoaded' BY <1>1, <1>2 DEF LightlyLoaded
<1> QED BY <1>1, <1>3, <1>4, <1>5, <1>6, <1>7 DEF MapIInv

\* for_each_mut()
LEMMA ForEachMutKeeps == ASSUME MapIInv, NEW new \in [Value -> Value], ForEachMut(new) PROVE MapIInv'
<1> DEFINE n == size
<1>1. /\ gap = -1 /\ scan = -1 /\ gap' = -1 /\ scan' = -1 /\ size' = n /\ live' = live
      /\ slots' = [i \in DOMAIN slots |->
                      IF slots[i].used THEN EntryOf(slots[i].key, new[slots[i].value]) ELSE slots[i]]
      /\ contents' = [k \in DOMAIN contents |-> new[contents[k]]]
  BY DEF ForEachMut, Idle, MapIInv, Erasing
<1>2. /\ slots \in [0 .. (n - 1) -> Entries] /\ n \in Capacities /\ live = Cardinality(Used(slots))
      /\ Distinct(slots, n) /\ Chained(slots, n, -1, -1) /\ Stores(slots, n, contents)
  BY <1>1 DEF MapIInv, Typed
<1>3. DOMAIN slots' = 0 .. (n - 1) /\ DOMAIN slots = 0 .. (n - 1) BY <1>1, <1>2
<1>4. ASSUME NEW i \in 0 .. (n - 1)
      PROVE  /\ slots'[i] \in Entries
             /\ slots'[i].used <=> slots[i].used
             /\ slots[i].used => slots'[i].key = slots[i].key /\ slots'[i].value = new[slots[i].value]
  <2>1. CASE ~slots[i].used BY <2>1, <1>1, <1>2, <1>3
  <2>2. CASE slots[i].used
    <3>1. slots[i] \in Entries BY <1>2
    <3>2. PICK k \in Key, v \in Value : slots[i] = EntryOf(k, v) BY <3>1, <2>2, EntryFacts
    <3>3. new[v] \in Value OBVIOUS
    <3>4. slots[i].key = k /\ slots[i].value = v BY <3>2, EntryFacts
    <3>5. slots'[i] = EntryOf(k, new[v]) BY <3>4, <2>2, <1>1, <1>3
    <3> QED BY <2>2, <3>3, <3>4, <3>5, EntryFacts
  <2> QED BY <2>1, <2>2
<1>5. slots' \in [0 .. (n - 1) -> Entries]
  <2>1. slots' = [i \in 0 .. (n - 1) |-> slots'[i]] BY <1>1, <1>3
  <2> QED BY <2>1, <1>4
<1>6. Used(slots') = Used(slots) BY <1>3, <1>4 DEF Used
<1>7. Typed' BY <1>1, <1>2, <1>5, <1>6 DEF Typed
<1>8. Distinct(slots', n) BY <1>2, <1>4 DEF Distinct
<1>9. Chained(slots', n, -1, -1) BY <1>2, <1>4 DEF Chained
<1>10. Stores(slots', n, contents')
  <2>1. DOMAIN contents' = DOMAIN contents BY <1>1
  <2>2. ASSUME NEW i \in 0 .. (n - 1), slots'[i].used
        PROVE  slots'[i].key \in DOMAIN contents' /\ slots'[i].value = contents'[slots'[i].key]
    <3>1. slots[i].key \in DOMAIN contents /\ slots[i].value = contents[slots[i].key]
      BY <2>2, <1>2, <1>4 DEF Stores
    <3> QED BY <3>1, <2>2, <1>1, <1>4
  <2>3. ASSUME NEW k \in DOMAIN contents' PROVE \E i \in 0 .. (n - 1) : slots'[i].used /\ slots'[i].key = k
    BY <2>1, <1>2, <1>4 DEF Stores
  <2> QED BY <2>2, <2>3 DEF Stores
<1>11. Erasing' /\ LightlyLoaded' BY <1>1 DEF Erasing, LightlyLoaded, MapIInv
<1> QED BY <1>1, <1>7, <1>8, <1>9, <1>10, <1>11 DEF MapIInv

\* erase() empties the slot of the key: what was reached through it is not
\* checked yet.
LEMMA EraseFoundKeeps == ASSUME MapIInv, NEW k \in Key, EraseFound(k) PROVE MapIInv'
<1> DEFINE n == size
           p == ProbeEnd(k, slots, n)
<1>1. /\ gap = -1 /\ scan = -1 /\ gap' = p /\ scan' = p /\ size' = n /\ live' = live - 1
      /\ slots[p].used
      /\ slots' = [slots EXCEPT ![p] = Free]
      /\ contents' = [o \in DOMAIN contents \ {k} |-> contents[o]]
  BY DEF EraseFound, Found, Idle, MapIInv, Erasing
<1>2. /\ slots \in [0 .. (n - 1) -> Entries] /\ n \in Capacities /\ live = Cardinality(Used(slots))
      /\ Distinct(slots, n) /\ Chained(slots, n, -1, -1) /\ Stores(slots, n, contents)
      /\ live * 10 <= n * 7
  BY <1>1 DEF MapIInv, Typed, LightlyLoaded
<1>3. n \in Nat /\ n > 1 /\ live \in Nat /\ \E f \in 0 .. (n - 1) : ~slots[f].used BY HasRoom
<1>4. p \in 0 .. (n - 1) /\ slots[p].key = k
  <2>1. slots \in [0 .. (n - 1) -> Entries] /\ n > 0 BY <1>2, <1>3
  <2>2. p \in 0 .. (n - 1) /\ (slots[p].used => slots[p].key = k) BY <2>1, <1>3, ProbeEndIs
  <2> QED BY <2>2, <1>1
<1> HIDE DEF p
<1>5. /\ slots' \in [0 .. (n - 1) -> Entries] /\ DOMAIN slots' = 0 .. (n - 1) /\ DOMAIN slots = 0 .. (n - 1)
      /\ ~slots'[p].used
      /\ \A i \in 0 .. (n - 1) : i # p => slots'[i] = slots[i]
  BY <1>1, <1>2, <1>4, EntryFacts
<1>6. \A i \in 0 .. (n - 1) : slots'[i].used => i # p /\ slots[i].used /\ slots'[i] = slots[i] BY <1>5
<1>7. live' = Cardinality(Used(slots'))
  <2>1. Used(slots') = Used(slots) \ {p} BY <1>5 DEF Used
  <2>2. p \in Used(slots) BY <1>1, <1>4, <1>5 DEF Used
  <2>3. IsFiniteSet(Used(slots)) BY <1>3, <1>5, RoomLeft
  <2> QED BY <2>1, <2>2, <2>3, <1>1, <1>2, FS_RemoveElement
<1>8. Typed' BY <1>1, <1>2, <1>4, <1>5, <1>7 DEF Typed
<1>9. Distinct(slots', n) BY <1>2, <1>6 DEF Distinct
<1>10. Chained(slots', n, p, p)
  <2> SUFFICES ASSUME NEW i \in 0 .. (n - 1), slots'[i].used, NEW j \in 0 .. (n - 1),
                      Ahead(Home(slots'[i].key, n), j, n) < Ahead(Home(slots'[i].key, n), i, n)
               PROVE  slots'[j].used \/ (j = p /\ Ahead(p, p, n) < Ahead(p, i, n))
    BY DEF Chained
  <2>1. slots'[i] = slots[i] /\ slots[i].used /\ i # p BY <1>6
  <2>2. j # -1 OBVIOUS
  <2>3. slots[j].used BY <2>1, <2>2, <1>2 DEF Chained
  <2>4. Ahead(p, p, n) < Ahead(p, i, n) BY <2>1, <1>3, <1>4 DEF Ahead
  <2> QED BY <2>3, <2>4, <1>5
<1>11. Stores(slots', n, contents')
  <2>1. DOMAIN contents' = DOMAIN contents \ {k} /\ \A o \in DOMAIN contents' : contents'[o] = contents[o]
    BY <1>1
  <2>2. ASSUME NEW i \in 0 .. (n - 1), slots'[i].used
        PROVE  slots'[i].key \in DOMAIN contents' /\ slots'[i].value = contents'[slots'[i].key]
    <3>1. slots'[i] = slots[i] /\ slots[i].used /\ i # p BY <2>2, <1>6
    <3>2. slots[i].key # k BY <3>1, <1>1, <1>2, <1>4 DEF Distinct
    <3>3. slots[i].key \in DOMAIN contents /\ slots[i].value = contents[slots[i].key]
      BY <3>1, <1>2 DEF Stores
    <3> QED BY <3>1, <3>2, <3>3, <2>1
  <2>3. ASSUME NEW o \in DOMAIN contents' PROVE \E i \in 0 .. (n - 1) : slots'[i].used /\ slots'[i].key = o
    <3>1. o \in DOMAIN contents /\ o # k BY <2>1
    <3>2. PICK i \in 0 .. (n - 1) : slots[i].used /\ slots[i].key = o BY <3>1, <1>2 DEF Stores
    <3>3. i # p BY <3>1, <3>2, <1>4
    <3> QED BY <3>2, <3>3, <1>5
  <2> QED BY <2>2, <2>3 DEF Stores
<1>12. Erasing'
  <2>1. p # -1 BY <1>4
  <2> QED BY <2>1, <1>1, <1>5 DEF Erasing
<1>13. LightlyLoaded' BY <1>1, <1>2, <1>3 DEF LightlyLoaded
<1> QED BY <1>1, <1>8, <1>9, <1>10, <1>11, <1>12, <1>13 DEF MapIInv

\* What MustStay decides, as a distance: the entry at j may move back to the
\* gap g exactly when its home h is not behind g.
LEMMA MayMoveBack ==
    ASSUME NEW n \in Nat, NEW g \in 0 .. (n - 1), NEW j \in 0 .. (n - 1), NEW h \in 0 .. (n - 1), g # j
    PROVE  MustStay(g, j, h) <=> Ahead(h, j, n) < Ahead(g, j, n)
BY DEF MustStay, Ahead

\* One round of erase()'s loop.
LEMMA ShiftKeeps == ASSUME MapIInv, ShiftBack PROVE MapIInv'
<1> DEFINE n == size
           j == (scan + 1) % size
           g == gap
           h == Home(slots[j].key, n)
<1>1. /\ g # -1 /\ slots[j].used /\ scan' = j /\ size' = n /\ live' = live /\ contents' = contents
      /\ IF MustStay(g, j, h)
         THEN slots' = slots /\ gap' = g
         ELSE slots' = [slots EXCEPT ![g] = slots[j], ![j] = Free] /\ gap' = j
  BY DEF ShiftBack, Idle
<1>2. /\ slots \in [0 .. (n - 1) -> Entries] /\ n \in Capacities /\ live = Cardinality(Used(slots))
      /\ g \in 0 .. (n - 1) /\ scan \in 0 .. (n - 1) /\ ~slots[g].used
      /\ Distinct(slots, n) /\ Chained(slots, n, g, scan) /\ Stores(slots, n, contents)
  BY <1>1 DEF MapIInv, Typed, Erasing
<1>3. n \in Nat /\ n > 1 /\ live \in Nat BY HasRoom
<1>4. j = IF scan + 1 = n THEN 0 ELSE scan + 1
  <2>1. scan + 1 \in Nat /\ scan + 1 <= n BY <1>2, <1>3
  <2>2. scan + 1 < n => (scan + 1) % n = scan + 1 BY <2>1, <1>3, ModSize
  <2>3. scan + 1 = n => (scan + 1) % n = 0 BY <2>1, <1>3, ModSize
  <2> QED BY <2>1, <2>2, <2>3, <1>3
<1> HIDE DEF j
<1>5. j \in 0 .. (n - 1) /\ j # g BY <1>1, <1>2, <1>3, <1>4
<1>6. Ahead(g, j, n) = Ahead(g, scan, n) + 1 BY <1>2, <1>3, <1>4, <1>5 DEF Ahead
<1>7. slots[j] \in Entries /\ slots[j].key \in Key BY <1>1, <1>2, <1>5, EntryFacts
<1>8. h \in 0 .. (n - 1) BY <1>3, <1>7, HomeType
<1>9. CASE MustStay(g, j, h)
  <2>1. slots' = slots /\ gap' = g BY <1>1, <1>9
  <2>2. Typed' BY <2>1, <1>1, <1>2, <1>5 DEF Typed
  <2>3. Ahead(h, j, n) < Ahead(g, j, n) BY <1>3, <1>2, <1>5, <1>8, <1>9, MayMoveBack
  <2>4. Chained(slots, n, g, j)
    <3> SUFFICES ASSUME NEW i \in 0 .. (n - 1), slots[i].used, NEW m \in 0 .. (n - 1),
                        Ahead(Home(slots[i].key, n), m, n) < Ahead(Home(slots[i].key, n), i, n)
                 PROVE  slots[m].used \/ (m = g /\ Ahead(g, j, n) < Ahead(g, i, n))
      BY DEF Chained
    <3>1. slots[m].used \/ (m = g /\ Ahead(g, scan, n) < Ahead(g, i, n)) BY <1>2 DEF Chained
    <3>2. CASE i = j
      <4>1. m # g BY <3>2, <2>3, <1>2, <1>3, <1>5, <1>8 DEF Ahead
      <4> QED BY <3>1, <4>1
    <3>3. CASE i # j
      <4>1. Ahead(g, i, n) # Ahead(g, j, n) BY <3>3, <1>2, <1>3, <1>5 DEF Ahead
      <4>2. Ahead(g, i, n) \in Int /\ Ahead(g, scan, n) \in Int BY <1>2, <1>3 DEF Ahead
      <4> QED BY <3>1, <4>1, <4>2, <1>6
    <3> QED BY <3>2, <3>3
  <2>5. Erasing'
    <3>1. j # -1 BY <1>5
    <3> QED BY <3>1, <2>1, <1>1, <1>2 DEF Erasing
  <2>6. LightlyLoaded' BY <1>1 DEF LightlyLoaded, MapIInv
  <2> QED BY <2>1, <2>2, <2>4, <2>5, <2>6, <1>1, <1>2 DEF MapIInv
<1>10. CASE ~MustStay(g, j, h)
  <2>1. slots' = [slots EXCEPT ![g] = slots[j], ![j] = Free] /\ gap' = j BY <1>1, <1>10
  <2>2. /\ slots' \in [0 .. (n - 1) -> Entries] /\ DOMAIN slots' = 0 .. (n - 1) /\ DOMAIN slots = 0 .. (n - 1)
        /\ slots'[g] = slots[j] /\ ~slots'[j].used
        /\ \A i \in 0 .. (n - 1) : i # g /\ i # j => slots'[i] = slots[i]
    BY <2>1, <1>2, <1>5, <1>7, EntryFacts
  <2>3. live' = Cardinality(Used(slots'))
    <3>1. Used(slots') = (Used(slots) \ {j}) \cup {g} BY <2>2, <1>1, <1>2, <1>5 DEF Used
    <3>2. j \in Used(slots) /\ g \notin Used(slots) BY <2>2, <1>1, <1>2, <1>5 DEF Used
    <3>3. IsFiniteSet(Used(slots)) BY <1>3, <2>2, RoomLeft
    <3>4. IsFiniteSet(Used(slots) \ {j}) /\ Cardinality(Used(slots) \ {j}) = live - 1
      BY <3>2, <3>3, <1>2, FS_RemoveElement
    <3>5. Cardinality((Used(slots) \ {j}) \cup {g}) = live - 1 + 1 BY <3>2, <3>4, FS_AddElement
    <3> QED BY <3>1, <3>5, <1>1, <1>3
  <2>4. Typed' BY <2>1, <2>2, <2>3, <1>1, <1>2, <1>5 DEF Typed
  <2>5. ~(Ahead(h, j, n) < Ahead(g, j, n)) BY <1>3, <1>2, <1>5, <1>8, <1>10, MayMoveBack
  <2>6. Distinct(slots', n)
    <3> SUFFICES ASSUME NEW a \in 0 .. (n - 1), NEW b \in 0 .. (n - 1),
                        slots'[a].used, slots'[b].used, slots'[a].key = slots'[b].key
                 PROVE  a = b
      BY DEF Distinct
    <3>1. a # j /\ b # j BY <2>2
    <3>2. CASE a # g /\ b # g BY <3>1, <3>2, <2>2, <1>2 DEF Distinct
    <3>3. CASE a = g /\ b # g
      <4>1. slots[j].used /\ slots[b].used /\ slots[j].key = slots[b].key BY <3>1, <3>3, <2>2, <1>1
      <4> QED BY <4>1, <3>1, <1>2, <1>5 DEF Distinct
    <3>4. CASE a # g /\ b = g
      <4>1. slots[j].used /\ slots[a].used /\ slots[j].key = slots[a].key BY <3>1, <3>4, <2>2, <1>1
      <4> QED BY <4>1, <3>1, <1>2, <1>5 DEF Distinct
    <3> QED BY <3>2, <3>3, <3>4
  <2>7. Chained(slots', n, j, j)
    <3> SUFFICES ASSUME NEW i \in 0 .. (n - 1), slots'[i].used, NEW m \in 0 .. (n - 1),
                        Ahead(Home(slots'[i].key, n), m, n) < Ahead(Home(slots'[i].key, n), i, n)
                 PROVE  slots'[m].used \/ (m = j /\ Ahead(j, j, n) < Ahead(j, i, n))
      BY DEF Chained
    <3>1. i # j BY <2>2
    <3>2. Ahead(j, j, n) < Ahead(j, i, n) BY <3>1, <1>3, <1>5 DEF Ahead
    <3>3. CASE m = j BY <3>2, <3>3
    <3>4. CASE m = g BY <3>4, <2>2, <1>1
    <3>5. CASE m # j /\ m # g /\ i # g
      <4>1. slots'[i] = slots[i] /\ slots'[m] = slots[m] BY <3>1, <3>5, <2>2
      <4> QED BY <4>1, <3>5, <1>2 DEF Chained
    <3>6. CASE m # j /\ m # g /\ i = g
      <4>1. slots'[i] = slots[j] /\ slots'[m] = slots[m] BY <3>6, <2>2
      <4>2. Ahead(h, m, n) < Ahead(h, g, n) BY <4>1, <3>6
      <4>3. Ahead(h, m, n) < Ahead(h, j, n)
        BY <4>2, <2>5, <1>2, <1>3, <1>5, <1>8 DEF Ahead
      <4>4. slots[m].used BY <4>3, <3>6, <1>1, <1>2, <1>5 DEF Chained
      <4> QED BY <4>1, <4>4
    <3> QED BY <3>3, <3>4, <3>5, <3>6
  <2>8. Stores(slots', n, contents)
    <3>1. \A i \in 0 .. (n - 1) : slots'[i].used =>
             slots'[i].key \in DOMAIN contents /\ slots'[i].value = contents[slots'[i].key]
      BY <2>2, <1>1, <1>2, <1>5 DEF Stores
    <3>2. ASSUME NEW o \in DOMAIN contents PROVE \E i \in 0 .. (n - 1) : slots'[i].used /\ slots'[i].key = o
      <4>1. PICK i \in 0 .. (n - 1) : slots[i].used /\ slots[i].key = o BY <1>2 DEF Stores
      <4>2. CASE i = j BY <4>1, <4>2, <2>2, <1>2
      <4>3. CASE i # j
        <5>1. i # g BY <4>1, <1>2
        <5> QED BY <4>1, <4>3, <5>1, <2>2
      <4> QED BY <4>2, <4>3
    <3> QED BY <3>1, <3>2 DEF Stores
  <2>9. Erasing'
    <3>1. j # -1 BY <1>5
    <3> QED BY <3>1, <2>1, <2>2, <1>1 DEF Erasing
  <2>10. LightlyLoaded' BY <1>1 DEF LightlyLoaded, MapIInv
  <2> QED BY <2>1, <2>4, <2>6, <2>7, <2>8, <2>9, <2>10, <1>1 DEF MapIInv
<1> QED BY <1>9, <1>10

\* erase()'s loop ends at a free slot: no entry behind it was reached through
\* the gap.
LEMMA EraseDoneKeeps == ASSUME MapIInv, EraseDone PROVE MapIInv'
<1> DEFINE n == size
           j == (scan + 1) % size
           g == gap
<1>1. /\ g # -1 /\ ~slots[j].used /\ gap' = -1 /\ scan' = -1
      /\ size' = n /\ slots' = slots /\ live' = live /\ contents' = contents
  BY DEF EraseDone, Idle
<1>2. /\ slots \in [0 .. (n - 1) -> Entries] /\ n \in Capacities /\ live = Cardinality(Used(slots))
      /\ g \in 0 .. (n - 1) /\ scan \in 0 .. (n - 1) /\ ~slots[g].used
      /\ Distinct(slots, n) /\ Chained(slots, n, g, scan) /\ Stores(slots, n, contents)
  BY <1>1 DEF MapIInv, Typed, Erasing
<1>3. n \in Nat /\ n > 1 BY HasRoom
<1>4. j = IF scan + 1 = n THEN 0 ELSE scan + 1
  <2>1. scan + 1 \in Nat /\ scan + 1 <= n BY <1>2, <1>3
  <2>2. scan + 1 < n => (scan + 1) % n = scan + 1 BY <2>1, <1>3, ModSize
  <2>3. scan + 1 = n => (scan + 1) % n = 0 BY <2>1, <1>3, ModSize
  <2> QED BY <2>1, <2>2, <2>3, <1>3
<1> HIDE DEF j
<1>5. j \in 0 .. (n - 1) BY <1>2, <1>3, <1>4
<1>6. Chained(slots, n, -1, -1)
  <2> SUFFICES ASSUME NEW i \in 0 .. (n - 1), slots[i].used, NEW m \in 0 .. (n - 1),
                      Ahead(Home(slots[i].key, n), m, n) < Ahead(Home(slots[i].key, n), i, n),
                      ~slots[m].used
               PROVE  FALSE
    BY DEF Chained
  <2> DEFINE h == Home(slots[i].key, n)
  <2>1. m = g /\ Ahead(g, scan, n) < Ahead(g, i, n) BY <1>2 DEF Chained
  <2>2. slots[i] \in Entries /\ slots[i].key \in Key BY <1>2, EntryFacts
  <2>3. h \in 0 .. (n - 1) BY <2>2, <1>3, HomeType
  <2>4. i # j BY <1>1
  <2>5. j # g BY <2>1, <1>2, <1>3, <1>4 DEF Ahead
  <2>6. Ahead(g, j, n) < Ahead(g, i, n) BY <2>1, <2>4, <2>5, <1>2, <1>3, <1>4 DEF Ahead
  <2>7. Ahead(h, g, n) < Ahead(h, i, n) BY <2>1
  <2> HIDE DEF h
  <2>8. Ahead(h, j, n) < Ahead(h, i, n) BY <2>3, <2>6, <2>7, <1>2, <1>3, <1>5 DEF Ahead
  <2>9. slots[j].used BY <2>5, <2>8, <1>2, <1>5 DEF Chained, h
  <2> QED BY <2>9, <1>1
<1>7. Typed' BY <1>1, <1>2 DEF Typed
<1>8. Erasing' /\ LightlyLoaded' BY <1>1 DEF Erasing, LightlyLoaded, MapIInv
<1> QED BY <1>1, <1>2, <1>6, <1>7, <1>8 DEF MapIInv
------------------------------------------------------------------------------
(* The theorems *)

\* Every step keeps the invariant.
LEMMA Preserved == ASSUME MapIInv, [MapNext]_mapVars PROVE MapIInv'
<1>1. CASE UNCHANGED mapVars
  BY <1>1 DEF mapVars, MapIInv, Typed, Distinct, Chained, Stores, Erasing, LightlyLoaded, Used
<1>2. ASSUME NEW k \in Key, NEW v \in Value, Put(k, v) PROVE MapIInv' BY <1>2, PutKeeps
<1>3. ASSUME NEW n \in Capacities, Reserve(n) PROVE MapIInv' BY <1>3, ReserveKeeps
<1>4. ASSUME NEW new \in [Value -> Value], ForEachMut(new) PROVE MapIInv' BY <1>4, ForEachMutKeeps
<1>5. ASSUME NEW k \in Key, EraseFound(k) PROVE MapIInv' BY <1>5, EraseFoundKeeps
<1>6. ASSUME NEW k \in Key, EraseMissing(k) PROVE MapIInv' BY <1>1, <1>6 DEF EraseMissing
<1>7. CASE ShiftBack BY <1>7, ShiftKeeps
<1>8. CASE EraseDone BY <1>8, EraseDoneKeeps
<1> QED BY <1>1, <1>2, <1>3, <1>4, <1>5, <1>6, <1>7, <1>8 DEF MapNext

\* The invariant holds always.
LEMMA Invariant == MapSpec => []MapIInv
BY StartsSound, Preserved, PTL DEF MapSpec

\* The array of slots keeps its type, and live_ counts the used ones, whatever
\* operator[], reserve(), for_each_mut() and erase() do.
THEOREM MapTypeCorrect == MapSpec => []MapTypeOK
<1>1. ASSUME MapIInv PROVE MapTypeOK
  <2>1. /\ size \in Capacities /\ slots \in [0 .. (size - 1) -> Entries]
        /\ live = Cardinality(Used(slots))
        /\ gap \in (0 .. (size - 1)) \cup {-1} /\ scan \in (0 .. (size - 1)) \cup {-1}
    BY <1>1 DEF MapIInv, Typed
  <2>2. DOMAIN slots = 0 .. (size - 1) BY <2>1
  <2>3. \A i \in DOMAIN slots : slots[i] = Free \/ \E k \in Key, v \in Value : slots[i] = EntryOf(k, v)
    BY <2>1 DEF Entries
  <2>4. live = Cardinality({i \in DOMAIN slots : slots[i].used}) BY <2>1 DEF Used
  <2> QED BY <2>1, <2>2, <2>3, <2>4 DEF MapTypeOK
<1> QED BY <1>1, Invariant, PTL

\* No key is ever in two slots, in the middle of erase()'s backward shift either.
THEOREM NoCopies == MapSpec => []NoSecondCopy
<1>1. ASSUME MapIInv PROVE NoSecondCopy
  <2>1. DOMAIN slots = 0 .. (size - 1) /\ Distinct(slots, size) BY <1>1 DEF MapIInv, Typed
  <2> QED BY <2>1 DEF Distinct, NoSecondCopy
<1> QED BY <1>1, Invariant, PTL

\* There is always a free slot, so every probe and erase()'s loop end.
THEOREM ProbesAlwaysEnd == MapSpec => []ProbesEnd
<1>1. ASSUME MapIInv PROVE ProbesEnd
  <2>1. DOMAIN slots = 0 .. (size - 1) BY <1>1 DEF MapIInv, Typed
  <2> QED BY <2>1, <1>1, HasRoom DEF ProbesEnd
<1> QED BY <1>1, Invariant, PTL

\* Between calls, find() answers as an ideal map would.
THEOREM FindIsExact == MapSpec => []FindsWhatWasPut
<1>1. ASSUME MapIInv PROVE FindsWhatWasPut
  <2> SUFFICES ASSUME Idle, NEW k \in Key
               PROVE  /\ Found(k) <=> k \in DOMAIN contents
                      /\ Found(k) => slots[ProbeEnd(k, slots, size)].value = contents[k]
    BY DEF FindsWhatWasPut
  <2> DEFINE p == ProbeEnd(k, slots, size)
  <2>1. /\ size \in Nat /\ size > 0 /\ Stores(slots, size, contents)
        /\ slots \in [0 .. (size - 1) -> Entries] /\ Chained(slots, size, -1, -1)
        /\ \E f \in 0 .. (size - 1) : ~slots[f].used
    BY <1>1, HasRoom DEF MapIInv, Insertable
  <2>2. p \in 0 .. (size - 1) /\ (slots[p].used => slots[p].key = k) BY <2>1, ProbeEndIs
  <2>3. ASSUME k \in DOMAIN contents PROVE slots[p].used
    <3>1. PICK i \in 0 .. (size - 1) : slots[i].used /\ slots[i].key = k BY <2>1, <2>3 DEF Stores
    <3> QED BY <3>1, <2>1, ProbeFinds
  <2>4. ASSUME slots[p].used PROVE k \in DOMAIN contents /\ slots[p].value = contents[k]
    BY <2>1, <2>2, <2>4 DEF Stores
  <2> QED BY <2>3, <2>4 DEF Found
<1> QED BY <1>1, Invariant, PTL
==============================================================================
