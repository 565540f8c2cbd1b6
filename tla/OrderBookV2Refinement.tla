------------------------ MODULE OrderBookV2Refinement ------------------------
(***************************************************************************)
(* OrderBookV2 implements BookPromise.  A call of add() takes several      *)
(* steps and the promise takes one, so a history variable holds what the   *)
(* caller has seen of the book: it changes when a call ends, and then by   *)
(* the whole effect of the call at once.                                   *)
(***************************************************************************)
EXTENDS OrderBookV2, SequencesExt

VARIABLES
    view,   \* the book as the last call to end left it
    asked   \* what add() was called with, NoRequest between calls

\* The orders at their prices.
RestingOrders ==
    [id \in Resting |->
        [side |-> index[id].side,
         price |-> PriceAt(index[id].level),
         qty |-> arena[index[id].node].qty]]

\* The nodes that next links lead to from node n, n included: those of every set
\* of nodes that holds n and that no link leaves.
FromOn(n) ==
    {m \in Live : \A S \in SUBSET Live :
        n \in S /\ (\A k \in S : arena[k].next \in S \cup {Nil}) => m \in S}

\* The order in which match() meets the orders of a level.
QueueOrder ==
    {pair \in Resting \X Resting :
        /\ pair[1] # pair[2]
        /\ index[pair[2]].node \in FromOn(index[pair[1]].node)}

ViewOfBook == [resting |-> RestingOrders, before |-> QueueOrder, reply |-> reply]

HInit == Init /\ view = ViewOfBook /\ asked = NoRequest

HNext ==
    /\ Next
    /\ view' = IF call' = "idle" THEN ViewOfBook' ELSE view
    /\ asked' = IF call' = "idle" THEN NoRequest ELSE IF call = "idle" THEN taker' ELSE asked

HSpec == HInit /\ [][HNext]_<<vars, view, asked>>

Promise == INSTANCE BookPromise WITH
    Capacity <- ArenaCapacity,
    resting <- view.resting,
    before <- view.before,
    asked <- asked,
    reply <- view.reply

\* Every call of the array-and-linked-list book has exactly the effect and the
\* trades, in order, that one atomic price-time-priority step gives its request.
ImplementsPromise == Promise!Spec
==============================================================================
