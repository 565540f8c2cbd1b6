------------------------- MODULE MCSnapshotRecovery --------------------------
(* Two feeds of four events, as the sequencer publishes them. *)
EXTENDS SnapshotRecovery

Buy(id, q) == [id |-> id, side |-> "Buy", price |-> 10, qty |-> q]
Sell(id, q) == [id |-> id, side |-> "Sell", price |-> 10, qty |-> q]

\* An order fills another and rests what is left; its Add
\* comes before its trade.  Then it is replaced.
Crossing ==
    <<AddEvent("IBM", Buy(1, 2), 2), AddEvent("IBM", Sell(2, 3), 1), TakeEvent(1, 2),
      ReplaceEvent(2, "IBM", Sell(3, 2), 2)>>

\* Two symbols; an order is reduced, then deleted.
Reducing ==
    <<AddEvent("IBM", Buy(1, 2), 2), AddEvent("MSFT", Sell(2, 1), 1), TakeEvent(1, 1), DeleteEvent(1)>>

MCFeeds == {Crossing, Reducing}
==============================================================================
