----------------------------- MODULE MarketData ------------------------------
(***************************************************************************)
(* The events of the market data feed (cpp/feed/market_data.h) and what    *)
(* snapshot::Builder (snapshot.h) makes of them: the orders of all books,  *)
(* by id, and the snapshot rows they are sent as.  Reference numbers are   *)
(* unique over the symbols, so one map stands for the map per symbol.  The *)
(* 50-byte event and the 33-byte row keep every field this model has.      *)
(***************************************************************************)
EXTENDS Integers, FiniteSets, Sequences

AddEvent(sym, r, left) == [type |-> "Add", id |-> r.id, new |-> r.id,
    entry |-> [symbol |-> sym, side |-> r.side, price |-> r.price, qty |-> left]]

ReplaceEvent(old, sym, r, left) == [AddEvent(sym, r, left) EXCEPT !.type = "Replace", !.id = old]

\* Cancel and Trade both take shares away from a resting order.
TakeEvent(id, shares) == [type |-> "Take", id |-> id, shares |-> shares]

DeleteEvent(id) == [type |-> "Delete", id |-> id]

\* A published event as decode() yields it: the quantities of the wire are unsigned.
IsEvent(ev) ==
    \/ ev.type \in {"Add", "Replace"} /\ "qty" \in DOMAIN ev.entry /\ ev.entry.qty \in Nat
    \/ ev.type = "Take" /\ ev.shares \in Nat
    \/ ev.type = "Delete"
------------------------------------------------------------------------------
(* Builder *)

NoOrders == [id \in {} |-> 0]

Drop(sh, id) == [o \in DOMAIN sh \ {id} |-> sh[o]]

Put(sh, id, entry) == [o \in DOMAIN sh \cup {id} |-> IF o = id THEN entry ELSE sh[o]]

\* Builder::apply().
Apply(sh, ev) ==
    CASE ev.type = "Add" -> Put(sh, ev.new, ev.entry)
      [] ev.type = "Replace" -> Put(Drop(sh, ev.id), ev.new, ev.entry)
      [] ev.type = "Delete" -> Drop(sh, ev.id)
      [] ev.type = "Take" ->
            IF ev.id \notin DOMAIN sh THEN sh
            ELSE IF ev.shares >= sh[ev.id].qty THEN Drop(sh, ev.id)
            ELSE [sh EXCEPT ![ev.id].qty = @ - ev.shares]

\* The orders once every event of a sequence was applied, first to last.
Applied(sh, events) ==
    LET after[n \in 0 .. Len(events)] ==
            IF n = 0 THEN sh ELSE Apply(after[n - 1], events[n])
    IN after[Len(events)]

\* Builder::rows(), in no particular order.
Rows(sh) == {<<id, sh[id]>> : id \in {o \in DOMAIN sh : sh[o].qty > 0}}

\* Builder::load().
Load(rows) == [id \in {row[1] : row \in rows} |-> (CHOOSE row \in rows : row[1] = id)[2]]
==============================================================================
