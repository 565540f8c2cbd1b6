----------------------------- MODULE PriceWindow -----------------------------
(***************************************************************************)
(* The price axis of OrderBookV2: levels_[i] stands for price base_ + i,   *)
(* and ensure_index_for_price() moves or grows that window to cover a new  *)
(* price, or throws when the level array would pass kMaxLevels.  A window  *)
(* is the pair [base, size]; size = 0 is the book that has seen no resting *)
(* order yet (have_base_ = false).  The module is pure: the book and the   *)
(* sequencer's per-symbol books both use it.                               *)
(***************************************************************************)
EXTENDS Integers

CONSTANTS
    InitialWindow,  \* initial_window_: levels allocated around the first price
    MaxLevels       \* kMaxLevels: hard ceiling on the number of levels

ASSUME WindowAssumption ==
    /\ InitialWindow \in Nat \ {0}
    /\ MaxLevels \in Nat
    /\ InitialWindow <= MaxLevels

Window == [base: Int, size: Nat]

NoWindow == [base |-> 0, size |-> 0]

\* The first price ever to rest anchors the window, centred on it.
Anchored(w, p) ==
    IF w.size = 0
    THEN [base |-> p - InitialWindow \div 2, size |-> InitialWindow]
    ELSE w

\* Position of price p on the axis of w; outside 0..size-1 when not covered.
Slot(w, p) == p - w.base

\* How far the existing levels move when p lies below the window, else 0.
Shift(w, p) ==
    IF Slot(w, p) < 0 THEN -Slot(w, p) + InitialWindow \div 4 + 1 ELSE 0

\* The number of levels after making room for p, with headroom of a quarter
\* window on the side that grows.
SizeFor(w, p) ==
    IF Slot(w, p) < 0 THEN w.size + Shift(w, p)
    ELSE IF Slot(w, p) >= w.size THEN Slot(w, p) + InitialWindow \div 4 + 1
    ELSE w.size

\* Whether ensure_index_for_price(p) returns rather than throws.  A price the
\* window covers already is never refused.
Fits(w, p) ==
    LET a == Anchored(w, p) IN
    Slot(a, p) \in 0..(a.size - 1) \/ SizeFor(a, p) <= MaxLevels

\* The window after ensure_index_for_price(p) returned.
Covering(w, p) ==
    LET a == Anchored(w, p) IN
    [base |-> a.base - Shift(a, p), size |-> SizeFor(a, p)]
==============================================================================
