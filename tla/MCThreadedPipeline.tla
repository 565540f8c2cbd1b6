------------------------- MODULE MCThreadedPipeline --------------------------
(* Operations without trades, with one, and with more trades than out_ring holds. *)
EXTENDS ThreadedPipeline

MCTradesOf == <<1, 0, 5, 0, 0, 2, 1, 0, 1, 4, 0, 0, 1, 3, 0, 1>>
==============================================================================
