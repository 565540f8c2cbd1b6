----------------------------- MODULE MCSequencer -----------------------------
(***************************************************************************)
(* Sequencer for TLC: interchangeable order ids and symbols.               *)
(***************************************************************************)
EXTENDS Sequencer, TLC

Interchangeable == Permutations(OrderId) \cup Permutations(Symbol)
==============================================================================
