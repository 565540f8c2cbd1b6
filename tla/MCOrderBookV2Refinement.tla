----------------------- MODULE MCOrderBookV2Refinement -----------------------
(***************************************************************************)
(* The refinement of BookPromise by OrderBookV2, for TLC.                  *)
(***************************************************************************)
EXTENDS OrderBookV2Refinement, TLC

IdSymmetry == Permutations(OrderId)
==============================================================================
