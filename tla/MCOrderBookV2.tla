---------------------------- MODULE MCOrderBookV2 ----------------------------
(***************************************************************************)
(* OrderBookV2 for TLC: interchangeable order ids.                         *)
(***************************************************************************)
EXTENDS OrderBookV2, TLC

IdSymmetry == Permutations(OrderId)
==============================================================================
