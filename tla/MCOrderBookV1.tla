---------------------------- MODULE MCOrderBookV1 ----------------------------
(***************************************************************************)
(* OrderBookV1 for TLC: interchangeable order ids.                         *)
(***************************************************************************)
EXTENDS OrderBookV1, TLC

IdSymmetry == Permutations(OrderId)
==============================================================================
