------------------------------ MODULE MCSidecar ------------------------------
(***************************************************************************)
(* Sidecar for TLC: nine-bit integers and ticks of a hundredth.            *)
(***************************************************************************)
EXTENDS Sidecar, TLC

Text(minus, whole, frac) == [minus |-> minus, whole |-> whole, frac |-> frac]

\* 1.057, 2.5, -0.5, 3 (past the largest integer in ticks) and 1.-5.
MCDecimal ==
    {Text(FALSE, 1, <<0, 5, 7>>), Text(FALSE, 2, <<5>>), Text(TRUE, 0, <<5>>),
     Text(FALSE, 3, <<>>), Text(FALSE, 1, <<Dash, 5>>)}

Interchangeable == Permutations(OrderId)
==============================================================================
