---------------------------- MODULE MCFlatHashMap ----------------------------
(* FlatHashMap with keys that collide and wrap round the end of a small table. *)
EXTENDS FlatHashMap
==============================================================================
