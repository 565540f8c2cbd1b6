-------------------------- MODULE MCShardedPipeline --------------------------
(* A symbol on each of two shards. *)
EXTENDS ShardedPipeline

CONSTANTS IBM, ORCL

MCShardFor == [s \in Symbol |-> IF s = ORCL THEN 0 ELSE 1]
==============================================================================
