------------------------- MODULE MCShardedLRUCache -------------------------
(***************************************************************************)
(* ShardedLRUCache for TLC, on keys 1, 2 and 3.  Entries are               *)
(* interchangeable.  The keys are spread over two shards, or they are all  *)
(* in one, two of them with the same hash; the other two hashes of a shard *)
(* have the same bucket until the table has four of them.                  *)
(***************************************************************************)
EXTENDS ShardedLRUCache

MCHashFunctions == {<<1, 3, 5>>, <<1, 1, 3>>}

Symmetry == Permutations(Entries)
============================================================================
