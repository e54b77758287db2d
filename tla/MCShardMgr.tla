----------------------------- MODULE MCShardMgr -----------------------------
(* Instances of the shard manager for TLC.                                 *)
EXTENDS ShardMgrRefinement, TLC

CONSTANTS s1, s2

\* start() queues the shards by id.
MCStartOrder == <<s1, s2>>

\* A bot with one shard.
MCOneShard == <<s1>>

\* Connection identities are interchangeable; the shards are ordered.
MCSymmetry == Permutations(Conns)
=============================================================================
