--------------------------- MODULE MCRateLimiter ---------------------------
(* Values for the model checking of RateLimiter: two addresses that share  *)
(* a shard, so that one of them can push the other through the cleanup.    *)
EXTENDS RateLimiter, TLC

CONSTANTS i1, i2

\* Workers, and the addresses of one shard, are interchangeable.
MCSymmetry == Permutations(Threads) \cup Permutations(Ips)

MCShardOf == [ip \in {i1, i2} |-> 1]
=============================================================================
