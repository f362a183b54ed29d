SPECIFICATION Spec
CONSTANTS
  i1 = i1
  i2 = i2
  Ips = {i1, i2}
  Threads = {t1, t2}
  Shards = {1}
  ShardOf <- MCShardOf
  Rate = 1
  Burst = 4
  Unit = 2
  CleanupThreshold = 1
  CleanupIdle = 2
  MaxTime = 4
SYMMETRY MCSymmetry
INVARIANTS NeverUnderserved GrantsCovered
CHECK_DEADLOCK FALSE
