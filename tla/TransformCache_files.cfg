SPECIFICATION Spec
CONSTANTS
  t1 = t1
  t2 = t2
  v1 = v1
  v2 = v2
  k1 = k1
  k2 = k2
  n1 = n1
  n2 = n2
  Threads = {t1, t2}
  Keys = {k1, k2}
  OriginKeys = {k2}
  Vals = {v1, v2}
  NoVal = NoVal
  SizeOf <- MCSizeOf
  Names = {n1, n2}
  NameOf <- MCNameOf
  Inodes = {i1, i2, i3, i4}
  NoInode = NoInode
  TTL = 0
  Interval = 1
  MaxBytes = 1
  Start = 1
  MaxTime = 2
  MaxPuts = 2
  MaxFaults = 1
INVARIANTS EntriesComplete NoTempLeak EvictionReaches
PROPERTIES RefinesAtomicCache
CHECK_DEADLOCK FALSE
