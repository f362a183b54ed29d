SPECIFICATION StuckSpec
CONSTANTS
  c1 = c1
  c2 = c2
  Conns = {c1, c2}
  PoolSize = 2
  Drains = {0, 2}
  WorkerDrain = 2
  Spurious = 1
  SignalBy = 1
  MaxSignals = 2
  MaxTime = 8
  Never = Never
INVARIANTS NothingLeftBehind ShutdownBounded
PROPERTIES ShutdownEnds AcceptedServed
CHECK_DEADLOCK FALSE
