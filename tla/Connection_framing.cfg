SPECIFICATION ConnectionSpec
CONSTANTS
  Plans <- MCPlans
  Chunk = 3
  MaxHeader = 2
  MaxUpload = 4
  MaxBody = 2
  KeepAliveMax = 2
INVARIANTS Framed WholeRequestsServed
CHECK_DEADLOCK FALSE
