SPECIFICATION FairSpec
CONSTANTS
  a1 = a1
  a2 = a2
  k1 = k1
  k2 = k2
  Callers = {a1, a2}
  Closers = {k1}
  QueueSize = 1
  MaxCalls = 2
  Orderly = FALSE
  Failing = FALSE
  Wedged = FALSE
INVARIANT OneFate
PROPERTY CallersNeverBlock
PROPERTY CloseFinishes
PROPERTY QueuedReachDisk
CHECK_DEADLOCK FALSE
