SPECIFICATION Spec
CONSTANTS
  a1 = a1
  a2 = a2
  k1 = k1
  k2 = k2
  Callers = {a1, a2}
  Closers = {k1, k2}
  QueueSize = 2
  MaxCalls = 2
  Orderly = TRUE
  Failing = TRUE
  Wedged = TRUE
SYMMETRY Threads
INVARIANT OneFate
INVARIANT ZeroDroppedMeansComplete
INVARIANT DropsAreCounted
INVARIANT SessionSpansFile
CHECK_DEADLOCK FALSE
