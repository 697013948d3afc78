\* A session of up to two legs with a chunked call, used while runs are at work, and a session that VS Code may cover.
CONSTANTS
  s1 = s1
  s2 = s2
  a = a
  c = c
  Sessions = {s1, s2}
  Calls = {a, c}
  SessionOf <- SessionOfTwo
  RowOnly = {c}
  Chunked = {a}
  Covered = {s2}
  DoneWindow = 3
  PendingMax = 2
  NoCursor = NoCursor
  MaxTurns <- TurnsTwo
  MaxFaults = 1
  Busy = {s1}
  Forgets = FALSE
SPECIFICATION Spec
INVARIANTS TypeOK NothingSkipped CountedOnce QuietMeansDelivered
