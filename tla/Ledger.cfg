\* Two processes ingest sources of one or two chunks in any order, fail between and inside transactions, and purge.
CONSTANTS
  Hints = {"q1", "q2"}
  Messages = {"m1", "m2"}
  NoId = NoId
  NoPrincipal = NoPrincipal
  NoRow = NoRow
  Collision = Collision
  Contributions <- MCContributions
  Principals = {1, 2}
  Starts = {1, 2}
  Processes = {p1, p2}
  Sources <- MCSources
  Files <- MCFiles
  MaxCrashes = 1
  MaxPurges = 1
SPECIFICATION Spec
INVARIANTS TypeOK NoDoubleCounting IndexesExact MarkedMeansStored
PROPERTY LedgerIsMerge
