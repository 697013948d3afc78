\* A refresh races an ingest.
CONSTANTS
  Requests = {1, 2}
  Views <- MovingViews
  LaneOf <- MCLaneOf
  Processes = {p1, p2}
  Nobody = Nobody
  NoRow = NoRow
  MaxDay = 3
  IdentityDays = 1
  RequestDays = 2
  RollupDays = 2
  Shells = FALSE
  Repricing = FALSE
SPECIFICATION Spec
INVARIANT RollupsFresh
