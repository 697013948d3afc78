\* One process; lanes get their kind late: the sums of a date are exact.
CONSTANTS
  Requests = {1, 2}
  Views <- MovingViews
  LaneOf <- MCLaneOf
  Processes = {p1}
  Nobody = Nobody
  NoRow = NoRow
  MaxDay = 3
  IdentityDays = 1
  RequestDays = 2
  RollupDays = 2
  Shells = TRUE
  Repricing = TRUE
SPECIFICATION Spec
INVARIANTS TypeOK RollupsFresh 
PROPERTY CountedBeforeNulled
