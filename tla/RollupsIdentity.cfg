\* A request is ingested again after its identity was nulled.
CONSTANTS
  Requests = {1, 2}
  Views <- OneView
  LaneOf <- MCLaneOf
  Processes = {p1}
  Nobody = Nobody
  NoRow = NoRow
  MaxDay = 2
  IdentityDays = 1
  RequestDays = 9
  RollupDays = 9
  Shells = FALSE
  Repricing = FALSE
SPECIFICATION FairSpec
PROPERTY IdentityExpires
