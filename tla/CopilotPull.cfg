\* A page set, a metrics day and a report, any two failures.
CONSTANTS
  seats = seats
  day = day
  ai = ai
  metered = metered
  Plan <- Mixed
  ExportUnits = {ai, metered}
  MetricsUnits = {day}
  Shapes <- OneOrTwo
  Chunks = 2
  MaxRetries = 1
  ExportCap = 1
  MaxExports = 4
  MaxFaults = 2
SPECIFICATION Spec
INVARIANTS TypeOK CompleteIsWhole ListedExactly NoPartVisible
PROPERTIES CompleteIsFinal Settles
