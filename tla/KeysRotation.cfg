\* Rotation of a ledger whose file also holds Copilot records.
CONSTANTS
  h1 = h1
  o1 = o1
  o2 = o2
  o3 = o3
  e1 = e1
  e2 = e2
  ann = ann
  bob = bob
  None = None
  Handles = {h1}
  OrgKeys = {o1, o2, o3}
  ExportKeys = {e1, e2}
  People = {ann, bob}
  MaxRotations = 2
SPECIFICATION Spec
SYMMETRY KeysSym
INVARIANT OldKeyGone
