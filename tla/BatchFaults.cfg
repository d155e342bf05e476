CONSTANTS
  Paths = {p1, p2}
  Texts = {a, b}
  Invalid = Invalid
  NoFile = NoFile
  NoRow = NoRow
  Batches <- MCComposed
  MaxBatches = 1
  MaxUserOps = 1
  MaxFaults = 1
  OrphanRows = TRUE
SPECIFICATION BatchSpec
INVARIANTS BatchTypeOK FailureRestores AppliedInSync DryRunPredicts
CHECK_DEADLOCK FALSE
SYMMETRY Symmetry
