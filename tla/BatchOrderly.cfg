CONSTANTS
  Paths = {p1, p2}
  Texts = {a, b}
  Invalid = Invalid
  NoFile = NoFile
  NoRow = NoRow
  Batches <- MCDistinct
  MaxBatches = 1
  MaxUserOps = 0
  MaxFaults = 0
  OrphanRows = FALSE
SPECIFICATION BatchSpec
PROPERTY Atomic
CHECK_DEADLOCK FALSE
