CONSTANTS
  n1 = n1
  n2 = n2
  x = x
  bad = bad
  A = A
  B = B
  Nodes = {n1, n2}
  Clients = {c1}
  Titles = {A, B, C}
  Dirs <- MCOneDir
  Length <- MCLength
  Texts = {x, bad}
  Invalid = {bad}
  NoLink = NoLink
  NoRow = NoRow
  NoFile = NoFile
  None = None
  Start <- MCStartBad
  Inputs <- MCInputs
  Ops = {"save", "watch", "update", "rename", "delete"}
  MaxVersion = 3
  MaxSaves = 1
SPECIFICATION Spec
INVARIANTS RowHasFile VersionNamesState
PROPERTIES OverwritesOnlyWhatWasRead RefusedChangesNothing StaleChangesNothing
CHECK_DEADLOCK FALSE
