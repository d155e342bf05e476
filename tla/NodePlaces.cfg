CONSTANTS
  n1 = n1
  n2 = n2
  x = x
  bad = bad
  A = A
  B = B
  Nodes = {n1, n2}
  Clients = {}
  Titles = {A, B}
  Dirs <- MCTwoDirs
  Length <- MCLength
  Texts = {x, bad}
  Invalid = {bad}
  NoLink = NoLink
  NoRow = NoRow
  NoFile = NoFile
  None = None
  Start <- MCStart
  Inputs <- MCFew
  Ops = {"save", "startup", "title", "move", "delete", "undo"}
  MaxVersion = 3
  MaxSaves = 1
SPECIFICATION Spec
INVARIANTS NodeTypeOK OneRowPerPath
CHECK_DEADLOCK FALSE
