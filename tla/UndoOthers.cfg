CONSTANTS
  n1 = n1
  n2 = n2
  n3 = n3
  p = p
  q = q
  x = x
  y = y
  Ids <- MCIds
  Paths = {p, q}
  Texts = {x, y}
  NoNode = NoNode
  NoFile = NoFile
  Nothing = Nothing
  NoHash = NoHash
  Start <- MCStart
  Calls <- MCSingleCalls
  MaxChanges = 3
SPECIFICATION Spec
PROPERTY OthersUntouched
CHECK_DEADLOCK FALSE
