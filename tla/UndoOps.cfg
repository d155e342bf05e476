CONSTANTS
  n1 = n1
  n2 = n2
  n3 = n3
  p = p
  q = q
  x = x
  y = y
  Ids <- MCIds
  Paths = {p, q}
  Texts = {x, y}
  NoNode = NoNode
  NoFile = NoFile
  Nothing = Nothing
  NoHash = NoHash
  Start <- MCStart
  Calls <- MCAllCalls
  MaxChanges = 3
SPECIFICATION Spec
INVARIANT UndoTypeOK
PROPERTIES RestoresWhatWasThere RestoredHaveFiles EditsSurvive OthersStay
CHECK_DEADLOCK FALSE
