CONSTANTS
  n1 = n1  n2 = n2  n3 = n3
  Nodes = {n1, n2, n3}
  Nothing = Nothing
  Dirs <- MCDirs
  Root = ""
  Names <- MCNames
  FileName <- MCFileName
  Lower <- MCLower
  Nfc <- MCNfc
  Length <- MCLength
  Contents <- MCContents
  Vault <- MCVault
  Ops = {"create", "update", "save", "delete", "rename", "move", "undo", "index"}
  MaxChanges = 3
SPECIFICATION Spec
INVARIANTS ResolverTypeOK PointsAtMatch NullIsUnresolved StoredWasBest
CHECK_DEADLOCK FALSE
