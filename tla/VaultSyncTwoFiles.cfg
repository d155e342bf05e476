CONSTANTS
  Paths = {p1, p2}
  NoFile = NoFile
  NoRow = NoRow
  NoState = NoState
  NoPath = NoPath
  States <- MCStates
  Contents <- MCContents
  Render <- MCRender
  IndexState <- MCIndexState
  Broken <- MCBroken
  Absorb <- MCAbsorb
  UserContents <- MCUserTwoFiles
  MaxRetries = 1
  LossyEvents = FALSE
  MaxUserOps = 2
  MaxToolOps = 1
  MaxFaults = 0
SPECIFICATION Spec
INVARIANTS TypeOK Inv MtimeSkipSound
SYMMETRY PathSymmetry
