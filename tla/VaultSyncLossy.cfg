CONSTANTS
  Paths = {p1}
  NoFile = NoFile
  NoRow = NoRow
  NoState = NoState
  NoPath = NoPath
  States <- MCStates
  Contents <- MCContents
  Render <- MCRender
  IndexState <- MCIndexState
  Broken <- MCBroken
  Absorb <- MCAbsorb
  UserContents <- MCUserLossy
  MaxRetries = 1
  LossyEvents = TRUE
  MaxUserOps = 3
  MaxToolOps = 1
  MaxFaults = 1
SPECIFICATION FairSpec
INVARIANT NormalizerSafe
PROPERTY Convergence
