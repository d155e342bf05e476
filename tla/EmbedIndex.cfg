CONSTANTS
  Nodes = {n1, n2}
  Texts <- MCTexts
  Files <- MCFiles
  Embeds <- MCEmbeds
  Empty = Empty
  Own = Own
  None = None
  Watchers = {w1, w2}
  UsesTools = TRUE
  MaxEdits = 2
  MaxFaults = 1
SPECIFICATION FairSpec
INVARIANTS EmbedTypeOK NothingForgotten NoGhosts RowsHaveVectors
PROPERTY LoopEnds
CHECK_DEADLOCK FALSE
