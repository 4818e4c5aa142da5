SPECIFICATION FairSpec
CONSTANTS
  c1 = c1
  c2 = c2
  c3 = c3
  Conns = {c1, c2}
  Size = 5
  BlockSize = 2
  MaxSegments = 1
  WantedSizes = {2, 4}
  MultiChunk = TRUE
  OverlapSlowSources = FALSE
  Partial <- OnePartial
  TreeKnown = FALSE
  Treeless = {}
  TreeRefusers = {c2}
  SmallFile = TRUE
  PauseAllowed = FALSE
  RemovableSources = {c1}
  TempLossAllowed = TRUE
  NoConn = NoConn
CHECK_DEADLOCK FALSE
INVARIANTS DoneOnDisk
PROPERTIES Completes
