SPECIFICATION LoopSpec
CONSTANTS
  c1 = c1
  c2 = c2
  c3 = c3
  Conns = {c1, c2, c3}
  Size = 7
  BlockSize = 2
  MaxSegments = 3
  WantedSizes = {0, 4, 6}
  MultiChunk = TRUE
  OverlapSlowSources = FALSE
  Partial <- MixedSources
  TreeKnown = TRUE
  Treeless = {}
  TreeRefusers = {}
  SmallFile = TRUE
  PauseAllowed = FALSE
  RemovableSources = {}
  TempLossAllowed = FALSE
  NoConn = NoConn
CHECK_DEADLOCK FALSE
INVARIANTS MergeAsStated MergeOfNewBytes SearchAsStated SearchFindsBlock
PROPERTIES LoopsEnd
