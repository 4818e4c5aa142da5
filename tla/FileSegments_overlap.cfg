SPECIFICATION Spec
CONSTANTS
  c1 = c1
  c2 = c2
  c3 = c3
  Conns = {c1, c2, c3}
  Size = 4
  BlockSize = 1
  MaxSegments = 2
  WantedSizes = {2}
  MultiChunk = TRUE
  OverlapSlowSources = TRUE
  Partial <- FullSources
  TreeKnown = TRUE
  Treeless = {}
  TreeRefusers = {}
  SmallFile = TRUE
  PauseAllowed = TRUE
  RemovableSources = {c1}
  TempLossAllowed = FALSE
  NoConn = NoConn
CHECK_DEADLOCK FALSE
INVARIANTS RunningNested
PROPERTIES ImplementsBundleFile
