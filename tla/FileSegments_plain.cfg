SPECIFICATION Spec
CONSTANTS
  c1 = c1
  c2 = c2
  c3 = c3
  Conns = {c1, c2, c3}
  Size = 5
  BlockSize = 2
  MaxSegments = 3
  WantedSizes = {2, 4}
  MultiChunk = TRUE
  OverlapSlowSources = FALSE
  Partial <- OnePartial
  TreeKnown = FALSE
  Treeless = {c2}
  TreeRefusers = {c1, c3}
  SmallFile = FALSE
  PauseAllowed = FALSE
  RemovableSources = {}
  TempLossAllowed = FALSE
  NoConn = NoConn
CHECK_DEADLOCK FALSE
INVARIANTS TypeOK DoneSeparated RunningNested TreeAlone NoEmptyRequest BundleCountExact NoDanglingDownload NoStall
PROPERTIES ImplementsBundleFile
