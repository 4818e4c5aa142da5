SPECIFICATION Spec
CONSTANTS
  t1 = t1
  t2 = t2
  t3 = t3
  c1 = c1
  c2 = c2
  Tokens = {t1}
  Conns = {c1, c2}
  Mcn = TRUE
  OwnLimit = 0
  RemoteLimit = 0
  NormalSegments = 2
  Outgoing = FALSE
  ProtocolErrors = FALSE
  GoesOffline = FALSE
  Forces = FALSE
  QueuedFiles = {"SMALL", "NORMAL"}
  ErrorBound = 0
  NoToken = NoToken
SYMMETRY Symmetry
INVARIANTS ActiveItemHasSocket IdlersIdle OneDownloadAtATime
