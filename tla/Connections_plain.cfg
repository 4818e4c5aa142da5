SPECIFICATION Spec
CONSTANTS
  t1 = t1
  t2 = t2
  t3 = t3
  c1 = c1
  c2 = c2
  Tokens = {t1, t2}
  Conns = {c1}
  Mcn = FALSE
  OwnLimit = 0
  RemoteLimit = 0
  NormalSegments = 2
  Outgoing = TRUE
  ProtocolErrors = TRUE
  GoesOffline = TRUE
  Forces = TRUE
  QueuedFiles = {"NORMAL"}
  ErrorBound = 1
  NoToken = NoToken
SYMMETRY Symmetry
INVARIANTS OneItemWithoutMcn
