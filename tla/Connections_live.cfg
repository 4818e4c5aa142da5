SPECIFICATION FairSpec
CONSTANTS
  t1 = t1
  t2 = t2
  t3 = t3
  c1 = c1
  c2 = c2
  Tokens = {t1, t2}
  Conns = {c1}
  Mcn = TRUE
  OwnLimit = 0
  RemoteLimit = 1
  NormalSegments = 2
  Outgoing = FALSE
  ProtocolErrors = FALSE
  GoesOffline = FALSE
  Forces = FALSE
  QueuedFiles = {"NORMAL"}
  ErrorBound = 0
  NoToken = NoToken
INVARIANTS TypeOK
PROPERTIES ConnectingEnds IdleSocketsEnd
