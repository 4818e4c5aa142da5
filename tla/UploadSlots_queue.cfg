SPECIFICATION FairSpec
CONSTANTS
  c1 = c1
  c2 = c2
  c3 = c3
  u1 = u1
  u2 = u2
  Conns = {c1, c2}
  Users = {u1, u2}
  UserOf <- OwnConnections
  McnUsers = {u2}
  Operators = {}
  Kinds = {"list", "file"}
  Slots = 1
  SlotsPerUser = 0
  ExtraSlots = 1
  SmallLimit = 0
  AutoSlots = 0
  HookAnswers = {"none", "reject"}
  AtomicCounters = TRUE
  Chunked = TRUE
  Kicks = TRUE
  GoesOffline = TRUE
  NoConn = NoConn
INVARIANTS SlotsBounded DelayedRemoved
PROPERTIES WaitingEnds
