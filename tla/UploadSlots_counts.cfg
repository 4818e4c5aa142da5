SPECIFICATION Spec
CONSTANTS
  c1 = c1
  c2 = c2
  c3 = c3
  u1 = u1
  u2 = u2
  Conns = {c1, c2, c3}
  Users = {u1, u2}
  UserOf <- SharedConnections
  McnUsers = {u2}
  Operators = {}
  Kinds = {"small", "file"}
  Slots = 2
  SlotsPerUser = 0
  ExtraSlots = 1
  SmallLimit = 0
  AutoSlots = 1
  HookAnswers = {"none"}
  AtomicCounters = TRUE
  Chunked = FALSE
  Kicks = FALSE
  GoesOffline = FALSE
  NoConn = NoConn
INVARIANTS TypeOK SlotCountsExact
CHECK_DEADLOCK FALSE
