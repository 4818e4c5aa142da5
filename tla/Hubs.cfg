SPECIFICATION FairSpec
CONSTANTS
  h1 = h1
  h2 = h2
  u1 = u1
  i1 = i1
  Hubs = {h1, h2}
  SearchHubs = {h1, h2}
  Users = {u1}
  Overlap = TRUE
  NoUser = NoUser
  Searchers = {i1}
  Intervals = {1}
  MinInterval = 1
  Interleaved = FALSE
  DisallowPassed = FALSE
  Strict = {h1}
  Closable = {h2}
INVARIANTS TypeOK OnlineAsFlagged NothingLeft
PROPERTIES StaysFound SearchReported
CHECK_DEADLOCK FALSE
