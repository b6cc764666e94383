CONSTANTS
  c1 = c1
  c2 = c2
  g1 = g1
  None = None
  Chats = {c1}
  Groups = {g1}
  Ids = {1, 2, 3}
  Depth = 1
  LegacyGroup = g1
  Legacy <- NoLegacy
  MaxMessages = 2
  MaxOrders = 0
  MaxFailures = 1
  MaxSyncs = 1
  MaxRefreshes = 1
  MaxDeletions = 1
  MaxCommands = 0
  MaxRestarts = 1
SPECIFICATION Spec
CHECK_DEADLOCK FALSE
INVARIANTS
  TypeOK
  OneTopicPerChat
  SkippedMeansTried
PROPERTIES
  JobsEnd
