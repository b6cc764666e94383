CONSTANTS
  c1 = c1
  c2 = c2
  g1 = g1
  None = None
  Chats = {c1, c2}
  Groups = {g1}
  Ids = {1, 2, 3}
  Depth = 2
  LegacyGroup = g1
  Legacy <- OneLegacy
  MaxMessages = 0
  MaxOrders = 1
  MaxFailures = 1
  MaxSyncs = 1
  MaxRefreshes = 0
  MaxDeletions = 1
  MaxCommands = 2
  MaxRestarts = 1
SPECIFICATION Spec
CHECK_DEADLOCK FALSE
INVARIANTS
  EachTopicHasItsBuyer
