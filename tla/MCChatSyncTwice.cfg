CONSTANTS
  c1 = c1
  c2 = c2
  g1 = g1
  None = None
  Chats = {c1}
  Groups = {g1}
  Ids = {1, 2, 3}
  Depth = 2
  LegacyGroup = g1
  Legacy <- NoLegacy
  MaxMessages = 1
  MaxOrders = 0
  MaxFailures = 0
  MaxSyncs = 1
  MaxRefreshes = 0
  MaxDeletions = 0
  MaxCommands = 0
  MaxRestarts = 0
SPECIFICATION Spec
CHECK_DEADLOCK FALSE
INVARIANTS
  MirroredOnce
