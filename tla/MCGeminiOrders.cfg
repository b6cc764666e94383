CONSTANTS
  o1 = o1
  o2 = o2
  l1 = l1
  Orders = {o1, o2}
  Links = {l1}
  Gist = Gist
  NoOrder = NoOrder
  Out = Out
  Shelf = Shelf
  CompletionLimit = 1
  MaxAmount = 2
  MaxEvents = 2
  MaxRestarts = 1
  MaxUploads = 2
SPECIFICATION Spec
SYMMETRY Symmetry
INVARIANTS
  LinksExclusive
  NoLinkSoldTwice
PROPERTIES
  ImplementsLedger
