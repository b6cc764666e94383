CONSTANTS
  o1 = o1
  l1 = l1
  Orders = {o1}
  Links = {l1}
  Gist = Gist
  NoOrder = NoOrder
  Out = Out
  Shelf = Shelf
  CompletionLimit = 1
  MaxAmount = 1
  MaxEvents = 1
  MaxRestarts = 0
  MaxUploads = 1
SPECIFICATION Spec
SYMMETRY Symmetry
INVARIANTS
  UnfinishedOrdersAreListed
