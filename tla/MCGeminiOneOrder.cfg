CONSTANTS
  o1 = o1
  l1 = l1
  l2 = l2
  Orders = {o1}
  Links = {l1, l2}
  Gist = Gist
  NoOrder = NoOrder
  Out = Out
  Shelf = Shelf
  CompletionLimit = 1
  MaxAmount = 2
  MaxEvents = 3
  MaxRestarts = 2
  MaxUploads = 1
SPECIFICATION Spec
SYMMETRY Symmetry
INVARIANTS
  TypeOK
  AtMostOneMessage
  NothingLeftUnprepared
  ShortageWarnedOnce
  DeliveredStaysDelivered
PROPERTIES
  CancelledStaysCancelled
