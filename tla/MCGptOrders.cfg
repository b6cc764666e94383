CONSTANTS
  o1 = o1
  o2 = o2
  a1 = a1
  a2 = a2
  Orders = {o1, o2}
  Accounts = {a1, a2}
  NoOrder = NoOrder
  Out = Out
  Shelf = Shelf
  MaxAmount = 2
  MaxEvents = 3
  MaxRetries = 1
  MaxRestarts = 2
  MaxFailures = 1
SPECIFICATION Spec
SYMMETRY Symmetry
INVARIANTS
  TypeOK
  RepeatsNeedTrouble
  OneReservationPerBuyer
  ShortDeliveryIsWarned
  NoAccountSoldTwice
PROPERTIES
  ImplementsLedger
