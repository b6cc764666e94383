CONSTANTS
  e1 = e1
  e2 = e2
  w1 = w1
  w2 = w2
  w3 = w3
  Events = {e1, e2}
  Workers = {w1, w2, w3}
  NoWorker = NoWorker
  Stop = Stop
  MaxJobs = 4
  MaxStops = 1
SPECIFICATION Spec
INVARIANTS
  TypeOK
  SingleWorker
  DeliveriesInOrder
PROPERTIES
  JobsAreDone
  StopEndsTheWorker
