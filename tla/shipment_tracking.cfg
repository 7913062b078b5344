\* Two shipments, four requests, two at a time.
CONSTANTS
  Callers = {c1, c2}
  Shipments = {s1, s2}
  Events <- SomeEvents
  Batches <- SomeBatches
  NoShipment = NoShipment
  NoJob = NoJob
  NoRun = NoRun
  MaxCalls = 4
SYMMETRY Symmetry
SPECIFICATION Spec
INVARIANTS StatusHasEvent IngestedOnce
PROPERTIES LastEventAdvances
\* the requests of a behaviour come to an end
CHECK_DEADLOCK FALSE
