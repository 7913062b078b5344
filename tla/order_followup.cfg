\* Four requests of any kind by two worker threads, crashes at any point.
CONSTANTS
  Callers = {c1, c2}
  Makers = {c1, c2}
  Orders = {o1, o2}
  PlannedOrders = {o1, o2}
  Paths = {p1, p2}
  Plans = {e1, e2}
  PlanIds = {e1, e2}
  TaskTypes = {"supplier_acceptance"}
  StageTypes = {"final_qc"}
  MediaIds = {m1}
  ExceptionIds = {x1}
  HintSets <- SomeHints
  QcMessages <- SomeQcMessages
  NoOrder = NoOrder
  NoPlan = NoPlan
  NoWork = NoWork
  NoFile = NoFile
  NoTarget = NoTarget
  NoChange = NoChange
  NoPath = NoPath
  NoBridge = NoBridge
  MaxCalls = 4
SYMMETRY Symmetry
SPECIFICATION Spec
INVARIANTS RecordsAgree ReferencesExist
PROPERTIES ProgressKept
\* the requests of a behaviour come to an end
CHECK_DEADLOCK FALSE
