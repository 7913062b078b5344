\* Events and requests of any kind by two worker threads, in two conversations.
CONSTANTS
  Callers = {c1, c2}
  Conversations = {v1, v2}
  BIds = {b1, b2}
  Projects = {b1, b2, unknown}
  DraftIds = {d1, d2}
  Suppliers = {}
  Fields = {qty, specs}
  PlainFields = {qty}
  qty = qty
  specs = specs
  Texts <- SomeTexts
  MaxMessages = 0
  NoFile = NoFile
  NoReq = NoReq
  NoInquiry = NoInquiry
  NoReport = NoReport
  NoWork = NoWork
  NoDraft = NoDraft
  NoTask = NoTask
  MaxCalls = 6
SYMMETRY Symmetry
SPECIFICATION Spec
INVARIANTS HandedOnce BindingsSound
\* the requests of a behaviour come to an end
CHECK_DEADLOCK FALSE
