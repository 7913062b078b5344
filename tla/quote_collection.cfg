\* Seven requests of any kind by two worker threads on one project.
CONSTANTS
  Callers = {c1, c2}
  BIds = {b1}
  MIds = {m1, m2}
  Suppliers = {s1, s2}
  s1 = s1
  s2 = s2
  Rollups <- SomeRollups
  Fields = {qty, specs}
  PlainFields = {qty}
  qty = qty
  specs = specs
  BuyerMessages <- SomeMessages
  MaxMessages = 2
  Stories <- SomeStories
  NoFile = NoFile
  NoReq = NoReq
  NoInquiry = NoInquiry
  NoReport = NoReport
  NoWork = NoWork
  MaxRequests = 7
SYMMETRY Symmetry
SPECIFICATION QuotesSpec
INVARIANTS RecordsBacked
PROPERTIES ContentKept
\* the requests of a behaviour come to an end
CHECK_DEADLOCK FALSE
