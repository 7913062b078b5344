\* Three deliveries of three messages overlap, one crash.
CONSTANTS
  c1 = c1
  c2 = c2
  i1 = i1
  i2 = i2
  i3 = i3
  t1 = t1
  t2 = t2
  Blank = Blank
  NoRequest = NoRequest
  NoMessage = NoMessage
  Messages <- NativeMessages
  Requests = {r1, r2, r3}
  MaxActive = 3
  MaxCrashes = 1
SYMMETRY Symmetry
SPECIFICATION Spec
INVARIANTS LedgerIsBacked AnsweredWasExecuted WorkStaysInConversation
PROPERTIES LedgerWriteOnce AcknowledgedIsFinal
\* every delivery may have been answered
CHECK_DEADLOCK FALSE
