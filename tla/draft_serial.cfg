\* Three requests one after the other, no crash.
CONSTANTS
  InquiryDrafts = {s1}
  ImDrafts = {}
  QuoteDrafts = {q1, q2}
  NoticeDrafts = {n1, n2}
  Requests = {r1, r2, r3}
  NoRequest = NoRequest
  NoDraft = NoDraft
  MaxActive = 1
  MaxCrashes = 0
SYMMETRY Symmetry
SPECIFICATION Spec
PROPERTIES ImplementsLifecycle
\* every request may have been answered
CHECK_DEADLOCK FALSE
