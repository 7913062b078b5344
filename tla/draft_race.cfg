\* Two overlapping requests and a crash: inquiries by email and by IM, two quotes.
CONSTANTS
  InquiryDrafts = {s1, im1}
  ImDrafts = {im1}
  QuoteDrafts = {q1, q2}
  NoticeDrafts = {n1, n2}
  Requests = {r1, r2}
  NoRequest = NoRequest
  NoDraft = NoDraft
  MaxActive = 2
  MaxCrashes = 1
SPECIFICATION FairSpec
INVARIANTS DeliveryAuthorised SentWasDelivered OneLiveQuote
PROPERTIES DecisionNotReopened SettledIsFinal EveryRequestEnds
\* every request may have been answered
CHECK_DEADLOCK FALSE
