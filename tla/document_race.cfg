\* Three requests of any kind on one project, two at a time, one crash.
CONSTANTS
  Requests = {r1, r2, r3}
  Operations = {"rfq", "reply", "strategy", "gltg"}
  Strategies = {fast, cheap}
  Default = fast
  NoRequest = NoRequest
  NoStrategy = NoStrategy
  NoSimulation = NoSimulation
  NoOffer = NoOffer
  MaxActive = 2
  MaxCrashes = 1
SYMMETRY Symmetry
SPECIFICATION Spec
INVARIANTS DocumentCoherent OnlyCommittedContent
PROPERTIES SettledContentStays
\* every request may have been answered
CHECK_DEADLOCK FALSE
