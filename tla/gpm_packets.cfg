\* Six requests and restarts of two server instances.
CONSTANTS
  Instances = {i1, i2}
  Packets = {p1, p2}
  NoPacket = NoPacket
  NoRequest = NoRequest
  MaxCalls = 6
SYMMETRY Symmetry
SPECIFICATION Spec
INVARIANTS MemoryBacked OneVerdict
PROPERTIES DecisionStands
\* the requests of a behaviour come to an end
CHECK_DEADLOCK FALSE
