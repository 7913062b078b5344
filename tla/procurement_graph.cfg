\* Two programs on one database, and a crash.
CONSTANTS
  Sessions = {s1, s2}
  NoSession = NoSession
  ProgramNames <- AllPrograms
  Runs = 2
  MaxActive = 2
  MaxCrashes = 1
SYMMETRY Symmetry
SPECIFICATION GraphSpec
INVARIANTS AssertionsHold GraphWhole SubmissionsWhole
PROPERTIES IdentitiesReused
\* every program may have ended
CHECK_DEADLOCK FALSE
