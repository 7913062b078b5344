\* Three calls of any kind on one project, two at a time, one crash.
CONSTANTS
  Requests = {r1, r2, r3}
  Earlier = Earlier
  Operations = {"plan", "inquire", "respond", "options", "approve", "rollup", "submit"}
  Orders <- TwoOrders
  AutoApproval = TRUE
  Seed <- SomeFiles
  NoResult = NoResult
  NoOption = NoOption
  NoRecord = NoRecord
  MaxActive = 2
  MaxCrashes = 1
SYMMETRY Symmetry
VIEW Live
SPECIFICATION Spec
INVARIANTS RollupsHoldApprovedOnly OneResultOfARequest OptionsOfOneGeneration
PROPERTIES SettledEntriesStay
\* every request may have been answered
CHECK_DEADLOCK FALSE
