SPECIFICATION Spec
CONSTANTS
  Run = run
  Approvers = {a1, a2}
  Cancellers = {}
  OneAtATime = FALSE
  MaxFaults = 0
  MaxCrashes = 0
INVARIANT
  ToolRunsOnce
\* once the requests are answered nothing more happens
CHECK_DEADLOCK FALSE
