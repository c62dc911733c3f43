SPECIFICATION Spec
CONSTANTS
  Run = run
  Approvers = {a1}
  Cancellers = {c1}
  OneAtATime = FALSE
  MaxFaults = 0
  MaxCrashes = 0
INVARIANT
  DecidedIsNotWaiting
\* once the requests are answered nothing more happens
CHECK_DEADLOCK FALSE
