SPECIFICATION FairSpec
CONSTANTS
  Run = run
  Approvers = {a1, a2}
  Cancellers = {c1, c2}
  OneAtATime = TRUE
  MaxFaults = 2
  MaxCrashes = 1
INVARIANT
  TablesAgree
PROPERTIES
  ImplementsContract
  DecisionReachesRun
\* once the requests are answered nothing more happens
CHECK_DEADLOCK FALSE
