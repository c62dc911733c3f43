SPECIFICATION Spec
CONSTANTS
  Run = run
  Approvers = {a1, a2}
  Cancellers = {c1}
  OneAtATime = FALSE
  MaxFaults = 2
  MaxCrashes = 1
SYMMETRY ApproverSymmetry
INVARIANTS
  TypeOK
  PendingNeverExecuted
  ExecutionsAreAnswered
PROPERTY
  DecidedForever
\* once the requests are answered nothing more happens
CHECK_DEADLOCK FALSE
