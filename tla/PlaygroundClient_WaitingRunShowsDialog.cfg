SPECIFICATION Spec
CONSTANTS
  r1 = r1
  r2 = r2
  post1 = post1
  approve1 = approve1
  again1 = again1
  post2 = post2
  Runs <- MCRuns
  Emitters <- ApprovedOnce
  RunOf <- MCRunOf
  First <- MCFirst
  EventCount <- MCEventCount
  Conns = {c1}
  None = None
  MaxFaults = 0
  MaxAttempts = 1
INVARIANT WaitingRunShowsDialog
CHECK_DEADLOCK FALSE
