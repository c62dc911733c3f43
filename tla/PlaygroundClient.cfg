\* A run that two invocations resume and a second run, two connections of which
\* one may still be closing, a connection that breaks more often than the page
\* reconnects, one event that is lost.
SPECIFICATION FairSpec
CONSTANTS
  r1 = r1
  r2 = r2
  post1 = post1
  approve1 = approve1
  again1 = again1
  post2 = post2
  Runs <- MCRuns
  Emitters <- ApprovedTwice
  RunOf <- MCRunOf
  First <- MCFirst
  EventCount <- MCEventCount
  Conns = {c1, c2}
  None = None
  MaxFaults = 2
  MaxAttempts = 1
INVARIANTS TypeOK SubscribersAreServed ShownInOrder OneSocket
PROPERTY ConnectsOrGivesUp
CHECK_DEADLOCK FALSE
