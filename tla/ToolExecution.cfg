SPECIFICATION FairSpec
CONSTANTS
  Calls = {c1, c2, c3}
  Workers = 2
  MaxPrints = 1
INVARIANTS
  TypeOK
  OutputIsOwn
  ConsoleIsBack
PROPERTIES
  WithdrawnNeverRuns
  EveryCallAnswered
\* once the calls are answered and the threads done nothing more happens
CHECK_DEADLOCK FALSE
