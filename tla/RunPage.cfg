SPECIFICATION FairSpec
CONSTANTS
  NumEvents = 3
  MaxRuns = 2
  MaxBreaks = 2
CHECK_DEADLOCK FALSE
INVARIANTS TypeOK PlaysOneRun
PROPERTIES ButtonComesBack
