SPECIFICATION FairSpec
CONSTANTS
  NumTurns = 1
  Watchers = {w1, w2}
CHECK_DEADLOCK FALSE
INVARIANTS TypeOK EventsConserved SentOnce SoleWatcherSeesAll
PROPERTIES StreamEnds
