SPECIFICATION FairSpec
CONSTANTS
  w1 = w1
  w2 = w2
  Workers = {w1, w2}
  Requests <- MCRequests
  IntLimit = 4
CHECK_DEADLOCK FALSE
INVARIANTS
  TypeOK
  ExecutedForCallsOnly
  AnswerTellsOutcome
  BlockedAreQueued
PROPERTIES
  WorkerEnds
