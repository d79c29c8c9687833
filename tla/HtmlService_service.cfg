SPECIFICATION FairSpec
CONSTANTS
  Workers = {"w1", "w2"}
  N = 1
  Size = 3
  Conversations <- MCConversations
  Pages = {"a", "b"}
  Files = {0}
INVARIANTS OwnWholeAnswers SingleAnsweredOnce
PROPERTIES PoolSpec EndsUnlessHeld
CHECK_DEADLOCK FALSE
