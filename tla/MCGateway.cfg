CONSTANTS
  Endpoints <- SomeEndpoints
  Timeout = 2
SPECIFICATION FairSpec
INVARIANTS TypeOK LateAnswerCounts OnePollPastDeadline
PROPERTIES CallEnds ImplementsProviderCall
CHECK_DEADLOCK FALSE
