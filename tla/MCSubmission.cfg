CONSTANTS
  Calls = {c1, c2}
  Capacity = 1
  TokenParts = 2
  RefillParts = 1
  WaitLimit = 1
  MaxAttempts = 2
  HasTimeout = TRUE
SPECIFICATION FairSpec
INVARIANTS
  RepeatedUnknowingly
  LiveIsCancellable
PROPERTIES
  ImplementsBucket
  CallAnswered
