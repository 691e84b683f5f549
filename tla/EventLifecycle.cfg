SPECIFICATION FairSpec
CHECK_DEADLOCK FALSE
CONSTANTS
  Capacity = 1
  MaxInits = 2
  MaxCalls = 6
INVARIANT LifeTypeOK
INVARIANT LockWorks
INVARIANT OneThreadEach
INVARIANT OnlyTheCancelledStray
INVARIANT StdinKept
PROPERTY ThreadsEnd
