CONSTANTS
  Commands <- Session
  Counts <- Counters
  IDLE_STOP = 7
  RetryAfter = 1
  MaxPayload = 1
  FifoDepth = 2
  RingSize = 3
  MaxFaults = 2
SPECIFICATION FairSpec
CHECK_DEADLOCK FALSE
INVARIANT TypeOK
PROPERTIES ImplementsChannel CommandsComplete
