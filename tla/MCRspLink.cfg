CONSTANTS
  MaxRequests = 3
  MaxFaults = 2
  MaxInterrupts = 1
  MaxNotifs = 1
  MaxTries = 2
SPECIFICATION FairSpec
INVARIANTS BufferIsScheduled DoneOnce
PROPERTIES Reliable Answered InterruptHonoured
CHECK_DEADLOCK FALSE
