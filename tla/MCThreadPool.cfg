CONSTANTS
  t1 = t1
  t2 = t2
  t3 = t3
  t4 = t4
  Threads <- Workers
  MaxElements = 5
  LocalMax = 3
  MinPerThread = 1
SPECIFICATION FairSpec
INVARIANTS TypeOK ThreadsAccounted Completed
PROPERTIES Terminates
