CONSTANTS
  t1 = t1
  t2 = t2
  t3 = t3
  t4 = t4
  p1 = p1
  p2 = p2
  Thread <- AllThreads
  Process = {p1, p2}
  Pid <- TwoProcesses
  None = None
  MayExit = FALSE
  MayKill = TRUE
SPECIFICATION Spec
INVARIANTS QueueWillBeFetched
CHECK_DEADLOCK FALSE
