CONSTANTS
  t1 = t1
  t2 = t2
  t3 = t3
  t4 = t4
  p1 = p1
  p2 = p2
  Thread <- SomeThreads
  Process = {p1}
  Pid <- OneProcess
  None = None
  MayExit = TRUE
  MayKill = FALSE
SPECIFICATION Spec
INVARIANTS NoExitForgotten
CHECK_DEADLOCK FALSE
