CONSTANTS
  MaxAddr = 2
  Data = {d1, d2}
  Kinds = {k1}
  Jump = jmp
  Absent = none
  JumpLength = 2
  MaxRaw = 2
  MaxBp = 3
  MaxRef = 1
  Reload = FALSE
  SoftwareStep = FALSE
  Lib <- MCLib
SPECIFICATION Spec
INVARIANTS TypeOK NoDanglingBreakpoint OutOnlyWhileStepping Honoured
PROPERTIES Transparent
