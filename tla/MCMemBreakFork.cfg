CONSTANTS
  MaxAddr = 1
  Data = {d1, d2}
  Kinds = {k1, k2}
  Jump = jmp
  Absent = none
  JumpLength = 1
  MaxRaw = 3
  MaxBp = 3
  MaxRef = 0
  Reload = FALSE
  SoftwareStep = TRUE
  Lib <- MCLib
SPECIFICATION Spec
INVARIANTS OneEnabledPerAddress Honoured StepBreakpointPlanted ChildNoDangling ChildTransparent ChildHonoured
