CONSTANTS
  LWP = {a, b}
  Started = {a, b}
  NonStopModes = {TRUE, FALSE}
  StepperExits = FALSE
  StepperClones = FALSE
  MaxHits = 2
  None = None
SPECIFICATION Spec
PROPERTY InternalStaysInternal
CHECK_DEADLOCK FALSE
