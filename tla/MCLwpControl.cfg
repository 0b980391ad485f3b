CONSTANTS
  LWP = {a, b}
  Started = {a, b}
  NonStopModes = {TRUE, FALSE}
  StepperExits = FALSE
  StepperClones = FALSE
  MaxHits = 3
  None = None
SPECIFICATION FairSpec
INVARIANTS TypeOK StepsOverAlone StoppedMeansStopped NobodyForgotten
PROPERTIES EventsAreKept StopsAreAnswered
