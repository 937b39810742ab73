\* One run whose answer may arrive only as a completed message.
SPECIFICATION Spec
CONSTANTS
  MaxSteps = 2
  MaxAuto = 1
  AutoMode = FALSE
  SteerCap = 1
  MaxRuns = 2
  MaxOut = 3
  MaxTurmoil = 0
PROPERTY DoneMessageRendered
CHECK_DEADLOCK FALSE
