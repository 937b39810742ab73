\* One process, two runs, a crash and a fork, with every kind of item.
SPECIFICATION Spec
CONSTANTS
  MaxSteps = 2
  MaxAuto = 1
  AutoMode = TRUE
  SteerCap = 2
  MaxRuns = 2
  MaxOut = 2
  MaxTurmoil = 2
INVARIANTS TypeOK ResumeExact RequestPaired AnsweredOnce SteeringAtBoundary
  SteeringFifo NoSteeringSkipped RunBounded
CHECK_DEADLOCK FALSE
