SPECIFICATION FairSpec
CONSTANTS
  Main = Main
  Mirrors = {m1}
  MaxMirrors = 1
  QueueSize = 1
  Anonymous = FALSE
  HeadersFail = FALSE
  Interrupts = TRUE
  MaxSteps = 1
PROPERTY CancelEnds
CHECK_DEADLOCK FALSE
