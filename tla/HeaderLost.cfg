SPECIFICATION FairSpec
CONSTANTS
  Main = Main
  Mirrors = {m1}
  MaxMirrors = 1
  QueueSize = 1
  Anonymous = FALSE
  HeadersFail = TRUE
  Interrupts = FALSE
  MaxSteps = 1
PROPERTY DisconnectEnds
CHECK_DEADLOCK FALSE
