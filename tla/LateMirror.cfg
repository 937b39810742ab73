SPECIFICATION FairSpec
CONSTANTS
  Main = Main
  Mirrors = {m1}
  MaxMirrors = 1
  QueueSize = 1
  Anonymous = FALSE
  HeadersFail = FALSE
  Interrupts = FALSE
  MaxSteps = 1
PROPERTY StreamEnds
CHECK_DEADLOCK FALSE
