SPECIFICATION Spec
CONSTANTS
  Main = Main
  Mirrors = {m1}
  MaxMirrors = 1
  QueueSize = 1
  Anonymous = TRUE
  HeadersFail = TRUE
  Interrupts = TRUE
  MaxSteps = 2
INVARIANTS CompleteStream MirrorFollows BilledOnce NoteHonest
CHECK_DEADLOCK FALSE
