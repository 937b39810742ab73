SPECIFICATION Spec
CONSTANTS
  Files = {f1, f2}
  Contents = {v1, v2}
  Absent = Absent
  MAX_CHECKPOINTS = 2
  MaxCalls = 1
  MaxEdits = 1
  MaxFaults = 0
  MaxCrashes = 0
PROPERTY UserEditConflicts
CHECK_DEADLOCK FALSE
