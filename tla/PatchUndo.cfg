SPECIFICATION MCSpec
CONSTANTS
  Files = {f1, f2}
  Contents = {v1, v2}
  Absent = Absent
  MAX_CHECKPOINTS = 2
  MaxCalls = 3
  MaxEdits = 1
  MaxFaults = 1
  MaxCrashes = 1
SYMMETRY Symmetry
INVARIANTS TypeOK UndoAllRestores
PROPERTIES PatchAtomic UserContentKept
CHECK_DEADLOCK FALSE
