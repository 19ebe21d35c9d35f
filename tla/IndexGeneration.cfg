SPECIFICATION Spec
CONSTANTS
  Procs = {p, q}
  FileCount = 2
  MaxSize = 1
  MaxEdits = 2
  MaxLost = 1
  MaxBuilds = 3
INVARIANTS OnlyTornMixes OnlyOldPlansMislead
PROPERTIES OnlyLateEditsHide
CHECK_DEADLOCK FALSE
SYMMETRY Symmetry
