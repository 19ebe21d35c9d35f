SPECIFICATION Spec
CONSTANTS
  a = a
  l = l
  Requests = {r, s}
  Bases = {a}
  Lanes = {l}
  BaseOf <- MCBaseOf
  Slots = 1
  MaxEdits = 1
  MaxJobs = 4
  MaxFaults = 1
  MaxAsks = 3
INVARIANTS OnlyTheseOverfill OnlyTheseAnswerStale FailuresLeave
SYMMETRY Symmetry
CHECK_DEADLOCK FALSE
