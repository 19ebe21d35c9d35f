SPECIFICATION MCSpec
CONSTANTS
  b = b
  Roots = {b, l1, l2}
  Lanes = {l1, l2}
  BaseOf <- MCBaseOf
  Files = {f1, f2}
  Passes = {p, q}
  RootOf <- MCRootOf
  Whole = {p}
  NoRoot = NoRoot
  Loader = Loader
  MaxJobs = 3
  Cap = 1
  MaxAsks = 3
INVARIANTS OneWorker LimitComesBack AsksLand
PROPERTY JobsEnd
CHECK_DEADLOCK FALSE
