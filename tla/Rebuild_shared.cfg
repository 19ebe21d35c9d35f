CONSTANTS
  base = base
  lane = lane
  c1 = c1
  c2 = c2
  MaxBeside = 2
  MaxAlone = 2
  f = f
  j = j
  BaseItem = BaseItem
  Roots = {base}
  Lanes = {}
  BaseOf <- MCBaseOf
  Files = {f}
  Java = {}
  Clients = {c1}
  RootOf <- MCRootOf
  Cap = 1
  MaxEdits = 1
  MaxAsks = 1
  MaxTroubles = 0
SPECIFICATION Spec
INVARIANTS NamedEditsLand
CHECK_DEADLOCK FALSE
