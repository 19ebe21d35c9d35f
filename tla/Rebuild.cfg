CONSTANTS
  base = base
  lane = lane
  c1 = c1
  c2 = c2
  MaxBeside = 2
  MaxAlone = 4
  f = f
  j = j
  BaseItem = BaseItem
  Roots = {base, lane}
  Lanes = {lane}
  BaseOf <- MCBaseOf
  Files = {f, j}
  Java = {j}
  Clients = {c1, c2}
  RootOf <- MCRootOf
  Cap = 1
  MaxEdits = 2
  MaxAsks = 2
  MaxTroubles = 2
SPECIFICATION MCFairSpec
INVARIANTS OnlySharingLoses OnlyNamesLoseGraph
PROPERTIES ComesToRest
CHECK_DEADLOCK FALSE
