CONSTANTS
  a = a
  b = b
  c = c
  l = l
  one = one
  two = two
  Blank = Blank
  Unreadable = Unreadable
  Gone = Gone
  None = None
  Order <- MCOrder
  Pieces <- MCPieces
  Contents <- MCContents
  First <- MCFirst
  Negated = {c}
  Linked = {l}
  Renamed = {b}
  Untracked = {c}
  Ignorable = {a}
  WorkLimit = 1
  MaxEdits = 2
  MaxCommits = 1
  MaxIgnores = 1
SPECIFICATION Spec
INVARIANTS
  StoresDescribeTheirFiles
  ReuseIsAFullBuild
  ChecksFollowThePlan
  SettledIndexFollowsTree
  SettledLaneFollowsTree
