SPECIFICATION LaneSpec
CONSTANTS
  MaxLaneEdits = 3
  MaxBaseWrites = 3
INVARIANTS OnlyCutFirstPassForgets OnlyTornHides
PROPERTIES LaneNeverBack
CHECK_DEADLOCK FALSE
