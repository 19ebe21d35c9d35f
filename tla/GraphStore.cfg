SPECIFICATION FairSpec
CONSTANTS
  Readers = {r1}
  Writers = {w1, w2}
  NoOne = NoOne
  MaxVersion = 3
  MaxEdits = 1
  HoldAttempts = 2
INVARIANTS HeldVersionIsWhole CurrentIsWhole
PROPERTIES RowsNeverGoBack KeepsPromise ConnectTerminates
CHECK_DEADLOCK FALSE
