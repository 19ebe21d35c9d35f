SPECIFICATION FSpec
CONSTANTS
  Readers = {r1}
  Writers = {w1, w2}
  NoOne = NoOne
  Remover = Remover
  MaxVersion = 2
  MaxEdits = 0
  HoldAttempts = 2
INVARIANTS OnlyCollisionsDangle OnlyMovesHide
PROPERTY HeldIsNotRemoved
SYMMETRY Symmetry
CONSTRAINT UntilTheyMeet
CHECK_DEADLOCK FALSE
