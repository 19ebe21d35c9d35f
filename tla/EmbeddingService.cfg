CONSTANTS
  Requests = {r1, r2}
  s = s
  t = t
  r1 = r1
  r2 = r2
  Texts = {s, t}
  Widths = {1, 2}
  Old <- MCOld
  FlushEvery = 1
  Nobody = Nobody
  MaxAsks = 3
  MaxEvents = 1
SPECIFICATION FairSpec
INVARIANTS
  PaidOnce
  AnswersAreWhole
PROPERTY RequestsEnd
CHECK_DEADLOCK FALSE
