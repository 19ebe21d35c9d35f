CONSTANTS
  asker = asker
  operator = operator
  Clients = {asker, operator}
  CommandsOf <- MCCommandsOf
  Daemons = {d1, d2}
  NoOne = NoOne
  Dead = Dead
  UnavailableTries = 2
  FailedTries = 1
  BusyTries = 1
SPECIFICATION FairSpec
INVARIANTS OnlyEarlierChecksHide
PROPERTIES OnlyTroubleCosts CommandsEnd HiddenLeave
