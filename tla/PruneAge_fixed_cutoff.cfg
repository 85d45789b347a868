\* The background pruner alone, without a limit; the duration is one unit of time.
CONSTANTS
  v1 = v1
  lts = lts
  Tags = {v1, lts}
  Latest = lts
  Dg = Dg
  Background = Background
  Callers = {}
  Settings <- AccessedUnlimited
  Params <- AgeParams
  StartTime = 1
  MaxTime = 3
  MaxRestarts = 0
  NoEntry = NoEntry
SPECIFICATION Spec
PROPERTIES
  BackgroundTakesAllIdle
CHECK_DEADLOCK FALSE
