\* An image by one tag and as latest, the background pruner and two prune commands,
\* with and without alwaysPullLatest and messages of level info, one restart.
CONSTANTS
  v1 = v1
  lts = lts
  Tags = {v1, lts}
  Latest = lts
  c1 = c1
  c2 = c2
  Dg = Dg
  Background = Background
  Callers = {c1, c2}
  Settings <- OneAtATime
  Params <- AgeParams
  StartTime = 0
  MaxTime = 1
  MaxRestarts = 1
  NoEntry = NoEntry
SPECIFICATION Spec
INVARIANTS
  
  LoneReplyIsComplete
PROPERTIES
  SelectedWasIdle
  IdleAtStartIsPruned
CHECK_DEADLOCK FALSE
