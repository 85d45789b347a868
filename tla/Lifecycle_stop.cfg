\* Two requests and two stop commands, with and without TLS and pruning.
CONSTANTS
  Clients = {c1, c2}
  Stoppers = {s1, s2}
SPECIFICATION FairLifeSpec
INVARIANTS
  NothingHandledBeforeLoad
  CleanStopAnswersAll
PROPERTIES
  StopEndsServer
  ImplementsGracefulStop
CHECK_DEADLOCK FALSE
