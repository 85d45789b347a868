\* Four calls, two URLs, every timer may fire, the process may restart.
CONSTANTS
  c1 = c1
  c2 = c2
  c3 = c3
  c4 = c4
  Calls = {c1, c2, c3, c4}
  u1 = u1
  u2 = u2
  Urls = {u1, u2}
  MayTimeOut = {c1, c2, c3, c4}
  Nobody = Nobody
SPECIFICATION QueueSpec
SYMMETRY Symmetry
INVARIANTS
  SinglePuller
  OnlyTimeoutsBlockSends
  NoWaiterForgotten
PROPERTIES
  WokenByItsPuller
  ImplementsSingleFlight
CHECK_DEADLOCK FALSE
