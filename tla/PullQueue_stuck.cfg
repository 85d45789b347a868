\* Three calls, two URLs; the timer of c1 may fire.
CONSTANTS
  c1 = c1
  c2 = c2
  c3 = c3
  Calls = {c1, c2, c3}
  u1 = u1
  u2 = u2
  Urls = {u1, u2}
  MayTimeOut = {c1}
  Nobody = Nobody
SPECIFICATION FairQueueSpec
PROPERTIES
  MissedCallProceeds
