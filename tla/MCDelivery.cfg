SPECIFICATION FairSpec
CONSTANTS
  t1 = t1
  t2 = t2
  c1 = c1
  Tasks = {t1,t2}
  Clients = {c1}
  MaxPresses = 2
INVARIANTS StuckNeedsTwoRequests
PROPERTIES CancelledRunEnds
CHECK_DEADLOCK FALSE
