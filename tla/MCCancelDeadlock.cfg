SPECIFICATION FairSpec
CONSTANTS
  t1 = t1
  t2 = t2
  c1 = c1
  Tasks = {t1}
  Clients = {c1}
  MaxPresses = 0
PROPERTIES CancelEndsRun
CHECK_DEADLOCK FALSE
