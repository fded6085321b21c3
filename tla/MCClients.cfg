SPECIFICATION Spec
CONSTANTS
  t1 = t1
  t2 = t2
  p1 = p1
  p2 = p2
  p3 = p3
  Free = Free
  Tasks = {t1, t2}
  DependsOn <- Chain
  Limit = 2
  Processes = {p1, p2, p3}
  Runner = p1
  MaxHistory = 2
SYMMETRY Later
INVARIANTS StaleOnlyByScheduler
PROPERTIES PromisesKeptUntilOvertaken
CHECK_DEADLOCK FALSE
