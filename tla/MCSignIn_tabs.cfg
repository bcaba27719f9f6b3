CONSTANTS
  Tab = {t1, t2}
  MaxFlows = 2
  MaxRestarts = 1
  Nil = Nil
  Free = Free
SPECIFICATION FairSpec
INVARIANTS
  UndisturbedSucceeds
PROPERTIES
  SessionLasts
  EveryTabAnswered
CHECK_DEADLOCK FALSE
