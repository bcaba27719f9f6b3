CONSTANTS
  Sender = {r1, r2}
  MarginTime = 2
  MaxDelay = 2
  Lives = {3, 6}
  Slack = 1
  CutOff = TRUE
  MaxTime = 9
  Nil = Nil
  Free = Free
SPECIFICATION TokenFairSpec
INVARIANTS
  NeverSendsExpired
PROPERTIES
  EveryRequestEnds
