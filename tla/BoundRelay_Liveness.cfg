SPECIFICATION FairSpec
CONSTANTS
  l1 = l1
  l2 = l2
  r1 = r1
  r2 = r2
  NoLife = NoLife
  Request <- MCRequest
  Life <- OneLife
  Pid = {1}
  PidOf <- OnePid
PROPERTIES
  EveryRequestIsAnswered
  EveryCallReturns
CHECK_DEADLOCK FALSE
