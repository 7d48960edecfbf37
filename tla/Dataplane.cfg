SPECIFICATION FairSpec
CONSTANTS
  l1 = l1
  CPU = {c1}
  Links = {l1, l2}
  Settings <- MCSettings
  MaxChanges = 2
  MaxFaults = 1
  MaxKills = 1
INVARIANTS TypeOK AttachedWhenSettled DirectionKept LimitedOnceReady
PROPERTIES EventuallyAttached
CHECK_DEADLOCK FALSE
