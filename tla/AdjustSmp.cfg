SPECIFICATION Spec
CONSTANTS
  CPU = {c1, c2}
  Confs <- TwoConfs
  BootConfs <- JustFirst
  Loads = {2, 5}
  MEGABYTE = 2
  Second = 1
  Word = 8
  MaxClock = 2
SYMMETRY Processors
INVARIANTS RateCapped
PROPERTIES StaysLimited
CHECK_DEADLOCK FALSE
