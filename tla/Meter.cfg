SPECIFICATION Spec
CONSTANTS
  CPU = {c1, c2}
  N = 2
  Lens = {1}
  Sample = 1
  Stale = 1
  Second = 1
  Word = 16
  MaxClock = 2
  MaxBytes = 1
SYMMETRY Processors
INVARIANTS TypeOK MetersSpared  WrapsOvertaken
CHECK_DEADLOCK FALSE
