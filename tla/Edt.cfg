SPECIFICATION Spec
CONSTANTS
  CPU = {c1, c2}
  Pods = {p1}
  NoPod = NoPod
  Elements = {e1, e2}
  Classes = {l1}
  NoClass = NoClass
  Rates = {0, 1}
  Lens = {1}
  Ahead = {1, 2}
  Second = 1
  Horizon = 2
  MaxClock = 1
SYMMETRY Symmetric
INVARIANTS TypeOK WithinHorizon
PROPERTIES Spaced
CHECK_DEADLOCK FALSE
