SPECIFICATION Spec
CONSTANTS
  CPU = {c1, c2}
  Kinds <- Both
  Rates = {1, 3}
  Lens = {1, 2}
  NsPerUs = 2
  Megabyte = 2
  Word = 32
  MaxClock = 8
  MaxBytes = 12
  MaxPuts = 1
SYMMETRY Processors
INVARIANTS TypeOK Conforms DropsBounded BurstBounded StampsPast
CHECK_DEADLOCK FALSE
