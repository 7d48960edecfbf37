SPECIFICATION FairSpec
CONSTANTS
  CPU = {c1}
  Confs <- OneConf
  BootConfs <- OneConf
  Loads = {0,2,4,5,6,7,9}
  MEGABYTE = 2
  Second = 2
  Word = 6
  MaxClock = 6
INVARIANTS TypeOK PriorityOrder
PROPERTIES ImplementsPolicy ContentionKeepsMinimum ExcessTaken SpareGiven ContentionReachesMinima SpareReachesMaxima
