SPECIFICATION FairSpec
CONSTANTS
  Daemon = daemon
  Missing = Missing
  Commands = {cmd1, cmd2}
  Contents <- Files
  Options <- Given
  Megabyte = 2
  Word = 32
  MaxChanges = 1
  MaxRuns = 2
  MaxFaults = 1
INVARIANTS TypeOK InForceValid SuccessMeansBoth
PROPERTIES VettedTogether FileTakesEffect
CHECK_DEADLOCK FALSE
