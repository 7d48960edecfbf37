SPECIFICATION FairSpec
CONSTANTS
  n1 = n1
  n2 = n2
  u1 = u1
  u2 = u2
  a1 = a1
  a2 = a2
  a3 = a3
  Nil = Nil
  Name = {n1}
  Uid = {u1}
  Ip = {a1, a2}
  V4 = {a1}
  Objects <- Late
  CgroupFiles <- NoLines
  PodFiles <- ListedFiles
  MovingIps = FALSE
  Faulty = {"write", "delete"}
  MaxFaults = 1
  MaxCrashes = 1
INVARIANTS PodsMapped
PROPERTIES PodFileTakesEffect RatesReclaimed
CHECK_DEADLOCK FALSE
