SPECIFICATION Spec
CONSTANTS
  n1 = n1
  n2 = n2
  u1 = u1
  u2 = u2
  a1 = a1
  a2 = a2
  a3 = a3
  Nil = Nil
  Name = {n1, n2}
  Uid = {u1, u2}
  Ip = {a1, a2, a3}
  V4 = {a1, a3}
  Objects <- Lifecycle
  CgroupFiles <- NoLines
  PodFiles <- LifecycleFiles
  MovingIps = FALSE
  Faulty = {}
  MaxFaults = 0
  MaxCrashes = 0
INVARIANTS TypeOK GoneUnmapped HostClassed
CHECK_DEADLOCK FALSE
