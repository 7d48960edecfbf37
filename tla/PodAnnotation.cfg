SPECIFICATION Spec
CONSTANTS
  n1 = n1
  n2 = n2
  u1 = u1
  u2 = u2
  a1 = a1
  a2 = a2
  a3 = a3
  Nil = Nil
  Name = {n1}
  Uid = {u1}
  Ip = {a1}
  V4 = {a1}
  Objects <- Annotated
  CgroupFiles <- NoLines
  PodFiles <- NoPods
  MovingIps = FALSE
  Faulty = {}
  MaxFaults = 0
  MaxCrashes = 0
INVARIANTS AnnotationEnforced
CHECK_DEADLOCK FALSE
