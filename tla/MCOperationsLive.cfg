SPECIFICATION FairSpec
CONSTANTS
  MaxOps = 2
  Files = {f1}
  Procs = {p1, p2}
  Workloads <- MCLive
  Gc = Gc
  NoOne = NoOne
PROPERTIES
  LockServed
  DueSettles
CHECK_DEADLOCK FALSE
