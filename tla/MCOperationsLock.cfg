SPECIFICATION Spec
CONSTANTS
  MaxOps = 2
  Files = {f1}
  Procs = {p1, p2}
  Workloads <- MCLock
  Gc = Gc
  NoOne = NoOne
SYMMETRY Symmetry
PROPERTIES
  CommitsUnderLock
CHECK_DEADLOCK FALSE
