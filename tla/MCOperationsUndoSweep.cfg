SPECIFICATION Spec
CONSTANTS
  MaxOps = 2
  Files = {f1}
  Procs = {p1}
  Workloads <- MCUndoSweep
  Gc = Gc
  NoOne = NoOne
PROPERTIES
  UnsettledUndoKeepsTrash
CHECK_DEADLOCK FALSE
