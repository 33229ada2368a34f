SPECIFICATION Spec
CONSTANTS
  MaxOps = 2
  Files = {f1}
  Procs = {p1, p2}
  Workloads <- MCSafe
  Gc = Gc
  NoOne = NoOne
SYMMETRY Symmetry
INVARIANTS
  TypeOK
  TruthfulJournal
  
  UndoStartedOnce
PROPERTIES
  KeepsLiveRecords
CHECK_DEADLOCK FALSE
