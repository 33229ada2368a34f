SPECIFICATION FairSpec
CONSTANTS
  p1 = p1
  p2 = p2
  c1 = c1
  c2 = c2
  c3 = c3
  s1 = s1
  s2 = s2
  s3 = s3
  x1 = x1
  t1 = t1
  t2 = t2
  t3 = t3
  a1 = a1
  a2 = a2
  a3 = a3
  None = None
  Procs = {p1}
  Conns = {c1, c2}
  ProcOf <- MCProcOf
  Sessions = {s1}
  Transfers = {t1}
  Totals = {1}
  MaxStagingBytes = 3
  MaxStagingTransfers = 2
  MaxSuspended = 1
  Attempts = {}
  Users = {u1}
  MaxFailures = 2
  Lockout = 1
  GlobalFactor = 1
  MaxEntries = 1
  MaxTime = 0
  Streams = {x1}
  Gate = p1
  Slots = 2
  PreAuthSlots = 1
  MaxBoots = 1
  Workloads <- MCLive
PROPERTIES
  DeadSessionsLetGo
  ShutdownEnds
  SuspendedGo
CHECK_DEADLOCK FALSE
