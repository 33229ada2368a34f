SPECIFICATION Spec
CONSTANTS
  Reserved = {".tealdrive-trash"}
  DotNames = {".tealdrive-trash", ".rc"}
  Reqs = {r1, r2}
  NoReq = NoReq
  Paths <- MCPaths
  ZipNames = {"z.zip"}
  TarNames = {"t.tgz"}
  Workloads <- MCWorkloads
INVARIANTS
  TypeOK
  UnreadableStaysUnread
  HiddenStaysHidden
PROPERTIES
  ChangesPermitted
  NoLostEdit
  RevokedStaysRevoked
SYMMETRY Symmetry
CHECK_DEADLOCK FALSE
