SPECIFICATION Spec
CONSTANTS
  Uids = {u1, u2, u3}
  Requests = {r1, r2}
  Helpers = {h1}
  Sizes = {1, 2}
  MaxGen = 1
  Acts = {"quota", "budget", "own", "pool", "sync", "cancel", "purge"}
  Root = Root
  NoUid = NoUid
SYMMETRY Symmetry
INVARIANTS
  TypeOK
  NeverOverAllocated
  LimitsWithinAllotment
  IdentityAccountedFor
  UidIssuedOnce
