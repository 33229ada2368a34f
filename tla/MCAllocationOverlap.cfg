SPECIFICATION Spec
CONSTANTS
  Uids = {u1, u2, u3}
  Requests = {r1}
  Helpers = {h1, h2}
  Sizes = {1, 2}
  MaxGen = 1
  Acts = {"quota", "pool", "sync"}
  Root = Root
  NoUid = NoUid
SYMMETRY Symmetry
INVARIANTS
  LimitsWithinAllotment
