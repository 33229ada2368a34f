SPECIFICATION Spec
CONSTANTS
  alice = alice
  boss = boss
  kid = kid
  newcomer = newcomer
  None = None
  Accounts = {boss, kid, newcomer}
  Kind <- MCKind
  Owner <- MCOwner
  Role0 <- MCRole0
  Enrolled <- MCEnrolled
  Password0 = p1
  Passwords = {p1}
  Helpers = {h1}
  Nonces = {n1}
  Proofs = {e1}
  MaxOwnGrants = 1
  MaxGen = 3
  MaxServer = 1
  Commands = {"login", "setAccess", "delete", "setPolicy", "approve", "revokeSelf", "validate", "rootRole", "rootScope", "rootPolicy", "rootRequireChange", "localPolicy"}
SYMMETRY Symmetry
INVARIANTS
  FreshAuthority
CHECK_DEADLOCK FALSE
