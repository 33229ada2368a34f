SPECIFICATION Spec
CONSTANTS
  alice = alice
  boss = boss
  kid = kid
  newcomer = newcomer
  None = None
  Accounts = {alice, newcomer}
  Kind <- MCKind
  Owner <- MCOwner
  Role0 <- MCRole0
  Enrolled <- MCEnrolled
  Password0 = p1
  Passwords = {p1, p2}
  Helpers = {h1, h2}
  Nonces = {n1, n2}
  Proofs = {e1, e2}
  MaxOwnGrants = 1
  MaxGen = 4
  MaxServer = 2
  Commands = {"login", "changePassword", "logout", "rootPassword", "rootAccess", "rootRequireChange", "backup", "enroll", "localEnroll", "localRevoke", "rootApprove"}
SYMMETRY Symmetry
INVARIANTS
  TypeOK
  GrantProvesCurrentPassword
  OwnGrantsBounded
  NoOpenProofWhileDenied
PROPERTIES
  DeadStaysDead
CONSTRAINT OneStory
CHECK_DEADLOCK FALSE
