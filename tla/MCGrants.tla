------------------------------ MODULE MCGrants ------------------------------
(* Small instances of Grants for TLC. *)
EXTENDS Grants, TLC

CONSTANTS alice, boss, kid, newcomer

MCKind == [a \in Accounts |-> IF a = kid THEN "virtual" ELSE "linux"]
MCOwner == [a \in Accounts |-> IF a = kid THEN boss ELSE None]
MCRole0 == [a \in Accounts |-> IF a = boss THEN "admin" ELSE "user"]
MCEnrolled == Accounts \ {newcomer}

\* Helpers, nonces and proofs are interchangeable.
Symmetry == Permutations(Helpers) \cup Permutations(Nonces) \cup Permutations(Proofs)

\* No row, grant, proof or helper of the accounts in As has moved.
Untouched(As) ==
  /\ \A a \in As : acct[a] = Row0(a)
  /\ \A n \in Nonces : token[n].acct \notin As
  /\ \A e \in Proofs : proof[e].acct \notin As
  /\ \A h \in Helpers : hp[h].acct \notin As /\ hp[h].target \notin As

EnrollCommands == {"enroll", "localEnroll", "localRevoke", "logout"}

\* Bounds of grants_login: a behaviour is about an enrolled account and the
\* commands of its sessions, or about a newcomer and its enrollment.
EnrolledStory ==
  /\ Untouched(Accounts \ Enrolled)
  /\ \A a \in Accounts : acct[a].gen <= 3
  /\ \A h \in Helpers : hp[h].cmd \notin EnrollCommands \ {"logout"}
NewcomerStory ==
  /\ Untouched(Enrolled)
  /\ backup = {} /\ starts = 1
  /\ Cardinality({n \in Nonces : token[n].issued}) <= 1
  /\ \A h \in Helpers : hp[h].cmd \in EnrollCommands \cup {"none"}
  /\ \A a \in Accounts : ~acct[a].pcr

\* While two helpers overlap there is no backup and no second server.
OverlapOrRestore ==
  Cardinality({h \in Helpers : hp[h].pc # "idle"}) > 1
    => backup = {} /\ starts = 1

OneStory == (EnrolledStory \/ NewcomerStory) /\ OverlapOrRestore
=============================================================================
