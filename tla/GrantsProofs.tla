---------------------------- MODULE GrantsProofs ----------------------------
(***************************************************************************)
(* Theorems about Grants, for every set of accounts, helpers, nonces and   *)
(* proofs and every value of the bounds.                                   *)
(***************************************************************************)
EXTENDS Grants, FiniteSetTheorems, TLAPS

\* A live row of table r was issued, and against the accounts ac it is either
\* superseded or proves the present password of an active account.
Binding(ac, r) ==
  \A n \in Nonces : r[n] = "live" =>
    /\ token[n].issued
    /\ token[n].acct \in Accounts
    /\ token[n].gen <= ac[token[n].acct].gen
    /\ token[n].gen = ac[token[n].acct].gen =>
         /\ ac[token[n].acct].status = "active"
         /\ token[n].pw = ac[token[n].acct].pw

\* What a helper holds between its transactions.
HelperInv ==
  \A h \in Helpers :
    /\ hp[h].pc \notin {"idle", "act"} => hp[h].acct \in Accounts
    /\ hp[h].pc = "gen" => hp[h].target \in Accounts
    /\ hp[h].pc \in {"hash", "issue"} => hp[h].gen <= acct[hp[h].acct].gen
    /\ hp[h].pc = "issue" /\ hp[h].gen = acct[hp[h].acct].gen =>
         hp[h].pw = acct[hp[h].acct].pw

\* Callers are incarnations that have been.
CallerInv ==
  /\ server \in {0, starts}
  /\ \A n \in Nonces : token[n].caller <= starts
  /\ \A h \in Helpers : hp[h].caller <= starts

ProofInv == \A p \in Proofs : proof[p].state = "open" => proof[p].acct \in Accounts

Inv ==
  /\ TypeOK
  /\ Binding(acct, row)
  /\ \A b \in backup : Binding(b.acct, b.row)
  /\ HelperInv
  /\ CallerInv
  /\ ProofInv

\* The initial state satisfies the invariant.
LEMMA InitInv == Init => Inv
  BY GrantsConstants DEF Init, Inv, TypeOK, Binding, HelperInv, CallerInv, ProofInv,
     Row0, AcctRec, TokenRec, ProofRec, HelperRec, DbRec, NoToken, NoProof, Idle,
     Statuses, ClientCommands, GrantCommands

-----------------------------------------------------------------------------
(* The two shapes most steps have: one helper moves on with what it read,  *)
(* or one transaction changes the accounts table.                          *)

\* What HelperInv and CallerInv ask of one helper's record.
HelperOK(r) ==
  /\ r \in HelperRec
  /\ r.caller <= starts
  /\ r.pc \notin {"idle", "act"} => r.acct \in Accounts
  /\ r.pc = "gen" => r.target \in Accounts
  /\ r.pc \in {"hash", "issue"} => r.gen <= acct[r.acct].gen
  /\ r.pc = "issue" /\ r.gen = acct[r.acct].gen => r.pw = acct[r.acct].pw

\* Numbers the steps below compare.
LEMMA Numbers ==
  ASSUME Inv
  PROVE  /\ starts \in Nat /\ server \in Nat /\ server <= starts /\ 0 <= starts
         /\ \A a \in Accounts : acct[a].gen \in Nat /\ acct[a].gen <= acct[a].gen
<1>1. starts \in Nat /\ server \in {0, starts}
  BY DEF Inv, TypeOK, CallerInv
<1>2. \A a \in Accounts : acct[a].gen \in Nat
  BY DEF Inv, TypeOK, AcctRec
<1>3. QED
  BY <1>1, <1>2

\* The idle helper satisfies its part of the invariant.
LEMMA IdleOK == ASSUME Inv PROVE HelperOK(Idle)
  BY DEF Inv, TypeOK, HelperOK, Idle, HelperRec, ClientCommands, GrantCommands

\* A helper that only moves its own record keeps the invariant.
LEMMA HelperMoves ==
  ASSUME Inv, NEW h \in Helpers, NEW r, HelperOK(r),
         hp' = [hp EXCEPT ![h] = r],
         UNCHANGED <<acct, row, token, expired, proof, server, starts, backup>>
  PROVE  Inv'
<1>1. TypeOK'
  BY DEF Inv, TypeOK, HelperOK
<1>2. HelperInv' /\ CallerInv'
  BY DEF Inv, TypeOK, HelperOK, HelperInv, CallerInv
<1>3. QED
  BY <1>1, <1>2 DEF Inv, Binding, ProofInv

\* A row changes its password or leaves "active" only with its generation.
Mono ==
  \A a \in Accounts :
    /\ acct[a].gen <= acct'[a].gen
    /\ acct'[a].gen = acct[a].gen =>
         /\ acct'[a].pw = acct[a].pw
         /\ acct[a].status = "active" => acct'[a].status = "active"

\* A transaction on the accounts table that is monotone in this sense, and
\* opens no proof, keeps the invariant.
LEMMA AccountsChange ==
  ASSUME Inv, acct' \in [Accounts -> AcctRec], Mono,
         proof' \in [Proofs -> ProofRec],
         \A p \in Proofs : proof'[p].state = "open" => proof'[p] = proof[p],
         hp' \in [Helpers -> HelperRec],
         \A h \in Helpers : hp'[h] = hp[h] \/ hp'[h] = Idle,
         UNCHANGED <<row, token, expired, server, starts, backup>>
  PROVE  Inv'
<1>1. TypeOK'
  BY DEF Inv, TypeOK
<1>2. Binding(acct, row)'
  <2> SUFFICES ASSUME NEW n \in Nonces, row[n] = "live"
               PROVE  /\ token[n].issued
                      /\ token[n].acct \in Accounts
                      /\ token[n].gen <= acct'[token[n].acct].gen
                      /\ token[n].gen = acct'[token[n].acct].gen =>
                           /\ acct'[token[n].acct].status = "active"
                           /\ token[n].pw = acct'[token[n].acct].pw
    BY DEF Binding
  <2>1. acct[token[n].acct].gen \in Nat /\ acct'[token[n].acct].gen \in Nat /\ token[n].gen \in Nat
    BY DEF Inv, TypeOK, Binding, AcctRec, TokenRec
  <2>2. QED
    BY <2>1 DEF Inv, Binding, Mono
<1>3. (\A b \in backup : Binding(b.acct, b.row))'
  BY DEF Inv, Binding
<1>4. HelperInv'
  <2> SUFFICES ASSUME NEW h \in Helpers
               PROVE  /\ hp'[h].pc \notin {"idle", "act"} => hp'[h].acct \in Accounts
                      /\ hp'[h].pc = "gen" => hp'[h].target \in Accounts
                      /\ hp'[h].pc \in {"hash", "issue"} => hp'[h].gen <= acct'[hp'[h].acct].gen
                      /\ hp'[h].pc = "issue" /\ hp'[h].gen = acct'[hp'[h].acct].gen =>
                           hp'[h].pw = acct'[hp'[h].acct].pw
    BY DEF HelperInv
  <2>1. CASE hp'[h] = Idle
    BY <2>1 DEF Idle
  <2>2. CASE hp'[h] = hp[h] /\ hp[h].pc \notin {"hash", "issue"}
    BY <2>2 DEF Inv, HelperInv
  <2>3. CASE hp'[h] = hp[h] /\ hp[h].pc \in {"hash", "issue"}
    <3>1. hp[h].acct \in Accounts
      BY <2>3 DEF Inv, HelperInv
    <3>2. acct[hp[h].acct].gen \in Nat /\ acct'[hp[h].acct].gen \in Nat /\ hp[h].gen \in Nat
      BY <3>1 DEF Inv, TypeOK, AcctRec, HelperRec
    <3> DEFINE a == hp[h].acct
    <3>3. /\ acct[a].gen <= acct'[a].gen
          /\ acct'[a].gen = acct[a].gen => acct'[a].pw = acct[a].pw
      BY <3>1 DEF Mono
    <3>4. /\ hp[h].gen <= acct[a].gen
          /\ hp[h].pc = "issue" /\ hp[h].gen = acct[a].gen => hp[h].pw = acct[a].pw
      BY <2>3 DEF Inv, HelperInv
    <3> HIDE DEF a
    <3>5. /\ hp[h].gen <= acct'[a].gen
          /\ hp[h].pc = "issue" /\ hp[h].gen = acct'[a].gen => hp[h].pw = acct'[a].pw
      BY <3>2, <3>3, <3>4 DEF a
    <3>6. QED
      BY <2>3, <3>1, <3>5 DEF a
  <2>4. QED
    BY <2>1, <2>2, <2>3
<1>5. CallerInv'
  <2>1. \A h \in Helpers : hp'[h].caller <= starts
    <3> TAKE h \in Helpers
    <3>1. CASE hp'[h] = hp[h]
      BY <3>1 DEF Inv, CallerInv
    <3>2. CASE hp'[h] = Idle
      <4>1. hp'[h].caller = 0 /\ starts \in Nat
        BY <3>2 DEF Idle, Inv, TypeOK
      <4>2. QED
        BY <4>1
    <3>3. QED
      BY <3>1, <3>2
  <2>2. QED
    BY <2>1 DEF Inv, CallerInv
<1>6. ProofInv'
  BY DEF Inv, ProofInv
<1>7. QED
  BY <1>1, <1>2, <1>3, <1>4, <1>5, <1>6 DEF Inv

-----------------------------------------------------------------------------
(* Steps of a helper that change only what it holds. *)

\* The first query of verify_password keeps the invariant.
LEMMA LoginReadRowInv ==
  ASSUME Inv, NEW h \in Helpers, LoginReadRow(h) PROVE Inv'
<1>1. PICK a \in Accounts, p \in Passwords :
        hp' = [hp EXCEPT ![h] = [Idle EXCEPT !.pc = "hash", !.cmd = "login",
                 !.acct = a, !.gen = acct[a].gen, !.pw = p, !.caller = server]]
  BY DEF LoginReadRow
<1> DEFINE r == [Idle EXCEPT !.pc = "hash", !.cmd = "login",
                   !.acct = a, !.gen = acct[a].gen, !.pw = p, !.caller = server]
<1>2. HelperOK(r)
  BY Numbers DEF HelperOK, HelperRec, Idle, ClientCommands
<1>3. QED
  BY <1>1, <1>2, HelperMoves DEF LoginReadRow

\* So does its second query: the hash is compared with what was sent.
LEMMA ReadHashInv ==
  ASSUME Inv, NEW h \in Helpers, ReadHash(h) PROVE Inv'
<1> DEFINE r == IF acct[hp[h].acct].pw # hp[h].pw THEN Idle
                ELSE [hp[h] EXCEPT !.pc = IF hp[h].cmd = "login" THEN "issue" ELSE "act"]
<1>1. hp[h] \in HelperRec /\ hp[h].pc = "hash" /\ hp[h].acct \in Accounts
  BY DEF ReadHash, Inv, TypeOK, HelperInv
<1>2. HelperOK(r)
  <2>1. CASE acct[hp[h].acct].pw # hp[h].pw
    BY <2>1, IdleOK
  <2>2. CASE acct[hp[h].acct].pw = hp[h].pw
    BY <2>2, <1>1 DEF HelperOK, HelperRec, Inv, HelperInv, CallerInv
  <2>3. QED
    BY <2>1, <2>2
<1>3. QED
  BY <1>2, HelperMoves DEF ReadHash

\* So does the grant row query of verify_restricted_grant.
LEMMA VerifyRowInv ==
  ASSUME Inv, NEW h \in Helpers, VerifyRow(h) PROVE Inv'
<1>1. PICK n \in Nonces, c \in GrantCommands \cap Commands, t \in Accounts :
        /\ row[n] = "live"
        /\ hp' = [hp EXCEPT ![h] = [Idle EXCEPT !.pc = "gen", !.cmd = c,
                   !.acct = token[n].acct, !.gen = token[n].gen, !.nonce = n,
                   !.target = t]]
  BY DEF VerifyRow
<1> DEFINE r == [Idle EXCEPT !.pc = "gen", !.cmd = c,
                   !.acct = token[n].acct, !.gen = token[n].gen, !.nonce = n,
                   !.target = t]
<1>2. token[n].acct \in Accounts /\ token[n].gen \in Nat /\ starts \in Nat
  BY <1>1 DEF Inv, Binding, TypeOK, TokenRec
<1>3. HelperOK(r)
  BY <1>2, Numbers DEF HelperOK, HelperRec, Idle, ClientCommands
<1>4. QED
  BY <1>1, <1>3, HelperMoves DEF VerifyRow

\* So does verify_generation with the checks of dispatch.
LEMMA VerifyGenerationInv ==
  ASSUME Inv, NEW h \in Helpers, VerifyGeneration(h) PROVE Inv'
<1> DEFINE c == hp[h].cmd
           t == hp[h].target
           r == [hp[h] EXCEPT
                   !.pc = IF c = "changePassword" THEN "row" ELSE "act",
                   !.auth = Authority(hp[h].acct, c, t),
                   !.tgen = acct[t].gen]
<1>1. hp[h] \in HelperRec /\ hp[h].pc = "gen" /\ hp[h].acct \in Accounts /\ t \in Accounts
  BY DEF VerifyGeneration, Inv, TypeOK, HelperInv
<1>2. HelperOK(r)
  <2>1. Authority(hp[h].acct, c, t) \in {"account", "root"} /\ acct[t].gen \in Nat
    BY <1>1 DEF Authority, Inv, TypeOK, AcctRec
  <2>2. QED
    BY <1>1, <2>1 DEF HelperOK, HelperRec, Inv, CallerInv
<1>3. \/ hp' = [hp EXCEPT ![h] = r]
      \/ hp' = [hp EXCEPT ![h] = Idle]
  BY DEF VerifyGeneration
<1>4. QED
  BY <1>2, <1>3, IdleOK, HelperMoves DEF VerifyGeneration

\* So does the read of a local command.
LEMMA LocalReadInv ==
  ASSUME Inv, NEW h \in Helpers, LocalRead(h) PROVE Inv'
<1>1. PICK a \in Accounts, c \in {"localRevoke", "localPolicy"} :
        hp' = [hp EXCEPT ![h] = [Idle EXCEPT !.pc = "act", !.cmd = c,
                 !.acct = a, !.gen = acct[a].gen, !.target = a,
                 !.tgen = acct[a].gen]]
  BY DEF LocalRead
<1> DEFINE r == [Idle EXCEPT !.pc = "act", !.cmd = c, !.acct = a,
                   !.gen = acct[a].gen, !.target = a, !.tgen = acct[a].gen]
<1>2. HelperOK(r)
  BY Numbers DEF HelperOK, HelperRec, Idle, ClientCommands
<1>3. QED
  BY <1>1, <1>2, HelperMoves DEF LocalRead

\* So does the row query of a password change.
LEMMA ReadRowInv ==
  ASSUME Inv, NEW h \in Helpers, ReadRow(h) PROVE Inv'
<1>1. PICK p \in Passwords :
        \/ /\ Authorized(hp[h].acct, hp[h].gen)
           /\ hp' = [hp EXCEPT ![h] = [hp[h] EXCEPT !.pc = "hash", !.pw = p]]
        \/ hp' = [hp EXCEPT ![h] = Idle]
  BY DEF ReadRow
<1>2. hp[h] \in HelperRec /\ hp[h].acct \in Accounts
  BY DEF ReadRow, Inv, TypeOK, HelperInv
<1>3. CASE /\ Authorized(hp[h].acct, hp[h].gen)
           /\ hp' = [hp EXCEPT ![h] = [hp[h] EXCEPT !.pc = "hash", !.pw = p]]
  <2>1. HelperOK([hp[h] EXCEPT !.pc = "hash", !.pw = p])
    BY <1>2, <1>3, Numbers DEF HelperOK, HelperRec, Inv, CallerInv, Authorized
  <2>2. QED
    BY <1>3, <2>1, HelperMoves DEF ReadRow
<1>4. CASE hp' = [hp EXCEPT ![h] = Idle]
  BY <1>4, IdleOK, HelperMoves DEF ReadRow
<1>5. QED
  BY <1>1, <1>3, <1>4

\* A helper that gives up keeps the invariant.
LEMMA FailInv ==
  ASSUME Inv, NEW h \in Helpers, Fail(h) PROVE Inv'
  BY IdleOK, HelperMoves DEF Fail

\* So does the PAM check of an enrollment.
LEMMA EnrollAuthenticateInv ==
  ASSUME Inv, NEW h \in Helpers, EnrollAuthenticate(h) PROVE Inv'
<1>1. PICK a \in Accounts, c \in {"enroll", "localEnroll"} :
        hp' = [hp EXCEPT ![h] = [Idle EXCEPT !.pc = "pam", !.cmd = c, !.acct = a,
                 !.caller = IF c = "enroll" THEN server ELSE 0]]
  BY DEF EnrollAuthenticate
<1> DEFINE r == [Idle EXCEPT !.pc = "pam", !.cmd = c, !.acct = a,
                   !.caller = IF c = "enroll" THEN server ELSE 0]
<1>2. HelperOK(r)
  BY Numbers DEF HelperOK, HelperRec, Idle, ClientCommands
<1>3. QED
  BY <1>1, <1>2, HelperMoves DEF EnrollAuthenticate

\* So does enrollment_identity.
LEMMA ReadProofInv ==
  ASSUME Inv, NEW h \in Helpers, ReadProof(h) PROVE Inv'
<1>1. PICK p \in Proofs, w \in Passwords :
        /\ proof[p].state = "open"
        /\ hp' = [hp EXCEPT ![h] = [Idle EXCEPT !.pc = "complete", !.cmd = "enroll",
                   !.acct = proof[p].acct, !.proof = p, !.pw = w, !.caller = server]]
  BY DEF ReadProof
<1> DEFINE r == [Idle EXCEPT !.pc = "complete", !.cmd = "enroll",
                   !.acct = proof[p].acct, !.proof = p, !.pw = w, !.caller = server]
<1>2. HelperOK(r)
  <2>1. proof[p].acct \in Accounts
    BY <1>1 DEF Inv, ProofInv
  <2>2. QED
    BY <2>1, Numbers DEF HelperOK, HelperRec, Idle, ClientCommands
<1>3. QED
  BY <1>1, <1>2, HelperMoves DEF ReadProof

-----------------------------------------------------------------------------
(* Transactions on the accounts table. *)

\* What AccountsChange asks of hp' and proof' in these transactions.
LEMMA IdleHelper ==
  ASSUME Inv, NEW h \in Helpers, hp' = [hp EXCEPT ![h] = Idle]
  PROVE  /\ hp' \in [Helpers -> HelperRec]
         /\ \A k \in Helpers : hp'[k] = hp[k] \/ hp'[k] = Idle
  BY IdleOK DEF Inv, TypeOK, HelperOK

\* The helpers stay as they are.
LEMMA SameHelpers ==
  ASSUME Inv, hp' = hp
  PROVE  /\ hp' \in [Helpers -> HelperRec]
         /\ \A k \in Helpers : hp'[k] = hp[k] \/ hp'[k] = Idle
  BY DEF Inv, TypeOK

\* DropProofs opens no proof.
LEMMA DroppedProofs ==
  ASSUME Inv, NEW a, proof' = DropProofs(a)
  PROVE  /\ proof' \in [Proofs -> ProofRec]
         /\ \A p \in Proofs : proof'[p].state = "open" => proof'[p] = proof[p]
<1>1. \A p \in Proofs : proof[p] \in ProofRec
  BY DEF Inv, TypeOK
<1>2. QED
  BY <1>1 DEF DropProofs, ProofRec

\* The proofs stay as they are.
LEMMA SameProofs ==
  ASSUME Inv, proof' = proof
  PROVE  /\ proof' \in [Proofs -> ProofRec]
         /\ \A p \in Proofs : proof'[p].state = "open" => proof'[p] = proof[p]
  BY DEF Inv, TypeOK

\* An update of one field keeps the type of a row, and all but Bump keep its
\* generation.
LEMMA BumpRec == ASSUME NEW q \in AcctRec PROVE Bump(q) \in AcctRec /\ Bump(q).gen = q.gen + 1
  BY DEF AcctRec, Bump

\* set_password writes a well-formed row.
LEMMA PwRec ==
  ASSUME NEW q \in AcctRec, NEW p \in Passwords \cup {None}
  PROVE  [q EXCEPT !.pw = p] \in AcctRec /\ [q EXCEPT !.pw = p].gen = q.gen
  BY DEF AcctRec

\* require_password_change writes a well-formed row.
LEMMA PcrRec ==
  ASSUME NEW q \in AcctRec, NEW b \in BOOLEAN
  PROVE  [q EXCEPT !.pcr = b] \in AcctRec /\ [q EXCEPT !.pcr = b].gen = q.gen
  BY DEF AcctRec

\* transition_checked and complete_enrollment write a well-formed row: the bar
\* on enrollment goes with the status.
LEMMA StatusRec ==
  ASSUME NEW q \in AcctRec, NEW x \in Statuses, NEW b \in BOOLEAN,
         b => x \notin {"absent", "active"}
  PROVE  LET r == [q EXCEPT !.status = x, !.deny = b]
         IN  r \in AcctRec /\ r.gen = q.gen /\ r.pw = q.pw
  BY DEF AcctRec

\* set_panel_scope writes a well-formed row.
LEMMA GlobalRec ==
  ASSUME NEW q \in AcctRec, NEW b \in BOOLEAN
  PROVE  [q EXCEPT !.global = b] \in AcctRec /\ [q EXCEPT !.global = b].gen = q.gen
  BY DEF AcctRec

\* set_role writes a well-formed row.
LEMMA RoleRec ==
  ASSUME NEW q \in AcctRec, NEW x \in {"user", "admin"}
  PROVE  [q EXCEPT !.role = x] \in AcctRec /\ [q EXCEPT !.role = x].gen = q.gen
  BY DEF AcctRec

\* One row replaced by r, its generation incremented.
LEMMA Replaced ==
  ASSUME Inv, NEW t, NEW r, t \in Accounts => r \in AcctRec /\ r.gen = acct[t].gen + 1,
         acct' = [acct EXCEPT ![t] = r]
  PROVE  acct' \in [Accounts -> AcctRec] /\ Mono
<1>1. acct' \in [Accounts -> AcctRec]
  BY DEF Inv, TypeOK
<1>2. ASSUME NEW a \in Accounts
      PROVE  /\ acct[a].gen <= acct'[a].gen
             /\ acct'[a].gen = acct[a].gen =>
                  /\ acct'[a].pw = acct[a].pw
                  /\ acct[a].status = "active" => acct'[a].status = "active"
  <2>1. CASE a = t
    <3>1. acct'[a].gen = acct[a].gen + 1
      BY <2>1 DEF Inv, TypeOK
    <3>2. QED
      BY <3>1, Numbers
  <2>2. CASE a # t
    <3>1. acct'[a] = acct[a]
      BY <2>2 DEF Inv, TypeOK
    <3>2. QED
      BY <3>1, Numbers
  <2>3. QED
    BY <2>1, <2>2
<1>3. QED
  BY <1>1, <1>2 DEF Mono

\* transition_checked keeps the invariant.
LEMMA TransitionStep ==
  ASSUME Inv, NEW auth, NEW a, NEW g, NEW t,
         NEW status \in {"active", "suspended", "revoked", "deleted"},
         Transition(auth, a, g, t, status)
  PROVE  acct' \in [Accounts -> AcctRec] /\ Mono /\ proof' = DropProofs(t)
<1> DEFINE self == auth = "account" /\ a = t /\ Kind[t] = "linux" /\ status = "revoked"
           r == Transitioned(t, status, self)
<1>1. acct' = [acct EXCEPT ![t] = r] /\ proof' = DropProofs(t)
  BY DEF Transition
<1>2. ASSUME t \in Accounts PROVE r \in AcctRec /\ r.gen = acct[t].gen + 1
  <2>1. acct[t] \in AcctRec
    BY <1>2 DEF Inv, TypeOK
  <2> DEFINE q == Bump(acct[t])
             b == (status # "active") /\ ~self
  <2>2. q \in AcctRec /\ q.gen = acct[t].gen + 1
    BY <2>1, BumpRec
  <2>3. b \in BOOLEAN /\ (b => status \notin {"absent", "active"}) /\ status \in Statuses
    BY DEF Statuses
  <2>4. r = [q EXCEPT !.status = status, !.deny = b]
    BY DEF Transitioned, Bump
  <2> HIDE DEF q, b, r
  <2>5. QED
    BY <2>2, <2>3, <2>4, StatusRec
<1> HIDE DEF r
<1>3. QED
  BY <1>1, <1>2, Replaced

\* set_password keeps the invariant.
LEMMA SetPasswordStep ==
  ASSUME Inv, NEW auth, NEW a, NEW g, NEW t, NEW p \in Passwords,
         SetPassword(auth, a, g, t, p)
  PROVE  acct' \in [Accounts -> AcctRec] /\ Mono
<1> DEFINE q1 == Bump(acct[t])
           q2 == [q1 EXCEPT !.pw = p]
           r == [q2 EXCEPT !.pcr = FALSE]
<1>1. acct' = [acct EXCEPT ![t] = r]
  BY DEF SetPassword
<1>2. ASSUME t \in Accounts PROVE r \in AcctRec /\ r.gen = acct[t].gen + 1
  <2>1. acct[t] \in AcctRec
    BY <1>2 DEF Inv, TypeOK
  <2>2. q1 \in AcctRec /\ q1.gen = acct[t].gen + 1
    BY <2>1, BumpRec
  <2> HIDE DEF q1
  <2>3. q2 \in AcctRec /\ q2.gen = q1.gen
    BY <2>2, PwRec
  <2> HIDE DEF q2
  <2>4. r \in AcctRec /\ r.gen = q2.gen
    BY <2>3, PcrRec
  <2> HIDE DEF r
  <2>5. QED
    BY <2>2, <2>3, <2>4
<1> HIDE DEF r
<1>3. QED
  BY <1>1, <1>2, Replaced

\* A transaction that only moves a generation on keeps the invariant.
LEMMA BumpStep ==
  ASSUME Inv, NEW t, acct' = [acct EXCEPT ![t] = Bump(@)]
  PROVE  acct' \in [Accounts -> AcctRec] /\ Mono
<1> DEFINE r == Bump(acct[t])
<1>1. acct' = [acct EXCEPT ![t] = r]
  OBVIOUS
<1>2. ASSUME t \in Accounts PROVE r \in AcctRec /\ r.gen = acct[t].gen + 1
  <2>1. acct[t] \in AcctRec
    BY <1>2 DEF Inv, TypeOK
  <2>2. QED
    BY <2>1 DEF Bump, AcctRec
<1> HIDE DEF r
<1>3. QED
  BY <1>1, <1>2, Replaced

\* create_record leaves the generation and has no grant to invalidate: only
\* an absent row becomes active.
LEMMA CreateStep ==
  ASSUME Inv, NEW t, ~Exists(t), acct' = [acct EXCEPT ![t].status = "active"]
  PROVE  acct' \in [Accounts -> AcctRec] /\ Mono
<1>1. \A a \in Accounts : acct[a] \in AcctRec
  BY DEF Inv, TypeOK
<1>2. \A a \in Accounts :
        acct'[a] = IF a = t THEN [acct[a] EXCEPT !.status = "active"] ELSE acct[a]
  BY DEF Inv, TypeOK
<1>3. acct' \in [Accounts -> AcctRec]
  <2>1. ASSUME NEW a \in Accounts PROVE acct'[a] \in AcctRec
    BY <1>1, <1>2 DEF AcctRec, Statuses, Exists
  <2>2. QED
    BY <2>1 DEF Inv, TypeOK
<1>4. \A a \in Accounts : /\ acct'[a].gen = acct[a].gen
                          /\ acct'[a].pw = acct[a].pw
                          /\ acct[a].status = "active" => acct'[a].status = "active"
  BY <1>1, <1>2 DEF AcctRec
<1>5. QED
  BY <1>3, <1>4, Numbers DEF Mono

\* The ChangePassword command keeps the invariant.
LEMMA ChangePasswordInv ==
  ASSUME Inv, NEW h \in Helpers, ChangePassword(h) PROVE Inv'
<1>1. acct' \in [Accounts -> AcctRec] /\ Mono
  BY SetPasswordStep DEF ChangePassword
<1>2. QED
  BY <1>1, IdleHelper, SameProofs, AccountsChange DEF ChangePassword

\* The SetAccountAccess command keeps the invariant.
LEMMA SetAccountAccessInv ==
  ASSUME Inv, NEW h \in Helpers, SetAccountAccess(h) PROVE Inv'
<1>1. acct' \in [Accounts -> AcctRec] /\ Mono /\ proof' = DropProofs(hp[h].target)
  BY TransitionStep DEF SetAccountAccess
<1>2. QED
  BY <1>1, IdleHelper, DroppedProofs, AccountsChange DEF SetAccountAccess

\* The DeleteVirtual command keeps the invariant.
LEMMA DeleteVirtualInv ==
  ASSUME Inv, NEW h \in Helpers, DeleteVirtual(h) PROVE Inv'
<1>1. acct' \in [Accounts -> AcctRec] /\ Mono /\ proof' = DropProofs(hp[h].target)
  BY TransitionStep DEF DeleteVirtual
<1>2. QED
  BY <1>1, IdleHelper, DroppedProofs, AccountsChange DEF DeleteVirtual

\* The RevokeSelf command keeps the invariant.
LEMMA RevokeSelfInv ==
  ASSUME Inv, NEW h \in Helpers, RevokeSelf(h) PROVE Inv'
<1>1. acct' \in [Accounts -> AcctRec] /\ Mono /\ proof' = DropProofs(hp[h].acct)
  BY TransitionStep DEF RevokeSelf
<1>2. QED
  BY <1>1, IdleHelper, DroppedProofs, AccountsChange DEF RevokeSelf

\* The SetPolicy command keeps the invariant.
LEMMA SetPolicyInv ==
  ASSUME Inv, NEW h \in Helpers, SetPolicy(h) PROVE Inv'
<1>1. acct' \in [Accounts -> AcctRec] /\ Mono /\ proof' = DropProofs(hp[h].target)
  BY BumpStep DEF SetPolicy, PutPolicy
<1>2. QED
  BY <1>1, IdleHelper, DroppedProofs, AccountsChange DEF SetPolicy

\* The ApproveLinux command keeps the invariant.
LEMMA ApproveLinuxInv ==
  ASSUME Inv, NEW h \in Helpers, ApproveLinux(h) PROVE Inv'
<1>1. acct' \in [Accounts -> AcctRec] /\ Mono
  BY CreateStep DEF ApproveLinux
<1>2. QED
  BY <1>1, IdleHelper, SameProofs, AccountsChange DEF ApproveLinux

\* Every command of the root CLI changes accounts monotonically, opens no
\* proof and touches nothing else.
LEMMA RootStepChange ==
  ASSUME Inv, RootStep
  PROVE  /\ acct' \in [Accounts -> AcctRec] /\ Mono
         /\ proof' \in [Proofs -> ProofRec]
         /\ \A p \in Proofs : proof'[p].state = "open" => proof'[p] = proof[p]
         /\ UNCHANGED <<row, token, expired, server, starts, backup, hp>>
<1> DEFINE Goal == /\ acct' \in [Accounts -> AcctRec] /\ Mono
                   /\ proof' \in [Proofs -> ProofRec]
                   /\ \A p \in Proofs : proof'[p].state = "open" => proof'[p] = proof[p]
                   /\ UNCHANGED <<row, token, expired, server, starts, backup, hp>>
<1>1. PICK t \in Accounts :
    \/ \E st \in {"active", "suspended"} : RootTransition(t, st)
    \/ \E p \in Passwords : RootSetPassword(t, p)
    \/ RequirePasswordChange(t) \/ RootSetPolicy(t) \/ RootApprove(t)
    \/ \E r \in {"user", "admin"} : SetRole(t, r)
    \/ \E g \in BOOLEAN : SetPanelScope(t, g)
  BY DEF RootStep
<1>0. acct[t] \in AcctRec
  BY DEF Inv, TypeOK
<1>2. CASE \E st \in {"active", "suspended"} : RootTransition(t, st)
  <2>1. acct' \in [Accounts -> AcctRec] /\ Mono /\ proof' = DropProofs(t)
    BY <1>2, TransitionStep DEF RootTransition
  <2>2. QED
    BY <1>2, <2>1, DroppedProofs DEF RootTransition
<1>3. CASE \E p \in Passwords : RootSetPassword(t, p)
  <2>1. acct' \in [Accounts -> AcctRec] /\ Mono
    BY <1>3, SetPasswordStep DEF RootSetPassword
  <2>2. QED
    BY <1>3, <2>1, SameProofs DEF RootSetPassword
<1>4. CASE RequirePasswordChange(t)
  <2> DEFINE r == [Bump(acct[t]) EXCEPT !.pcr = TRUE]
  <2>1. r \in AcctRec /\ r.gen = acct[t].gen + 1
    BY <1>0, BumpRec, PcrRec
  <2>2. acct' = [acct EXCEPT ![t] = r]
    BY <1>4 DEF RequirePasswordChange
  <2> HIDE DEF r
  <2>3. acct' \in [Accounts -> AcctRec] /\ Mono
    BY <2>1, <2>2, Replaced
  <2>4. QED
    BY <1>4, <2>3, SameProofs DEF RequirePasswordChange
<1>5. CASE RootSetPolicy(t)
  <2>1. acct' \in [Accounts -> AcctRec] /\ Mono /\ proof' = DropProofs(t)
    BY <1>5, BumpStep DEF RootSetPolicy, PutPolicy
  <2>2. QED
    BY <1>5, <2>1, DroppedProofs DEF RootSetPolicy
<1>6. CASE RootApprove(t)
  <2>1. acct' \in [Accounts -> AcctRec] /\ Mono
    BY <1>6, CreateStep DEF RootApprove
  <2>2. QED
    BY <1>6, <2>1, SameProofs DEF RootApprove
<1>7. ASSUME NEW x \in {"user", "admin"}, SetRole(t, x) PROVE Goal
  <2> DEFINE q == [Bump(acct[t]) EXCEPT !.role = x]
             b == x = "admin"
             r == [q EXCEPT !.global = b]
  <2>1. r \in AcctRec /\ r.gen = acct[t].gen + 1
    <3>1. q \in AcctRec /\ q.gen = acct[t].gen + 1
      BY <1>0, BumpRec, RoleRec
    <3>2. b \in BOOLEAN
      OBVIOUS
    <3> HIDE DEF q, b
    <3>3. QED
      BY <3>1, <3>2, GlobalRec
  <2>2. acct' = [acct EXCEPT ![t] = r]
    BY <1>7 DEF SetRole
  <2> HIDE DEF r
  <2>3. acct' \in [Accounts -> AcctRec] /\ Mono
    BY <2>1, <2>2, Replaced
  <2>4. QED
    BY <1>7, <2>3, DroppedProofs DEF SetRole
<1>8. ASSUME NEW g \in BOOLEAN, SetPanelScope(t, g) PROVE Goal
  <2> DEFINE r == [Bump(acct[t]) EXCEPT !.global = g]
  <2>1. r \in AcctRec /\ r.gen = acct[t].gen + 1
    BY <1>0, BumpRec, GlobalRec
  <2>2. acct' = [acct EXCEPT ![t] = r]
    BY <1>8 DEF SetPanelScope
  <2> HIDE DEF r
  <2>3. acct' \in [Accounts -> AcctRec] /\ Mono
    BY <2>1, <2>2, Replaced
  <2>4. QED
    BY <1>8, <2>3, DroppedProofs DEF SetPanelScope
<1>9. QED
  BY <1>1, <1>2, <1>3, <1>4, <1>5, <1>6, <1>7, <1>8

\* Every command of the root CLI keeps the invariant.
LEMMA RootStepInv == ASSUME Inv, RootStep PROVE Inv'
  BY RootStepChange, SameHelpers, AccountsChange

-----------------------------------------------------------------------------
(* Grants and proofs. *)

\* issue_grant binds the new grant to the current password.
LEMMA IssueGrantInv ==
  ASSUME Inv, NEW h \in Helpers, IssueGrant(h) PROVE Inv'
<1> DEFINE a == hp[h].acct
<1>1. /\ hp[h] \in HelperRec /\ hp[h].pc = "issue" /\ a \in Accounts
      /\ Authorized(a, hp[h].gen)
      /\ hp[h].pw = acct[a].pw
  BY DEF IssueGrant, Inv, TypeOK, HelperInv, Authorized
<1>2. PICK n \in Nonces :
        /\ ~token[n].issued
        /\ row' = [Pruned EXCEPT ![n] = "live"]
        /\ token' = [token EXCEPT ![n] =
             [acct |-> a, gen |-> hp[h].gen, pw |-> hp[h].pw,
              caller |-> hp[h].caller, issued |-> TRUE]]
        /\ hp' = [hp EXCEPT ![h] =
             IF hp[h].cmd # "localEnroll" THEN Idle
             ELSE [Idle EXCEPT !.pc = "act", !.cmd = "logout", !.nonce = n]]
  BY DEF IssueGrant
<1> DEFINE tok == [acct |-> a, gen |-> hp[h].gen, pw |-> hp[h].pw,
                   caller |-> hp[h].caller, issued |-> TRUE]
           r == IF hp[h].cmd # "localEnroll" THEN Idle
                ELSE [Idle EXCEPT !.pc = "act", !.cmd = "logout", !.nonce = n]
<1>3. tok \in TokenRec
  BY <1>1 DEF TokenRec, HelperRec
<1>4. HelperOK(r)
  BY IdleOK, Numbers DEF HelperOK, HelperRec, Idle, ClientCommands, GrantCommands
<1>5. /\ \A m \in Nonces : m # n => token'[m] = token[m]
      /\ token'[n] = tok
      /\ \A m \in Nonces : m # n /\ row'[m] = "live" => row[m] = "live"
  BY <1>2 DEF Inv, TypeOK, Pruned
<1>6. TypeOK'
  <2>1. row' \in [Nonces -> {"none", "live", "revoked"}]
    BY <1>2 DEF Pruned
  <2>2. token' \in [Nonces -> TokenRec]
    BY <1>2, <1>3 DEF Inv, TypeOK
  <2>3. hp' \in [Helpers -> HelperRec]
    BY <1>2, <1>4 DEF Inv, TypeOK, HelperOK
  <2>4. QED
    BY <2>1, <2>2, <2>3 DEF IssueGrant, Inv, TypeOK
<1>7. Binding(acct, row)'
  <2>1. ASSUME NEW m \in Nonces, row'[m] = "live"
        PROVE  /\ token'[m].issued
               /\ token'[m].acct \in Accounts
               /\ token'[m].gen <= acct[token'[m].acct].gen
               /\ token'[m].gen = acct[token'[m].acct].gen =>
                    /\ acct[token'[m].acct].status = "active"
                    /\ token'[m].pw = acct[token'[m].acct].pw
    <3>1. CASE m = n
      <4>1. /\ token'[m].issued /\ token'[m].acct = a /\ token'[m].gen = hp[h].gen
            /\ token'[m].pw = hp[h].pw
        BY <1>5, <3>1
      <4>2. hp[h].gen = acct[a].gen /\ acct[a].status = "active"
        BY <1>1 DEF Authorized, Active
      <4>3. QED
        BY <4>1, <4>2, <1>1, Numbers
    <3>2. CASE m # n
      BY <1>5, <2>1, <3>2 DEF Inv, Binding
    <3>3. QED
      BY <3>1, <3>2
  <2>2. acct' = acct
    BY DEF IssueGrant
  <2>3. QED
    BY <2>1, <2>2 DEF Binding
<1>8. (\A b \in backup : Binding(b.acct, b.row))'
  <2>1. backup' = backup
    BY DEF IssueGrant
  <2>2. ASSUME NEW b \in backup, NEW m \in Nonces, b.row[m] = "live"
        PROVE  token'[m] = token[m]
    BY <2>2, <1>2, <1>5 DEF Inv, Binding
  <2>3. QED
    BY <2>1, <2>2 DEF Inv, Binding
<1>9. HelperInv' /\ CallerInv'
  <2>1. \A k \in Helpers : hp'[k] = IF k = h THEN r ELSE hp[k]
    BY <1>2 DEF Inv, TypeOK
  <2>2. acct' = acct /\ starts' = starts /\ server' = server
    BY DEF IssueGrant
  <2>3. tok.caller <= starts
    BY DEF Inv, CallerInv
  <2> HIDE DEF r, tok
  <2>4. HelperInv'
    BY <2>1, <2>2, <1>4 DEF Inv, HelperInv, HelperOK
  <2>5. CallerInv'
    BY <2>1, <2>2, <2>3, <1>4, <1>5 DEF Inv, CallerInv, HelperOK
  <2>6. QED
    BY <2>4, <2>5
<1>10. ProofInv'
  BY DEF IssueGrant, Inv, ProofInv
<1>11. QED
  BY <1>6, <1>7, <1>8, <1>9, <1>10 DEF Inv

\* revoke_grant keeps the invariant.
LEMMA LogoutInv ==
  ASSUME Inv, NEW h \in Helpers, Logout(h) PROVE Inv'
<1>1. /\ row' \in [Nonces -> {"none", "live", "revoked"}]
      /\ \A m \in Nonces : row'[m] = "live" => row[m] = "live"
  BY DEF Logout, Inv, TypeOK
<1>2. HelperOK(Idle) /\ hp' = [hp EXCEPT ![h] = Idle]
  BY IdleOK DEF Logout
<1>3. TypeOK'
  BY <1>1, <1>2 DEF Logout, Inv, TypeOK, HelperOK
<1>4. HelperInv' /\ CallerInv'
  BY <1>2 DEF Logout, Inv, TypeOK, HelperInv, CallerInv, HelperOK
<1>5. QED
  BY <1>1, <1>3, <1>4 DEF Logout, Inv, Binding, ProofInv

\* begin_enrollment keeps the invariant.
LEMMA BeginEnrollmentInv ==
  ASSUME Inv, NEW h \in Helpers, BeginEnrollment(h) PROVE Inv'
<1>1. PICK p \in Proofs, w \in Passwords :
       /\ proof' = [q \in Proofs |->
            IF q = p THEN [acct |-> hp[h].acct, state |-> "open", caller |-> hp[h].caller]
            ELSE IF \/ proof[q].state = "consumed"
                    \/ /\ proof[q].state = "open" /\ proof[q].acct = hp[h].acct
                       /\ proof[q].caller = hp[h].caller
                 THEN [proof[q] EXCEPT !.state = "gone"] ELSE proof[q]]
       /\ hp' = [hp EXCEPT ![h] =
                   IF hp[h].cmd = "enroll" THEN Idle
                   ELSE [hp[h] EXCEPT !.pc = "complete", !.proof = p, !.pw = w]]
  BY DEF BeginEnrollment
<1>2. /\ hp[h] \in HelperRec /\ hp[h].acct \in Accounts /\ hp[h].caller <= starts
      /\ \A q \in Proofs : proof[q] \in ProofRec
  BY DEF BeginEnrollment, Inv, TypeOK, HelperInv, CallerInv
<1> DEFINE r == IF hp[h].cmd = "enroll" THEN Idle
                ELSE [hp[h] EXCEPT !.pc = "complete", !.proof = p, !.pw = w]
<1>3. HelperOK(r)
  <2>1. CASE hp[h].cmd = "enroll"
    BY <2>1, IdleOK
  <2>2. CASE hp[h].cmd # "enroll"
    BY <2>2, <1>2 DEF HelperOK, HelperRec
  <2>3. QED
    BY <2>1, <2>2
<1>4. proof' \in [Proofs -> ProofRec]
  BY <1>1, <1>2 DEF ProofRec, HelperRec
<1>5. ProofInv'
  BY <1>1, <1>2 DEF Inv, ProofInv, ProofRec
<1> HIDE DEF r
<1>6. hp' = [hp EXCEPT ![h] = r]
  BY <1>1 DEF r
<1>7. TypeOK' /\ HelperInv' /\ CallerInv'
  BY <1>3, <1>4, <1>6 DEF BeginEnrollment, Inv, TypeOK, HelperInv, CallerInv, HelperOK
<1>8. QED
  BY <1>5, <1>7 DEF BeginEnrollment, Inv, Binding

\* complete_enrollment replaces one row and moves its generation on.
LEMMA CompleteEnrollmentChange ==
  ASSUME Inv, NEW h \in Helpers, CompleteEnrollment(h)
  PROVE  /\ acct' \in [Accounts -> AcctRec] /\ Mono
         /\ hp[h].acct \in Accounts
         /\ acct'[hp[h].acct].gen = acct[hp[h].acct].gen + 1
         /\ acct'[hp[h].acct].pw = hp[h].pw
<1> DEFINE a == hp[h].acct
           q1 == Bump(acct[a])
           q2 == [q1 EXCEPT !.pw = hp[h].pw]
           q == [q2 EXCEPT !.status = "active", !.deny = FALSE]
<1>1. acct' = [acct EXCEPT ![a] = q] /\ hp[h].pc = "complete"
  BY DEF CompleteEnrollment, Inv, TypeOK
<1>2. hp[h] \in HelperRec /\ a \in Accounts /\ acct[a] \in AcctRec
  BY <1>1 DEF Inv, TypeOK, HelperInv
<1>3. q \in AcctRec /\ q.gen = acct[a].gen + 1 /\ q.pw = hp[h].pw
  <2>1. q1 \in AcctRec /\ q1.gen = acct[a].gen + 1
    BY <1>2, BumpRec
  <2> HIDE DEF q1
  <2>2. q2 \in AcctRec /\ q2.gen = q1.gen /\ q2.pw = hp[h].pw
    <3>1. hp[h].pw \in Passwords \cup {None}
      BY <1>2 DEF HelperRec
    <3>2. q2.pw = hp[h].pw
      BY <2>1 DEF AcctRec
    <3>3. QED
      BY <2>1, <3>1, <3>2, PwRec
  <2> HIDE DEF q2
  <2>3. q \in AcctRec /\ q.gen = q2.gen /\ q.pw = q2.pw
    BY <2>2, StatusRec DEF Statuses
  <2> HIDE DEF q
  <2>4. QED
    BY <2>1, <2>2, <2>3
<1> HIDE DEF q
<1>4. acct' \in [Accounts -> AcctRec] /\ Mono
  BY <1>1, <1>3, Replaced
<1>5. acct'[a].gen = acct[a].gen + 1 /\ acct'[a].pw = hp[h].pw
  BY <1>1, <1>2, <1>3 DEF Inv, TypeOK
<1>6. QED
  BY <1>2, <1>4, <1>5

\* complete_enrollment keeps the invariant.
LEMMA CompleteEnrollmentInv ==
  ASSUME Inv, NEW h \in Helpers, CompleteEnrollment(h) PROVE Inv'
<1> DEFINE a == hp[h].acct
           r == [hp[h] EXCEPT !.pc = "issue", !.gen = acct[a].gen + 1]
<1>1. /\ hp' = [hp EXCEPT ![h] = r]
      /\ proof' = [proof EXCEPT ![hp[h].proof].state = "consumed"]
      /\ hp[h].pc = "complete"
      /\ UNCHANGED <<row, token, expired, server, starts, backup>>
  BY DEF CompleteEnrollment, Inv, TypeOK
<1>2. hp[h] \in HelperRec /\ a \in Accounts /\ acct[a] \in AcctRec
  BY <1>1 DEF Inv, TypeOK, HelperInv
<1>4. acct' \in [Accounts -> AcctRec] /\ Mono
  BY CompleteEnrollmentChange
<1>5. /\ proof' \in [Proofs -> ProofRec]
      /\ \A p \in Proofs : proof'[p].state = "open" => proof'[p] = proof[p]
  <2>1. \A p \in Proofs : proof[p] \in ProofRec
    BY DEF Inv, TypeOK
  <2>2. \A p \in Proofs : proof'[p] = IF p = hp[h].proof
                           THEN [proof[p] EXCEPT !.state = "consumed"] ELSE proof[p]
    BY <1>1 DEF Inv, TypeOK
  <2>3. \A p \in Proofs : proof'[p] \in ProofRec
                          /\ (proof'[p].state = "open" => proof'[p] = proof[p])
    BY <2>1, <2>2 DEF ProofRec
  <2>4. QED
    BY <1>1, <2>3 DEF Inv, TypeOK
<1>6. r \in HelperRec /\ r.pc = "issue" /\ r.acct = a /\ r.gen = acct[a].gen + 1
      /\ r.pw = hp[h].pw /\ r.caller = hp[h].caller
  <2> DEFINE g == acct[a].gen + 1
             u == [hp[h] EXCEPT !.pc = "issue"]
  <2>1. g \in Nat
    BY <1>2, Numbers
  <2> HIDE DEF g
  <2>2. /\ u \in HelperRec /\ u.pc = "issue" /\ u.acct = a /\ u.pw = hp[h].pw
        /\ u.caller = hp[h].caller
    BY <1>2 DEF HelperRec
  <2>3. r = [u EXCEPT !.gen = g]
    BY DEF g
  <2> HIDE DEF u, r
  <2>4. /\ r \in HelperRec /\ r.pc = u.pc /\ r.acct = u.acct /\ r.gen = g
        /\ r.pw = u.pw /\ r.caller = u.caller
    BY <2>1, <2>2, <2>3 DEF HelperRec
  <2>5. QED
    BY <2>2, <2>4 DEF g
<1>7. acct'[a].gen = acct[a].gen + 1 /\ acct'[a].pw = hp[h].pw
  BY CompleteEnrollmentChange
<1> HIDE DEF r
<1>8. \A k \in Helpers : hp'[k] = IF k = h THEN r ELSE hp[k]
  BY <1>1 DEF Inv, TypeOK
<1>9. TypeOK'
  BY <1>1, <1>4, <1>5, <1>6, <1>8 DEF Inv, TypeOK
<1>10. Binding(acct, row)'
  <2>1. ASSUME NEW n \in Nonces, row[n] = "live"
        PROVE  /\ token[n].issued
               /\ token[n].acct \in Accounts
               /\ token[n].gen <= acct'[token[n].acct].gen
               /\ token[n].gen = acct'[token[n].acct].gen =>
                    /\ acct'[token[n].acct].status = "active"
                    /\ token[n].pw = acct'[token[n].acct].pw
    <3>1. acct[token[n].acct].gen \in Nat /\ acct'[token[n].acct].gen \in Nat /\ token[n].gen \in Nat
      BY <2>1, <1>4 DEF Inv, TypeOK, Binding, AcctRec, TokenRec
    <3>2. QED
      BY <2>1, <3>1, <1>4 DEF Inv, Binding, Mono
  <2>2. QED
    BY <1>1, <2>1 DEF Binding
<1>11. HelperInv'
  <2>1. ASSUME NEW k \in Helpers
        PROVE  /\ hp'[k].pc \notin {"idle", "act"} => hp'[k].acct \in Accounts
               /\ hp'[k].pc = "gen" => hp'[k].target \in Accounts
               /\ hp'[k].pc \in {"hash", "issue"} => hp'[k].gen <= acct'[hp'[k].acct].gen
               /\ hp'[k].pc = "issue" /\ hp'[k].gen = acct'[hp'[k].acct].gen =>
                    hp'[k].pw = acct'[hp'[k].acct].pw
    <3>1. CASE k = h
      BY <3>1, <1>2, <1>6, <1>7, <1>8, Numbers
    <3>2. CASE k # h /\ hp[k].pc \notin {"hash", "issue"}
      BY <3>2, <1>8 DEF Inv, HelperInv
    <3>3. CASE k # h /\ hp[k].pc \in {"hash", "issue"}
      <4> DEFINE c == hp[k].acct
      <4>1. c \in Accounts
        BY <3>3 DEF Inv, HelperInv
      <4>2. acct[c].gen \in Nat /\ acct'[c].gen \in Nat /\ hp[k].gen \in Nat
        BY <4>1, <1>4 DEF Inv, TypeOK, AcctRec, HelperRec
      <4>3. /\ acct[c].gen <= acct'[c].gen
            /\ acct'[c].gen = acct[c].gen => acct'[c].pw = acct[c].pw
        BY <4>1, <1>4 DEF Mono
      <4>4. /\ hp[k].gen <= acct[c].gen
            /\ hp[k].pc = "issue" /\ hp[k].gen = acct[c].gen => hp[k].pw = acct[c].pw
        BY <3>3 DEF Inv, HelperInv
      <4> HIDE DEF c
      <4>5. /\ hp[k].gen <= acct'[c].gen
            /\ hp[k].pc = "issue" /\ hp[k].gen = acct'[c].gen => hp[k].pw = acct'[c].pw
        BY <4>2, <4>3, <4>4 DEF c
      <4>6. QED
        BY <3>3, <4>1, <4>5, <1>8 DEF c
    <3>4. QED
      BY <3>1, <3>2, <3>3
  <2>2. QED
    BY <2>1 DEF HelperInv
<1>12. CallerInv' /\ ProofInv' /\ (\A b \in backup : Binding(b.acct, b.row))'
  BY <1>1, <1>5, <1>6, <1>8 DEF Inv, CallerInv, ProofInv, Binding
<1>13. QED
  BY <1>9, <1>10, <1>11, <1>12 DEF Inv

-----------------------------------------------------------------------------
(* The environment, and the invariant. *)

\* Restore replaces accounts and rows by those of a backup, which are bound to
\* each other as they were, or drops the rows.
LEMMA RestoreInv ==
  ASSUME Inv, NEW fenced \in BOOLEAN, Restore(fenced) PROVE Inv'
<1>1. PICK b \in backup :
        /\ acct' = IF fenced THEN [a \in Accounts |-> Bump(b.acct[a])] ELSE b.acct
        /\ row' = IF fenced THEN [n \in Nonces |-> "none"] ELSE b.row
  BY DEF Restore
<1>2. /\ b.acct \in [Accounts -> AcctRec]
      /\ b.row \in [Nonces -> {"none", "live", "revoked"}]
  BY DEF Inv, TypeOK, DbRec
<1>3. acct' \in [Accounts -> AcctRec]
  <2>1. \A a \in Accounts : Bump(b.acct[a]) \in AcctRec
    BY <1>2, BumpRec
  <2>2. QED
    BY <1>1, <1>2, <2>1
<1>4. row' \in [Nonces -> {"none", "live", "revoked"}]
  BY <1>1, <1>2
<1>5. /\ proof' \in [Proofs -> ProofRec]
      /\ \A p \in Proofs : proof'[p].state # "open"
  <2>1. \A p \in Proofs : proof[p] \in ProofRec
    BY DEF Inv, TypeOK
  <2>2. proof' = [p \in Proofs |-> [proof[p] EXCEPT !.state =
                    IF proof[p].state = "unused" THEN proof[p].state ELSE "gone"]]
    BY DEF Restore
  <2>3. QED
    BY <2>1, <2>2 DEF ProofRec
<1>6. hp' = [h \in Helpers |-> Idle] /\ Idle \in HelperRec
  BY IdleOK DEF Restore, HelperOK
<1>7. UNCHANGED <<token, expired, server, starts>> /\ backup' = {}
  BY DEF Restore
<1>8. TypeOK'
  BY <1>3, <1>4, <1>5, <1>6, <1>7 DEF Inv, TypeOK
<1>9. Binding(acct, row)'
  <2>1. CASE fenced
    BY <2>1, <1>1, <1>7 DEF Binding
  <2>2. CASE ~fenced
    BY <2>2, <1>1, <1>7 DEF Inv, Binding
  <2>3. QED
    BY <2>1, <2>2
<1>10. HelperInv'
  BY <1>6 DEF HelperInv, Idle
<1>11. CallerInv'
  <2>1. \A h \in Helpers : hp'[h].caller = 0
    BY <1>6 DEF Idle
  <2>2. QED
    BY <2>1, <1>7, Numbers DEF Inv, CallerInv
<1>12. ProofInv' /\ (\A c \in backup : Binding(c.acct, c.row))'
  BY <1>5, <1>7 DEF ProofInv
<1>13. QED
  BY <1>8, <1>9, <1>10, <1>11, <1>12 DEF Inv

\* Clocks, restarts, backups and restores keep the invariant.
LEMMA EnvStepInv == ASSUME Inv, EnvStep PROVE Inv'
<1>1. ASSUME NEW n \in Nonces, GrantExpires(n) PROVE Inv'
  BY <1>1 DEF GrantExpires, Inv, TypeOK, Binding, HelperInv, CallerInv, ProofInv
<1>2. ASSUME NEW p \in Proofs, ProofExpires(p) PROVE Inv'
  <2>1. \A q \in Proofs : proof[q] \in ProofRec
    BY DEF Inv, TypeOK
  <2>2. \A q \in Proofs : proof'[q] = IF q = p THEN [proof[q] EXCEPT !.state = "gone"] ELSE proof[q]
    BY <1>2 DEF ProofExpires, Inv, TypeOK
  <2>3. \A q \in Proofs : proof'[q] \in ProofRec
                          /\ (proof'[q].state = "open" => proof'[q] = proof[q])
    BY <2>1, <2>2 DEF ProofRec
  <2>4. proof' \in [Proofs -> ProofRec]
    BY <1>2, <2>3 DEF ProofExpires, Inv, TypeOK
  <2>5. QED
    BY <1>2, <2>3, <2>4 DEF ProofExpires, Inv, TypeOK, Binding, HelperInv, CallerInv, ProofInv
<1>3. CASE ServerStops
  BY <1>3 DEF ServerStops, Inv, TypeOK, Binding, HelperInv, CallerInv, ProofInv
<1>4. CASE ServerStarts
  <2>1. \A n \in Nonces : token[n].caller \in Nat /\ token[n].caller <= starts
    BY DEF Inv, TypeOK, TokenRec, CallerInv
  <2>2. \A h \in Helpers : hp[h].caller \in Nat /\ hp[h].caller <= starts
    BY DEF Inv, TypeOK, HelperRec, CallerInv
  <2>3. CallerInv'
    BY <1>4, <2>1, <2>2, Numbers DEF ServerStarts, CallerInv
  <2>4. TypeOK'
    BY <1>4, Numbers DEF ServerStarts, Inv, TypeOK
  <2>5. QED
    BY <1>4, <2>3, <2>4 DEF ServerStarts, Inv, Binding, HelperInv, ProofInv
<1>5. CASE Backup
  <2>1. backup' = {[acct |-> acct, row |-> row]}
    BY <1>5 DEF Backup
  <2>2. backup' \subseteq DbRec
    BY <2>1 DEF Inv, TypeOK, DbRec
  <2>3. (\A b \in backup : Binding(b.acct, b.row))'
    BY <1>5, <2>1 DEF Backup, Inv, Binding
  <2>4. QED
    BY <1>5, <2>2, <2>3 DEF Backup, Inv, TypeOK, Binding, HelperInv, CallerInv, ProofInv
<1>6. ASSUME NEW f \in BOOLEAN, Restore(f) PROVE Inv'
  BY <1>6, RestoreInv
<1>7. QED
  BY <1>1, <1>2, <1>3, <1>4, <1>5, <1>6 DEF EnvStep

\* Every step keeps the invariant.
LEMMA StepInv == Inv /\ [Next]_vars => Inv'
<1> SUFFICES ASSUME Inv, [Next]_vars PROVE Inv'
  OBVIOUS
<1>1. ASSUME NEW h \in Helpers, HelperStep(h) PROVE Inv'
  BY <1>1, LoginReadRowInv, ReadHashInv, IssueGrantInv, VerifyRowInv,
     VerifyGenerationInv, LocalReadInv, ReadRowInv, ChangePasswordInv,
     SetAccountAccessInv, DeleteVirtualInv, RevokeSelfInv, SetPolicyInv,
     ApproveLinuxInv, LogoutInv, FailInv, EnrollAuthenticateInv,
     BeginEnrollmentInv, ReadProofInv, CompleteEnrollmentInv DEF HelperStep
<1>2. CASE UNCHANGED vars
  BY <1>2 DEF vars, Inv, TypeOK, Binding, HelperInv, CallerInv, ProofInv
<1>3. QED
  BY <1>1, <1>2, RootStepInv, EnvStepInv DEF Next

\* Inv holds in every reachable state: what the helpers, the grant rows and the
\* backups remember of an account is bound to its generation.
THEOREM Invariance == Spec => []Inv
<1>1. QED
  BY InitInv, StepInv, PTL DEF Spec

\* Every reachable state has the types of TypeOK: what the store's columns,
\* a helper's locals and a backup can hold, and no open account that is barred
\* from enrollment.
THEOREM Typing == Spec => []TypeOK
<1>1. Inv => TypeOK
  BY DEF Inv
<1>2. QED
  BY <1>1, Invariance, PTL

\* For any number of accounts, helpers, grants and generations, a grant that
\* verify_restricted_grant accepts was issued for the account's present
\* password.
THEOREM PasswordBinding == Spec => []GrantProvesCurrentPassword
<1>1. Inv => GrantProvesCurrentPassword
  BY DEF Inv, Binding, GrantProvesCurrentPassword, Live, Authorized
<1>2. QED
  BY <1>1, Invariance, PTL

-----------------------------------------------------------------------------
(* A dead grant stays dead. *)

\* What any step but a restore or a start or stop of the server does to the
\* grants that exist.
Frame ==
  /\ Mono
  /\ server' = server
  /\ expired \subseteq expired'
  /\ \A n \in Nonces : token[n].issued =>
       token'[n] = token[n] /\ (row'[n] = "live" => row[n] = "live")

\* A step that leaves the accounts alone moves no generation back.
LEMMA SameAccounts == ASSUME Inv, acct' = acct PROVE Mono
  BY Numbers DEF Mono

\* Helper steps move no generation back and change no issued token.
LEMMA HelperFrame == ASSUME Inv, NEW h \in Helpers, HelperStep(h) PROVE Frame
<1>1. CASE \/ LoginReadRow(h) \/ ReadHash(h) \/ VerifyRow(h) \/ VerifyGeneration(h)
           \/ LocalRead(h) \/ ReadRow(h) \/ Fail(h) \/ EnrollAuthenticate(h)
           \/ BeginEnrollment(h) \/ ReadProof(h)
  <2>1. UNCHANGED <<acct, row, token, expired, server>>
    BY <1>1 DEF LoginReadRow, ReadHash, VerifyRow, VerifyGeneration, LocalRead,
       ReadRow, Fail, EnrollAuthenticate, BeginEnrollment, ReadProof
  <2>2. QED
    BY <2>1, SameAccounts DEF Frame
<1>2. CASE IssueGrant(h)
  <2>1. UNCHANGED <<acct, expired, server>>
    BY <1>2 DEF IssueGrant
  <2>2. PICK n \in Nonces :
          /\ ~token[n].issued
          /\ row' = [Pruned EXCEPT ![n] = "live"]
          /\ token' = [token EXCEPT ![n] =
               [acct |-> hp[h].acct, gen |-> hp[h].gen, pw |-> hp[h].pw,
                caller |-> hp[h].caller, issued |-> TRUE]]
    BY <1>2 DEF IssueGrant
  <2>3. \A m \in Nonces : token[m].issued =>
          token'[m] = token[m] /\ (row'[m] = "live" => row[m] = "live")
    BY <2>2 DEF Inv, TypeOK, Pruned
  <2>4. QED
    BY <2>1, <2>3, SameAccounts DEF Frame
<1>3. CASE Logout(h)
  BY <1>3, SameAccounts DEF Logout, Frame, Inv, TypeOK
<1>4. CASE CompleteEnrollment(h)
  BY <1>4, CompleteEnrollmentChange DEF CompleteEnrollment, Frame
<1>5. CASE ChangePassword(h)
  BY <1>5, SetPasswordStep DEF ChangePassword, Frame
<1>6. CASE SetAccountAccess(h)
  BY <1>6, TransitionStep DEF SetAccountAccess, Frame
<1>7. CASE DeleteVirtual(h)
  BY <1>7, TransitionStep DEF DeleteVirtual, Frame
<1>8. CASE RevokeSelf(h)
  BY <1>8, TransitionStep DEF RevokeSelf, Frame
<1>9. CASE SetPolicy(h)
  BY <1>9, BumpStep DEF SetPolicy, PutPolicy, Frame
<1>10. CASE ApproveLinux(h)
  BY <1>10, CreateStep DEF ApproveLinux, Frame
<1>11. QED
  BY <1>1, <1>2, <1>3, <1>4, <1>5, <1>6, <1>7, <1>8, <1>9, <1>10 DEF HelperStep

\* Under Frame an issued grant that is live afterwards was live before.
LEMMA FrameLive ==
  ASSUME Inv, Inv', Frame, NEW n \in Nonces, token[n].issued, Live(n)'
  PROVE  Live(n)
<1> DEFINE a == token[n].acct
<1>1. /\ token'[n] = token[n] /\ row[n] = "live" /\ n \notin expired
      /\ server # 0 /\ token[n].caller = server
      /\ acct'[a].gen = token[n].gen
  BY DEF Frame, Live, Authorized
<1>2. /\ a \in Accounts /\ token[n].gen <= acct[a].gen
      /\ token[n].gen = acct[a].gen => acct[a].status = "active"
  BY <1>1 DEF Inv, Binding
<1>3. acct[a].gen \in Nat /\ acct'[a].gen \in Nat /\ acct[a].gen <= acct'[a].gen
  BY <1>2 DEF Inv, TypeOK, AcctRec, Frame, Mono
<1> HIDE DEF a
<1>4. token[n].gen = acct[a].gen
  BY <1>1, <1>2, <1>3
<1>5. QED
  BY <1>1, <1>2, <1>4 DEF Live, Authorized, Active, a

\* No step at all revives a dead grant.
LEMMA StepDead ==
  ASSUME Inv, [Next]_vars, NEW n \in Nonces, token[n].issued, ~Live(n)
  PROVE  ~Live(n)'
<1>0. Inv'
  BY StepInv
<1>1. CASE Frame
  BY <1>0, <1>1, FrameLive
<1>2. CASE server' = 0
  BY <1>2 DEF Live
<1>3. CASE ServerStarts
  <2>1. token[n].caller \in Nat /\ token[n].caller <= starts
    BY DEF Inv, TypeOK, TokenRec, CallerInv
  <2>2. token'[n].caller # server'
    BY <1>3, <2>1, Numbers DEF ServerStarts
  <2>3. QED
    BY <2>2 DEF Live
<1>4. CASE RootStep
  BY <1>4, <1>1, RootStepChange DEF Frame
<1>5. CASE EnvStep
  <2>1. CASE \E m \in Nonces : GrantExpires(m)
    BY <2>1, <1>1, SameAccounts DEF GrantExpires, Frame
  <2>2. CASE \E p \in Proofs : ProofExpires(p)
    BY <2>2, <1>1, SameAccounts DEF ProofExpires, Frame
  <2>3. CASE Backup
    BY <2>3, <1>1, SameAccounts DEF Backup, Frame
  <2>4. CASE ServerStops
    BY <2>4, <1>2 DEF ServerStops
  <2>5. CASE \E f \in BOOLEAN : Restore(f)
    BY <2>5, <1>2 DEF Restore
  <2>6. QED
    BY <1>5, <1>3, <2>1, <2>2, <2>3, <2>4, <2>5 DEF EnvStep
<1>6. CASE UNCHANGED vars
  BY <1>6, <1>1, SameAccounts DEF vars, Frame
<1>7. CASE \E h \in Helpers : HelperStep(h)
  BY <1>7, <1>1, HelperFrame
<1>8. QED
  BY <1>4, <1>5, <1>6, <1>7 DEF Next

\* No step of any helper, of the root CLI or of the machine revives a grant
\* that verify_restricted_grant has once refused.
THEOREM Revocation == Spec => DeadStaysDead
<1>1. Inv /\ [Next]_vars
        => [\A n \in Nonces : token[n].issued /\ ~Live(n) => ~Live(n)']_vars
  BY StepDead
<1>2. QED
  BY <1>1, Invariance, PTL DEF Spec, DeadStaysDead

-----------------------------------------------------------------------------
(* Administrative denial leaves no proof behind. *)

\* A row that does not exist denies nobody, in the database and in a backup.
AbsentOpen(ac) == \A a \in Accounts : ac[a].status = "absent" => ~ac[a].deny

DenyInv ==
  /\ NoOpenProofWhileDenied
  /\ AbsentOpen(acct)
  /\ \A b \in backup : AbsentOpen(b.acct)

\* The rows a step writes: it keeps deny, or drops the account's open proofs.
DenyStep ==
  \A a \in Accounts :
    /\ \/ acct'[a].deny = acct[a].deny
       \/ ~acct'[a].deny
       \/ \A p \in Proofs : proof'[p].acct = a => proof'[p].state # "open"
    /\ acct'[a].status = "absent" => acct'[a].deny = acct[a].deny /\ acct[a].status = "absent"

\* A DenyStep that opens no proof keeps the denial invariant.
LEMMA DenyKept ==
  ASSUME Inv, DenyInv, DenyStep, backup' = backup,
         \A p \in Proofs : proof'[p].state = "open" => proof'[p] = proof[p]
  PROVE  DenyInv'
<1>1. NoOpenProofWhileDenied'
  BY DEF DenyInv, DenyStep, NoOpenProofWhileDenied, Inv, ProofInv
<1>2. AbsentOpen(acct)'
  BY DEF DenyInv, DenyStep, AbsentOpen
<1>3. QED
  BY <1>1, <1>2 DEF DenyInv, AbsentOpen

\* transition_checked may deny, and deletes the proofs; the other writers of
\* one row leave deny alone.
LEMMA TransitionDeny ==
  ASSUME Inv, NEW auth, NEW a, NEW g, NEW t,
         NEW status \in {"active", "suspended", "revoked", "deleted"},
         Transition(auth, a, g, t, status)
  PROVE  DenyStep
<1> DEFINE self == auth = "account" /\ a = t /\ Kind[t] = "linux" /\ status = "revoked"
<1>1. acct' = [acct EXCEPT ![t] = Transitioned(t, status, self)] /\ proof' = DropProofs(t)
  BY DEF Transition
<1>2. ASSUME NEW c \in Accounts, c # t PROVE acct'[c] = acct[c]
  BY <1>1, <1>2 DEF Inv, TypeOK
<1>3. ASSUME t \in Accounts PROVE acct'[t].status # "absent"
  BY <1>1, <1>3 DEF Transitioned, Inv, TypeOK, AcctRec
<1>4. \A p \in Proofs : proof'[p].acct = t => proof'[p].state # "open"
  <2>1. \A p \in Proofs : proof[p] \in ProofRec
    BY DEF Inv, TypeOK
  <2>2. QED
    BY <1>1, <2>1 DEF DropProofs, ProofRec
<1>5. QED
  BY <1>2, <1>3, <1>4 DEF DenyStep

\* A replaced row with the same denial is a DenyStep.
LEMMA UpdateDeny ==
  ASSUME Inv, NEW t, NEW r,
         t \in Accounts => r.deny = acct[t].deny /\ (r.status = "absent" => acct[t].status = "absent"),
         acct' = [acct EXCEPT ![t] = r]
  PROVE  DenyStep
<1>1. ASSUME NEW c \in Accounts, c # t PROVE acct'[c] = acct[c]
  BY <1>1 DEF Inv, TypeOK
<1>2. ASSUME t \in Accounts PROVE acct'[t] = r
  BY <1>2 DEF Inv, TypeOK
<1>3. QED
  BY <1>1, <1>2 DEF DenyStep

\* set_password denies nobody.
LEMMA SetPasswordDeny ==
  ASSUME Inv, NEW auth, NEW a, NEW g, NEW t, NEW p, SetPassword(auth, a, g, t, p)
  PROVE  DenyStep
<1> DEFINE r == [Bump(acct[t]) EXCEPT !.pw = p, !.pcr = FALSE]
<1>1. acct' = [acct EXCEPT ![t] = r]
  BY DEF SetPassword
<1>2. ASSUME t \in Accounts
      PROVE  r.deny = acct[t].deny /\ (r.status = "absent" => acct[t].status = "absent")
  BY <1>2 DEF Bump, Inv, TypeOK, AcctRec
<1> HIDE DEF r
<1>3. QED
  BY <1>1, <1>2, UpdateDeny

\* A moved generation denies nobody.
LEMMA BumpDeny ==
  ASSUME Inv, NEW t, acct' = [acct EXCEPT ![t] = Bump(@)]
  PROVE  DenyStep
<1>1. acct' = [acct EXCEPT ![t] = Bump(acct[t])]
  OBVIOUS
<1>2. ASSUME t \in Accounts
      PROVE  /\ Bump(acct[t]).deny = acct[t].deny
             /\ Bump(acct[t]).status = "absent" => acct[t].status = "absent"
  BY <1>2 DEF Bump, Inv, TypeOK, AcctRec
<1>3. QED
  BY <1>1, <1>2, UpdateDeny

\* An approval denies nobody.
LEMMA CreateDeny ==
  ASSUME Inv, NEW t, acct' = [acct EXCEPT ![t].status = "active"]
  PROVE  DenyStep
<1> DEFINE r == [acct[t] EXCEPT !.status = "active"]
<1>1. acct' = [acct EXCEPT ![t] = r]
  OBVIOUS
<1>2. ASSUME t \in Accounts
      PROVE  r.deny = acct[t].deny /\ (r.status = "absent" => acct[t].status = "absent")
  BY <1>2 DEF Inv, TypeOK, AcctRec
<1> HIDE DEF r
<1>3. QED
  BY <1>1, <1>2, UpdateDeny

\* A step that leaves the accounts alone is one.
LEMMA SameDeny == ASSUME acct' = acct PROVE DenyStep
  BY DEF DenyStep

\* Every helper step keeps the denial invariant.
LEMMA HelperDeny ==
  ASSUME Inv, DenyInv, NEW h \in Helpers, HelperStep(h) PROVE DenyInv'
<1>1. CASE \/ LoginReadRow(h) \/ ReadHash(h) \/ VerifyRow(h) \/ VerifyGeneration(h)
           \/ LocalRead(h) \/ ReadRow(h) \/ Fail(h) \/ EnrollAuthenticate(h)
           \/ ReadProof(h) \/ IssueGrant(h) \/ Logout(h)
  <2>1. UNCHANGED <<acct, proof, backup>>
    BY <1>1 DEF LoginReadRow, ReadHash, VerifyRow, VerifyGeneration, LocalRead,
       ReadRow, Fail, EnrollAuthenticate, ReadProof, IssueGrant, Logout
  <2>2. QED
    BY <2>1, SameDeny, DenyKept
<1>2. CASE BeginEnrollment(h)
  <2>1. UNCHANGED <<acct, backup>> /\ MayEnroll(hp[h].acct) /\ hp[h].acct \in Accounts
    BY <1>2 DEF BeginEnrollment, Inv, HelperInv
  <2>2. ~acct[hp[h].acct].deny
    BY <2>1 DEF MayEnroll, Exists, DenyInv, AbsentOpen
  <2>3. \A p \in Proofs : proof'[p].state = "open" =>
          proof'[p] = proof[p] \/ proof'[p].acct = hp[h].acct
    <3>1. \A p \in Proofs : proof[p] \in ProofRec
      BY DEF Inv, TypeOK
    <3>2. QED
      BY <1>2, <3>1 DEF BeginEnrollment, ProofRec
  <2>4. QED
    BY <2>1, <2>2, <2>3 DEF DenyInv, NoOpenProofWhileDenied, AbsentOpen
<1>3. CASE CompleteEnrollment(h)
  <2>1. hp[h].acct \in Accounts /\ backup' = backup
    BY <1>3 DEF CompleteEnrollment, Inv, HelperInv
  <2>2. \A c \in Accounts : c # hp[h].acct => acct'[c] = acct[c]
    BY <1>3 DEF CompleteEnrollment, Inv, TypeOK
  <2>3. ~acct'[hp[h].acct].deny /\ acct'[hp[h].acct].status = "active"
    BY <1>3, <2>1 DEF CompleteEnrollment, Bump, Inv, TypeOK, AcctRec
  <2>4. DenyStep
    BY <2>1, <2>2, <2>3 DEF DenyStep
  <2>5. \A p \in Proofs : proof'[p].state = "open" => proof'[p] = proof[p]
    <3>1. \A p \in Proofs : proof[p] \in ProofRec
      BY DEF Inv, TypeOK
    <3>2. \A p \in Proofs : proof'[p] = IF p = hp[h].proof
                             THEN [proof[p] EXCEPT !.state = "consumed"] ELSE proof[p]
      BY <1>3 DEF CompleteEnrollment, Inv, TypeOK
    <3>3. QED
      BY <3>1, <3>2 DEF ProofRec
  <2>6. QED
    BY <2>1, <2>4, <2>5, DenyKept
<1>4. CASE ChangePassword(h)
  BY <1>4, SetPasswordDeny, DenyKept DEF ChangePassword
<1>5. CASE SetAccountAccess(h)
  <2>1. DenyStep /\ proof' = DropProofs(hp[h].target) /\ backup' = backup
    <3>1. PICK st \in {"active", "suspended"} :
            Transition(hp[h].auth, hp[h].acct, hp[h].gen, hp[h].target, st)
      BY <1>5 DEF SetAccountAccess
    <3>2. DenyStep
      BY <3>1, TransitionDeny
    <3>3. QED
      BY <1>5, <3>1, <3>2 DEF SetAccountAccess, Transition
  <2>2. QED
    BY <2>1, DroppedProofs, DenyKept
<1>6. CASE DeleteVirtual(h)
  <2>1. DenyStep /\ proof' = DropProofs(hp[h].target) /\ backup' = backup
    BY <1>6, TransitionDeny DEF DeleteVirtual, Transition
  <2>2. QED
    BY <2>1, DroppedProofs, DenyKept
<1>7. CASE RevokeSelf(h)
  <2>1. DenyStep /\ proof' = DropProofs(hp[h].acct) /\ backup' = backup
    BY <1>7, TransitionDeny DEF RevokeSelf, Transition
  <2>2. QED
    BY <2>1, DroppedProofs, DenyKept
<1>8. CASE SetPolicy(h)
  BY <1>8, BumpDeny, DroppedProofs, DenyKept DEF SetPolicy, PutPolicy
<1>9. CASE ApproveLinux(h)
  BY <1>9, CreateDeny, DenyKept DEF ApproveLinux
<1>10. QED
  BY <1>1, <1>2, <1>3, <1>4, <1>5, <1>6, <1>7, <1>8, <1>9 DEF HelperStep

\* Every command of the root CLI keeps it.
LEMMA RootDeny == ASSUME Inv, DenyInv, RootStep PROVE DenyInv'
<1>1. PICK t \in Accounts :
    \/ \E st \in {"active", "suspended"} : RootTransition(t, st)
    \/ \E p \in Passwords : RootSetPassword(t, p)
    \/ RequirePasswordChange(t) \/ RootSetPolicy(t) \/ RootApprove(t)
    \/ \E r \in {"user", "admin"} : SetRole(t, r)
    \/ \E g \in BOOLEAN : SetPanelScope(t, g)
  BY DEF RootStep
<1>2. acct[t] \in AcctRec
  BY DEF Inv, TypeOK
<1>3. DenyStep
  <2>1. CASE \E st \in {"active", "suspended"} : RootTransition(t, st)
    BY <2>1, TransitionDeny DEF RootTransition
  <2>2. CASE \E p \in Passwords : RootSetPassword(t, p)
    BY <2>2, SetPasswordDeny DEF RootSetPassword
  <2>3. CASE RequirePasswordChange(t)
    <3> DEFINE r == [Bump(acct[t]) EXCEPT !.pcr = TRUE]
    <3>1. r.deny = acct[t].deny /\ r.status = acct[t].status
      BY <1>2 DEF Bump, AcctRec
    <3>2. acct' = [acct EXCEPT ![t] = r]
      BY <2>3 DEF RequirePasswordChange
    <3> HIDE DEF r
    <3>3. QED
      BY <3>1, <3>2, UpdateDeny
  <2>4. CASE RootSetPolicy(t)
    BY <2>4, BumpDeny DEF RootSetPolicy, PutPolicy
  <2>5. CASE RootApprove(t)
    BY <2>5, CreateDeny DEF RootApprove
  <2>6. ASSUME NEW x \in {"user", "admin"}, SetRole(t, x) PROVE DenyStep
    <3> DEFINE r == [Bump(acct[t]) EXCEPT !.role = x, !.global = (x = "admin")]
    <3>1. r.deny = acct[t].deny /\ r.status = acct[t].status
      BY <1>2 DEF Bump, AcctRec
    <3>2. acct' = [acct EXCEPT ![t] = r]
      BY <2>6 DEF SetRole
    <3> HIDE DEF r
    <3>3. QED
      BY <3>1, <3>2, UpdateDeny
  <2>7. ASSUME NEW g \in BOOLEAN, SetPanelScope(t, g) PROVE DenyStep
    <3> DEFINE r == [Bump(acct[t]) EXCEPT !.global = g]
    <3>1. r.deny = acct[t].deny /\ r.status = acct[t].status
      BY <1>2 DEF Bump, AcctRec
    <3>2. acct' = [acct EXCEPT ![t] = r]
      BY <2>7 DEF SetPanelScope
    <3> HIDE DEF r
    <3>3. QED
      BY <3>1, <3>2, UpdateDeny
  <2>8. QED
    BY <1>1, <2>1, <2>2, <2>3, <2>4, <2>5, <2>6, <2>7
<1>4. QED
  BY <1>3, RootStepChange, DenyKept

\* Clocks, restarts, backups and restores keep it.
LEMMA EnvDeny == ASSUME Inv, DenyInv, EnvStep PROVE DenyInv'
<1>1. CASE (\E n \in Nonces : GrantExpires(n)) \/ ServerStops \/ ServerStarts
  <2>1. UNCHANGED <<acct, proof, backup>>
    BY <1>1 DEF GrantExpires, ServerStops, ServerStarts
  <2>2. QED
    BY <2>1, SameDeny, DenyKept
<1>2. ASSUME NEW p \in Proofs, ProofExpires(p) PROVE DenyInv'
  <2>1. \A q \in Proofs : proof[q] \in ProofRec
    BY DEF Inv, TypeOK
  <2>2. \A q \in Proofs : proof'[q] = IF q = p THEN [proof[q] EXCEPT !.state = "gone"] ELSE proof[q]
    BY <1>2 DEF ProofExpires, Inv, TypeOK
  <2>3. \A q \in Proofs : proof'[q].state = "open" => proof'[q] = proof[q]
    BY <2>1, <2>2 DEF ProofRec
  <2>4. QED
    BY <1>2, <2>3, SameDeny, DenyKept DEF ProofExpires
<1>3. CASE Backup
  BY <1>3 DEF Backup, DenyInv, AbsentOpen, NoOpenProofWhileDenied
<1>4. ASSUME NEW f \in BOOLEAN, Restore(f) PROVE DenyInv'
  <2>1. PICK b \in backup :
          acct' = IF f THEN [a \in Accounts |-> Bump(b.acct[a])] ELSE b.acct
    BY <1>4 DEF Restore
  <2>2. \A a \in Accounts : b.acct[a] \in AcctRec
    BY DEF Inv, TypeOK, DbRec
  <2>3. \A a \in Accounts : acct'[a].deny = b.acct[a].deny /\ acct'[a].status = b.acct[a].status
    BY <2>1, <2>2 DEF Bump, AcctRec
  <2>4. \A p \in Proofs : proof'[p].state # "open"
    <3>1. \A p \in Proofs : proof[p] \in ProofRec
      BY DEF Inv, TypeOK
    <3>2. QED
      BY <1>4, <3>1 DEF Restore, ProofRec
  <2>5. AbsentOpen(b.acct) /\ backup' = {}
    BY <1>4 DEF Restore, DenyInv
  <2>6. QED
    BY <2>3, <2>4, <2>5 DEF DenyInv, AbsentOpen, NoOpenProofWhileDenied
<1>5. QED
  BY <1>1, <1>2, <1>3, <1>4 DEF EnvStep

\* An account closed by an administrator never has an enrollment proof that
\* could still be completed, for any number of callers and proofs.
THEOREM Denial == Spec => []NoOpenProofWhileDenied
<1>1. Init => DenyInv
  BY DEF Init, DenyInv, NoOpenProofWhileDenied, AbsentOpen, NoProof, Row0
<1>2. Inv /\ DenyInv /\ [Next]_vars => DenyInv'
  <2> SUFFICES ASSUME Inv, DenyInv, [Next]_vars PROVE DenyInv'
    OBVIOUS
  <2>1. CASE UNCHANGED vars
    BY <2>1, SameDeny, DenyKept DEF vars
  <2>2. QED
    BY <2>1, HelperDeny, RootDeny, EnvDeny DEF Next
<1>3. DenyInv => NoOpenProofWhileDenied
  BY DEF DenyInv
<1>4. QED
  BY <1>1, <1>2, <1>3, Invariance, PTL DEF Spec

-----------------------------------------------------------------------------
(* A command verified before a flag or a role changed does not commit.     *)

\* What a helper's record r says of the accounts ac: only the password
\* commands pass through the hash, and a command verified with the account's
\* own authority is current only while the account may give it.
Fresh(ac, r) ==
  /\ r.pc \in {"row", "hash"} => r.cmd \in {"login", "changePassword"}
  /\ /\ r.pc = "act" /\ r.auth = "account"
     /\ r.cmd \in GrantCommands \ Restricted
     => /\ r.acct \in Accounts
        /\ r.gen <= ac[r.acct].gen
        /\ r.gen = ac[r.acct].gen =>
             /\ ~ac[r.acct].pcr
             /\ r.cmd \in {"setAccess", "delete"} => ac[r.acct].role = "admin"

FreshInv == \A h \in Helpers : Fresh(acct, hp[h])

\* A row changes its forced-change flag or its role only with its generation.
Flags ==
  \A a \in Accounts :
    /\ acct[a].gen <= acct'[a].gen
    /\ acct'[a].gen = acct[a].gen =>
         acct'[a].pcr = acct[a].pcr /\ acct'[a].role = acct[a].role

\* A step that changes rows in this way, and gives helpers only fresh
\* records, keeps FreshInv.
LEMMA FreshKept ==
  ASSUME Inv, Inv', FreshInv, Flags,
         \A h \in Helpers : hp'[h] = hp[h] \/ Fresh(acct', hp'[h])
  PROVE  FreshInv'
<1> SUFFICES ASSUME NEW h \in Helpers, hp'[h] = hp[h] PROVE Fresh(acct', hp[h])
  BY DEF FreshInv
<1>1. Fresh(acct, hp[h])
  BY DEF FreshInv
<1>2. SUFFICES ASSUME hp[h].pc = "act", hp[h].auth = "account",
                      hp[h].cmd \in GrantCommands \ Restricted
               PROVE  Fresh(acct', hp[h])
  BY <1>1 DEF Fresh
<1> DEFINE a == hp[h].acct
<1>3. a \in Accounts /\ hp[h].gen \in Nat
  BY <1>1, <1>2 DEF Fresh, Inv, TypeOK, HelperRec
<1>4. acct[a].gen \in Nat /\ acct'[a].gen \in Nat
  BY <1>3 DEF Inv, TypeOK, AcctRec
<1>5. /\ acct[a].gen <= acct'[a].gen
      /\ acct'[a].gen = acct[a].gen =>
           acct'[a].pcr = acct[a].pcr /\ acct'[a].role = acct[a].role
  BY <1>3 DEF Flags
<1>6. /\ hp[h].gen <= acct[a].gen
      /\ hp[h].gen = acct[a].gen =>
           /\ ~acct[a].pcr
           /\ hp[h].cmd \in {"setAccess", "delete"} => acct[a].role = "admin"
  BY <1>1, <1>2 DEF Fresh
<1>7. hp[h].gen <= acct'[a].gen /\ (hp[h].gen = acct'[a].gen => hp[h].gen = acct[a].gen)
  BY <1>3, <1>4, <1>5, <1>6
<1>8. QED
  BY <1>2, <1>3, <1>5, <1>6, <1>7 DEF Fresh

\* The idle helper is fresh.
LEMMA IdleFresh == ASSUME NEW ac PROVE Fresh(ac, Idle)
  BY DEF Fresh, Idle

\* One row replaced, its generation incremented.
LEMMA ReplacedFlags ==
  ASSUME Inv, NEW t, NEW r, t \in Accounts => r.gen = acct[t].gen + 1,
         acct' = [acct EXCEPT ![t] = r]
  PROVE  Flags
<1> SUFFICES ASSUME NEW a \in Accounts
             PROVE  /\ acct[a].gen <= acct'[a].gen
                    /\ acct'[a].gen = acct[a].gen =>
                         acct'[a].pcr = acct[a].pcr /\ acct'[a].role = acct[a].role
  BY DEF Flags
<1>1. CASE a = t
  <2>1. acct'[a].gen = acct[a].gen + 1
    BY <1>1 DEF Inv, TypeOK
  <2>2. QED
    BY <2>1, Numbers
<1>2. CASE a # t
  <2>1. acct'[a] = acct[a]
    BY <1>2 DEF Inv, TypeOK
  <2>2. QED
    BY <2>1, Numbers
<1>3. QED
  BY <1>1, <1>2

\* transition_checked moves the generation of the row it writes.
LEMMA TransitionFlags ==
  ASSUME Inv, NEW auth, NEW a, NEW g, NEW t, NEW status, Transition(auth, a, g, t, status)
  PROVE  Flags
<1> DEFINE self == auth = "account" /\ a = t /\ Kind[t] = "linux" /\ status = "revoked"
           r == Transitioned(t, status, self)
<1>1. acct' = [acct EXCEPT ![t] = r]
  BY DEF Transition
<1>2. ASSUME t \in Accounts PROVE r.gen = acct[t].gen + 1
  BY <1>2 DEF Transitioned, Inv, TypeOK, AcctRec
<1> HIDE DEF r
<1>3. QED
  BY <1>1, <1>2, ReplacedFlags

\* So does set_password.
LEMMA SetPasswordFlags ==
  ASSUME Inv, NEW auth, NEW a, NEW g, NEW t, NEW p, SetPassword(auth, a, g, t, p)
  PROVE  Flags
<1> DEFINE r == [Bump(acct[t]) EXCEPT !.pw = p, !.pcr = FALSE]
<1>1. acct' = [acct EXCEPT ![t] = r]
  BY DEF SetPassword
<1>2. ASSUME t \in Accounts PROVE r.gen = acct[t].gen + 1
  BY <1>2 DEF Bump, Inv, TypeOK, AcctRec
<1> HIDE DEF r
<1>3. QED
  BY <1>1, <1>2, ReplacedFlags

\* So does set_policy.
LEMMA BumpFlags ==
  ASSUME Inv, NEW t, acct' = [acct EXCEPT ![t] = Bump(@)]
  PROVE  Flags
<1>1. acct' = [acct EXCEPT ![t] = Bump(acct[t])]
  OBVIOUS
<1>2. ASSUME t \in Accounts PROVE Bump(acct[t]).gen = acct[t].gen + 1
  BY <1>2 DEF Bump, Inv, TypeOK, AcctRec
<1>3. QED
  BY <1>1, <1>2, ReplacedFlags

\* An approval keeps the generation, the flag and the role.
LEMMA CreateFlags ==
  ASSUME Inv, NEW t, acct' = [acct EXCEPT ![t].status = "active"]
  PROVE  Flags
<1>1. \A a \in Accounts : acct[a] \in AcctRec
  BY DEF Inv, TypeOK
<1>2. \A a \in Accounts :
        acct'[a] = IF a = t THEN [acct[a] EXCEPT !.status = "active"] ELSE acct[a]
  BY DEF Inv, TypeOK
<1>3. \A a \in Accounts : /\ acct'[a].gen = acct[a].gen
                          /\ acct'[a].pcr = acct[a].pcr
                          /\ acct'[a].role = acct[a].role
  BY <1>1, <1>2 DEF AcctRec
<1>4. QED
  BY <1>3, Numbers DEF Flags

\* A step that leaves the accounts alone changes no flag.
LEMMA SameFlags == ASSUME Inv, acct' = acct PROVE Flags
  BY Numbers DEF Flags

\* verify_generation hands on a command the account may give.
LEMMA VerifiedFresh ==
  ASSUME Inv, NEW h \in Helpers, VerifyGeneration(h)
  PROVE  Fresh(acct, hp'[h]) /\ \A k \in Helpers : k # h => hp'[k] = hp[k]
<1> DEFINE a == hp[h].acct
           c == hp[h].cmd
           t == hp[h].target
           r == [hp[h] EXCEPT
                   !.pc = IF c = "changePassword" THEN "row" ELSE "act",
                   !.auth = Authority(a, c, t),
                   !.tgen = acct[t].gen]
<1>1. hp[h] \in HelperRec /\ a \in Accounts
  BY DEF VerifyGeneration, Inv, TypeOK, HelperInv
<1>2. /\ r.pc = IF c = "changePassword" THEN "row" ELSE "act"
      /\ r.cmd = c /\ r.acct = a /\ r.gen = hp[h].gen
  BY <1>1 DEF HelperRec
<1>3. \/ hp' = [hp EXCEPT ![h] = r] /\ Admitted(a, hp[h].gen, c, t)
      \/ hp' = [hp EXCEPT ![h] = Idle]
  BY DEF VerifyGeneration
<1>4. ASSUME Admitted(a, hp[h].gen, c, t) PROVE Fresh(acct, r)
  <2>1. acct[a].gen = hp[h].gen /\ (acct[a].pcr => c \in Restricted)
    BY <1>4 DEF Admitted, Authorized
  <2>2. c \in {"setAccess", "delete"} => acct[a].role = "admin"
    BY <1>4 DEF Admitted, Manager
  <2>3. acct[a].gen <= acct[a].gen
    BY <1>1, Numbers
  <2> HIDE DEF r, c, a
  <2>4. QED
    BY <1>1, <1>2, <2>1, <2>2, <2>3 DEF Fresh
<1> HIDE DEF r
<1>5. \A k \in Helpers : k # h => hp'[k] = hp[k]
  BY <1>3 DEF Inv, TypeOK
<1>6. hp'[h] = Idle \/ (hp'[h] = r /\ Admitted(a, hp[h].gen, c, t))
  BY <1>3 DEF Inv, TypeOK
<1>7. QED
  BY <1>4, <1>5, <1>6, IdleFresh

\* One helper takes the record r, which is fresh.
LEMMA MovesFresh ==
  ASSUME Inv, NEW h \in Helpers, NEW r, hp' = [hp EXCEPT ![h] = r], Fresh(acct', r)
  PROVE  \A k \in Helpers : hp'[k] = hp[k] \/ Fresh(acct', hp'[k])
<1>1. hp'[h] = r /\ \A k \in Helpers : k # h => hp'[k] = hp[k]
  BY DEF Inv, TypeOK
<1>2. QED
  BY <1>1

\* A record outside the password commands and the grant commands' last stage
\* is fresh whatever the accounts are.
LEMMA OtherFresh ==
  ASSUME NEW ac, NEW r, r.pc \notin {"row", "hash"},
         r.pc = "act" => r.cmd \notin GrantCommands \ Restricted
  PROVE  Fresh(ac, r)
  BY DEF Fresh

\* Every helper step keeps FreshInv.
LEMMA HelperFresh ==
  ASSUME Inv, Inv', FreshInv, NEW h \in Helpers, HelperStep(h) PROVE FreshInv'
<1>0. hp[h] \in HelperRec /\ Fresh(acct, hp[h])
  BY DEF Inv, TypeOK, FreshInv
<1>1. CASE LoginReadRow(h)
  <2>1. PICK a \in Accounts, p \in Passwords :
          hp' = [hp EXCEPT ![h] = [Idle EXCEPT !.pc = "hash", !.cmd = "login",
                   !.acct = a, !.gen = acct[a].gen, !.pw = p, !.caller = server]]
    BY <1>1 DEF LoginReadRow
  <2> DEFINE r == [Idle EXCEPT !.pc = "hash", !.cmd = "login",
                     !.acct = a, !.gen = acct[a].gen, !.pw = p, !.caller = server]
  <2>2. Fresh(acct', r)
    BY DEF Fresh, Idle
  <2> HIDE DEF r
  <2>3. QED
    BY <1>1, <2>1, <2>2, MovesFresh, SameFlags, FreshKept DEF LoginReadRow, r
<1>2. CASE ReadHash(h)
  <2> DEFINE r == [hp[h] EXCEPT !.pc = IF hp[h].cmd = "login" THEN "issue" ELSE "act"]
  <2>1. hp' = [hp EXCEPT ![h] = Idle] \/ hp' = [hp EXCEPT ![h] = r]
    BY <1>2 DEF ReadHash
  <2>2. hp[h].cmd \in {"login", "changePassword"}
    BY <1>0, <1>2 DEF ReadHash, Fresh
  <2>3. Fresh(acct', r)
    <3>1. r.pc = (IF hp[h].cmd = "login" THEN "issue" ELSE "act") /\ r.cmd = hp[h].cmd
      BY <1>0 DEF HelperRec
    <3> HIDE DEF r
    <3>2. QED
      BY <2>2, <3>1, OtherFresh DEF Restricted
  <2> HIDE DEF r
  <2>4. QED
    BY <1>2, <2>1, <2>3, IdleFresh, MovesFresh, SameFlags, FreshKept DEF ReadHash
<1>3. CASE IssueGrant(h)
  <2>1. PICK n \in Nonces : hp' = [hp EXCEPT ![h] =
                  IF hp[h].cmd # "localEnroll" THEN Idle
                  ELSE [Idle EXCEPT !.pc = "act", !.cmd = "logout", !.nonce = n]]
    BY <1>3 DEF IssueGrant
  <2> DEFINE r == [Idle EXCEPT !.pc = "act", !.cmd = "logout", !.nonce = n]
  <2>2. Fresh(acct', r)
    BY DEF Fresh, Idle, Restricted
  <2>3. hp' = [hp EXCEPT ![h] = Idle] \/ hp' = [hp EXCEPT ![h] = r]
    BY <2>1
  <2> HIDE DEF r
  <2>4. QED
    BY <1>3, <2>2, <2>3, IdleFresh, MovesFresh, SameFlags, FreshKept DEF IssueGrant
<1>4. CASE VerifyRow(h)
  <2>1. PICK n \in Nonces, c \in GrantCommands \cap Commands, t \in Accounts :
          hp' = [hp EXCEPT ![h] = [Idle EXCEPT !.pc = "gen", !.cmd = c,
                   !.acct = token[n].acct, !.gen = token[n].gen, !.nonce = n,
                   !.target = t]]
    BY <1>4 DEF VerifyRow
  <2> DEFINE r == [Idle EXCEPT !.pc = "gen", !.cmd = c,
                   !.acct = token[n].acct, !.gen = token[n].gen, !.nonce = n,
                   !.target = t]
  <2>2. Fresh(acct', r)
    BY DEF Fresh, Idle
  <2> HIDE DEF r
  <2>3. QED
    BY <1>4, <2>1, <2>2, MovesFresh, SameFlags, FreshKept DEF VerifyRow, r
<1>5. CASE VerifyGeneration(h)
  <2>1. acct' = acct
    BY <1>5 DEF VerifyGeneration
  <2>2. \A k \in Helpers : hp'[k] = hp[k] \/ Fresh(acct', hp'[k])
    BY <1>5, <2>1, VerifiedFresh
  <2>3. QED
    BY <2>1, <2>2, SameFlags, FreshKept
<1>6. CASE LocalRead(h)
  <2>1. PICK a \in Accounts, c \in {"localRevoke", "localPolicy"} :
          hp' = [hp EXCEPT ![h] = [Idle EXCEPT !.pc = "act", !.cmd = c,
                   !.acct = a, !.gen = acct[a].gen, !.target = a,
                   !.tgen = acct[a].gen]]
    BY <1>6 DEF LocalRead
  <2> DEFINE r == [Idle EXCEPT !.pc = "act", !.cmd = c, !.acct = a,
                   !.gen = acct[a].gen, !.target = a, !.tgen = acct[a].gen]
  <2>2. Fresh(acct', r)
    BY DEF Fresh, Idle, GrantCommands
  <2> HIDE DEF r
  <2>3. QED
    BY <1>6, <2>1, <2>2, MovesFresh, SameFlags, FreshKept DEF LocalRead, r
<1>7. CASE ReadRow(h)
  <2>1. PICK p \in Passwords :
          \/ hp' = [hp EXCEPT ![h] = [hp[h] EXCEPT !.pc = "hash", !.pw = p]]
          \/ hp' = [hp EXCEPT ![h] = Idle]
    BY <1>7 DEF ReadRow
  <2> DEFINE r == [hp[h] EXCEPT !.pc = "hash", !.pw = p]
  <2>2. Fresh(acct', r)
    <3>1. r.pc = "hash" /\ r.cmd = hp[h].cmd
      BY <1>0 DEF HelperRec
    <3>2. hp[h].cmd \in {"login", "changePassword"}
      BY <1>0, <1>7 DEF ReadRow, Fresh
    <3> HIDE DEF r
    <3>3. QED
      BY <3>1, <3>2 DEF Fresh
  <2> HIDE DEF r
  <2>3. QED
    BY <1>7, <2>1, <2>2, IdleFresh, MovesFresh, SameFlags, FreshKept DEF ReadRow, r
<1>8. CASE \/ Fail(h) \/ Logout(h)
  BY <1>8, IdleFresh, MovesFresh, SameFlags, FreshKept DEF Fail, Logout
<1>9. CASE EnrollAuthenticate(h)
  <2>1. PICK a \in Accounts, c \in {"enroll", "localEnroll"} :
          hp' = [hp EXCEPT ![h] = [Idle EXCEPT !.pc = "pam", !.cmd = c, !.acct = a,
                   !.caller = IF c = "enroll" THEN server ELSE 0]]
    BY <1>9 DEF EnrollAuthenticate
  <2> DEFINE r == [Idle EXCEPT !.pc = "pam", !.cmd = c, !.acct = a,
                     !.caller = IF c = "enroll" THEN server ELSE 0]
  <2>2. Fresh(acct', r)
    BY DEF Fresh, Idle
  <2> HIDE DEF r
  <2>3. QED
    BY <1>9, <2>1, <2>2, MovesFresh, SameFlags, FreshKept DEF EnrollAuthenticate, r
<1>10. CASE BeginEnrollment(h)
  <2>1. PICK p \in Proofs, w \in Passwords :
          hp' = [hp EXCEPT ![h] = IF hp[h].cmd = "enroll" THEN Idle
                   ELSE [hp[h] EXCEPT !.pc = "complete", !.proof = p, !.pw = w]]
    BY <1>10 DEF BeginEnrollment
  <2> DEFINE r == [hp[h] EXCEPT !.pc = "complete", !.proof = p, !.pw = w]
  <2>2. Fresh(acct', r)
    BY <1>0 DEF Fresh, HelperRec
  <2>3. hp' = [hp EXCEPT ![h] = Idle] \/ hp' = [hp EXCEPT ![h] = r]
    BY <2>1
  <2> HIDE DEF r
  <2>4. QED
    BY <1>10, <2>2, <2>3, IdleFresh, MovesFresh, SameFlags, FreshKept DEF BeginEnrollment
<1>11. CASE ReadProof(h)
  <2>1. PICK p \in Proofs, w \in Passwords :
          hp' = [hp EXCEPT ![h] = [Idle EXCEPT !.pc = "complete", !.cmd = "enroll",
                   !.acct = proof[p].acct, !.proof = p, !.pw = w, !.caller = server]]
    BY <1>11 DEF ReadProof
  <2> DEFINE r == [Idle EXCEPT !.pc = "complete", !.cmd = "enroll",
                   !.acct = proof[p].acct, !.proof = p, !.pw = w, !.caller = server]
  <2>2. Fresh(acct', r)
    BY DEF Fresh, Idle
  <2> HIDE DEF r
  <2>3. QED
    BY <1>11, <2>1, <2>2, MovesFresh, SameFlags, FreshKept DEF ReadProof, r
<1>12. CASE CompleteEnrollment(h)
  <2> DEFINE a == hp[h].acct
             q == [Bump(acct[a]) EXCEPT !.pw = hp[h].pw, !.status = "active", !.deny = FALSE]
             r == [hp[h] EXCEPT !.pc = "issue", !.gen = acct[a].gen + 1]
  <2>1. acct' = [acct EXCEPT ![a] = q] /\ hp' = [hp EXCEPT ![h] = r]
    BY <1>12 DEF CompleteEnrollment, Inv, TypeOK
  <2>2. ASSUME a \in Accounts PROVE q.gen = acct[a].gen + 1
    BY <2>2 DEF Bump, Inv, TypeOK, AcctRec
  <2>3. Fresh(acct', r)
    BY <1>0 DEF Fresh, HelperRec
  <2> HIDE DEF q, r
  <2>4. Flags
    BY <2>1, <2>2, ReplacedFlags
  <2>5. QED
    BY <2>1, <2>3, <2>4, MovesFresh, FreshKept
<1>13. CASE \/ ChangePassword(h) \/ SetAccountAccess(h) \/ DeleteVirtual(h) \/ RevokeSelf(h)
            \/ SetPolicy(h) \/ ApproveLinux(h)
  <2>1. Flags
    <3>1. CASE ChangePassword(h)
      BY <3>1, SetPasswordFlags DEF ChangePassword
    <3>2. CASE SetAccountAccess(h)
      BY <3>2, TransitionFlags DEF SetAccountAccess
    <3>3. CASE DeleteVirtual(h)
      BY <3>3, TransitionFlags DEF DeleteVirtual
    <3>4. CASE RevokeSelf(h)
      BY <3>4, TransitionFlags DEF RevokeSelf
    <3>5. CASE SetPolicy(h)
      BY <3>5, BumpFlags DEF SetPolicy, PutPolicy
    <3>6. CASE ApproveLinux(h)
      BY <3>6, CreateFlags DEF ApproveLinux
    <3>7. QED
      BY <1>13, <3>1, <3>2, <3>3, <3>4, <3>5, <3>6
  <2>2. hp' = [hp EXCEPT ![h] = Idle]
    BY <1>13 DEF ChangePassword, SetAccountAccess, DeleteVirtual, RevokeSelf, SetPolicy, ApproveLinux
  <2>3. QED
    BY <2>1, <2>2, IdleFresh, MovesFresh, FreshKept
<1>14. QED
  BY <1>1, <1>2, <1>3, <1>4, <1>5, <1>6, <1>7, <1>8, <1>9, <1>10, <1>11, <1>12, <1>13
  DEF HelperStep

\* Every command of the root CLI that changes a flag or a role moves the
\* generation.
LEMMA RootFlags == ASSUME Inv, RootStep PROVE Flags
<1>1. PICK t \in Accounts :
    \/ \E st \in {"active", "suspended"} : RootTransition(t, st)
    \/ \E p \in Passwords : RootSetPassword(t, p)
    \/ RequirePasswordChange(t) \/ RootSetPolicy(t) \/ RootApprove(t)
    \/ \E r \in {"user", "admin"} : SetRole(t, r)
    \/ \E g \in BOOLEAN : SetPanelScope(t, g)
  BY DEF RootStep
<1>2. acct[t] \in AcctRec
  BY DEF Inv, TypeOK
<1>3. CASE \E st \in {"active", "suspended"} : RootTransition(t, st)
  BY <1>3, TransitionFlags DEF RootTransition
<1>4. CASE \E p \in Passwords : RootSetPassword(t, p)
  BY <1>4, SetPasswordFlags DEF RootSetPassword
<1>5. CASE RequirePasswordChange(t)
  <2> DEFINE r == [Bump(acct[t]) EXCEPT !.pcr = TRUE]
  <2>1. r.gen = acct[t].gen + 1
    BY <1>2 DEF Bump, AcctRec
  <2>2. acct' = [acct EXCEPT ![t] = r]
    BY <1>5 DEF RequirePasswordChange
  <2> HIDE DEF r
  <2>3. QED
    BY <2>1, <2>2, ReplacedFlags
<1>6. CASE RootSetPolicy(t)
  BY <1>6, BumpFlags DEF RootSetPolicy, PutPolicy
<1>7. CASE RootApprove(t)
  BY <1>7, CreateFlags DEF RootApprove
<1>8. ASSUME NEW x \in {"user", "admin"}, SetRole(t, x) PROVE Flags
  <2> DEFINE r == [Bump(acct[t]) EXCEPT !.role = x, !.global = (x = "admin")]
  <2>1. r.gen = acct[t].gen + 1
    BY <1>2 DEF Bump, AcctRec
  <2>2. acct' = [acct EXCEPT ![t] = r]
    BY <1>8 DEF SetRole
  <2> HIDE DEF r
  <2>3. QED
    BY <2>1, <2>2, ReplacedFlags
<1>9. ASSUME NEW g \in BOOLEAN, SetPanelScope(t, g) PROVE Flags
  <2> DEFINE r == [Bump(acct[t]) EXCEPT !.global = g]
  <2>1. r.gen = acct[t].gen + 1
    BY <1>2 DEF Bump, AcctRec
  <2>2. acct' = [acct EXCEPT ![t] = r]
    BY <1>9 DEF SetPanelScope
  <2> HIDE DEF r
  <2>3. QED
    BY <2>1, <2>2, ReplacedFlags
<1>10. QED
  BY <1>1, <1>3, <1>4, <1>5, <1>6, <1>7, <1>8, <1>9

\* A command still to commit under its account's own authority, whose
\* generation is current, comes from an account that is not under a forced
\* password change (or is allowed then) and, if it closes, opens or deletes
\* another account, from an admin.
THEOREM Authorization == Spec => []FreshAuthority
<1>1. Init => FreshInv
  BY IdleFresh DEF Init, FreshInv
<1>2. Inv /\ Inv' /\ FreshInv /\ [Next]_vars => FreshInv'
  <2> SUFFICES ASSUME Inv, Inv', FreshInv, [Next]_vars PROVE FreshInv'
    OBVIOUS
  <2>1. CASE UNCHANGED vars
    BY <2>1, SameFlags, FreshKept DEF vars
  <2>2. CASE RootStep
    BY <2>2, RootFlags, RootStepChange, FreshKept
  <2>3. CASE EnvStep
    <3>1. CASE \E f \in BOOLEAN : Restore(f)
      <4>1. \A h \in Helpers : hp'[h] = Idle
        BY <3>1 DEF Restore
      <4>2. QED
        BY <4>1, IdleFresh DEF FreshInv
    <3>2. CASE ~\E f \in BOOLEAN : Restore(f)
      <4>1. UNCHANGED <<acct, hp>>
        BY <2>3, <3>2 DEF EnvStep, GrantExpires, ProofExpires, ServerStops, ServerStarts, Backup
      <4>2. QED
        BY <4>1, SameFlags, FreshKept
    <3>3. QED
      BY <3>1, <3>2
  <2>4. QED
    BY <2>1, <2>2, <2>3, HelperFresh DEF Next
<1>3. Inv /\ FreshInv => FreshAuthority
  <2> SUFFICES ASSUME FreshInv, NEW h \in Helpers,
                      hp[h].pc = "act", hp[h].auth = "account", hp[h].cmd \in GrantCommands,
                      Authorized(hp[h].acct, hp[h].gen)
               PROVE  /\ hp[h].cmd \notin Restricted => ~acct[hp[h].acct].pcr
                      /\ hp[h].cmd \in {"setAccess", "delete"} => acct[hp[h].acct].role = "admin"
    BY DEF FreshAuthority
  <2>1. Fresh(acct, hp[h])
    BY DEF FreshInv
  <2>2. hp[h].cmd \in {"setAccess", "delete"} => hp[h].cmd \notin Restricted
    BY DEF Restricted
  <2>3. QED
    BY <2>1, <2>2 DEF Fresh, Authorized
<1>4. QED
  BY <1>1, <1>2, <1>3, Invariance, PTL DEF Spec

-----------------------------------------------------------------------------
(* issue_grant's cap bounds the table, whatever is restored into it.       *)

\* The rows of table r that belong to a, under the tokens tk.
Own(r, tk, a) == {n \in Nonces : r[n] # "none" /\ tk[n].acct = a}

\* A table has rows only for issued nonces, and never more than the cap of
\* one account.
Bounded(r, tk) ==
  /\ \A n \in Nonces : r[n] # "none" => tk[n].issued
  /\ \A a \in Accounts : /\ IsFiniteSet(Own(r, tk, a))
                         /\ Cardinality(Own(r, tk, a)) <= MaxOwnGrants

BoundInv == Bounded(row, token) /\ \A b \in backup : Bounded(b.row, token)

\* A table that loses rows, under tokens that agree on those it keeps, stays
\* within the cap.
LEMMA FewerRows ==
  ASSUME NEW r, NEW tk, NEW r2, NEW tk2, Bounded(r, tk),
         \A n \in Nonces : r2[n] # "none" => r[n] # "none" /\ tk2[n] = tk[n]
  PROVE  Bounded(r2, tk2)
<1>1. \A n \in Nonces : r2[n] # "none" => tk2[n].issued
  BY DEF Bounded
<1>2. ASSUME NEW a \in Accounts
      PROVE  /\ IsFiniteSet(Own(r2, tk2, a))
             /\ Cardinality(Own(r2, tk2, a)) <= MaxOwnGrants
  <2>1. Own(r2, tk2, a) \in SUBSET Own(r, tk, a)
    BY DEF Own
  <2>2. IsFiniteSet(Own(r, tk, a)) /\ Cardinality(Own(r, tk, a)) <= MaxOwnGrants
    BY DEF Bounded
  <2>3. /\ IsFiniteSet(Own(r2, tk2, a))
        /\ Cardinality(Own(r2, tk2, a)) <= Cardinality(Own(r, tk, a))
    BY <2>1, <2>2, FS_Subset
  <2>4. Cardinality(Own(r2, tk2, a)) \in Nat /\ Cardinality(Own(r, tk, a)) \in Nat
    BY <2>2, <2>3, FS_CardinalityType
  <2>5. QED
    BY <2>2, <2>3, <2>4, GrantsConstants
<1>3. QED
  BY <1>1, <1>2 DEF Bounded

\* r2 is r with at most a row more, for the issued nonce n of a, whose rows
\* in r are under the cap.
RowAdded(r, tk, r2, tk2, n, a) ==
  /\ a \in Accounts => Cardinality(Own(r, tk, a)) < MaxOwnGrants
  /\ tk2[n].issued /\ tk2[n].acct = a
  /\ \A m \in Nonces : m # n => (r2[m] # "none" => r[m] # "none" /\ tk2[m] = tk[m])

\* Such a row keeps the table within the cap.
LEMMA OneMoreRow ==
  ASSUME NEW r, NEW tk, NEW r2, NEW tk2, NEW n \in Nonces, NEW a,
         RowAdded(r, tk, r2, tk2, n, a), Bounded(r, tk)
  PROVE  Bounded(r2, tk2)
<1>1. \A m \in Nonces : r2[m] # "none" => tk2[m].issued
  BY DEF Bounded, RowAdded
<1>2. ASSUME NEW c \in Accounts
      PROVE  /\ IsFiniteSet(Own(r2, tk2, c))
             /\ Cardinality(Own(r2, tk2, c)) <= MaxOwnGrants
  <2> DEFINE S == Own(r, tk, c)
             T == Own(r2, tk2, c)
             U == IF c = a THEN S \cup {n} ELSE S
  <2>1. IsFiniteSet(S) /\ Cardinality(S) <= MaxOwnGrants
    BY DEF Bounded
  <2>2. T \in SUBSET U
    BY DEF Own, RowAdded
  <2>3. Cardinality(S) \in Nat
    BY <2>1, FS_CardinalityType
  <2>4. IsFiniteSet(U) /\ Cardinality(U) <= MaxOwnGrants
    <3>1. CASE c # a
      BY <3>1, <2>1
    <3>2. CASE c = a
      <4>1. Cardinality(S) < MaxOwnGrants
        BY <3>2 DEF RowAdded
      <4>2. /\ IsFiniteSet(S \cup {n})
            /\ Cardinality(S \cup {n}) = IF n \in S THEN Cardinality(S) ELSE Cardinality(S) + 1
        BY <2>1, FS_AddElement
      <4> HIDE DEF S
      <4>3. Cardinality(S \cup {n}) <= MaxOwnGrants
        BY <2>3, <4>1, <4>2, GrantsConstants
      <4>4. QED
        BY <3>2, <4>2, <4>3
    <3>3. QED
      BY <3>1, <3>2
  <2> HIDE DEF S, T, U
  <2>5. IsFiniteSet(T) /\ Cardinality(T) <= Cardinality(U)
    BY <2>2, <2>4, FS_Subset
  <2>6. Cardinality(T) \in Nat /\ Cardinality(U) \in Nat
    BY <2>4, <2>5, FS_CardinalityType
  <2>7. QED
    BY <2>4, <2>5, <2>6, GrantsConstants DEF T
<1>3. QED
  BY <1>1, <1>2 DEF Bounded

\* issue_grant prunes, finds room and inserts; the tables of the backups hold
\* no row for the nonce it issues.
LEMMA IssueBound ==
  ASSUME Inv, BoundInv, NEW h \in Helpers, IssueGrant(h) PROVE BoundInv'
<1> DEFINE a == hp[h].acct
<1>1. PICK n \in Nonces :
        /\ ~token[n].issued
        /\ row' = [Pruned EXCEPT ![n] = "live"]
        /\ token' = [token EXCEPT ![n] =
             [acct |-> a, gen |-> hp[h].gen, pw |-> hp[h].pw,
              caller |-> hp[h].caller, issued |-> TRUE]]
  BY DEF IssueGrant
<1>2. UnderCap(Pruned, a) /\ backup' = backup
  BY DEF IssueGrant
<1>3. \A m \in Nonces : m # n => token'[m] = token[m] /\ row'[m] = Pruned[m]
  BY <1>1 DEF Inv, TypeOK, Pruned
<1>4. token'[n].issued /\ token'[n].acct = a
  BY <1>1 DEF Inv, TypeOK
<1>5. Bounded(Pruned, token)
  <2>1. \A m \in Nonces : Pruned[m] # "none" => row[m] # "none"
    BY DEF Pruned
  <2>2. QED
    BY <2>1, FewerRows DEF BoundInv
<1>6. Cardinality(Own(Pruned, token, a)) < MaxOwnGrants
  BY <1>2 DEF UnderCap, OwnGrants, Own
<1>7. Bounded(row', token')
  <2>1. \A m \in Nonces : m # n =>
          (row'[m] # "none" => Pruned[m] # "none" /\ token'[m] = token[m])
    BY <1>3
  <2>2. a \in Accounts => Cardinality(Own(Pruned, token, a)) < MaxOwnGrants
    BY <1>6
  <2>3. RowAdded(Pruned, token, row', token', n, a)
    BY <1>4, <2>1, <2>2 DEF RowAdded
  <2>4. QED
    BY <1>5, <2>3, OneMoreRow
<1>8. ASSUME NEW b \in backup PROVE Bounded(b.row, token')
  <2>1. \A m \in Nonces : b.row[m] # "none" => token'[m] = token[m]
    BY <1>1, <1>3 DEF BoundInv, Bounded
  <2>2. QED
    BY <2>1, FewerRows DEF BoundInv
<1>9. QED
  BY <1>2, <1>7, <1>8 DEF BoundInv

\* Every other step keeps or clears rows, or puts back a backup's.
LEMMA BoundStep == ASSUME Inv, BoundInv, [Next]_vars PROVE BoundInv'
<1>1. CASE UNCHANGED <<row, token, backup>>
  BY <1>1 DEF BoundInv
<1>2. ASSUME NEW h \in Helpers, HelperStep(h) PROVE BoundInv'
  <2>1. CASE IssueGrant(h)
    BY <2>1, IssueBound
  <2>2. CASE Logout(h)
    <3>1. UNCHANGED <<token, backup>>
      BY <2>2 DEF Logout
    <3>2. \A m \in Nonces : row'[m] # "none" => row[m] # "none"
      BY <2>2 DEF Logout, Inv, TypeOK
    <3>3. Bounded(row', token)
      BY <3>2, FewerRows DEF BoundInv
    <3>4. QED
      BY <3>1, <3>3 DEF BoundInv
  <2>3. CASE ~IssueGrant(h) /\ ~Logout(h)
    <3>1. UNCHANGED <<row, token, backup>>
      BY <1>2, <2>3 DEF HelperStep, LoginReadRow, ReadHash, VerifyRow, VerifyGeneration,
         LocalRead, ReadRow, Fail, EnrollAuthenticate, ReadProof, BeginEnrollment,
         CompleteEnrollment, ChangePassword, SetAccountAccess, DeleteVirtual, RevokeSelf,
         SetPolicy, ApproveLinux
    <3>2. QED
      BY <1>1, <3>1
  <2>4. QED
    BY <2>1, <2>2, <2>3
<1>3. CASE RootStep
  BY <1>1, <1>3, RootStepChange
<1>4. CASE EnvStep
  <2>1. CASE Backup
    BY <2>1 DEF Backup, BoundInv
  <2>2. ASSUME NEW f \in BOOLEAN, Restore(f) PROVE BoundInv'
    <3>1. PICK b \in backup : row' = IF f THEN [n \in Nonces |-> "none"] ELSE b.row
      BY <2>2 DEF Restore
    <3>2. \A n \in Nonces : row'[n] # "none" => b.row[n] # "none"
      BY <3>1
    <3>3. Bounded(row', token)
      BY <3>2, FewerRows DEF BoundInv
    <3>4. QED
      BY <2>2, <3>3 DEF Restore, BoundInv
  <2>3. CASE ~Backup /\ ~\E f \in BOOLEAN : Restore(f)
    BY <1>1, <1>4, <2>3 DEF EnvStep, GrantExpires, ProofExpires, ServerStops, ServerStarts
  <2>4. QED
    BY <2>1, <2>2, <2>3
<1>5. QED
  BY <1>1, <1>2, <1>3, <1>4 DEF Next, vars

\* However many helpers log in at once and whatever backup is restored, the
\* table never holds more than the cap of rows for an account.
THEOREM GrantCap == Spec => []OwnGrantsBounded
<1>1. Init => BoundInv
  <2> SUFFICES ASSUME Init PROVE BoundInv
    OBVIOUS
  <2>1. \A a \in Accounts : Own(row, token, a) = {}
    BY DEF Init, Own
  <2>2. 0 <= MaxOwnGrants
    BY GrantsConstants
  <2>3. QED
    BY <2>1, <2>2, FS_EmptySet DEF Init, BoundInv, Bounded
<1>2. Inv /\ BoundInv /\ [Next]_vars => BoundInv'
  BY BoundStep
<1>3. BoundInv => OwnGrantsBounded
  BY DEF BoundInv, Bounded, OwnGrantsBounded, OwnGrants, Own
<1>4. QED
  BY <1>1, <1>2, <1>3, Invariance, PTL DEF Spec
=============================================================================
