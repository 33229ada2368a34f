------------------------------- MODULE Grants -------------------------------
(***************************************************************************)
(* Account authority of the root helper: the accounts table, the session   *)
(* grants and the enrollment proofs of accounts.db, and the helper         *)
(* processes that run one account command each (helper/account_gateway.rs  *)
(* over accounts/store.rs and accounts/grants.rs).                         *)
(*                                                                         *)
(* Every SQLite Immediate transaction is one action.  Between its          *)
(* transactions a helper holds what it read (a generation, a role, a row)  *)
(* in hp[h], and every other helper and the root CLI may run: this is      *)
(* where a stale answer could be used.                                     *)
(*                                                                         *)
(* login_enabled is written only together with status (transition_checked, *)
(* complete_enrollment), so status = "active" stands for both columns.     *)
(* Clocks are abstracted to the events GrantExpires and ProofExpires.      *)
(***************************************************************************)
EXTENDS Naturals, FiniteSets

CONSTANTS
  Accounts,      \* usernames the store knows or may learn of
  Kind,          \* [Accounts -> {"linux", "virtual"}]
  Owner,         \* [Accounts -> Accounts \cup {None}], owner_admin_id
  Role0,         \* [Accounts -> {"user", "admin"}], role at the start
  Enrolled,      \* accounts that exist with a web password at the start
  Password0,     \* their password
  Passwords,     \* passwords a client may send or choose
  Helpers,       \* helper processes
  Nonces,        \* grant nonces (fresh UUIDs, each issued at most once)
  Proofs,        \* enrollment proof ids (fresh UUIDs)
  MaxOwnGrants,  \* issue_grant's cap per account (64 in the code)
  MaxGen,        \* bound of the model: generations explored
  MaxServer,     \* bound of the model: server incarnations explored
  Commands,      \* bound of the model: commands given in this instance
  None           \* no account, password, nonce or proof

\* Commands that carry a grant, the others a client sends, the root CLI's.
GrantCommands == {"validate", "changePassword", "setAccess", "delete",
                  "revokeSelf", "setPolicy", "logout", "approve"}
ClientCommands == GrantCommands \cup
  {"login", "enroll", "localEnroll", "localRevoke", "localPolicy"}
RootCommands == {"rootAccess", "rootPassword", "rootRequireChange",
                 "rootPolicy", "rootApprove", "rootRole", "rootScope",
                 "backup"}

ASSUME GrantsConstants ==
  /\ Kind \in [Accounts -> {"linux", "virtual"}]
  /\ Owner \in [Accounts -> Accounts \cup {None}]
  /\ Role0 \in [Accounts -> {"user", "admin"}]
  /\ Enrolled \subseteq Accounts
  /\ \A a \in Accounts \ Enrolled : Kind[a] = "linux" /\ Role0[a] = "user"
  /\ Password0 \in Passwords
  /\ None \notin Accounts \cup Passwords \cup Nonces \cup Proofs
  /\ Commands \subseteq ClientCommands \cup RootCommands
  /\ MaxOwnGrants \in Nat /\ MaxGen \in Nat /\ MaxServer \in Nat

VARIABLES
  acct,    \* accounts table: status, generation, password, flags
  row,     \* session_grants: is the row of this nonce absent, live, revoked?
  token,   \* what the server holds for a nonce: SessionGrant
  expired, \* nonces whose expires_at has passed
  proof,   \* enrollment rows
  server,  \* CallerBinding of the server process: its incarnation, 0 = down.
           \* A caller of 0 is a ctl process, which no server ever equals
  starts,  \* incarnations used so far: pid/start/boot never repeat
  backup,  \* contents of a metadata backup, or the empty set
  hp       \* helper processes

vars == <<acct, row, token, expired, proof, server, starts, backup, hp>>

Statuses == {"absent", "active", "suspended", "revoked", "deleted"}
AcctRec == {r \in [status : Statuses, gen : Nat, pw : Passwords \cup {None},
                   pcr : BOOLEAN, deny : BOOLEAN, role : {"user", "admin"},
                   global : BOOLEAN] :
              r.deny => r.status \notin {"absent", "active"}}
TokenRec == [acct : Accounts \cup {None}, gen : Nat,
             pw : Passwords \cup {None}, caller : Nat, issued : BOOLEAN]
ProofRec == [acct : Accounts \cup {None}, state : {"unused", "open", "consumed", "gone"},
             caller : Nat]
HelperRec == [pc : {"idle", "hash", "issue", "row", "gen", "act", "pam",
                    "complete"},
              cmd : ClientCommands \cup {"none"},
              acct : Accounts \cup {None}, gen : Nat,
              auth : {"account", "root"}, target : Accounts \cup {None},
              tgen : Nat, pw : Passwords \cup {None},
              nonce : Nonces \cup {None}, proof : Proofs \cup {None},
              caller : Nat]
DbRec == [acct : [Accounts -> AcctRec],
          row : [Nonces -> {"none", "live", "revoked"}]]

-----------------------------------------------------------------------------
(* Fresh values and the empty helper. *)

NoToken == [acct |-> None, gen |-> 0, pw |-> None, caller |-> 0,
            issued |-> FALSE]
NoProof == [acct |-> None, state |-> "unused", caller |-> 0]
Idle == [pc |-> "idle", cmd |-> "none", acct |-> None, gen |-> 0,
         auth |-> "account", target |-> None, tgen |-> 0, pw |-> None,
         nonce |-> None, proof |-> None, caller |-> 0]

Row0(a) == [status |-> IF a \in Enrolled THEN "active" ELSE "absent",
            gen |-> 1, pw |-> IF a \in Enrolled THEN Password0 ELSE None,
            pcr |-> FALSE, deny |-> FALSE, role |-> Role0[a],
            global |-> Role0[a] = "admin" /\ Kind[a] = "linux"]

Init ==
  /\ acct = [a \in Accounts |-> Row0(a)]
  /\ row = [n \in Nonces |-> "none"]
  /\ token = [n \in Nonces |-> NoToken]
  /\ expired = {}
  /\ proof = [p \in Proofs |-> NoProof]
  /\ server = 1
  /\ starts = 1
  /\ backup = {}
  /\ hp = [h \in Helpers |-> Idle]

-----------------------------------------------------------------------------
(* Pieces of the transactions. *)

Exists(a) == acct[a].status # "absent"
Active(a) == acct[a].status = "active"

\* authorized: the actor of a transaction is rechecked inside it.
Authorized(a, g) == Active(a) /\ acct[a].gen = g

\* manage: an admin account reaches only the virtual accounts it owns.
Manage(auth, a, g, t) ==
  \/ auth = "root"
  \/ /\ Authorized(a, g)
     /\ acct[a].role = "admin"
     /\ Owner[t] = a
     /\ Kind[t] = "virtual"

\* generation = generation + 1
Bump(r) == [r EXCEPT !.gen = @ + 1]

\* Mutant: only the consumed proofs of a are deleted.
DropConsumedProofs(a) ==
  [p \in Proofs |-> IF proof[p].acct = a /\ proof[p].state = "consumed"
                    THEN [proof[p] EXCEPT !.state = "gone"] ELSE proof[p]]

\* DELETE FROM enrollment WHERE username = a
DropProofs(a) ==
  [p \in Proofs |-> IF proof[p].acct = a /\ proof[p].state \in {"open", "consumed"}
                    THEN [proof[p] EXCEPT !.state = "gone"] ELSE proof[p]]

\* Mutant: a status change that keeps the generation.
TransitionedSameGeneration(a, status, self) ==
  [acct[a] EXCEPT !.status = status, !.deny = (status # "active") /\ ~self]

\* Mutant: an account that is opened again stays barred from enrollment.
TransitionedStillDenied(a, status, self) ==
  [acct[a] EXCEPT !.status = status, !.gen = @ + 1,
                  !.deny = @ \/ (status # "active" /\ ~self)]

\* The row written by transition_checked; self: the account's own Linux revoke.
Transitioned(a, status, self) ==
  [acct[a] EXCEPT !.status = status, !.gen = @ + 1,
                  !.deny = (status # "active") /\ ~self]

\* transition_checked with its guards; the allow_admin_delete switch is part
\* of DeleteVirtual's early return.
Transition(auth, a, g, t, status) ==
  LET self == auth = "account" /\ a = t /\ Kind[t] = "linux" /\ status = "revoked"
  IN /\ Exists(t)
     /\ acct[t].status # "deleted"
     /\ acct[t].gen < MaxGen
     /\ IF self THEN Authorized(a, g) ELSE Manage(auth, a, g, t)
     /\ acct' = [acct EXCEPT ![t] = Transitioned(t, status, self)]
     /\ proof' = DropProofs(t)

\* issue_grant: prune dead rows, enforce the cap, insert.  LocalEnroll
\* revokes the grant it gets.
Pruned ==
  [n \in Nonces |->
     IF row[n] = "live" /\ n \notin expired
        /\ token[n].gen = acct[token[n].acct].gen THEN "live" ELSE "none"]
OwnGrants(r, a) == {n \in Nonces : r[n] # "none" /\ token[n].acct = a}

\* Mutant: the cap is off by one.
UnderCapOrEqual(r, a) == Cardinality(OwnGrants(r, a)) <= MaxOwnGrants

\* own < 64
UnderCap(r, a) == Cardinality(OwnGrants(r, a)) < MaxOwnGrants

IssueGrant(h) ==
  /\ hp[h].pc = "issue"
  /\ LET a == hp[h].acct
     IN /\ Authorized(a, hp[h].gen)
        /\ UnderCap(Pruned, a)
        /\ \E n \in Nonces :
             /\ ~token[n].issued
             /\ row' = [Pruned EXCEPT ![n] = "live"]
             /\ token' = [token EXCEPT ![n] =
                  [acct |-> a, gen |-> hp[h].gen, pw |-> hp[h].pw,
                   caller |-> hp[h].caller, issued |-> TRUE]]
             /\ hp' = [hp EXCEPT ![h] =
                  IF hp[h].cmd # "localEnroll" THEN Idle
                  ELSE [Idle EXCEPT !.pc = "act", !.cmd = "logout", !.nonce = n]]
  /\ UNCHANGED <<acct, expired, proof, server, starts, backup>>

-----------------------------------------------------------------------------
(* Login: the account row, then the hash, then (after finish_login) the    *)
(* grant, in three separate statements.                                    *)

LoginReadRow(h) ==
  /\ hp[h].pc = "idle" /\ server # 0 /\ "login" \in Commands
  /\ \E a \in Accounts, p \in Passwords :
       /\ Active(a) /\ acct[a].pw # None
       /\ hp' = [hp EXCEPT ![h] = [Idle EXCEPT !.pc = "hash", !.cmd = "login",
                   !.acct = a, !.gen = acct[a].gen, !.pw = p, !.caller = server]]
  /\ UNCHANGED <<acct, row, token, expired, proof, server, starts, backup>>

\* verify_password's second query; changePassword uses it too.
ReadHash(h) ==
  /\ hp[h].pc = "hash"
  /\ hp' = [hp EXCEPT ![h] =
              IF acct[hp[h].acct].pw # hp[h].pw THEN Idle
              ELSE [hp[h] EXCEPT !.pc = IF hp[h].cmd = "login" THEN "issue" ELSE "act"]]
  /\ UNCHANGED <<acct, row, token, expired, proof, server, starts, backup>>

-----------------------------------------------------------------------------
(* Commands that carry a grant: verify_restricted_grant is two statements  *)
(* (the grant row, then the account), the command itself comes after.      *)

\* verify_restricted_grant accepts a forced password change; verify_grant
\* does not.
Restricted == {"validate", "changePassword", "logout"}

VerifyRow(h) ==
  /\ hp[h].pc = "idle" /\ server # 0
  /\ \E n \in Nonces, c \in GrantCommands \cap Commands, t \in Accounts :
       /\ token[n].issued
       /\ token[n].caller = server
       /\ n \notin expired
       /\ row[n] = "live"
       /\ hp' = [hp EXCEPT ![h] = [Idle EXCEPT !.pc = "gen", !.cmd = c,
                   !.acct = token[n].acct, !.gen = token[n].gen, !.nonce = n,
                   !.target = t]]
  /\ UNCHANGED <<acct, row, token, expired, proof, server, starts, backup>>

\* management_authority: who may manage an account of t's kind.
Manager(a, t) ==
  acct[a].role = "admin" /\ (acct[a].global \/ Kind[t] = "virtual")

\* verify_generation (and verify_grant's forced-change test), then what
\* dispatch checks on the actor's and the target's rows before the command.
Admitted(a, g, c, t) ==
  /\ Authorized(a, g)
  /\ acct[a].pcr => c \in Restricted
  /\ CASE c = "revokeSelf" -> Kind[a] = "linux"
       [] c = "setAccess" -> Exists(t) /\ Manager(a, t) /\ t # a
                             /\ acct[t].role # "admin"
       [] c = "delete" -> Exists(t) /\ Manager(a, t) /\ Kind[t] = "virtual"
                          /\ acct[t].role = "user"
       [] c = "approve" -> Manager(a, t) /\ Kind[t] = "linux" /\ ~Exists(t)
       [] c = "setPolicy" -> \/ t = a
                             \/ /\ Exists(t) /\ Manager(a, t)
                                /\ acct[t].role # "admin"
       [] OTHER -> TRUE

\* A global admin manages others as Root, everyone else as itself.
Authority(a, c, t) ==
  IF c \in {"setAccess", "delete", "approve", "setPolicy"} /\ t # a
     /\ acct[a].global
  THEN "root" ELSE "account"

VerifyGeneration(h) ==
  /\ hp[h].pc = "gen"
  /\ LET a == hp[h].acct
         c == hp[h].cmd
         t == hp[h].target
     IN hp' = [hp EXCEPT ![h] =
                 IF Admitted(a, hp[h].gen, c, t) /\ c # "validate"
                 THEN [hp[h] EXCEPT
                         !.pc = IF c = "changePassword" THEN "row" ELSE "act",
                         !.auth = Authority(a, c, t),
                         !.tgen = acct[t].gen]
                 ELSE Idle]
  /\ UNCHANGED <<acct, row, token, expired, proof, server, starts, backup>>

\* LocalRevoke, LocalSetPolicy: no grant, the kernel's caller uid names the
\* account; no status is read before the transaction.
LocalRead(h) ==
  /\ hp[h].pc = "idle"
  /\ \E a \in Accounts, c \in {"localRevoke", "localPolicy"} \cap Commands :
       /\ Exists(a) /\ Kind[a] = "linux"
       /\ hp' = [hp EXCEPT ![h] = [Idle EXCEPT !.pc = "act", !.cmd = c,
                   !.acct = a, !.gen = acct[a].gen, !.target = a,
                   !.tgen = acct[a].gen]]
  /\ UNCHANGED <<acct, row, token, expired, proof, server, starts, backup>>

\* ChangePassword: verify_password's first query must return the same
\* generation as the grant.
ReadRow(h) ==
  /\ hp[h].pc = "row"
  /\ \E p \in Passwords :
       hp' = [hp EXCEPT ![h] =
                IF Authorized(hp[h].acct, hp[h].gen) /\ acct[hp[h].acct].pw # None
                THEN [hp[h] EXCEPT !.pc = "hash", !.pw = p]
                ELSE Idle]
  /\ UNCHANGED <<acct, row, token, expired, proof, server, starts, backup>>

\* Mutant: a password change that keeps the generation.
SetPasswordSameGeneration(auth, a, g, t, p) ==
  /\ Exists(t) /\ acct[t].status # "deleted" /\ acct[t].gen < MaxGen
  /\ IF a = t /\ auth = "account" THEN Authorized(a, g) ELSE Manage(auth, a, g, t)
  /\ acct[t].pcr => acct[t].pw \notin {p, None}
  /\ acct' = [acct EXCEPT ![t] = [acct[t] EXCEPT !.pw = p, !.pcr = FALSE]]

\* set_password's transaction.  A forced change must choose another password
\* (and cannot read the old hash of an account that has none).
SetPassword(auth, a, g, t, p) ==
  /\ Exists(t) /\ acct[t].status # "deleted"
  /\ acct[t].gen < MaxGen
  /\ IF a = t /\ auth = "account" THEN Authorized(a, g) ELSE Manage(auth, a, g, t)
  /\ acct[t].pcr => acct[t].pw \notin {p, None}
  /\ acct' = [acct EXCEPT ![t] = [Bump(acct[t]) EXCEPT !.pw = p, !.pcr = FALSE]]

ChangePassword(h) ==
  /\ hp[h].pc = "act" /\ hp[h].cmd = "changePassword"
  /\ \E p \in Passwords : SetPassword("account", hp[h].acct, hp[h].gen, hp[h].acct, p)
  /\ hp' = [hp EXCEPT ![h] = Idle]
  /\ UNCHANGED <<row, token, expired, proof, server, starts, backup>>

SetAccountAccess(h) ==
  /\ hp[h].pc = "act" /\ hp[h].cmd = "setAccess"
  /\ \E s \in {"active", "suspended"} :
       Transition(hp[h].auth, hp[h].acct, hp[h].gen, hp[h].target, s)
  /\ hp' = [hp EXCEPT ![h] = Idle]
  /\ UNCHANGED <<row, token, expired, server, starts, backup>>

\* DeleteVirtual carries the generation its client saw (transition_expected).
DeleteVirtual(h) ==
  /\ hp[h].pc = "act" /\ hp[h].cmd = "delete"
  /\ acct[hp[h].target].gen = hp[h].tgen
  /\ Transition(hp[h].auth, hp[h].acct, hp[h].gen, hp[h].target, "deleted")
  /\ hp' = [hp EXCEPT ![h] = Idle]
  /\ UNCHANGED <<row, token, expired, server, starts, backup>>

RevokeSelf(h) ==
  /\ hp[h].pc = "act" /\ hp[h].cmd \in {"revokeSelf", "localRevoke"}
  /\ Transition("account", hp[h].acct, hp[h].gen, hp[h].acct, "revoked")
  /\ hp' = [hp EXCEPT ![h] = Idle]
  /\ UNCHANGED <<row, token, expired, server, starts, backup>>

\* set_policy's transaction: the rules are data, the generation is not.  The
\* personal layer is the account's own, the admin layer needs manage.
PutPolicy(auth, a, g, t, expected) ==
  /\ Exists(t) /\ acct[t].status # "deleted"
  /\ acct[t].gen = expected /\ acct[t].gen < MaxGen
  /\ IF a = t /\ auth = "account" THEN Authorized(a, g) ELSE Manage(auth, a, g, t)
  /\ acct' = [acct EXCEPT ![t] = Bump(@)]
  /\ proof' = DropProofs(t)

SetPolicy(h) ==
  /\ hp[h].pc = "act" /\ hp[h].cmd \in {"setPolicy", "localPolicy"}
  /\ PutPolicy(hp[h].auth, hp[h].acct, hp[h].gen, hp[h].target, hp[h].tgen)
  /\ hp' = [hp EXCEPT ![h] = Idle]
  /\ UNCHANGED <<row, token, expired, server, starts, backup>>

\* ApproveLinux: create_record for a Linux user that is not yet known.
ApproveLinux(h) ==
  /\ hp[h].pc = "act" /\ hp[h].cmd = "approve"
  /\ ~Exists(hp[h].target)
  /\ acct' = [acct EXCEPT ![hp[h].target].status = "active"]
  /\ hp' = [hp EXCEPT ![h] = Idle]
  /\ UNCHANGED <<row, token, expired, proof, server, starts, backup>>

\* revoke_grant after its verification: UPDATE ... WHERE nonce, no recheck.
Logout(h) ==
  /\ hp[h].pc = "act" /\ hp[h].cmd = "logout"
  /\ row' = [row EXCEPT ![hp[h].nonce] = IF @ = "none" THEN "none" ELSE "revoked"]
  /\ hp' = [hp EXCEPT ![h] = Idle]
  /\ UNCHANGED <<acct, token, expired, proof, server, starts, backup>>

\* A command whose transaction finds its guard false returns an error and
\* changes nothing; a helper may also die before its transaction.
Fail(h) ==
  /\ hp[h].pc # "idle"
  /\ hp' = [hp EXCEPT ![h] = Idle]
  /\ UNCHANGED <<acct, row, token, expired, proof, server, starts, backup>>

-----------------------------------------------------------------------------
(* Enrollment of a Linux user with a PAM proof. *)

\* BeginEnrollment up to the end of pam::authenticate_local; from the server
\* or, as LocalEnroll, from a ctl process of the account's own uid.
EnrollAuthenticate(h) ==
  /\ hp[h].pc = "idle"
  /\ \E a \in Accounts, c \in {"enroll", "localEnroll"} \cap Commands :
       /\ c = "enroll" => server # 0
       /\ Kind[a] = "linux"
       /\ ~acct[a].deny
       /\ ~(acct[a].pw # None /\ Active(a))
       /\ hp' = [hp EXCEPT ![h] = [Idle EXCEPT !.pc = "pam", !.cmd = c, !.acct = a,
                   !.caller = IF c = "enroll" THEN server ELSE 0]]
  /\ UNCHANGED <<acct, row, token, expired, proof, server, starts, backup>>

\* May this account enroll?  The same test opens a proof and completes it.
MayEnroll(a) ==
  Exists(a) =>
    /\ ~acct[a].deny
    /\ acct[a].status \notin {"suspended", "deleted"}
    /\ acct[a].pw # None => acct[a].status = "revoked"

\* begin_enrollment's transaction: consumed proofs and the caller's own
\* earlier ones for this user go.  LocalEnroll goes on to complete it.
BeginEnrollment(h) ==
  /\ hp[h].pc = "pam"
  /\ MayEnroll(hp[h].acct)
  /\ \E p \in Proofs, w \in Passwords :
       /\ proof[p].state = "unused"
       /\ proof' = [q \in Proofs |->
            IF q = p THEN [acct |-> hp[h].acct, state |-> "open", caller |-> hp[h].caller]
            ELSE IF \/ proof[q].state = "consumed"
                    \/ /\ proof[q].state = "open" /\ proof[q].acct = hp[h].acct
                       /\ proof[q].caller = hp[h].caller
                 THEN [proof[q] EXCEPT !.state = "gone"] ELSE proof[q]]
       /\ hp' = [hp EXCEPT ![h] =
                   IF hp[h].cmd = "enroll" THEN Idle
                   ELSE [hp[h] EXCEPT !.pc = "complete", !.proof = p, !.pw = w]]
  /\ UNCHANGED <<acct, row, token, expired, server, starts, backup>>

\* enrollment_identity: the proof is read outside the transaction.
ReadProof(h) ==
  /\ hp[h].pc = "idle" /\ server # 0
  /\ \E p \in Proofs, w \in Passwords :
       /\ proof[p].state = "open" /\ proof[p].caller = server
       /\ hp' = [hp EXCEPT ![h] = [Idle EXCEPT !.pc = "complete", !.cmd = "enroll",
                   !.acct = proof[p].acct, !.proof = p, !.pw = w, !.caller = server]]
  /\ UNCHANGED <<acct, row, token, expired, proof, server, starts, backup>>

\* complete_enrollment's transaction, then issue_grant for what it returned.
CompleteEnrollment(h) ==
  /\ hp[h].pc = "complete"
  /\ LET a == hp[h].acct
     IN /\ proof[hp[h].proof].state = "open"
        /\ proof[hp[h].proof].caller = hp[h].caller
        /\ MayEnroll(a)
        /\ acct[a].gen < MaxGen
        /\ proof' = [proof EXCEPT ![hp[h].proof].state = "consumed"]
        /\ acct' = [acct EXCEPT ![a] = [Bump(acct[a]) EXCEPT
                      !.pw = hp[h].pw, !.status = "active", !.deny = FALSE]]
        /\ hp' = [hp EXCEPT ![h].pc = "issue", ![h].gen = acct[a].gen + 1]
  /\ UNCHANGED <<row, token, expired, server, starts, backup>>

-----------------------------------------------------------------------------
(* The root CLI: one transaction each, Authority::Root. *)

RootTransition(t, status) ==
  /\ "rootAccess" \in Commands
  /\ Transition("root", t, 0, t, status)
  /\ UNCHANGED <<row, token, expired, server, starts, backup, hp>>

RootSetPassword(t, p) ==
  /\ "rootPassword" \in Commands
  /\ SetPassword("root", t, 0, t, p)
  /\ UNCHANGED <<row, token, expired, proof, server, starts, backup, hp>>

\* Mutant: the flag is set and the generation kept.
RequirePasswordChangeSameGeneration(t) ==
  /\ "rootRequireChange" \in Commands
  /\ Active(t) /\ acct[t].gen < MaxGen
  /\ acct' = [acct EXCEPT ![t].pcr = TRUE]
  /\ UNCHANGED <<row, token, expired, proof, server, starts, backup, hp>>

RequirePasswordChange(t) ==
  /\ "rootRequireChange" \in Commands
  /\ Active(t) /\ acct[t].gen < MaxGen
  /\ acct' = [acct EXCEPT ![t] = [Bump(acct[t]) EXCEPT !.pcr = TRUE]]
  /\ UNCHANGED <<row, token, expired, proof, server, starts, backup, hp>>

RootSetPolicy(t) ==
  /\ "rootPolicy" \in Commands
  /\ PutPolicy("root", t, 0, t, acct[t].gen)
  /\ UNCHANGED <<row, token, expired, server, starts, backup, hp>>

RootApprove(t) ==
  /\ "rootApprove" \in Commands
  /\ ~Exists(t)
  /\ acct' = [acct EXCEPT ![t].status = "active"]
  /\ UNCHANGED <<row, token, expired, proof, server, starts, backup, hp>>

SetRole(t, r) ==
  /\ "rootRole" \in Commands
  /\ Active(t) /\ Kind[t] = "linux" /\ acct[t].gen < MaxGen
  /\ acct' = [acct EXCEPT ![t] = [Bump(acct[t]) EXCEPT !.role = r,
                                                     !.global = (r = "admin")]]
  /\ proof' = DropProofs(t)
  /\ UNCHANGED <<row, token, expired, server, starts, backup, hp>>

SetPanelScope(t, g) ==
  /\ "rootScope" \in Commands
  /\ Active(t) /\ acct[t].role = "admin" /\ acct[t].gen < MaxGen
  /\ acct' = [acct EXCEPT ![t] = [Bump(acct[t]) EXCEPT !.global = g]]
  /\ proof' = DropProofs(t)
  /\ UNCHANGED <<row, token, expired, server, starts, backup, hp>>

-----------------------------------------------------------------------------
(* The environment: clocks, the server process, backup and restore. *)

GrantExpires(n) ==
  /\ token[n].issued /\ n \notin expired
  /\ expired' = expired \cup {n}
  /\ UNCHANGED <<acct, row, token, proof, server, starts, backup, hp>>

ProofExpires(p) ==
  /\ proof[p].state = "open"
  /\ proof' = [proof EXCEPT ![p].state = "gone"]
  /\ UNCHANGED <<acct, row, token, expired, server, starts, backup, hp>>

ServerStops ==
  /\ server # 0
  /\ server' = 0
  /\ UNCHANGED <<acct, row, token, expired, proof, starts, backup, hp>>

ServerStarts ==
  /\ server = 0 /\ starts < MaxServer
  /\ starts' = starts + 1
  /\ server' = starts + 1
  /\ UNCHANGED <<acct, row, token, expired, proof, backup, hp>>

Backup ==
  /\ "backup" \in Commands
  /\ backup = {}
  /\ backup' = {[acct |-> acct, row |-> row]}
  /\ UNCHANGED <<acct, row, token, expired, proof, server, starts, hp>>

\* wizard restore, with the service stopped: the database file is replaced,
\* then invalidate_restored_sessions runs.  A crash in between leaves
\* fenced = FALSE.  A helper still running has the replaced file open: what it
\* does later reaches nobody.  The enrollment rows of the backup are gone, or
\* bound to a caller that is.
Restore(fenced) ==
  /\ server = 0
  /\ \E b \in backup :
       /\ \A a \in Accounts : b.acct[a].gen < MaxGen
       /\ acct' = IF fenced THEN [a \in Accounts |-> Bump(b.acct[a])] ELSE b.acct
       /\ row' = IF fenced THEN [n \in Nonces |-> "none"] ELSE b.row
  /\ proof' = [p \in Proofs |-> [proof[p] EXCEPT !.state =
                 IF @ = "unused" THEN @ ELSE "gone"]]
  /\ hp' = [h \in Helpers |-> Idle]
  /\ backup' = {}
  /\ UNCHANGED <<token, expired, server, starts>>

HelperStep(h) ==
  \/ LoginReadRow(h) \/ ReadHash(h) \/ IssueGrant(h)
  \/ VerifyRow(h) \/ VerifyGeneration(h) \/ LocalRead(h) \/ ReadRow(h)
  \/ ChangePassword(h) \/ SetAccountAccess(h) \/ DeleteVirtual(h)
  \/ RevokeSelf(h) \/ SetPolicy(h) \/ ApproveLinux(h) \/ Logout(h) \/ Fail(h)
  \/ EnrollAuthenticate(h) \/ BeginEnrollment(h) \/ ReadProof(h)
  \/ CompleteEnrollment(h)

RootStep ==
  \E t \in Accounts :
    \/ \E s \in {"active", "suspended"} : RootTransition(t, s)
    \/ \E p \in Passwords : RootSetPassword(t, p)
    \/ RequirePasswordChange(t) \/ RootSetPolicy(t) \/ RootApprove(t)
    \/ \E r \in {"user", "admin"} : SetRole(t, r)
    \/ \E g \in BOOLEAN : SetPanelScope(t, g)

EnvStep ==
  \/ \E n \in Nonces : GrantExpires(n)
  \/ \E p \in Proofs : ProofExpires(p)
  \/ ServerStops \/ ServerStarts \/ Backup
  \/ \E f \in BOOLEAN : Restore(f)

Next == (\E h \in Helpers : HelperStep(h)) \/ RootStep \/ EnvStep

Spec == Init /\ [][Next]_vars

-----------------------------------------------------------------------------
(* Properties. *)

\* Every variable has its type, and every row of accounts, backups included,
\* is one that transition_checked and complete_enrollment leave: an account
\* that is open is not barred from enrollment.
TypeOK ==
  /\ acct \in [Accounts -> AcctRec]
  /\ row \in [Nonces -> {"none", "live", "revoked"}]
  /\ token \in [Nonces -> TokenRec]
  /\ expired \subseteq Nonces
  /\ proof \in [Proofs -> ProofRec]
  /\ server \in Nat
  /\ starts \in Nat
  /\ backup \subseteq DbRec
  /\ hp \in [Helpers -> HelperRec]

\* A grant is live when verify_restricted_grant would accept it now.
Live(n) ==
  /\ token[n].issued /\ n \notin expired /\ row[n] = "live"
  /\ server # 0 /\ token[n].caller = server
  /\ Authorized(token[n].acct, token[n].gen)

\* A live grant was obtained with the password the account has now: although
\* verify_password reads the row and the hash in two queries and issue_grant
\* runs later still, no password change, enrollment or restore in between
\* leaves a grant for the old password usable.
GrantProvesCurrentPassword ==
  \A n \in Nonces : Live(n) => token[n].pw = acct[token[n].acct].pw

\* A grant that verify_restricted_grant would refuse is refused for good: no
\* enabling, no restore (even one cut short before it fences the sessions)
\* and no restart of the server makes an old grant valid again.
DeadStaysDead ==
  [][\A n \in Nonces : token[n].issued /\ ~Live(n) => ~Live(n)']_vars

\* An account that an administrator closed has no PAM proof waiting: the
\* proof of before cannot be completed after suspend + enable
\* (transition_checked's comment), whatever begin_enrollment raced with.
NoOpenProofWhileDenied ==
  \A p \in Proofs : proof[p].state = "open" => ~acct[proof[p].acct].deny

\* Of a command still to commit under the account's own authority
\* (Authority::Account), whose generation is still current: the account is not
\* under a forced password change, unless the command is one that is allowed
\* then, and a change of another account's access or its deletion comes from an
\* admin.  A flag or role changed after verify_grant is noticed because it
\* changed the generation.  The commands of a global admin run as
\* Authority::Root, which no transaction checks again (store.rs: authorized);
\* nothing is said of them.
FreshAuthority ==
  \A h \in Helpers :
    /\ hp[h].pc = "act" /\ hp[h].auth = "account"
    /\ hp[h].cmd \in GrantCommands /\ hp[h].acct # None
    /\ Authorized(hp[h].acct, hp[h].gen)
    => /\ hp[h].cmd \notin Restricted => ~acct[hp[h].acct].pcr
       /\ hp[h].cmd \in {"setAccess", "delete"} => acct[hp[h].acct].role = "admin"

\* The table never holds more than issue_grant's cap of rows for an account:
\* parallel logins and a restored table, whose rows nobody has pruned yet,
\* included.
OwnGrantsBounded ==
  \A a \in Accounts : Cardinality(OwnGrants(row, a)) <= MaxOwnGrants
=============================================================================
