----------------------------- MODULE Allocation -----------------------------
(***************************************************************************)
(* Virtual accounts and their storage: the root pool, the budgets of       *)
(* virtual administrators, the quotas of their children, the creation      *)
(* intents that reserve bytes before the operating system knows an         *)
(* account, the kernel limits that follow the metadata (user_quota mode),  *)
(* and the purge of deleted accounts (accounts/virtuals.rs, store.rs).     *)
(*                                                                         *)
(* Every operation here runs under one global flock, so at most one job is *)
(* under way; it may end between any two steps (a crash, or an error that  *)
(* returns without cleaning up) and flock then lets the next one in.  What *)
(* races with a job are the transactions that do not take the flock and    *)
(* the helpers that read the database before they wait for it.             *)
(*                                                                         *)
(* An account is named by its uid, which is never used twice.  Bytes are   *)
(* counted in units of the smallest kernel limit.  Checks against the      *)
(* bytes an account really uses, names, and the number of accounts only    *)
(* refuse, and a refusal before any change is a job that Ends.             *)
(***************************************************************************)
EXTENDS Integers, FiniteSets, FiniteSetsExt, Functions

CONSTANTS
  Uids,      \* virtual_min_uid..virtual_max_uid without the blocked ranges
  Requests,  \* idempotency keys of creation requests
  Helpers,   \* helper invocations that may wait for the flock at once
  Sizes,     \* bound of the model: the byte sizes that requests ask for
  MaxGen,    \* bound of the model: generations of an account before its purge
  Acts,      \* bound of the model: commands of this instance
  Root,      \* the owner of administrators, and authority without a generation
  NoUid

ASSUME AllocationConstants ==
  /\ IsFiniteSet(Uids)
  /\ Sizes \subseteq Nat \ {0} /\ MaxGen \in Nat
  /\ Root \notin Uids \cup Helpers \cup Nat /\ NoUid \notin Uids \cup Requests \cup {Root}
  /\ Acts \subseteq {"quota", "budget", "own", "pool", "sync", "cancel", "purge"}

VARIABLES
  pool,     \* quota_pool
  acct,     \* accounts
  budget,   \* admin_budgets, 0 where there is no row
  own,      \* admin_own_quota_v1, 0 where the administrator uses the remainder
  intents,  \* virtual_create_v1
  retired,  \* virtual_uid_retired
  purging,  \* virtual_purge_intent_v1
  os,       \* what the operating system has of an identity
  native,   \* kernel limit of a uid, 0 is unlimited
  waiting,  \* helpers waiting for the flock with what they have read
  job,      \* the holder of the flock
  issued    \* history: how often a uid was given to an intent

db == <<pool, acct, budget, own, intents, retired, purging, issued>>
vars == <<pool, acct, budget, own, intents, retired, purging, os, native,
          waiting, job, issued>>

NoRequest == NoUid
Pieces == {"group", "user", "home", "owned"}
Generations == 0..(MaxGen + 1)

Intent == [owner : Uids \cup {Root}, req : Requests, quota : Nat, uid : Uids,
           done : BOOLEAN]
Account == [role : {"admin", "user"}, owner : Uids \cup {Root}, quota : Nat,
            gen : Generations,
            status : {"none", "active", "suspended", "deleted", "purged"}]
Job == [kind : {"none", "create", "admin", "quota", "budget", "own", "sync",
                "cancel", "purge"},
        pc : {"start", "intent", "group", "user", "home", "limit", "owned",
              "account", "commit", "child", "parent", "clear", "userdel",
              "groupdel", "tombstone", "next"},
        by : Helpers \cup {Root},
        owner : Uids \cup {Root}, uid : Uids \cup {NoUid},
        req : Requests \cup {NoRequest}, auth : Generations \cup {Root}, gen : Generations,
        bytes : Nat, old : Nat, limit : Nat]

Absent == [role |-> "user", owner |-> Root, quota |-> 0, gen |-> 0, status |-> "none"]
Idle == [kind |-> "none", pc |-> "start", by |-> Root, owner |-> Root, uid |-> NoUid,
         req |-> NoRequest, auth |-> Root, gen |-> 0,
         bytes |-> 0, old |-> 0, limit |-> 0]

-----------------------------------------------------------------------------
(* What the queries of the store compute. *)

\* Bytes of a set of intents.
Promised(is) == SumFunctionOnSet([i \in is |-> i.quota], is)

\* Bytes promised to creation requests of an owner that have no account yet.
PendingReserved(owner, except) ==
  Promised({i \in intents : i.owner = owner /\ ~i.done /\ i.req # except})

\* Bytes of the children of an administrator, deleted ones too.
ChildQuotas(a) ==
  SumFunctionOnSet([u \in Uids |-> acct[u].quota], {u \in Uids : acct[u].owner = a})

Allocated(a, except) == ChildQuotas(a) + PendingReserved(a, except)

Delegated == SumFunctionOnSet(budget, Uids)

EffectiveQuota(u) ==
  IF acct[u].role = "user" THEN acct[u].quota
  ELSE IF own[u] > 0 THEN own[u]
  ELSE budget[u] - Allocated(u, NoRequest)

\* What set writes for a number of bytes: zero would mean no limit at all.
NativeLimit(bytes) == IF bytes > 0 THEN bytes ELSE 1
NativeSet(u, bytes) == native' = [native EXCEPT ![u] = NativeLimit(bytes)]

\* authorized: root, or an active administrator of the generation it proved.
Authorized(auth, a) ==
  auth = Root \/ (acct[a].status = "active" /\ acct[a].gen = auth)

Exists(u) == acct[u].status \notin {"none", "purged"}
IsAdmin(a) == acct[a].status # "none" /\ acct[a].role = "admin"

FreeUids ==
  {u \in Uids : /\ acct[u].status = "none" /\ u \notin retired
                /\ \A i \in intents : i.uid # u
                /\ os[u] = {}}

\* Bound of the model.
Bumped(u) == acct[u].gen < MaxGen

\* No other connection is inside BEGIN IMMEDIATE.
TxFree == job.pc # "commit"

IntentsOf(owner, r) == {i \in intents : i.owner = owner /\ i.req = r}

-----------------------------------------------------------------------------
(* Helpers: what a command reads before it waits for the flock. *)

\* A helper is one process: it asks, waits, runs its job and ends.
Unborn(h) == waiting[h] = Idle /\ job.by # h

AskCreate(h, a, r, q) ==
  /\ Unborn(h)
  /\ IsAdmin(a) /\ acct[a].status = "active"
  /\ waiting' = [waiting EXCEPT ![h] =
       [Idle EXCEPT !.kind = "create", !.by = h, !.owner = a, !.req = r,
                    !.auth = acct[a].gen, !.bytes = q]]
  /\ UNCHANGED <<db, os, native, job>>

\* The client names the generation it sees now: one it saw earlier only makes
\* the request fail, which QuotaFails allows to any.
AskQuota(h, u, q, auth) ==
  /\ "quota" \in Acts
  /\ Unborn(h)
  /\ Exists(u) /\ acct[u].role = "user"
  /\ Authorized(auth, acct[u].owner)
  /\ waiting' = [waiting EXCEPT ![h] =
       [Idle EXCEPT !.kind = "quota", !.by = h, !.owner = acct[u].owner,
                    !.uid = u, !.auth = auth, !.gen = acct[u].gen, !.bytes = q,
                    !.old = acct[u].quota]]
  /\ UNCHANGED <<db, os, native, job>>

Lock(h) ==
  /\ job = Idle /\ waiting[h] # Idle
  /\ job' = waiting[h]
  /\ waiting' = [waiting EXCEPT ![h] = Idle]
  /\ UNCHANGED <<db, os, native>>

\* The helper is killed while it waits.
Abandon(h) ==
  /\ waiting[h] # Idle
  /\ waiting' = [waiting EXCEPT ![h] = Idle]
  /\ UNCHANGED <<db, os, native, job>>

\* A crash, an error return without clean-up, or a reply without a change.
Ends ==
  /\ job # Idle
  /\ job' = Idle
  /\ UNCHANGED <<db, os, native, waiting>>

At(kind, pc) == job.kind = kind /\ job.pc = pc
Goto(pc) == job' = [job EXCEPT !.pc = pc]

-----------------------------------------------------------------------------
(* Creation of a child by its administrator, of an administrator by root. *)

\* The same request again: its intent already holds the bytes and the uid.
CreateResumes ==
  /\ At("create", "start")
  /\ \E i \in IntentsOf(job.owner, job.req) :
       /\ ~i.done /\ i.quota = job.bytes
       /\ NativeSet(job.owner, EffectiveQuota(job.owner))
       /\ job' = [job EXCEPT !.pc = "group", !.uid = i.uid]
  /\ UNCHANGED <<db, os, waiting>>

\* The kernel limit of the administrator shrinks before the bytes are promised.
CreateLowers ==
  /\ At("create", "start")
  /\ IntentsOf(job.owner, job.req) = {}
  /\ LET a == job.owner
         limit == EffectiveQuota(a)
     IN /\ job.bytes <= budget[a] - Allocated(a, NoRequest) - own[a]
        /\ NativeSet(a, IF own[a] > 0 THEN limit ELSE limit - job.bytes)
        /\ \E u \in FreeUids :
             job' = [job EXCEPT !.pc = "intent", !.uid = u, !.limit = limit]
  /\ UNCHANGED <<db, os, waiting>>

RecordIntent(owner, r, q, u) ==
  /\ intents' = intents \cup {[owner |-> owner, req |-> r, quota |-> q,
                               uid |-> u, done |-> FALSE]}
  /\ issued' = [issued EXCEPT ![u] = @ + 1]

CreateReserves ==
  /\ At("create", "intent")
  /\ Authorized(job.auth, job.owner)
  /\ job.bytes <= budget[job.owner] - Allocated(job.owner, NoRequest) - own[job.owner]
  /\ RecordIntent(job.owner, job.req, job.bytes, job.uid)
  /\ Goto("group")
  /\ UNCHANGED <<pool, acct, budget, own, retired, purging, os, native, waiting>>

\* The transaction fails: the administrator gets its kernel limit back.
CreateRefused ==
  /\ At("create", "intent")
  /\ NativeSet(job.owner, job.limit)
  /\ job' = Idle
  /\ UNCHANGED <<db, os, waiting>>

\* create_admin up to its intent, or the resumption of one.
AdminReserves(r, b) ==
  /\ job = Idle /\ TxFree
  /\ LET started(u) == [Idle EXCEPT !.kind = "admin", !.pc = "group", !.uid = u,
                                    !.req = r, !.bytes = b]
     IN \/ /\ IntentsOf(Root, r) = {}
           /\ b <= pool - Delegated - PendingReserved(Root, NoRequest)
           /\ \E u \in FreeUids : RecordIntent(Root, r, b, u) /\ job' = started(u)
        \/ /\ \E i \in IntentsOf(Root, r) :
                ~i.done /\ i.quota = b /\ job' = started(i.uid)
           /\ UNCHANGED <<intents, issued>>
  /\ UNCHANGED <<pool, acct, budget, own, retired, purging, os, native, waiting>>

\* ensure_os_identity: group, user and home exist before the kernel limit does,
\* and the home is given to its user only after.
Creating == job.kind \in {"create", "admin"}

MakesPiece(piece, next) ==
  /\ Creating /\ job.pc = piece
  /\ os' = [os EXCEPT ![job.uid] = @ \cup {piece}]
  /\ Goto(next)
  /\ UNCHANGED <<db, native, waiting>>

MakesGroup == MakesPiece("group", "user")
MakesUser == MakesPiece("user", "home")
MakesHome == MakesPiece("home", "limit")
HandsOver == MakesPiece("owned", "account")

LimitsChild ==
  /\ Creating /\ job.pc = "limit"
  /\ NativeSet(job.uid, job.bytes)
  /\ Goto("owned")
  /\ UNCHANGED <<db, os, waiting>>

NewAccount(role, quota) ==
  acct' = [acct EXCEPT ![job.uid] =
            [role |-> role, owner |-> job.owner, quota |-> quota, gen |-> 0,
             status |-> "active"]]

IntentDone ==
  intents' = {IF i.owner = job.owner /\ i.req = job.req
              THEN [i EXCEPT !.done = TRUE] ELSE i : i \in intents}

\* create_record turns the reservation into an account in one transaction.
CreatesChild ==
  /\ At("create", "account")
  /\ Authorized(job.auth, job.owner)
  /\ job.bytes <= budget[job.owner] - Allocated(job.owner, job.req) - own[job.owner]
  /\ NewAccount("user", job.bytes) /\ IntentDone
  /\ job' = Idle
  /\ UNCHANGED <<pool, budget, own, retired, purging, issued, os, native, waiting>>

CreatesAdmin ==
  /\ At("admin", "account")
  /\ job.bytes <= pool - Delegated - PendingReserved(Root, job.req)
  /\ NewAccount("admin", 0) /\ IntentDone
  /\ budget' = [budget EXCEPT ![job.uid] = job.bytes]
  /\ job' = Idle
  /\ UNCHANGED <<pool, own, retired, purging, issued, os, native, waiting>>

CancelsAnyTime(i) ==
  /\ "cancel" \in Acts
  /\ job = Idle /\ ~i.done
  /\ intents' = intents \ {i}
  /\ retired' = retired \cup {i.uid}
  /\ job' = IF i.owner = Root THEN Idle
            ELSE [Idle EXCEPT !.kind = "cancel", !.pc = "parent", !.owner = i.owner]
  /\ UNCHANGED <<pool, acct, budget, own, purging, issued, os, native, waiting>>

CancelsKeepingUid(i) ==
  /\ "cancel" \in Acts
  /\ job = Idle /\ ~i.done /\ os[i.uid] = {}
  /\ intents' = intents \ {i}
  /\ job' = IF i.owner = Root THEN Idle
            ELSE [Idle EXCEPT !.kind = "cancel", !.pc = "parent", !.owner = i.owner]
  /\ UNCHANGED <<pool, acct, budget, own, retired, purging, issued, os, native, waiting>>

\* cancel_pending: only an intent the operating system has seen nothing of.
Cancels(i) ==
  /\ "cancel" \in Acts
  /\ job = Idle /\ ~i.done /\ os[i.uid] = {}
  /\ intents' = intents \ {i}
  /\ retired' = retired \cup {i.uid}
  /\ job' = IF i.owner = Root THEN Idle
            ELSE [Idle EXCEPT !.kind = "cancel", !.pc = "parent", !.owner = i.owner]
  /\ UNCHANGED <<pool, acct, budget, own, purging, issued, os, native, waiting>>

-----------------------------------------------------------------------------
(* Changes of a child's quota. *)

\* The check of set_child_quota_with, inside its transaction.
QuotaFits ==
  /\ Authorized(job.auth, job.owner)
  /\ acct[job.uid].status \in {"active", "suspended"}
  /\ acct[job.uid].gen = job.gen
  /\ job.bytes <= budget[job.owner]
                  - (Allocated(job.owner, NoRequest) - acct[job.uid].quota)
                  - own[job.owner]

\* set_quota compares with the quota it read before the flock.
QuotaPlausible ==
  own[job.owner] > 0 \/ EffectiveQuota(job.owner) + job.old >= job.bytes

RemainderForgetsOld ==
  IF own[job.owner] > 0 THEN own[job.owner]
  ELSE budget[job.owner] - Allocated(job.owner, NoRequest) - job.bytes

Remainder ==
  IF own[job.owner] > 0 THEN own[job.owner]
  ELSE budget[job.owner] - Allocated(job.owner, NoRequest)
       + acct[job.uid].quota - job.bytes

QuotaLowersNothing ==
  /\ At("quota", "start") /\ "home" \in os[job.uid]
  /\ QuotaPlausible /\ QuotaFits
  /\ job' = [job EXCEPT !.pc = "commit", !.limit = Remainder]
  /\ UNCHANGED <<db, os, native, waiting>>

\* The side that loses bytes gets its smaller kernel limit before the commit.
QuotaLowers ==
  /\ At("quota", "start") /\ "home" \in os[job.uid]
  /\ QuotaPlausible /\ QuotaFits
  /\ native' = CASE job.bytes > job.old ->
                      [native EXCEPT ![job.owner] = NativeLimit(Remainder)]
                 [] job.bytes < job.old ->
                      [native EXCEPT ![job.uid] = NativeLimit(job.bytes)]
                 [] OTHER -> native
  /\ job' = [job EXCEPT !.pc = "commit", !.limit = Remainder]
  /\ UNCHANGED <<db, os, waiting>>

\* Any error of the transaction: both kernel limits are put back.
QuotaRestored ==
  CASE job.bytes < job.old ->
         [native EXCEPT ![job.uid] = NativeLimit(job.old)]
    [] job.bytes > job.old ->
         [native EXCEPT ![job.owner] = NativeLimit(EffectiveQuota(job.owner))]
    [] OTHER -> native

QuotaFails ==
  /\ job.kind = "quota"
  /\ \/ job.pc = "start" /\ QuotaPlausible /\ "home" \in os[job.uid]
     \/ job.pc = "commit"
  /\ native' = QuotaRestored
  /\ job' = Idle
  /\ UNCHANGED <<db, os, waiting>>

QuotaCommits ==
  /\ At("quota", "commit") /\ Bumped(job.uid)
  /\ acct' = [acct EXCEPT ![job.uid].quota = job.bytes, ![job.uid].gen = @ + 1]
  /\ Goto("child")
  /\ UNCHANGED <<pool, budget, own, intents, retired, purging, issued, os, native, waiting>>

QuotaRaisesChild ==
  /\ At("quota", "child")
  /\ NativeSet(job.uid, job.bytes)
  /\ Goto("parent")
  /\ UNCHANGED <<db, os, waiting>>

-----------------------------------------------------------------------------
(* Root's changes of a budget, of an own quota and of the pool. *)

LimitKinds == {"budget", "own"}

LimitStarts(kind, a, b) ==
  /\ kind \in Acts
  /\ job = Idle /\ IsAdmin(a)
  /\ job' = [Idle EXCEPT !.kind = kind, !.owner = a, !.bytes = b]
  /\ UNCHANGED <<db, os, native, waiting>>

LimitFitsIgnoringPending ==
  LET a == job.owner
      allocated == Allocated(a, NoRequest)
  IN /\ acct[a].status = "active"
     /\ IF job.kind = "own" THEN job.bytes <= budget[a] - allocated
        ELSE /\ job.bytes >= allocated + own[a]
             /\ job.bytes <= pool - (Delegated - budget[a])

LimitFits ==
  LET a == job.owner
      allocated == Allocated(a, NoRequest)
  IN /\ acct[a].status = "active"
     /\ IF job.kind = "own" THEN job.bytes <= budget[a] - allocated
        ELSE /\ job.bytes >= allocated + own[a]
             /\ job.bytes <= pool - (Delegated - budget[a])
                             - PendingReserved(Root, NoRequest)

\* The administrator's own limit once the change is committed.
LimitAfter ==
  IF job.kind = "own" THEN job.bytes
  ELSE IF own[job.owner] > 0 THEN own[job.owner]
  ELSE job.bytes - Allocated(job.owner, NoRequest)

LimitLowers ==
  /\ job.kind \in LimitKinds /\ job.pc = "start"
  /\ LimitFits
  /\ native' = IF LimitAfter < EffectiveQuota(job.owner)
               THEN [native EXCEPT ![job.owner] = NativeLimit(LimitAfter)]
               ELSE native
  /\ job' = [job EXCEPT !.pc = "commit", !.limit = LimitAfter]
  /\ UNCHANGED <<db, os, waiting>>

LimitFails ==
  /\ job.kind \in LimitKinds /\ job.pc \in {"start", "commit"}
  /\ NativeSet(job.owner, EffectiveQuota(job.owner))
  /\ job' = Idle
  /\ UNCHANGED <<db, os, waiting>>

BudgetCommits ==
  /\ At("budget", "commit")
  /\ budget' = [budget EXCEPT ![job.owner] = job.bytes]
  /\ Goto("parent")
  /\ UNCHANGED <<pool, acct, own, intents, retired, purging, issued, os, native, waiting>>

OwnCommits ==
  /\ At("own", "commit") /\ Bumped(job.owner)
  /\ own' = [own EXCEPT ![job.owner] = job.bytes]
  /\ acct' = [acct EXCEPT ![job.owner].gen = @ + 1]
  /\ Goto("parent")
  /\ UNCHANGED <<pool, budget, intents, retired, purging, issued, os, native, waiting>>

\* The last step of a change: the side that gains bytes gets its larger limit.
RaisesParent ==
  /\ job.pc = "parent"
  /\ NativeSet(job.owner, IF job.kind \in {"cancel", "purge"}
                          THEN EffectiveQuota(job.owner) ELSE job.limit)
  /\ job' = IF job.kind = "purge" THEN [job EXCEPT !.pc = "next"] ELSE Idle
  /\ UNCHANGED <<db, os, waiting>>

SetPool(b) ==
  /\ "pool" \in Acts
  /\ TxFree /\ b # pool
  /\ b >= Delegated + PendingReserved(Root, NoRequest)
  /\ pool' = b
  /\ UNCHANGED <<acct, budget, own, intents, retired, purging, issued, os, native,
                 waiting, job>>

SyncStarts ==
  /\ "sync" \in Acts
  /\ job = Idle
  /\ job' = [Idle EXCEPT !.kind = "sync"]
  /\ UNCHANGED <<db, os, native, waiting>>

\* sync_limits: the repair of one account whose identity is intact.
Syncs(u) ==
  /\ job.kind = "sync"
  /\ Exists(u) /\ {"user", "home"} \subseteq os[u]
  /\ NativeSet(u, EffectiveQuota(u))
  /\ UNCHANGED <<db, os, waiting, job>>

-----------------------------------------------------------------------------
(* Deletion, and the purge of what the retention no longer protects. *)

\* transition_checked, by root or the owner: it does not take the flock.
Transition(u, status) ==
  /\ TxFree
  /\ acct[u].status \in {"active", "suspended"} /\ Bumped(u)
  /\ acct' = [acct EXCEPT ![u].status = status, ![u].gen = @ + 1]
  /\ UNCHANGED <<pool, budget, own, intents, retired, purging, issued, os, native,
                 waiting, job>>

\* The purge intent and the retired uid are durable before anything is removed;
\* a missing home is accepted only with that intent.
PurgeStarts(u) ==
  /\ "purge" \in Acts
  /\ job = Idle \/ At("purge", "next")
  /\ acct[u].role = "user" /\ acct[u].status = "deleted"
  /\ LET purge(pc) == [Idle EXCEPT !.kind = "purge", !.pc = pc, !.uid = u,
                                   !.owner = acct[u].owner]
     IN \/ /\ {"user", "home", "owned"} \subseteq os[u]
           /\ purging' = purging \cup {u}
           /\ retired' = retired \cup {u}
           /\ job' = purge("clear")
        \/ /\ "home" \notin os[u] /\ u \in purging
           /\ job' = purge("userdel")
           /\ UNCHANGED <<purging, retired>>
  /\ UNCHANGED <<pool, acct, budget, own, intents, issued, os, native, waiting>>

Removes(pc, pieces, next) ==
  /\ At("purge", pc)
  /\ os' = [os EXCEPT ![job.uid] = @ \ pieces]
  /\ Goto(next)
  /\ UNCHANGED <<db, native, waiting>>

PurgeClears == Removes("clear", {"home", "owned"}, "userdel")
PurgeUserdel == Removes("userdel", {"user"}, "groupdel")
PurgeGroupdel == Removes("groupdel", {"group"}, "tombstone")

PurgeEntombs ==
  /\ At("purge", "tombstone")
  /\ retired' = retired \cup {job.uid}
  /\ acct' = [acct EXCEPT ![job.uid].quota = 0, ![job.uid].status = "purged",
                          ![job.uid].gen = @ + 1]
  /\ Goto("parent")
  /\ UNCHANGED <<pool, budget, own, intents, purging, issued, os, native, waiting>>

-----------------------------------------------------------------------------
Init ==
  /\ pool = 0
  /\ acct = [u \in Uids |-> Absent]
  /\ budget = [u \in Uids |-> 0]
  /\ own = [u \in Uids |-> 0]
  /\ intents = {} /\ retired = {} /\ purging = {}
  /\ os = [u \in Uids |-> {}]
  /\ native = [u \in Uids |-> 0]
  /\ waiting = [h \in Helpers |-> Idle]
  /\ job = Idle
  /\ issued = [u \in Uids |-> 0]

Asks ==
  \E h \in Helpers :
    \/ \E a \in Uids, r \in Requests, q \in Sizes : AskCreate(h, a, r, q)
    \/ \E u \in Uids, q \in Sizes, auth \in 0..MaxGen \cup {Root} :
         AskQuota(h, u, q, auth)
    \/ Lock(h) \/ Abandon(h)

Creates ==
  \/ CreateResumes \/ CreateLowers \/ CreateReserves \/ CreateRefused
  \/ \E r \in Requests, b \in Sizes : AdminReserves(r, b)
  \/ MakesGroup \/ MakesUser \/ MakesHome \/ LimitsChild \/ HandsOver
  \/ CreatesChild \/ CreatesAdmin
  \/ \E i \in intents : Cancels(i)

Resizes ==
  \/ QuotaLowers \/ QuotaFails \/ QuotaCommits \/ QuotaRaisesChild
  \/ \E kind \in LimitKinds, a \in Uids, b \in Sizes : LimitStarts(kind, a, b)
  \/ LimitLowers \/ LimitFails \/ BudgetCommits \/ OwnCommits \/ RaisesParent
  \/ \E b \in Sizes : SetPool(b)
  \/ SyncStarts
  \/ \E u \in Uids : Syncs(u)

Removals ==
  \/ \E u \in Uids, status \in {"active", "suspended", "deleted"} : Transition(u, status)
  \/ \E u \in Uids : PurgeStarts(u)
  \/ PurgeClears \/ PurgeUserdel \/ PurgeGroupdel \/ PurgeEntombs

Next == Asks \/ Creates \/ Resizes \/ Removals \/ Ends

Spec == Init /\ [][Next]_vars

-----------------------------------------------------------------------------
\* Types of the database, the operating system and the processes.
TypeOK ==
  /\ pool \in Nat
  /\ acct \in [Uids -> Account]
  /\ budget \in [Uids -> Nat] /\ own \in [Uids -> Nat]
  /\ intents \subseteq Intent
  /\ retired \subseteq Uids /\ purging \subseteq Uids
  /\ os \in [Uids -> SUBSET Pieces]
  /\ native \in [Uids -> Nat]
  /\ waiting \in [Helpers -> Job] /\ job \in Job
  /\ issued \in [Uids -> Nat]

(* Bytes are never promised twice: budgets and unfinished administrators fit *)
(* the pool, and the children, unfinished children and own quota of every    *)
(* administrator fit its budget, in every order of creations, resizes,       *)
(* cancellations, purges and crashes.                                        *)
NeverOverAllocated ==
  /\ Delegated + PendingReserved(Root, NoRequest) <= pool
  /\ \A a \in Uids : Allocated(a, NoRequest) + own[a] <= budget[a]

\* What the metadata promises the user of a home: the quota of its account, or
\* of the intent that is still creating it.
Allotment(u) ==
  IF acct[u].status # "none" THEN EffectiveQuota(u)
  ELSE Promised({i \in intents : i.uid = u /\ ~i.done})

(* A failure stays over-restrictive: a home that belongs to its user has a   *)
(* kernel limit, and the limit never exceeds what the metadata promises,     *)
(* whichever step the change of a quota, a budget or an account reaches.     *)
LimitsWithinAllotment ==
  \A u \in Uids : "owned" \in os[u] => native[u] \in 1..NativeLimit(Allotment(u))

(* No identity of the operating system is orphaned: what exists of one       *)
(* belongs to an account or to an unfinished intent, and an account that     *)
(* lost a part of its identity has the purge intent that lets gc go on.      *)
IdentityAccountedFor ==
  \A u \in Uids :
    /\ os[u] # {} => Exists(u) \/ \E i \in intents : i.uid = u /\ ~i.done
    /\ Exists(u) /\ os[u] # Pieces => u \in purging

(* A uid is given out once, so that no new account finds the files of an old *)
(* one, through crashes, cancellations and purges.                           *)
UidIssuedOnce == \A u \in Uids : issued[u] <= 1

=============================================================================
