-------------------------- MODULE AllocationProofs --------------------------
(***************************************************************************)
(* Theorems about Allocation, for every set of uids, requests and helpers  *)
(* and every size.  Identities: no uid is given out twice and no identity  *)
(* is orphaned, whatever is interrupted.  Bytes: none is promised twice.   *)
(* Kernel limits: none exceeds what the metadata promises its home, as     *)
(* long as two changes of one child's quota do not overlap.                *)
(***************************************************************************)
EXTENDS Allocation, Sums

(* The fields of the records; how many bytes they speak of does not matter. *)
JobShape(j) ==
  j = [kind |-> j.kind, pc |-> j.pc, by |-> j.by, owner |-> j.owner, uid |-> j.uid,
       req |-> j.req, auth |-> j.auth, gen |-> j.gen, bytes |-> j.bytes,
       old |-> j.old, limit |-> j.limit]

AccountShape(x) ==
  x = [role |-> x.role, owner |-> x.owner, quota |-> x.quota, gen |-> x.gen,
       status |-> x.status]

IntentShape(i) ==
  /\ i = [owner |-> i.owner, req |-> i.req, quota |-> i.quota, uid |-> i.uid,
          done |-> i.done]
  /\ i.uid \in Uids /\ i.done \in BOOLEAN

Shapes ==
  /\ acct = [u \in Uids |-> acct[u]]
  /\ \A u \in Uids : AccountShape(acct[u])
  /\ \A i \in intents : IntentShape(i)
  /\ os \in [Uids -> SUBSET Pieces]
  /\ issued \in [Uids -> {0, 1}]
  /\ waiting = [h \in Helpers |-> waiting[h]]
  /\ \A h \in Helpers : JobShape(waiting[h]) /\ waiting[h].pc = "start"
  /\ JobShape(job)

(* An issued uid is held by its one intent, or retired.                     *)
UidInv ==
  /\ \A u \in Uids : issued[u] = 0 \/ u \in retired \/ \E i \in intents : i.uid = u
  /\ \A i \in intents : issued[i.uid] = 1
  /\ \A i, j \in intents : i.uid = j.uid => i = j

(* A key has one intent, and an unfinished one has no account yet.          *)
IntentInv ==
  /\ \A i, j \in intents : i.owner = j.owner /\ i.req = j.req => i = j
  /\ \A i \in intents : ~i.done => acct[i.uid].status = "none"

Pending(u) == \E i \in intents : i.uid = u /\ ~i.done

IdentityInv ==
  \A u \in Uids :
    /\ os[u] # {} => Exists(u) \/ Pending(u)
    /\ Exists(u) /\ os[u] # Pieces => u \in purging
    /\ "owned" \in os[u] => "home" \in os[u]

(* The parts that exist when a creation reaches a step, and the parts that  *)
(* may be left when a purge does.                                           *)
MadeBefore(pc) ==
  CASE pc = "group" -> {}
    [] pc = "user" -> {"group"}
    [] pc = "home" -> {"group", "user"}
    [] pc \in {"limit", "owned"} -> {"group", "user", "home"}
    [] pc = "account" -> Pieces

LeftBefore(pc) ==
  CASE pc = "clear" -> Pieces
    [] pc = "userdel" -> {"group", "user"}
    [] pc = "groupdel" -> {"group"}
    [] pc = "tombstone" -> {}

CreateStages == {"group", "user", "home", "limit", "owned", "account"}
PurgeStages == {"clear", "userdel", "groupdel", "tombstone"}

(* What the holder of the lock relies on between its steps.                 *)
ReservingInv ==
  job.kind = "create" /\ job.pc = "intent" =>
    /\ job.uid \in Uids /\ issued[job.uid] = 0 /\ acct[job.uid].status = "none"
    /\ \A i \in intents : ~(i.owner = job.owner /\ i.req = job.req)

CreatingInv ==
  Creating /\ job.pc \in CreateStages =>
    \E i \in intents :
      /\ i.owner = job.owner /\ i.req = job.req /\ i.uid = job.uid /\ ~i.done
      /\ MadeBefore(job.pc) \subseteq os[i.uid]

PurgingInv ==
  job.kind = "purge" /\ job.pc \in PurgeStages =>
    /\ job.uid \in Uids /\ job.uid \in purging
    /\ acct[job.uid].status = "deleted"
    /\ os[job.uid] \subseteq LeftBefore(job.pc)

IInv ==
  /\ Shapes /\ UidInv /\ IntentInv /\ IdentityInv
  /\ ReservingInv /\ CreatingInv /\ PurgingInv

\* The fields of the idle job.
LEMMA IdleShape ==
  /\ JobShape(Idle) /\ Idle.kind = "none" /\ Idle.pc = "start" /\ Idle.owner = Root
  BY DEF JobShape, Idle

\* The empty database, without identities, satisfies the invariant.
LEMMA InitInv == Init => IInv
<1> SUFFICES ASSUME Init PROVE IInv
  OBVIOUS
<1>1. Shapes
  BY IdleShape DEF Init, Shapes, AccountShape, Absent, IntentShape
<1>2. UidInv /\ IntentInv
  BY DEF Init, UidInv, IntentInv
<1>3. IdentityInv
  BY DEF Init, IdentityInv, Exists, Absent
<1>4. ReservingInv /\ CreatingInv /\ PurgingInv
  BY IdleShape DEF Init, ReservingInv, CreatingInv, PurgingInv, Creating
<1>5. QED
  BY <1>1, <1>2, <1>3, <1>4 DEF IInv

-----------------------------------------------------------------------------
(* Most steps change no identity: they move bytes, limits or the job.       *)

SameStatus ==
  /\ acct' = [u \in Uids |-> acct'[u]]
  /\ \A u \in Uids : AccountShape(acct'[u]) /\ acct'[u].status = acct[u].status

WaitingShape ==
  /\ waiting' = [h \in Helpers |-> waiting'[h]]
  /\ \A h \in Helpers : JobShape(waiting'[h]) /\ waiting'[h].pc = "start"

\* A job of which the invariant asks nothing.
Quiet(j) ==
  /\ j.pc \notin {"intent"} \cup CreateStages \cup PurgeStages

IdentityKept == UNCHANGED <<intents, retired, purging, os, issued>> /\ SameStatus

\* A step that keeps the identities and what the job relies on.
LEMMA FrameStep ==
  ASSUME IInv, IdentityKept, WaitingShape, JobShape(job'),
         ReservingInv', CreatingInv', PurgingInv'
  PROVE  IInv'
<1>1. Shapes'
  BY DEF IInv, Shapes, IdentityKept, SameStatus, WaitingShape
<1>2. UidInv' /\ IntentInv'
  BY DEF IInv, Shapes, IntentShape, UidInv, IntentInv, IdentityKept, SameStatus
<1>3. IdentityInv'
  BY DEF IInv, IdentityInv, IdentityKept, SameStatus, Exists, Pending
<1>4. QED
  BY <1>1, <1>2, <1>3 DEF IInv

\* The job comes to rest.
LEMMA QuietStep ==
  ASSUME IInv, IdentityKept, WaitingShape, JobShape(job'), Quiet(job')
  PROVE  IInv'
<1>1. ReservingInv' /\ CreatingInv' /\ PurgingInv'
  BY DEF Quiet, ReservingInv, CreatingInv, PurgingInv
<1>2. QED
  BY <1>1, FrameStep

\* The job does not move.
LEMMA StillStep ==
  ASSUME IInv, IdentityKept, WaitingShape, job' = job
  PROVE  IInv'
<1>1. JobShape(job')
  BY DEF IInv, Shapes
<1>2. ReservingInv' /\ PurgingInv'
  BY DEF IInv, ReservingInv, PurgingInv, IdentityKept, SameStatus
<1>3. CreatingInv'
  BY DEF IInv, CreatingInv, IdentityKept, Creating
<1>4. QED
  BY <1>1, <1>2, <1>3, FrameStep

-----------------------------------------------------------------------------
(* One lemma per command. *)

\* Helpers read, wait, take the lock or are killed.
LEMMA AsksKeeps == ASSUME IInv, Asks PROVE IInv'
<1>1. CASE \E h \in Helpers, a \in Uids, r \in Requests, q \in Sizes : AskCreate(h, a, r, q)
  <2> PICK h \in Helpers, a \in Uids, r \in Requests, q \in Sizes : AskCreate(h, a, r, q)
    BY <1>1
  <2>1. IdentityKept /\ job' = job
    BY DEF AskCreate, db, IInv, Shapes, IdentityKept, SameStatus
  <2>2. WaitingShape
    BY DEF AskCreate, Idle, IInv, Shapes, WaitingShape, JobShape
  <2>3. QED
    BY <2>1, <2>2, StillStep
<1>2. CASE \E h \in Helpers, u \in Uids, q \in Sizes, auth \in 0..MaxGen \cup {Root} :
             AskQuota(h, u, q, auth)
  <2> PICK h \in Helpers, u \in Uids, q \in Sizes, auth \in 0..MaxGen \cup {Root} :
             AskQuota(h, u, q, auth)
    BY <1>2
  <2>1. IdentityKept /\ job' = job
    BY DEF AskQuota, db, IInv, Shapes, IdentityKept, SameStatus
  <2>2. WaitingShape
    BY DEF AskQuota, Idle, IInv, Shapes, WaitingShape, JobShape
  <2>3. QED
    BY <2>1, <2>2, StillStep
<1>3. CASE \E h \in Helpers : Lock(h)
  <2> PICK h \in Helpers : Lock(h)
    BY <1>3
  <2>1. IdentityKept
    BY DEF Lock, db, IInv, Shapes, IdentityKept, SameStatus
  <2>2. WaitingShape
    BY IdleShape DEF Lock, IInv, Shapes, WaitingShape
  <2>3. JobShape(job') /\ Quiet(job')
    BY DEF Lock, IInv, Shapes, Quiet, CreateStages, PurgeStages
  <2>4. QED
    BY <2>1, <2>2, <2>3, QuietStep
<1>4. CASE \E h \in Helpers : Abandon(h)
  <2> PICK h \in Helpers : Abandon(h)
    BY <1>4
  <2>1. IdentityKept /\ job' = job
    BY DEF Abandon, db, IInv, Shapes, IdentityKept, SameStatus
  <2>2. WaitingShape
    BY IdleShape DEF Abandon, IInv, Shapes, WaitingShape
  <2>3. QED
    BY <2>1, <2>2, StillStep
<1>5. QED
  BY <1>1, <1>2, <1>3, <1>4 DEF Asks

\* A job ends.
LEMMA EndsKeeps == ASSUME IInv, Ends PROVE IInv'
<1>1. IdentityKept /\ WaitingShape
  BY DEF Ends, db, IInv, Shapes, IdentityKept, SameStatus, WaitingShape
<1>2. JobShape(job') /\ Quiet(job')
  BY IdleShape DEF Ends, Quiet, CreateStages, PurgeStages
<1>3. QED
  BY <1>1, <1>2, QuietStep

\* Changes of quotas, budgets, own quotas, the pool and the kernel limits.
LEMMA ResizesKeeps == ASSUME IInv, Resizes PROVE IInv'
<1> USE DEF Goto, NativeSet
<1>1. CASE QuotaLowers \/ LimitLowers \/ QuotaRaisesChild
  <2>1. IdentityKept /\ WaitingShape
    BY <1>1 DEF QuotaLowers, LimitLowers, QuotaRaisesChild, db, IInv, Shapes, IdentityKept,
       SameStatus, WaitingShape
  <2>2. JobShape(job') /\ Quiet(job')
    BY <1>1 DEF QuotaLowers, LimitLowers, QuotaRaisesChild, IInv, Shapes, JobShape,
       Quiet, CreateStages, PurgeStages
  <2>3. QED
    BY <2>1, <2>2, QuietStep
<1>2. CASE QuotaFails \/ LimitFails
  <2>1. IdentityKept /\ WaitingShape
    BY <1>2 DEF QuotaFails, LimitFails, db, IInv, Shapes, IdentityKept, SameStatus, WaitingShape
  <2>2. JobShape(job') /\ Quiet(job')
    BY <1>2, IdleShape DEF QuotaFails, LimitFails, Quiet, CreateStages, PurgeStages
  <2>3. QED
    BY <2>1, <2>2, QuietStep
<1>3. CASE QuotaCommits \/ OwnCommits \/ BudgetCommits
  <2>1. IdentityKept
    <3>1. UNCHANGED <<intents, retired, purging, os, issued>>
      BY <1>3 DEF QuotaCommits, OwnCommits, BudgetCommits
    <3>2. CASE QuotaCommits
      <4>1. acct' = [u \in Uids |-> IF u = job.uid
                                    THEN [acct[u] EXCEPT !.quota = job.bytes, !.gen = @ + 1]
                                    ELSE acct[u]]
        BY <3>2 DEF QuotaCommits, IInv, Shapes
      <4>2. ASSUME NEW u \in Uids
            PROVE  AccountShape(acct'[u]) /\ acct'[u].status = acct[u].status
        <5>1. CASE u = job.uid
          <6>1. acct'[u] = [acct[u] EXCEPT !.quota = job.bytes, !.gen = acct[u].gen + 1]
            BY <5>1, <4>1
          <6>2. AccountShape(acct[u])
            BY DEF IInv, Shapes
          <6>3. QED
            BY <6>1, <6>2 DEF AccountShape
        <5>2. CASE u # job.uid
          BY <5>2, <4>1 DEF IInv, Shapes
        <5>3. QED
          BY <5>1, <5>2
      <4>3. QED
        BY <4>1, <4>2, <3>1 DEF SameStatus, IdentityKept
    <3>3. CASE OwnCommits
      <4>1. acct' = [u \in Uids |-> IF u = job.owner THEN [acct[u] EXCEPT !.gen = @ + 1]
                                    ELSE acct[u]]
        BY <3>3 DEF OwnCommits, IInv, Shapes
      <4>2. QED
        BY <4>1, <3>1 DEF IInv, Shapes, SameStatus, AccountShape, IdentityKept
    <3>4. CASE BudgetCommits
      BY <3>4, <3>1 DEF BudgetCommits, IInv, Shapes, SameStatus, IdentityKept
    <3>5. QED
      BY <1>3, <3>2, <3>3, <3>4
  <2>2. WaitingShape
    BY <1>3 DEF QuotaCommits, OwnCommits, BudgetCommits, IInv, Shapes, WaitingShape
  <2>3. JobShape(job') /\ Quiet(job')
    BY <1>3 DEF QuotaCommits, OwnCommits, BudgetCommits, IInv, Shapes, JobShape, Quiet,
       CreateStages, PurgeStages
  <2>4. QED
    BY <2>1, <2>2, <2>3, QuietStep
<1>4. CASE RaisesParent \/ SyncStarts
  <2>1. IdentityKept /\ WaitingShape
    BY <1>4 DEF RaisesParent, SyncStarts, db, IInv, Shapes, IdentityKept, SameStatus, WaitingShape
  <2>2. JobShape(job') /\ Quiet(job')
    BY <1>4 DEF RaisesParent, SyncStarts, Idle, IInv, Shapes, JobShape, Quiet,
       CreateStages, PurgeStages
  <2>3. QED
    BY <2>1, <2>2, QuietStep
<1>5. CASE \E kind \in LimitKinds, a \in Uids, b \in Sizes : LimitStarts(kind, a, b)
  <2>1. IdentityKept /\ WaitingShape
    BY <1>5 DEF LimitStarts, db, IInv, Shapes, IdentityKept, SameStatus, WaitingShape
  <2>2. JobShape(job') /\ Quiet(job')
    BY <1>5 DEF LimitStarts, Idle, JobShape, Quiet, CreateStages, PurgeStages
  <2>3. QED
    BY <2>1, <2>2, QuietStep
<1>6. CASE (\E b \in Sizes : SetPool(b)) \/ (\E u \in Uids : Syncs(u))
  <2>1. IdentityKept /\ WaitingShape /\ job' = job
    BY <1>6 DEF SetPool, Syncs, db, IInv, Shapes, IdentityKept, SameStatus, WaitingShape
  <2>2. QED
    BY <2>1, StillStep
<1>7. QED
  BY <1>1, <1>2, <1>3, <1>4, <1>5, <1>6 DEF Resizes

\* The job is at the first step of an identity of its own intent.
AtGroup(owner, r, u) ==
  /\ JobShape(job') /\ job'.kind \in {"create", "admin"} /\ job'.pc = "group"
  /\ job'.owner = owner /\ job'.req = r /\ job'.uid = u

\* An intent is resumed.
LEMMA ResumeStep ==
  ASSUME IInv, NEW i \in intents, ~i.done, AtGroup(i.owner, i.req, i.uid),
         IdentityKept, WaitingShape
  PROVE  IInv'
<1>1. ReservingInv' /\ PurgingInv'
  BY DEF AtGroup, ReservingInv, PurgingInv, PurgeStages
<1>2. CreatingInv'
  <2>1. MadeBefore("group") = {}
    BY DEF MadeBefore
  <2>2. QED
    BY <2>1 DEF AtGroup, CreatingInv, IdentityKept
<1>3. QED
  BY <1>1, <1>2, FrameStep DEF AtGroup

\* An unused uid is given to a new intent.
LEMMA ReserveStep ==
  ASSUME IInv, NEW owner, NEW r, NEW q, NEW u \in Uids,
         issued[u] = 0, acct[u].status = "none",
         \A i \in intents : ~(i.owner = owner /\ i.req = r),
         RecordIntent(owner, r, q, u), AtGroup(owner, r, u),
         UNCHANGED <<acct, retired, purging, os, waiting>>
  PROVE  IInv'
<1> DEFINE new == [owner |-> owner, req |-> r, quota |-> q, uid |-> u, done |-> FALSE]
<1>1. intents' = intents \cup {new} /\ new.owner = owner /\ new.req = r /\ new.uid = u /\ ~new.done
  BY DEF RecordIntent
<1>2. IntentShape(new)
  BY DEF IntentShape
<1>3. /\ issued' \in [Uids -> {0, 1}] /\ issued'[u] = 1
      /\ \A v \in Uids : v # u => issued'[v] = issued[v]
  <2>1. issued \in [Uids -> {0, 1}] /\ issued' = [issued EXCEPT ![u] = issued[u] + 1]
    BY DEF RecordIntent, IInv, Shapes
  <2>2. issued' = [issued EXCEPT ![u] = 1]
    BY <2>1
  <2>3. QED
    BY <2>1, <2>2
<1> HIDE DEF new
<1>4. Shapes'
  BY <1>1, <1>2, <1>3 DEF IInv, Shapes, AtGroup
<1>5. UidInv'
  <2>1. \A i \in intents : i.uid \in Uids /\ i.uid # u
    BY DEF IInv, Shapes, IntentShape, UidInv
  <2>2. QED
    BY <1>1, <1>3, <2>1 DEF IInv, UidInv
<1>6. IntentInv'
  BY <1>1 DEF IInv, IntentInv
<1>7. IdentityInv'
  BY <1>1 DEF IInv, IdentityInv, Exists, Pending
<1>8. ReservingInv' /\ PurgingInv'
  BY DEF AtGroup, ReservingInv, PurgingInv, PurgeStages
<1>9. CreatingInv'
  <2>1. MadeBefore("group") = {}
    BY DEF MadeBefore
  <2>2. QED
    BY <1>1, <2>1 DEF AtGroup, CreatingInv
<1>10. QED
  BY <1>4, <1>5, <1>6, <1>7, <1>8, <1>9 DEF IInv

\* A uid that allocate may return has never been issued.
LEMMA FreeIsUnused ==
  ASSUME IInv, NEW u \in FreeUids
  PROVE  u \in Uids /\ issued[u] = 0 /\ acct[u].status = "none"
  BY DEF IInv, UidInv, FreeUids

\* create_admin up to its intent.
LEMMA AdminReservesKeeps ==
  ASSUME IInv, NEW r \in Requests, NEW b \in Sizes, AdminReserves(r, b) PROVE IInv'
<1>1. CASE \E u \in FreeUids : /\ RecordIntent(Root, r, b, u)
                               /\ IntentsOf(Root, r) = {}
                               /\ job' = [Idle EXCEPT !.kind = "admin", !.pc = "group", !.uid = u,
                                                      !.req = r, !.bytes = b]
  <2> PICK u \in FreeUids : /\ RecordIntent(Root, r, b, u)
                            /\ IntentsOf(Root, r) = {}
                            /\ job' = [Idle EXCEPT !.kind = "admin", !.pc = "group", !.uid = u,
                                                   !.req = r, !.bytes = b]
    BY <1>1
  <2>1. AtGroup(Root, r, u)
    BY DEF AtGroup, Idle, JobShape
  <2>2. UNCHANGED <<acct, retired, purging, os, waiting>>
    BY DEF AdminReserves
  <2>3. QED
    BY <2>1, <2>2, FreeIsUnused, ReserveStep DEF IntentsOf
<1>2. CASE /\ UNCHANGED <<intents, issued>>
           /\ \E i \in IntentsOf(Root, r) :
                ~i.done /\ job' = [Idle EXCEPT !.kind = "admin", !.pc = "group", !.uid = i.uid,
                                               !.req = r, !.bytes = b]
  <2> PICK i \in intents :
        /\ i.owner = Root /\ i.req = r /\ ~i.done
        /\ job' = [Idle EXCEPT !.kind = "admin", !.pc = "group", !.uid = i.uid,
                               !.req = r, !.bytes = b]
    BY <1>2 DEF IntentsOf
  <2>1. AtGroup(i.owner, i.req, i.uid)
    BY DEF AtGroup, Idle, JobShape
  <2>2. IdentityKept /\ WaitingShape
    BY <1>2 DEF AdminReserves, IInv, Shapes, IdentityKept, SameStatus, WaitingShape
  <2>3. QED
    BY <2>1, <2>2, ResumeStep
<1>3. QED
  BY <1>1, <1>2 DEF AdminReserves

\* provision up to its intent.
LEMMA CreateReservesKeeps ==
  ASSUME IInv, CreateResumes \/ CreateLowers \/ CreateReserves \/ CreateRefused PROVE IInv'
<1>1. CASE CreateResumes
  <2>1. PICK i \in intents : /\ i.owner = job.owner /\ i.req = job.req /\ ~i.done
                             /\ job' = [job EXCEPT !.pc = "group", !.uid = i.uid]
    BY <1>1 DEF CreateResumes, IntentsOf
  <2>2. job.kind = "create"
    BY <1>1 DEF CreateResumes, At
  <2>3. AtGroup(i.owner, i.req, i.uid)
    BY <2>1, <2>2 DEF AtGroup, IInv, Shapes, JobShape
  <2>4. IdentityKept /\ WaitingShape
    BY <1>1 DEF CreateResumes, db, IInv, Shapes, IdentityKept, SameStatus, WaitingShape
  <2>5. QED
    BY <2>1, <2>3, <2>4, ResumeStep
<1>2. CASE CreateLowers
  <2>1. PICK u \in FreeUids : \E limit :
               job' = [job EXCEPT !.pc = "intent", !.uid = u, !.limit = limit]
    BY <1>2 DEF CreateLowers
  <2>2. /\ JobShape(job') /\ job'.pc = "intent" /\ job'.uid = u
        /\ job'.owner = job.owner /\ job'.req = job.req
    BY <2>1 DEF IInv, Shapes, JobShape
  <2>3. \A i \in intents : ~(i.owner = job.owner /\ i.req = job.req)
    BY <1>2 DEF CreateLowers, IntentsOf
  <2>4. IdentityKept /\ WaitingShape
    BY <1>2 DEF CreateLowers, db, IInv, Shapes, IdentityKept, SameStatus, WaitingShape
  <2>5. ReservingInv'
    BY <2>2, <2>3, <2>4, FreeIsUnused DEF ReservingInv, IdentityKept, SameStatus
  <2>6. CreatingInv' /\ PurgingInv'
    BY <2>2 DEF CreatingInv, PurgingInv, CreateStages, PurgeStages
  <2>7. QED
    BY <2>2, <2>4, <2>5, <2>6, FrameStep
<1>3. CASE CreateReserves
  <2>1. job.kind = "create" /\ job.pc = "intent"
    BY <1>3 DEF CreateReserves, At
  <2>2. AtGroup(job.owner, job.req, job.uid)
    BY <1>3, <2>1 DEF CreateReserves, Goto, AtGroup, IInv, Shapes, JobShape
  <2>3. /\ job.uid \in Uids /\ issued[job.uid] = 0 /\ acct[job.uid].status = "none"
        /\ \A i \in intents : ~(i.owner = job.owner /\ i.req = job.req)
    BY <2>1 DEF IInv, ReservingInv
  <2>4. RecordIntent(job.owner, job.req, job.bytes, job.uid)
        /\ UNCHANGED <<acct, retired, purging, os, waiting>>
    BY <1>3 DEF CreateReserves
  <2>5. QED
    BY <2>2, <2>3, <2>4, ReserveStep
<1>4. CASE CreateRefused
  <2>1. IdentityKept /\ WaitingShape
    BY <1>4 DEF CreateRefused, db, IInv, Shapes, IdentityKept, SameStatus, WaitingShape
  <2>2. JobShape(job') /\ Quiet(job')
    BY <1>4, IdleShape DEF CreateRefused, Quiet, CreateStages, PurgeStages
  <2>3. QED
    BY <2>1, <2>2, QuietStep
<1>5. QED
  BY <1>1, <1>2, <1>3, <1>4

\* The steps of ensure_os_identity.
LEMMA PieceStep ==
  ASSUME IInv, NEW piece \in Pieces, NEW next \in CreateStages, MakesPiece(piece, next),
         MadeBefore(next) = MadeBefore(piece) \cup {piece},
         piece = "owned" => "home" \in MadeBefore(piece)
  PROVE  IInv'
<1>1. job.kind \in {"create", "admin"} /\ job.pc = piece /\ piece \in CreateStages
  BY DEF MakesPiece, Creating, Pieces, CreateStages
<1>2. PICK i \in intents :
        /\ i.owner = job.owner /\ i.req = job.req /\ i.uid = job.uid /\ ~i.done
        /\ MadeBefore(piece) \subseteq os[i.uid]
  BY <1>1 DEF IInv, CreatingInv, Creating
<1>3. i.uid \in Uids /\ acct[i.uid].status = "none"
  BY <1>2 DEF IInv, Shapes, IntentShape, IntentInv
<1>4. UNCHANGED <<acct, intents, retired, purging, issued, waiting>>
  BY DEF MakesPiece, db
<1>5. /\ os' \in [Uids -> SUBSET Pieces] /\ os'[i.uid] = os[i.uid] \cup {piece}
      /\ \A u \in Uids : u # i.uid => os'[u] = os[u]
  BY <1>2, <1>3 DEF MakesPiece, IInv, Shapes
<1>6. /\ JobShape(job') /\ job'.pc = next /\ job'.kind = job.kind
      /\ job'.owner = job.owner /\ job'.req = job.req /\ job'.uid = job.uid
  BY DEF MakesPiece, Goto, IInv, Shapes, JobShape
<1>7. Shapes'
  BY <1>4, <1>5, <1>6 DEF IInv, Shapes
<1>8. UidInv' /\ IntentInv'
  BY <1>4 DEF IInv, UidInv, IntentInv
<1>9. IdentityInv'
  <2> SUFFICES ASSUME NEW u \in Uids
               PROVE  /\ os'[u] # {} => Exists(u) \/ Pending(u)
                      /\ Exists(u) /\ os'[u] # Pieces => u \in purging
                      /\ "owned" \in os'[u] => "home" \in os'[u]
    BY <1>4 DEF IdentityInv, Exists, Pending
  <2>1. CASE u = i.uid
    BY <2>1, <1>2, <1>3, <1>5 DEF IInv, IdentityInv, Exists, Pending
  <2>2. CASE u # i.uid
    BY <2>2, <1>5 DEF IInv, IdentityInv
  <2>3. QED
    BY <2>1, <2>2
<1>10. CreatingInv'
  BY <1>2, <1>4, <1>5, <1>6 DEF CreatingInv, Creating
<1>11. ReservingInv' /\ PurgingInv'
  BY <1>1, <1>6 DEF ReservingInv, PurgingInv, CreateStages
<1>12. QED
  BY <1>7, <1>8, <1>9, <1>10, <1>11 DEF IInv

\* An identity comes into being piece by piece, the limit before the owner.
LEMMA IdentityKeeps ==
  ASSUME IInv, MakesGroup \/ MakesUser \/ MakesHome \/ LimitsChild \/ HandsOver PROVE IInv'
<1> USE DEF CreateStages, Pieces
<1>1. /\ MadeBefore("group") = {} /\ MadeBefore("user") = {"group"}
      /\ MadeBefore("home") = {"group", "user"}
      /\ MadeBefore("limit") = {"group", "user", "home"}
      /\ MadeBefore("owned") = {"group", "user", "home"}
      /\ MadeBefore("account") = {"group", "user", "home", "owned"}
  BY DEF MadeBefore
<1>2. CASE MakesGroup
  BY <1>1, <1>2, PieceStep DEF MakesGroup
<1>3. CASE MakesUser
  BY <1>1, <1>3, PieceStep DEF MakesUser
<1>4. CASE MakesHome
  BY <1>1, <1>4, PieceStep DEF MakesHome
<1>5. CASE HandsOver
  BY <1>1, <1>5, PieceStep DEF HandsOver
<1>6. CASE LimitsChild
  <2>1. job.kind \in {"create", "admin"} /\ job.pc = "limit"
    BY <1>6 DEF LimitsChild, Creating
  <2>2. /\ JobShape(job') /\ job'.pc = "owned" /\ job'.kind = job.kind
        /\ job'.owner = job.owner /\ job'.req = job.req /\ job'.uid = job.uid
    BY <1>6 DEF LimitsChild, Goto, IInv, Shapes, JobShape
  <2>3. IdentityKept /\ WaitingShape
    BY <1>6 DEF LimitsChild, db, IInv, Shapes, IdentityKept, SameStatus, WaitingShape
  <2>4. CreatingInv'
    BY <1>1, <2>1, <2>2, <2>3 DEF IInv, CreatingInv, Creating, IdentityKept
  <2>5. ReservingInv' /\ PurgingInv'
    BY <2>1, <2>2 DEF ReservingInv, PurgingInv
  <2>6. QED
    BY <2>2, <2>3, <2>4, <2>5, FrameStep
<1>7. QED
  BY <1>2, <1>3, <1>4, <1>5, <1>6

\* create_record marks the one intent of its key.
LEMMA FinishedIntent ==
  ASSUME IInv, CreatesChild \/ CreatesAdmin
  PROVE  \E i \in intents :
           /\ i.owner = job.owner /\ i.req = job.req /\ i.uid = job.uid /\ ~i.done
           /\ MadeBefore("account") \subseteq os[i.uid]
           /\ intents' = (intents \ {i}) \cup {[i EXCEPT !.done = TRUE]}
<1>1. job.kind \in {"create", "admin"} /\ job.pc = "account"
  BY DEF CreatesChild, CreatesAdmin, At
<1>2. PICK i \in intents :
        /\ i.owner = job.owner /\ i.req = job.req /\ i.uid = job.uid /\ ~i.done
        /\ MadeBefore("account") \subseteq os[i.uid]
  BY <1>1 DEF IInv, CreatingInv, Creating, CreateStages
<1>3. PICK done : done = [i EXCEPT !.done = TRUE]
  OBVIOUS
<1>4. intents' = (intents \ {i}) \cup {done}
  <2>1. \A j \in intents : j.owner = job.owner /\ j.req = job.req <=> j = i
    BY <1>2 DEF IInv, IntentInv
  <2>2. intents' = {IF j.owner = job.owner /\ j.req = job.req
                    THEN [j EXCEPT !.done = TRUE] ELSE j : j \in intents}
    BY DEF CreatesChild, CreatesAdmin, IntentDone
  <2>3. ASSUME NEW x \in intents' PROVE x \in (intents \ {i}) \cup {done}
    <3>1. PICK j \in intents : x = IF j.owner = job.owner /\ j.req = job.req
                                   THEN [j EXCEPT !.done = TRUE] ELSE j
      BY <2>2
    <3>2. CASE j = i
      BY <3>1, <3>2, <2>1, <1>3
    <3>3. CASE j # i
      BY <3>1, <3>3, <2>1
    <3>4. QED
      BY <3>2, <3>3
  <2>4. ASSUME NEW x \in intents \ {i} PROVE x \in intents'
    BY <2>1, <2>2
  <2>5. done \in intents'
    BY <1>2, <1>3, <2>2
  <2>6. QED
    BY <2>3, <2>4, <2>5
<1>5. QED
  BY <1>2, <1>3, <1>4

\* create_record: the intent becomes an account with a whole identity.
LEMMA CreatesKeeps == ASSUME IInv, CreatesChild \/ CreatesAdmin PROVE IInv'
<1>1. job.kind \in {"create", "admin"} /\ job.pc = "account"
  BY DEF CreatesChild, CreatesAdmin, At
<1>2. PICK i \in intents :
        /\ i.owner = job.owner /\ i.req = job.req /\ i.uid = job.uid /\ ~i.done
        /\ MadeBefore("account") \subseteq os[i.uid]
        /\ intents' = (intents \ {i}) \cup {[i EXCEPT !.done = TRUE]}
  BY FinishedIntent
<1>3. i.uid \in Uids /\ os[i.uid] = Pieces
  <2>1. MadeBefore("account") = Pieces
    BY DEF MadeBefore
  <2>2. QED
    BY <1>2, <2>1 DEF IInv, Shapes, IntentShape
<1>4. PICK done : done = [i EXCEPT !.done = TRUE]
  OBVIOUS
<1>5. /\ IntentShape(done) /\ done.owner = i.owner /\ done.req = i.req /\ done.uid = i.uid
       /\ done.done = TRUE
  <2>1. IntentShape(i)
    BY DEF IInv, Shapes
  <2>2. QED
    BY <2>1, <1>4 DEF IntentShape
<1>6. intents' = (intents \ {i}) \cup {done}
  BY <1>2, <1>4
<1>7. /\ acct' = [u \in Uids |-> acct'[u]]
      /\ AccountShape(acct'[i.uid]) /\ acct'[i.uid].status = "active"
      /\ \A u \in Uids : u # i.uid => acct'[u] = acct[u]
  <2>1. PICK x : AccountShape(x) /\ x.status = "active" /\ acct' = [acct EXCEPT ![job.uid] = x]
    <3>1. CASE CreatesChild
      <4> DEFINE x == [role |-> "user", owner |-> job.owner, quota |-> job.bytes, gen |-> 0,
                       status |-> "active"]
      <4>1. acct' = [acct EXCEPT ![job.uid] = x] /\ AccountShape(x) /\ x.status = "active"
        BY <3>1 DEF CreatesChild, NewAccount, AccountShape
      <4>2. QED
        BY <4>1
    <3>2. CASE CreatesAdmin
      <4> DEFINE x == [role |-> "admin", owner |-> job.owner, quota |-> 0, gen |-> 0,
                       status |-> "active"]
      <4>1. acct' = [acct EXCEPT ![job.uid] = x] /\ AccountShape(x) /\ x.status = "active"
        BY <3>2 DEF CreatesAdmin, NewAccount, AccountShape
      <4>2. QED
        BY <4>1
    <3>3. QED
      BY <3>1, <3>2
  <2>2. QED
    BY <1>2, <1>3, <2>1 DEF IInv, Shapes
<1>8. UNCHANGED <<retired, purging, issued, os, waiting>> /\ job' = Idle
  BY DEF CreatesChild, CreatesAdmin
<1>9. Shapes'
  BY <1>5, <1>6, <1>7, <1>8, IdleShape DEF IInv, Shapes
<1>10. UidInv'
  <2>1. \A u \in Uids : issued'[u] = 0 \/ u \in retired' \/ \E j \in intents' : j.uid = u
    <3> SUFFICES ASSUME NEW u \in Uids, issued[u] # 0, u \notin retired
                 PROVE  \E j \in intents' : j.uid = u
      BY <1>8
    <3>1. PICK j \in intents : j.uid = u
      BY DEF IInv, UidInv
    <3>2. QED
      BY <3>1, <1>5, <1>6
  <2>2. \A j \in intents' : issued'[j.uid] = 1
    BY <1>5, <1>6, <1>8 DEF IInv, UidInv
  <2>3. \A j, k \in intents' : j.uid = k.uid => j = k
    BY <1>5, <1>6 DEF IInv, UidInv
  <2>4. QED
    BY <2>1, <2>2, <2>3 DEF UidInv
<1>11. IntentInv'
  <2>1. \A j \in intents \ {i} : j.uid # i.uid /\ j.uid \in Uids
    BY DEF IInv, UidInv, Shapes, IntentShape
  <2>2. QED
    BY <1>5, <1>6, <1>7, <2>1 DEF IInv, IntentInv
<1>12. IdentityInv'
  <2> SUFFICES ASSUME NEW u \in Uids
               PROVE  /\ os'[u] # {} => Exists(u)' \/ Pending(u)'
                      /\ Exists(u)' /\ os'[u] # Pieces => u \in purging'
                      /\ "owned" \in os'[u] => "home" \in os'[u]
    BY DEF IdentityInv
  <2>1. CASE u = i.uid
    BY <2>1, <1>3, <1>7, <1>8 DEF Exists, Pieces
  <2>2. CASE u # i.uid
    BY <2>2, <1>6, <1>7, <1>8 DEF IInv, IdentityInv, Exists, Pending
  <2>3. QED
    BY <2>1, <2>2
<1>13. ReservingInv' /\ CreatingInv' /\ PurgingInv'
  BY <1>8, IdleShape DEF ReservingInv, CreatingInv, PurgingInv, Creating
<1>14. QED
  BY <1>9, <1>10, <1>11, <1>12, <1>13 DEF IInv

\* cancel_pending: the uid is retired with its intent, of which nothing exists.
LEMMA CancelsKeeps == ASSUME IInv, NEW i \in intents, Cancels(i) PROVE IInv'
<1>1. /\ intents' = intents \ {i} /\ retired' = retired \cup {i.uid} /\ os[i.uid] = {}
      /\ UNCHANGED <<acct, purging, issued, os, waiting>>
  BY DEF Cancels
<1>2. JobShape(job') /\ Quiet(job')
  <2>1. CASE i.owner = Root
    BY <2>1, IdleShape DEF Cancels, Quiet, CreateStages, PurgeStages
  <2>2. CASE i.owner # Root
    <3>1. job' = [Idle EXCEPT !.kind = "cancel", !.pc = "parent", !.owner = i.owner]
      BY <2>2 DEF Cancels
    <3>2. QED
      BY <3>1 DEF Idle, JobShape, Quiet, CreateStages, PurgeStages
  <2>3. QED
    BY <2>1, <2>2
<1>3. Shapes'
  BY <1>1, <1>2 DEF IInv, Shapes
<1>4. UidInv' /\ IntentInv'
  BY <1>1 DEF IInv, UidInv, IntentInv
<1>5. IdentityInv'
  BY <1>1 DEF IInv, IdentityInv, Exists, Pending
<1>6. ReservingInv' /\ CreatingInv' /\ PurgingInv'
  BY <1>2 DEF Quiet, ReservingInv, CreatingInv, PurgingInv
<1>7. QED
  BY <1>3, <1>4, <1>5, <1>6 DEF IInv

\* Every step of a creation.
LEMMA CreationKeeps == ASSUME IInv, Creates PROVE IInv'
  BY AdminReservesKeeps, CreateReservesKeeps, IdentityKeeps, CreatesKeeps, CancelsKeeps
     DEF Creates

-----------------------------------------------------------------------------
(* Deletion and purge. *)

\* A suspension, reactivation or deletion touches no account being created or
\* purged.
LEMMA TransitionKeeps ==
  ASSUME IInv, NEW u \in Uids, NEW status \in {"active", "suspended", "deleted"},
         Transition(u, status)
  PROVE  IInv'
<1>1. /\ acct[u].status \in {"active", "suspended"}
      /\ acct' = [acct EXCEPT ![u].status = status, ![u].gen = @ + 1]
      /\ UNCHANGED <<intents, retired, purging, issued, os, waiting, job>>
  BY DEF Transition
<1>2. acct'[u] = [acct[u] EXCEPT !.status = status, !.gen = acct[u].gen + 1]
  BY <1>1 DEF IInv, Shapes
<1>3. /\ acct' = [v \in Uids |-> acct'[v]]
      /\ \A v \in Uids : v # u => acct'[v] = acct[v]
  BY <1>1 DEF IInv, Shapes
<1>4. AccountShape(acct'[u]) /\ acct'[u].status = status
  <2>1. AccountShape(acct[u])
    BY DEF IInv, Shapes
  <2>2. QED
    BY <1>2, <2>1 DEF AccountShape
<1>5. Shapes'
  BY <1>1, <1>3, <1>4 DEF IInv, Shapes
<1>6. UidInv'
  BY <1>1 DEF IInv, UidInv
<1>7. IntentInv'
  <2>1. \A i \in intents : ~i.done => i.uid \in Uids /\ i.uid # u
    BY <1>1 DEF IInv, Shapes, IntentShape, IntentInv
  <2>2. QED
    BY <1>1, <1>3, <2>1 DEF IInv, IntentInv
<1>8. IdentityInv'
  <2> SUFFICES ASSUME NEW v \in Uids
               PROVE  /\ os[v] # {} => Exists(v)' \/ Pending(v)
                      /\ Exists(v)' /\ os[v] # Pieces => v \in purging
                      /\ "owned" \in os[v] => "home" \in os[v]
    BY <1>1 DEF IdentityInv, Pending
  <2>1. Exists(v)' <=> Exists(v)
    BY <1>1, <1>3, <1>4 DEF Exists
  <2>2. QED
    BY <2>1 DEF IInv, IdentityInv
<1>9. ReservingInv' /\ PurgingInv'
  BY <1>1, <1>3 DEF IInv, ReservingInv, PurgingInv
<1>10. CreatingInv'
  BY <1>1 DEF IInv, CreatingInv, Creating
<1>11. QED
  BY <1>5, <1>6, <1>7, <1>8, <1>9, <1>10 DEF IInv

\* The purge of an account starts, or goes on where an earlier one stopped.
LEMMA PurgeStartsKeeps == ASSUME IInv, NEW u \in Uids, PurgeStarts(u) PROVE IInv'
<1>1. /\ acct[u].status = "deleted"
      /\ UNCHANGED <<acct, intents, issued, os, waiting>>
  BY DEF PurgeStarts
<1>2. PICK pc \in {"clear", "userdel"} :
        /\ job' = [Idle EXCEPT !.kind = "purge", !.pc = pc, !.uid = u, !.owner = acct[u].owner]
        /\ pc = "userdel" => "home" \notin os[u]
        /\ u \in purging'
        /\ purging \subseteq purging' /\ retired \subseteq retired'
  BY DEF PurgeStarts
<1>3. JobShape(job') /\ job'.kind = "purge" /\ job'.pc = pc /\ job'.uid = u
  BY <1>2 DEF Idle, JobShape
<1>4. Shapes'
  BY <1>1, <1>3 DEF IInv, Shapes
<1>5. UidInv' /\ IntentInv'
  BY <1>1, <1>2 DEF IInv, UidInv, IntentInv
<1>6. IdentityInv'
  BY <1>1, <1>2 DEF IInv, IdentityInv, Exists, Pending
<1>7. ReservingInv' /\ CreatingInv'
  BY <1>3 DEF ReservingInv, CreatingInv, Creating
<1>8. PurgingInv'
  <2>1. LeftBefore("clear") = Pieces /\ LeftBefore("userdel") = {"group", "user"}
    BY DEF LeftBefore
  <2>2. os[u] \subseteq LeftBefore(pc)
    <3>1. os[u] \subseteq Pieces /\ ("owned" \in os[u] => "home" \in os[u])
      BY DEF IInv, Shapes, IdentityInv
    <3>2. QED
      BY <1>2, <2>1, <3>1 DEF Pieces
  <2>3. QED
    BY <1>1, <1>2, <1>3, <2>2 DEF PurgingInv
<1>9. QED
  BY <1>4, <1>5, <1>6, <1>7, <1>8 DEF IInv

\* One part of a purged identity is removed.
LEMMA RemovesStep ==
  ASSUME IInv, NEW pc \in PurgeStages, NEW pieces, NEW next \in PurgeStages,
         Removes(pc, pieces, next), LeftBefore(pc) \ pieces = LeftBefore(next),
         "home" \in pieces => "owned" \in pieces
  PROVE  IInv'
<1>1. job.kind = "purge" /\ job.pc = pc
  BY DEF Removes, At
<1>2. /\ job.uid \in Uids /\ job.uid \in purging /\ acct[job.uid].status = "deleted"
      /\ os[job.uid] \subseteq LeftBefore(pc)
  BY <1>1 DEF IInv, PurgingInv
<1>3. UNCHANGED <<acct, intents, retired, purging, issued, waiting>>
  BY DEF Removes, db
<1>4. /\ os' \in [Uids -> SUBSET Pieces] /\ os'[job.uid] = os[job.uid] \ pieces
      /\ \A u \in Uids : u # job.uid => os'[u] = os[u]
  BY <1>2 DEF Removes, IInv, Shapes
<1>5. JobShape(job') /\ job'.kind = "purge" /\ job'.pc = next /\ job'.uid = job.uid
  BY <1>1 DEF Removes, Goto, IInv, Shapes, JobShape
<1>6. Shapes'
  BY <1>3, <1>4, <1>5 DEF IInv, Shapes
<1>7. UidInv' /\ IntentInv'
  BY <1>3 DEF IInv, UidInv, IntentInv
<1>8. IdentityInv'
  <2> SUFFICES ASSUME NEW u \in Uids
               PROVE  /\ os'[u] # {} => Exists(u) \/ Pending(u)
                      /\ Exists(u) /\ os'[u] # Pieces => u \in purging
                      /\ "owned" \in os'[u] => "home" \in os'[u]
    BY <1>3 DEF IdentityInv, Exists, Pending
  <2>1. CASE u = job.uid
    BY <2>1, <1>2, <1>4 DEF IInv, IdentityInv, Exists
  <2>2. CASE u # job.uid
    BY <2>2, <1>4 DEF IInv, IdentityInv
  <2>3. QED
    BY <2>1, <2>2
<1>9. ReservingInv' /\ CreatingInv'
  BY <1>5 DEF ReservingInv, CreatingInv, Creating
<1>10. PurgingInv'
  BY <1>2, <1>3, <1>4, <1>5 DEF PurgingInv
<1>11. QED
  BY <1>6, <1>7, <1>8, <1>9, <1>10 DEF IInv

\* Home, user and group go one after the other.
LEMMA RemovesKeeps ==
  ASSUME IInv, PurgeClears \/ PurgeUserdel \/ PurgeGroupdel PROVE IInv'
<1> USE DEF PurgeStages
<1>1. /\ LeftBefore("clear") = {"group", "user", "home", "owned"}
      /\ LeftBefore("userdel") = {"group", "user"}
      /\ LeftBefore("groupdel") = {"group"} /\ LeftBefore("tombstone") = {}
  BY DEF LeftBefore, Pieces
<1>2. CASE PurgeClears
  BY <1>1, <1>2, RemovesStep DEF PurgeClears
<1>3. CASE PurgeUserdel
  BY <1>1, <1>3, RemovesStep DEF PurgeUserdel
<1>4. CASE PurgeGroupdel
  BY <1>1, <1>4, RemovesStep DEF PurgeGroupdel
<1>5. QED
  BY <1>2, <1>3, <1>4

\* The account is closed once nothing of its identity is left.
LEMMA PurgeEntombsKeeps == ASSUME IInv, PurgeEntombs PROVE IInv'
<1>1. /\ job.kind = "purge" /\ job.pc = "tombstone"
      /\ retired' = retired \cup {job.uid}
      /\ acct' = [acct EXCEPT ![job.uid].quota = 0, ![job.uid].status = "purged",
                              ![job.uid].gen = @ + 1]
      /\ UNCHANGED <<intents, purging, issued, os, waiting>>
  BY DEF PurgeEntombs, At
<1>2. job.uid \in Uids /\ acct[job.uid].status = "deleted" /\ os[job.uid] = {}
  <2>1. LeftBefore("tombstone") = {}
    BY DEF LeftBefore
  <2>2. QED
    BY <1>1, <2>1 DEF IInv, PurgingInv, PurgeStages
<1>3. acct'[job.uid] = [acct[job.uid] EXCEPT !.quota = 0, !.status = "purged",
                                             !.gen = acct[job.uid].gen + 1]
  BY <1>1, <1>2 DEF IInv, Shapes
<1>4. /\ acct' = [v \in Uids |-> acct'[v]]
      /\ \A v \in Uids : v # job.uid => acct'[v] = acct[v]
  BY <1>1, <1>2 DEF IInv, Shapes
<1>5. AccountShape(acct'[job.uid]) /\ acct'[job.uid].status = "purged"
  <2>1. AccountShape(acct[job.uid])
    BY <1>2 DEF IInv, Shapes
  <2>2. QED
    BY <1>3, <2>1 DEF AccountShape
<1>6. JobShape(job') /\ Quiet(job')
  BY DEF PurgeEntombs, Goto, IInv, Shapes, JobShape, Quiet, CreateStages, PurgeStages
<1>7. Shapes'
  BY <1>1, <1>4, <1>5, <1>6 DEF IInv, Shapes
<1>8. UidInv'
  BY <1>1 DEF IInv, UidInv
<1>9. IntentInv'
  <2>1. \A i \in intents : ~i.done => i.uid \in Uids /\ i.uid # job.uid
    BY <1>2 DEF IInv, Shapes, IntentShape, IntentInv
  <2>2. QED
    BY <1>1, <1>4, <2>1 DEF IInv, IntentInv
<1>10. IdentityInv'
  <2> SUFFICES ASSUME NEW v \in Uids
               PROVE  /\ os[v] # {} => Exists(v)' \/ Pending(v)
                      /\ Exists(v)' /\ os[v] # Pieces => v \in purging
                      /\ "owned" \in os[v] => "home" \in os[v]
    BY <1>1 DEF IdentityInv, Pending
  <2>1. CASE v = job.uid
    BY <2>1, <1>2, <1>5 DEF Exists
  <2>2. CASE v # job.uid
    BY <2>2, <1>4 DEF IInv, IdentityInv, Exists
  <2>3. QED
    BY <2>1, <2>2
<1>11. ReservingInv' /\ CreatingInv' /\ PurgingInv'
  BY <1>6 DEF Quiet, ReservingInv, CreatingInv, PurgingInv
<1>12. QED
  BY <1>7, <1>8, <1>9, <1>10, <1>11 DEF IInv

-----------------------------------------------------------------------------
\* A stuttering step.
LEMMA StutterKeeps == ASSUME IInv, UNCHANGED vars PROVE IInv'
<1>1. IdentityKept /\ WaitingShape /\ job' = job
  BY DEF vars, IInv, Shapes, IdentityKept, SameStatus, WaitingShape
<1>2. QED
  BY <1>1, StillStep

\* The invariant of the identities holds in every reachable state.
THEOREM Identities == Spec => []IInv
<1>1. IInv /\ [Next]_vars => IInv'
  <2> SUFFICES ASSUME IInv, [Next]_vars PROVE IInv'
    OBVIOUS
  <2>1. CASE Removals
    BY <2>1, TransitionKeeps, PurgeStartsKeeps, RemovesKeeps, PurgeEntombsKeeps DEF Removals
  <2>2. QED
    BY <2>1, AsksKeeps, CreationKeeps, ResizesKeeps, EndsKeeps, StutterKeeps DEF Next
<1>2. QED
  BY <1>1, InitInv, PTL DEF Spec

(* provision, create_admin, cancel_pending and purge_deleted never give a  *)
(* uid to two accounts, for any number of accounts, requests and crashes.  *)
THEOREM NoUidTwice == Spec => []UidIssuedOnce
<1>1. IInv => UidIssuedOnce
  BY DEF IInv, Shapes, UidIssuedOnce
<1>2. QED
  BY <1>1, Identities, PTL

(* No user, group or home is left behind by an interrupted creation or      *)
(* purge without a record from which the next command goes on.             *)
THEOREM NoOrphanIdentity == Spec => []IdentityAccountedFor
<1>1. IInv => IdentityAccountedFor
  BY DEF IInv, IdentityInv, IdentityAccountedFor, Pending
<1>2. QED
  BY <1>1, Identities, PTL

-----------------------------------------------------------------------------
(* What the sums of the store do when one row changes. *)

Total(is, o, e) == Promised({i \in is : i.owner = o /\ ~i.done /\ i.req # e})
Quotas(f) == [u \in Uids |-> f[u].quota]
ChildrenOf(f, a) == {u \in Uids : f[u].owner = a}
Children(f, a) == SumFunctionOnSet(Quotas(f), ChildrenOf(f, a))

\* The queries as functions of the tables they read.
LEMMA Queries ==
  /\ \A o, e : PendingReserved(o, e) = Total(intents, o, e)
  /\ \A a : ChildQuotas(a) = Children(acct, a)
  /\ \A a, e : Allocated(a, e) = Children(acct, a) + Total(intents, a, e)
  BY DEF PendingReserved, Total, ChildQuotas, Children, Quotas, ChildrenOf, Allocated

Priced(is) == IsFiniteSet(is) /\ \A i \in is : i.quota \in Nat

\* Bytes of some intents, and of one more.
LEMMA PromisedFacts ==
  ASSUME NEW is, Priced(is)
  PROVE  /\ Promised(is) \in Nat
         /\ \A x \in is : Promised(is) = x.quota + Promised(is \ {x}) /\ Promised(is \ {x}) \in Nat
<1> DEFINE f == [i \in is |-> i.quota]
<1>1. \A i \in is : f[i] \in Nat
  BY DEF Priced
<1>2. Promised(is) = SumFunctionOnSet(f, is) /\ Promised(is) \in Nat
  BY <1>1, SumType DEF Promised, Priced
<1>3. ASSUME NEW x \in is PROVE Promised(is) = x.quota + Promised(is \ {x}) /\ Promised(is \ {x}) \in Nat
  <2> DEFINE g == [i \in is \ {x} |-> i.quota]
  <2>1. IsFiniteSet(is \ {x}) /\ \A i \in is \ {x} : f[i] = g[i] /\ f[i] \in Nat /\ g[i] \in Nat
    BY <1>1, FS_Subset DEF Priced
  <2>2. SumFunctionOnSet(f, is \ {x}) = SumFunctionOnSet(g, is \ {x}) /\ SumFunctionOnSet(g, is \ {x}) \in Nat
    <3> HIDE DEF f, g
    <3>1. QED
      BY <2>1, SumSame, SumType
  <2>3. SumFunctionOnSet(f, is) = f[x] + SumFunctionOnSet(f, is \ {x})
    <3> HIDE DEF f
    <3>1. QED
      BY <1>1, SumRemove DEF Priced
  <2>4. QED
    BY <1>2, <2>2, <2>3 DEF Promised
<1>4. QED
  BY <1>2, <1>3

\* Nothing promised.
LEMMA PromisedNone == Promised({}) = 0
  BY SumUnfold, FS_EmptySet DEF Promised

\* One intent more.
LEMMA TotalAdds ==
  ASSUME NEW is, Priced(is), NEW x, x \notin is, x.quota \in Nat, NEW o, NEW e
  PROVE  /\ Total(is, o, e) \in Nat
         /\ Total(is \cup {x}, o, e) =
              Total(is, o, e) + IF x.owner = o /\ ~x.done /\ x.req # e THEN x.quota ELSE 0
<1> DEFINE A == {i \in is : i.owner = o /\ ~i.done /\ i.req # e}
           B == {i \in is \cup {x} : i.owner = o /\ ~i.done /\ i.req # e}
<1>1. IsFiniteSet(is \cup {x}) /\ A \subseteq is /\ B \subseteq is \cup {x} /\ x \notin A
  BY FS_AddElement DEF Priced
<1>2. Priced(A) /\ Priced(B)
  BY <1>1, FS_Subset DEF Priced
<1>3. Promised(A) \in Nat /\ Total(is, o, e) = Promised(A) /\ Total(is \cup {x}, o, e) = Promised(B)
  BY <1>2, PromisedFacts DEF Total
<1>4. CASE x.owner = o /\ ~x.done /\ x.req # e
  <2>1. x \in B /\ B \ {x} = A
    BY <1>1, <1>4
  <2>2. Promised(B) = x.quota + Promised(A)
    BY <1>2, <2>1, PromisedFacts
  <2>3. QED
    BY <1>3, <1>4, <2>2
<1>5. CASE ~(x.owner = o /\ ~x.done /\ x.req # e)
  <2>1. B = A
    BY <1>5
  <2>2. QED
    BY <1>3, <1>5, <2>1
<1>6. QED
  BY <1>4, <1>5

\* One intent less.
LEMMA TotalLoses ==
  ASSUME NEW is, Priced(is), NEW x \in is, NEW o, NEW e
  PROVE  /\ Total(is, o, e) \in Nat /\ Total(is \ {x}, o, e) \in Nat
         /\ Total(is, o, e) =
              Total(is \ {x}, o, e) + IF x.owner = o /\ ~x.done /\ x.req # e THEN x.quota ELSE 0
<1> DEFINE js == is \ {x}
<1>1. Priced(js) /\ x \notin js /\ x.quota \in Nat /\ is = js \cup {x}
  BY FS_Subset DEF Priced
<1>2. /\ Total(js, o, e) \in Nat
      /\ Total(js \cup {x}, o, e) =
           Total(js, o, e) + IF x.owner = o /\ ~x.done /\ x.req # e THEN x.quota ELSE 0
  <2> HIDE DEF js
  <2>1. QED
    BY <1>1, TotalAdds
<1>3. QED
  BY <1>1, <1>2

\* The row of one uid changes.
LEMMA SumUpdate ==
  ASSUME NEW S, IsFiniteSet(S), NEW f, NEW g, NEW u \in S,
         \A x \in S : f[x] \in Nat /\ g[x] \in Nat, \A x \in S : x # u => f[x] = g[x]
  PROVE  /\ SumFunctionOnSet(f, S) \in Nat /\ SumFunctionOnSet(g, S) \in Nat
         /\ SumFunctionOnSet(g, S) = SumFunctionOnSet(f, S) - f[u] + g[u]
<1> DEFINE T == S \ {u}
<1>1. IsFiniteSet(T) /\ \A x \in T : f[x] = g[x] /\ f[x] \in Nat
  BY FS_Subset
<1>2. SumFunctionOnSet(f, T) = SumFunctionOnSet(g, T) /\ SumFunctionOnSet(f, T) \in Nat
  <2> HIDE DEF T
  <2>1. QED
    BY <1>1, SumSame, SumType
<1>3. SumFunctionOnSet(f, S) = f[u] + SumFunctionOnSet(f, T) /\ SumFunctionOnSet(g, S) = g[u] + SumFunctionOnSet(g, T)
  BY SumRemove
<1>4. QED
  BY <1>2, <1>3

Held(f, u, a) == IF f[u].owner = a THEN f[u].quota ELSE 0

\* The account of one uid changes.
LEMMA ChildrenUpdate ==
  ASSUME NEW f, NEW g, NEW u \in Uids, NEW a,
         \A x \in Uids : f[x].quota \in Nat /\ g[x].quota \in Nat, \A x \in Uids : x # u => f[x] = g[x]
  PROVE  /\ Children(f, a) \in Nat /\ Children(g, a) \in Nat /\ Held(f, u, a) \in Nat
         /\ Held(f, u, a) <= Children(f, a)
         /\ Children(g, a) = Children(f, a) - Held(f, u, a) + Held(g, u, a)
<1> DEFINE A == ChildrenOf(f, a)
           B == ChildrenOf(g, a)
           T == A \ {u}
<1>1. T = B \ {u} /\ (u \in A <=> f[u].owner = a) /\ (u \in B <=> g[u].owner = a) /\ A \subseteq Uids /\ B \subseteq Uids
  BY DEF ChildrenOf
<1>2. IsFiniteSet(A) /\ IsFiniteSet(B) /\ IsFiniteSet(T)
  BY <1>1, FS_Subset, AllocationConstants
<1>3. /\ \A x \in Uids : Quotas(f)[x] \in Nat /\ Quotas(g)[x] \in Nat
      /\ \A x \in T : Quotas(f)[x] = Quotas(g)[x]
      /\ Quotas(f)[u] = f[u].quota /\ Quotas(g)[u] = g[u].quota
  BY <1>1 DEF Quotas
<1>4. /\ SumFunctionOnSet(Quotas(f), T) = SumFunctionOnSet(Quotas(g), T)
      /\ SumFunctionOnSet(Quotas(f), T) \in Nat
  <2>1. \A x \in T : Quotas(f)[x] \in Nat
    BY <1>1, <1>3
  <2> HIDE DEF T
  <2>2. QED
    BY <1>2, <1>3, <2>1, SumSame, SumType
<1>0. Children(f, a) = SumFunctionOnSet(Quotas(f), A) /\ Children(g, a) = SumFunctionOnSet(Quotas(g), B)
  BY DEF Children
<1> HIDE DEF A, B, T
<1>5. Children(f, a) = SumFunctionOnSet(Quotas(f), T) + Held(f, u, a)
  <2>1. CASE u \in A
    <3>1. \A x \in A : Quotas(f)[x] \in Nat
      BY <1>1, <1>3
    <3>2. SumFunctionOnSet(Quotas(f), A) = Quotas(f)[u] + SumFunctionOnSet(Quotas(f), T)
      BY <1>2, <2>1, <3>1, SumRemove DEF T
    <3>3. QED
      BY <1>0, <1>1, <1>3, <1>4, <2>1, <3>2 DEF Held
  <2>2. CASE u \notin A
    <3>1. T = A
      BY <2>2 DEF T
    <3>2. Children(f, a) = SumFunctionOnSet(Quotas(f), T)
      BY <1>0, <3>1, Zenon
    <3>3. Held(f, u, a) = 0 /\ SumFunctionOnSet(Quotas(f), T) \in Nat
      BY <1>1, <1>4, <2>2 DEF Held
    <3>4. QED
      BY <3>2, <3>3
  <2>3. QED
    BY <2>1, <2>2
<1>6. Children(g, a) = SumFunctionOnSet(Quotas(g), T) + Held(g, u, a)
  <2>1. CASE u \in B
    <3>1. \A x \in B : Quotas(g)[x] \in Nat
      BY <1>1, <1>3
    <3>2. SumFunctionOnSet(Quotas(g), B) = Quotas(g)[u] + SumFunctionOnSet(Quotas(g), B \ {u})
      BY <1>2, <2>1, <3>1, SumRemove
    <3>3. QED
      BY <1>0, <1>1, <1>3, <1>4, <2>1, <3>2 DEF Held
  <2>2. CASE u \notin B
    <3>1. T = B
      BY <1>1, <2>2
    <3>2. Children(g, a) = SumFunctionOnSet(Quotas(g), T)
      BY <1>0, <3>1, Zenon
    <3>3. Held(g, u, a) = 0 /\ SumFunctionOnSet(Quotas(g), T) \in Nat
      BY <1>1, <1>4, <2>2 DEF Held
    <3>4. QED
      BY <3>2, <3>3
  <2>3. QED
    BY <2>1, <2>2
<1>7. Held(f, u, a) \in Nat /\ Held(g, u, a) \in Nat
  BY DEF Held
<1>8. QED
  BY <1>4, <1>5, <1>6, <1>7

-----------------------------------------------------------------------------
(* Bytes. *)

Administrator(a) == a \in Uids /\ IsAdmin(a)

\* What every request for the lock, and its holder, has right of the accounts.
Request(j) ==
  /\ j.kind \in {"none", "sync"} => j.pc = "start"
  /\ j.kind = "create" =>
       /\ Administrator(j.owner) /\ j.req \in Requests
       /\ j.pc \in {"start", "intent"} \cup CreateStages /\ (j.pc # "start" => j.uid \in Uids)
  /\ j.kind = "admin" => j.owner = Root /\ j.req \in Requests /\ j.uid \in Uids /\ j.pc \in CreateStages
  /\ j.kind = "quota" =>
       /\ j.uid \in Uids /\ Administrator(j.owner) /\ acct[j.uid].owner = j.owner
       /\ acct[j.uid].status # "none" /\ acct[j.uid].role = "user"
       /\ j.pc \in {"start", "commit", "child", "parent"}
  /\ j.kind \in LimitKinds => Administrator(j.owner) /\ j.bytes > 0 /\ j.pc \in {"start", "commit", "parent"}
  /\ j.kind = "cancel" => Administrator(j.owner) /\ j.pc = "parent"
  /\ j.kind = "purge" => Administrator(j.owner) /\ j.uid \in Uids /\ j.pc \in PurgeStages \cup {"parent", "next"}

\* What was checked before the commit still holds at the commit: no other
\* transaction gets in between.
Committing ==
  LET a == job.owner IN
  /\ At("quota", "commit") =>
       job.bytes <= budget[a] - (Allocated(a, NoRequest) - acct[job.uid].quota) - own[a]
  /\ At("budget", "commit") =>
       /\ job.bytes >= Allocated(a, NoRequest) + own[a]
       /\ job.bytes <= pool - (Delegated - budget[a]) - PendingReserved(Root, NoRequest)
  /\ At("own", "commit") => job.bytes <= budget[a] - Allocated(a, NoRequest)

\* A uid without an account has no budget, a child and an intent have an
\* administrator, and generations stay within the bound until the purge.
AccountsInv ==
  /\ \A u \in Uids :
       /\ acct[u].gen <= MaxGen \/ acct[u].status = "purged"
       /\ acct[u].status = "none" => budget[u] = 0
       /\ acct[u].status # "none" /\ acct[u].role = "user" => Administrator(acct[u].owner)
  /\ \A i \in intents : i.owner = Root \/ Administrator(i.owner)

BytesInv ==
  /\ TypeOK /\ IsFiniteSet(intents)
  /\ NeverOverAllocated /\ AccountsInv /\ Committing
  /\ Request(job) /\ \A h \in Helpers : Request(waiting[h])

\* The sums are numbers.
LEMMA SumsTyped ==
  ASSUME NEW is, Priced(is), NEW f, \A u \in Uids : f[u].quota \in Nat, NEW o, NEW e
  PROVE  Total(is, o, e) \in Nat /\ Children(f, o) \in Nat
<1>1. Total(is, o, e) \in Nat
  <2> DEFINE A == {i \in is : i.owner = o /\ ~i.done /\ i.req # e}
  <2>1. A \subseteq is
    OBVIOUS
  <2>2. Priced(A)
    BY <2>1, FS_Subset DEF Priced
  <2>3. QED
    BY <2>2, PromisedFacts DEF Total
<1>2. Children(f, o) \in Nat
  <2>1. ChildrenOf(f, o) \subseteq Uids /\ \A u \in Uids : Quotas(f)[u] \in Nat
    BY DEF ChildrenOf, Quotas
  <2>2. IsFiniteSet(ChildrenOf(f, o))
    BY <2>1, FS_Subset, AllocationConstants
  <2>3. QED
    BY <2>1, <2>2, SumType DEF Children
<1>3. QED
  BY <1>1, <1>2

\* What the invariant says of the numbers.
LEMMA Amounts ==
  ASSUME BytesInv
  PROVE  /\ Priced(intents) /\ \A u \in Uids : acct[u] \in Account /\ acct[u].quota \in Nat
         /\ \A o, e : PendingReserved(o, e) \in Nat /\ ChildQuotas(o) \in Nat /\ Allocated(o, e) \in Nat
         /\ \A o, e : Allocated(o, e) = ChildQuotas(o) + PendingReserved(o, e)
         /\ Delegated \in Nat
         /\ \A u \in Uids : /\ budget[u] \in Nat /\ own[u] \in Nat
                            /\ Allocated(u, NoRequest) + own[u] <= budget[u]
                            /\ EffectiveQuota(u) \in Nat
<1>1. Priced(intents) /\ \A u \in Uids : acct[u] \in Account /\ acct[u].quota \in Nat
  BY DEF BytesInv, TypeOK, Priced, Intent, Account
<1>2. \A o, e : /\ PendingReserved(o, e) \in Nat /\ ChildQuotas(o) \in Nat /\ Allocated(o, e) \in Nat
                /\ Allocated(o, e) = ChildQuotas(o) + PendingReserved(o, e)
  BY <1>1, SumsTyped, Queries
<1>3. \A u \in Uids : budget[u] \in Nat /\ own[u] \in Nat
  BY DEF BytesInv, TypeOK
<1>4. Delegated \in Nat
  BY <1>3, AllocationConstants, SumType DEF Delegated
<1>5. \A u \in Uids : Allocated(u, NoRequest) + own[u] <= budget[u]
  BY DEF BytesInv, NeverOverAllocated
<1>6. \A u \in Uids : EffectiveQuota(u) \in Nat
  BY <1>1, <1>2, <1>3, <1>5 DEF EffectiveQuota
<1>7. QED
  BY <1>1, <1>2, <1>3, <1>4, <1>5, <1>6

\* The idle job asks for nothing.
LEMMA IdleFine == Idle \in Job /\ Request(Idle) /\ Idle.pc = "start" /\ Idle.kind = "none"
  BY AllocationConstants DEF Idle, Job, Generations, NoRequest, Request, LimitKinds

\* A limit written to the kernel.
LEMMA NativeTyped ==
  ASSUME BytesInv, NEW u, NEW b \in Int, NativeSet(u, b) PROVE native' \in [Uids -> Nat]
<1>1. NativeLimit(b) \in Nat
  BY DEF NativeLimit
<1>2. QED
  BY <1>1 DEF NativeSet, BytesInv, TypeOK

\* A step that leaves the database alone.
LEMMA StillBytes ==
  ASSUME BytesInv, UNCHANGED db, os' \in [Uids -> SUBSET Pieces], native' \in [Uids -> Nat],
         waiting' \in [Helpers -> Job], \A h \in Helpers : Request(waiting'[h]),
         job' \in Job, Request(job'), job'.pc = "commit" => Committing'
  PROVE  BytesInv'
<1>0. UNCHANGED <<pool, acct, budget, own, intents, retired, purging, issued>>
  BY DEF db
<1>1. TypeOK' /\ IsFiniteSet(intents')
  BY <1>0 DEF BytesInv, TypeOK
<1>2. /\ \A o, e : PendingReserved(o, e)' = PendingReserved(o, e) /\ Allocated(o, e)' = Allocated(o, e)
      /\ Delegated' = Delegated
  BY <1>0 DEF PendingReserved, Allocated, ChildQuotas, Delegated
<1>3. NeverOverAllocated'
  BY <1>0, <1>2 DEF BytesInv, NeverOverAllocated
<1>4. AccountsInv' /\ Request(job)' /\ \A h \in Helpers : Request(waiting[h])'
  BY <1>0 DEF BytesInv, AccountsInv, Request, Administrator, IsAdmin
<1>5. Committing'
  BY DEF Committing, At
<1>6. QED
  BY <1>1, <1>3, <1>4, <1>5 DEF BytesInv

\* The job moves to another step of its own, or the lock is free again.
LEMMA JobFine ==
  ASSUME BytesInv
  PROVE  /\ job \in Job /\ waiting \in [Helpers -> Job] /\ Request(job)
         /\ \A h \in Helpers : waiting[h] \in Job /\ Request(waiting[h]) /\ waiting[h].pc \in
              {"start", "intent", "group", "user", "home", "limit", "owned", "account", "commit", "child",
               "parent", "clear", "userdel", "groupdel", "tombstone", "next"}
         /\ native \in [Uids -> Nat] /\ os \in [Uids -> SUBSET Pieces] /\ pool \in Nat
         /\ acct \in [Uids -> Account] /\ budget \in [Uids -> Nat] /\ own \in [Uids -> Nat]
         /\ job.bytes \in Nat /\ job.old \in Nat /\ job.limit \in Nat
  BY DEF BytesInv, TypeOK, Job

\* What helpers ask for, and who gets the lock.
LEMMA AsksBytes == ASSUME IInv, BytesInv, Asks PROVE BytesInv'
<1>0. /\ UNCHANGED <<db, os, native>>
      /\ os' \in [Uids -> SUBSET Pieces] /\ native' \in [Uids -> Nat]
  BY JobFine DEF Asks, AskCreate, AskQuota, Lock, Abandon
<1>1. ASSUME NEW h \in Helpers, NEW j \in Job, Request(j), waiting' = [waiting EXCEPT ![h] = j],
             job' \in Job, Request(job'), job' = job \/ job'.pc = "start"
      PROVE  BytesInv'
  <2>1. waiting' \in [Helpers -> Job] /\ \A k \in Helpers : Request(waiting'[k])
    BY <1>1, JobFine
  <2>2. job'.pc = "commit" => Committing'
    <3>1. CASE job' = job
      BY <1>0, <3>1 DEF BytesInv, Committing, At, db, Allocated, ChildQuotas, PendingReserved, Delegated
    <3>2. CASE job'.pc = "start"
      BY <3>2
    <3>3. QED
      BY <1>1, <3>1, <3>2
  <2>3. QED
    BY <1>0, <1>1, <2>1, <2>2, StillBytes
<1>2. ASSUME NEW h \in Helpers, NEW a \in Uids, NEW r \in Requests, NEW q \in Sizes, AskCreate(h, a, r, q)
      PROVE  BytesInv'
  <2> DEFINE j == [Idle EXCEPT !.kind = "create", !.by = h, !.owner = a, !.req = r, !.auth = acct[a].gen, !.bytes = q]
  <2>1. acct[a] \in Account /\ q \in Nat /\ 0 \in Generations
    BY JobFine, AllocationConstants DEF Generations
  <2>2. acct[a].gen \in Generations
    BY <2>1 DEF Account
  <2>0. j \in Job /\ j.kind = "create" /\ j.owner = a /\ j.req = r /\ j.pc = "start"
    BY <2>1, <2>2 DEF Job, Idle
  <2>3. Request(j)
    BY <1>2, <2>0 DEF AskCreate, Request, Administrator, LimitKinds
  <2>4. waiting' = [waiting EXCEPT ![h] = j] /\ job' = job
    BY <1>2 DEF AskCreate
  <2>5. QED
    BY <1>1, <2>0, <2>3, <2>4, JobFine
<1>3. ASSUME NEW h \in Helpers, NEW u \in Uids, NEW q \in Sizes, NEW auth \in 0..MaxGen \cup {Root},
             AskQuota(h, u, q, auth)
      PROVE  BytesInv'
  <2> DEFINE j == [Idle EXCEPT !.kind = "quota", !.by = h, !.owner = acct[u].owner, !.uid = u, !.auth = auth,
                               !.gen = acct[u].gen, !.bytes = q, !.old = acct[u].quota]
  <2>1. /\ acct[u].gen \in Generations /\ acct[u].quota \in Nat /\ acct[u].owner \in Uids \cup {Root} /\ q \in Nat
        /\ auth \in Generations \cup {Root}
    BY JobFine, AllocationConstants DEF Account, Generations
  <2>2. j \in Job /\ j.kind = "quota" /\ j.owner = acct[u].owner /\ j.uid = u /\ j.pc = "start"
    BY <2>1, AllocationConstants DEF Job, Idle, Generations, NoRequest
  <2>3. Request(j)
    BY <1>3, <2>2 DEF AskQuota, Exists, BytesInv, AccountsInv, Request, LimitKinds
  <2>4. waiting' = [waiting EXCEPT ![h] = j] /\ job' = job
    BY <1>3 DEF AskQuota
  <2>5. QED
    BY <1>1, <2>2, <2>3, <2>4, JobFine
<1>4. ASSUME NEW h \in Helpers, Lock(h) PROVE BytesInv'
  BY <1>1, <1>4, IdleFine, JobFine DEF Lock, IInv, Shapes
<1>5. ASSUME NEW h \in Helpers, Abandon(h) PROVE BytesInv'
  BY <1>1, <1>5, IdleFine, JobFine DEF Abandon
<1>6. QED
  BY <1>2, <1>3, <1>4, <1>5 DEF Asks

\* A step of the job, or its end, that leaves the database alone.
LEMMA JobStep ==
  ASSUME BytesInv, UNCHANGED <<db, waiting>>, os' \in [Uids -> SUBSET Pieces], native' \in [Uids -> Nat],
         job' \in Job, Request(job'), job'.pc = "commit" => Committing'
  PROVE  BytesInv'
  BY StillBytes, JobFine

\* ... to another pc.
LEMMA JobMoves ==
  ASSUME BytesInv, NEW x \in {"intent", "group", "user", "home", "limit", "owned", "account", "child",
                              "parent", "clear", "userdel", "groupdel", "tombstone", "next"},
         job' = [job EXCEPT !.pc = x]
  PROVE  /\ job' \in Job /\ job'.pc = x /\ job'.kind = job.kind /\ job'.owner = job.owner /\ job'.uid = job.uid
         /\ job'.req = job.req /\ job'.bytes = job.bytes
  BY JobFine DEF Job

\* Creation, up to where the database changes.
LEMMA CreationBytes ==
  ASSUME BytesInv, IInv, CreateResumes \/ CreateLowers \/ CreateRefused
         \/ MakesGroup \/ MakesUser \/ MakesHome \/ LimitsChild \/ HandsOver \/ Ends
  PROVE  BytesInv'
<1>0. job.kind = "create" => /\ job.owner \in Uids /\ EffectiveQuota(job.owner) \in Nat /\ own[job.owner] \in Nat
                             /\ Administrator(job.owner) /\ job.req \in Requests
  BY JobFine, Amounts DEF Request, Administrator
<1>1. CASE CreateResumes
  <2>1. PICK i \in intents : job' = [job EXCEPT !.pc = "group", !.uid = i.uid]
    BY <1>1 DEF CreateResumes, IntentsOf
  <2>2. job.kind = "create" /\ i.uid \in Uids
    BY <1>1 DEF CreateResumes, At, BytesInv, TypeOK, Intent
  <2>3. job' \in Job /\ job'.pc = "group" /\ job'.kind = "create" /\ job'.owner = job.owner /\ job'.uid = i.uid
        /\ job'.req = job.req
    BY <2>1, <2>2, JobFine DEF Job
  <2>4. Request(job')
    BY <1>0, <2>2, <2>3 DEF Request, LimitKinds, CreateStages
  <2>5. native' \in [Uids -> Nat]
    <3>1. NativeSet(job.owner, EffectiveQuota(job.owner))
      BY <1>1, Zenon DEF CreateResumes
    <3>2. EffectiveQuota(job.owner) \in Int
      BY <1>0, <2>2
    <3>3. QED
      BY <3>1, <3>2, NativeTyped
  <2>6. UNCHANGED <<db, waiting, os>>
    BY <1>1 DEF CreateResumes
  <2>7. QED
    BY <2>3, <2>4, <2>5, <2>6, JobStep, JobFine
<1>2. CASE CreateLowers
  <2>1. job.kind = "create" /\ UNCHANGED <<db, waiting, os>>
    BY <1>2 DEF CreateLowers, At
  <2>2. PICK u \in Uids : job' = [job EXCEPT !.pc = "intent", !.uid = u, !.limit = EffectiveQuota(job.owner)]
    BY <1>2 DEF CreateLowers, FreeUids
  <2>3. job' \in Job /\ job'.pc = "intent" /\ job'.kind = "create" /\ job'.owner = job.owner /\ job'.uid = u
        /\ job'.req = job.req
    BY <1>0, <2>1, <2>2, JobFine DEF Job
  <2>4. Request(job')
    BY <1>0, <2>1, <2>3 DEF Request, LimitKinds
  <2>5. native' \in [Uids -> Nat]
    <3>1. NativeSet(job.owner, IF own[job.owner] > 0 THEN EffectiveQuota(job.owner)
                               ELSE EffectiveQuota(job.owner) - job.bytes)
      BY <1>2 DEF CreateLowers
    <3>2. (IF own[job.owner] > 0 THEN EffectiveQuota(job.owner) ELSE EffectiveQuota(job.owner) - job.bytes) \in Int
      BY <1>0, <2>1, JobFine
    <3>3. QED
      BY <3>1, <3>2, NativeTyped
  <2>6. QED
    BY <2>1, <2>3, <2>4, <2>5, JobStep, JobFine
<1>3. CASE CreateRefused
  <2>1. UNCHANGED <<db, waiting, os>> /\ job' = Idle /\ native' \in [Uids -> Nat]
    BY <1>3, NativeTyped, JobFine DEF CreateRefused
  <2>2. QED
    BY <2>1, JobStep, JobFine, IdleFine
<1>4. ASSUME NEW piece \in Pieces, NEW next \in {"user", "home", "limit", "account"}, MakesPiece(piece, next)
      PROVE  BytesInv'
  <2>1. /\ UNCHANGED <<db, waiting, native>> /\ Creating /\ job.pc = piece
        /\ job' = [job EXCEPT !.pc = next] /\ os' = [os EXCEPT ![job.uid] = @ \cup {piece}]
    BY <1>4 DEF MakesPiece, Goto
  <2>2. /\ job' \in Job /\ job'.pc = next /\ job'.kind = job.kind /\ job'.owner = job.owner /\ job'.uid = job.uid
        /\ job'.req = job.req
    BY <2>1, JobMoves
  <2>3. job.uid \in Uids /\ Request(job')
    BY <2>1, <2>2, JobFine DEF Request, Creating, CreateStages, LimitKinds, Pieces
  <2>4. os' \in [Uids -> SUBSET Pieces]
    BY <2>1, <2>3, JobFine
  <2>5. QED
    BY <2>1, <2>2, <2>3, <2>4, JobStep, JobFine
<1>5. CASE MakesGroup \/ MakesUser \/ MakesHome \/ HandsOver
  BY <1>4, <1>5 DEF MakesGroup, MakesUser, MakesHome, HandsOver, Pieces
<1>6. CASE LimitsChild
  <2>1. UNCHANGED <<db, waiting, os>> /\ Creating /\ job.pc = "limit" /\ job' = [job EXCEPT !.pc = "owned"]
    BY <1>6 DEF LimitsChild, Goto
  <2>2. /\ job' \in Job /\ job'.pc = "owned" /\ job'.kind = job.kind /\ job'.owner = job.owner /\ job'.uid = job.uid
        /\ job'.req = job.req
    BY <2>1, JobMoves
  <2>3. Request(job')
    BY <2>1, <2>2, JobFine DEF Request, Creating, CreateStages, LimitKinds
  <2>4. native' \in [Uids -> Nat]
    BY <1>6, NativeTyped, JobFine DEF LimitsChild
  <2>5. QED
    BY <2>1, <2>2, <2>3, <2>4, JobStep, JobFine
<1>7. CASE Ends
  BY <1>7, JobStep, JobFine, IdleFine DEF Ends
<1>8. QED
  BY <1>1, <1>2, <1>3, <1>5, <1>6, <1>7

\* A job that gets to its commit has passed the check of its transaction.
LEMMA CommitReached ==
  ASSUME BytesInv, UNCHANGED db, job' \in Job, job'.owner = job.owner, job'.uid = job.uid,
         job'.bytes = job.bytes, job'.kind = job.kind,
         \/ job.kind = "quota" /\ QuotaFits
         \/ job.kind \in LimitKinds /\ LimitFits
  PROVE  Committing'
<1>0. UNCHANGED <<pool, acct, budget, own, intents>>
  BY DEF db
<1>1. /\ \A o, e : PendingReserved(o, e)' = PendingReserved(o, e) /\ Allocated(o, e)' = Allocated(o, e)
      /\ Delegated' = Delegated
  BY <1>0 DEF PendingReserved, Allocated, ChildQuotas, Delegated
<1>2. CASE job.kind = "quota" /\ QuotaFits
  BY <1>0, <1>1, <1>2 DEF Committing, At, QuotaFits
<1>3. CASE job.kind \in LimitKinds /\ LimitFits
  <2>1. LimitKinds = {"budget", "own"}
    BY DEF LimitKinds
  <2>2. QED
    BY <1>0, <1>1, <1>3, <2>1 DEF Committing, At, LimitFits
<1>4. QED
  BY <1>2, <1>3

\* What is left after a change is no negative number.
LEMMA Remainders ==
  ASSUME BytesInv
  PROVE  /\ job.kind = "quota" =>
              /\ job.owner \in Uids /\ job.uid \in Uids /\ Remainder \in Int
              /\ (QuotaFits => Remainder \in Nat)
         /\ job.kind \in LimitKinds =>
              /\ job.owner \in Uids /\ LimitAfter \in Int
              /\ (LimitFits => LimitAfter \in Nat)
<1>1. ASSUME job.kind = "quota"
      PROVE  /\ job.owner \in Uids /\ job.uid \in Uids /\ Remainder \in Int
             /\ (QuotaFits => Remainder \in Nat)
  <2>1. job.owner \in Uids /\ job.uid \in Uids
    BY <1>1, JobFine DEF Request, Administrator
  <2>2. /\ budget[job.owner] \in Nat /\ own[job.owner] \in Nat /\ Allocated(job.owner, NoRequest) \in Nat
        /\ acct[job.uid].quota \in Nat /\ job.bytes \in Nat
    BY <2>1, Amounts, JobFine
  <2>3. QED
    BY <2>1, <2>2 DEF Remainder, QuotaFits
<1>2. ASSUME job.kind \in LimitKinds
      PROVE  /\ job.owner \in Uids /\ LimitAfter \in Int
             /\ (LimitFits => LimitAfter \in Nat)
  <2>1. job.owner \in Uids
    BY <1>2, JobFine DEF Request, Administrator
  <2>2. budget[job.owner] \in Nat /\ own[job.owner] \in Nat /\ Allocated(job.owner, NoRequest) \in Nat /\ job.bytes \in Nat
    BY <2>1, Amounts, JobFine
  <2>3. QED
    BY <2>1, <2>2 DEF LimitAfter, LimitFits
<1>3. QED
  BY <1>1, <1>2

\* One entry of the kernel's limits changes, or none.
LEMMA NativeOne ==
  ASSUME BytesInv, NEW u, NEW b \in Int, native' = [native EXCEPT ![u] = NativeLimit(b)] \/ native' = native
  PROVE  native' \in [Uids -> Nat]
  BY NativeTyped, JobFine DEF NativeSet

\* Changes of limits, up to where the database changes.
LEMMA ResizeBytes ==
  ASSUME BytesInv,
         \/ QuotaLowers \/ QuotaFails \/ QuotaRaisesChild
         \/ \E kind \in LimitKinds, a \in Uids, b \in Sizes : LimitStarts(kind, a, b)
         \/ LimitLowers \/ LimitFails \/ RaisesParent \/ SyncStarts
         \/ \E u \in Uids : Syncs(u)
  PROVE  BytesInv'
<1>1. CASE QuotaLowers
  <2>1. /\ job.kind = "quota" /\ job.pc = "start" /\ QuotaFits /\ UNCHANGED <<db, os, waiting>>
        /\ job' = [job EXCEPT !.pc = "commit", !.limit = Remainder]
    BY <1>1 DEF QuotaLowers, At
  <2>2. Remainder \in Nat
    BY <2>1, Remainders
  <2>3. /\ job' \in Job /\ job'.pc = "commit" /\ job'.kind = "quota" /\ job'.owner = job.owner
        /\ job'.uid = job.uid /\ job'.bytes = job.bytes
    BY <2>1, <2>2, JobFine DEF Job
  <2>4. Request(job') /\ Committing'
    BY <2>1, <2>3, JobFine, CommitReached DEF Request, LimitKinds
  <2>5. native' \in [Uids -> Nat]
    <3>1. \/ native' = [native EXCEPT ![job.owner] = NativeLimit(Remainder)]
          \/ native' = [native EXCEPT ![job.uid] = NativeLimit(job.bytes)]
          \/ native' = native
      BY <1>1, JobFine DEF QuotaLowers
    <3>2. QED
      BY <2>2, <3>1, NativeOne, JobFine
  <2>6. QED
    BY <2>1, <2>3, <2>4, <2>5, JobStep, JobFine
<1>2. CASE QuotaFails
  <2>1. job.kind = "quota" /\ UNCHANGED <<db, os, waiting>> /\ job' = Idle
    BY <1>2 DEF QuotaFails
  <2>2. EffectiveQuota(job.owner) \in Nat
    BY <2>1, Remainders, Amounts
  <2>3. native' \in [Uids -> Nat]
    <3>1. \/ native' = [native EXCEPT ![job.owner] = NativeLimit(EffectiveQuota(job.owner))]
          \/ native' = [native EXCEPT ![job.uid] = NativeLimit(job.old)]
          \/ native' = native
      BY <1>2, JobFine DEF QuotaFails, QuotaRestored
    <3>2. QED
      BY <2>2, <3>1, NativeOne, JobFine
  <2>4. QED
    BY <2>1, <2>3, JobStep, JobFine, IdleFine
<1>3. CASE QuotaRaisesChild
  <2>1. /\ job.kind = "quota" /\ UNCHANGED <<db, os, waiting>> /\ job' = [job EXCEPT !.pc = "parent"]
        /\ NativeSet(job.uid, job.bytes)
    BY <1>3 DEF QuotaRaisesChild, At, Goto
  <2>2. /\ job' \in Job /\ job'.pc = "parent" /\ job'.kind = "quota" /\ job'.owner = job.owner /\ job'.uid = job.uid
    BY <2>1, JobMoves
  <2>3. Request(job')
    BY <2>1, <2>2, JobFine DEF Request, LimitKinds
  <2>4. native' \in [Uids -> Nat]
    BY <2>1, NativeTyped, JobFine
  <2>5. QED
    BY <2>1, <2>2, <2>3, <2>4, JobStep, JobFine
<1>4. ASSUME NEW kind \in LimitKinds, NEW a \in Uids, NEW b \in Sizes, LimitStarts(kind, a, b) PROVE BytesInv'
  <2>0. LimitKinds = {"budget", "own"} /\ b \in Nat /\ b > 0 /\ 0 \in Generations
    BY AllocationConstants DEF LimitKinds, Generations
  <2>1. UNCHANGED <<db, os, native, waiting>> /\ job' = [Idle EXCEPT !.kind = kind, !.owner = a, !.bytes = b] /\ IsAdmin(a)
    BY <1>4 DEF LimitStarts
  <2>2. job' \in Job /\ job'.kind = kind /\ job'.owner = a /\ job'.bytes = b /\ job'.pc = "start"
    BY <2>0, <2>1 DEF Job, Idle
  <2>3. Request(job')
    BY <2>0, <2>1, <2>2 DEF Request, Administrator
  <2>4. QED
    BY <2>1, <2>2, <2>3, JobStep, JobFine
<1>5. CASE LimitLowers
  <2>1. /\ job.kind \in LimitKinds /\ job.pc = "start" /\ LimitFits /\ UNCHANGED <<db, os, waiting>>
        /\ job' = [job EXCEPT !.pc = "commit", !.limit = LimitAfter]
    BY <1>5 DEF LimitLowers
  <2>2. LimitAfter \in Nat
    BY <2>1, Remainders
  <2>3. /\ job' \in Job /\ job'.pc = "commit" /\ job'.kind = job.kind /\ job'.owner = job.owner
        /\ job'.uid = job.uid /\ job'.bytes = job.bytes
    BY <2>1, <2>2, JobFine DEF Job
  <2>4. Request(job') /\ Committing'
    BY <2>1, <2>3, JobFine, CommitReached DEF Request, LimitKinds
  <2>5. native' \in [Uids -> Nat]
    BY <1>5, <2>2, NativeOne DEF LimitLowers
  <2>6. QED
    BY <2>1, <2>3, <2>4, <2>5, JobStep, JobFine
<1>6. CASE LimitFails
  <2>1. /\ job.kind \in LimitKinds /\ UNCHANGED <<db, os, waiting>> /\ job' = Idle
        /\ NativeSet(job.owner, EffectiveQuota(job.owner))
    BY <1>6 DEF LimitFails
  <2>2. EffectiveQuota(job.owner) \in Int
    BY <2>1, Remainders, Amounts
  <2>3. native' \in [Uids -> Nat]
    BY <2>1, <2>2, NativeTyped
  <2>4. QED
    BY <2>1, <2>3, JobStep, JobFine, IdleFine
<1>7. CASE RaisesParent
  <2>1. job.pc = "parent" /\ UNCHANGED <<db, os, waiting>>
    BY <1>7 DEF RaisesParent
  <2>2. job.owner \in Uids
    BY <2>1, JobFine DEF Request, Administrator, CreateStages, LimitKinds, Job
  <2>3. native' \in [Uids -> Nat]
    <3>1. (IF job.kind \in {"cancel", "purge"} THEN EffectiveQuota(job.owner) ELSE job.limit) \in Int
      BY <2>2, Amounts, JobFine
    <3>2. QED
      BY <1>7, <3>1, NativeTyped DEF RaisesParent
  <2>4. CASE job.kind = "purge"
    <3>1. job' = [job EXCEPT !.pc = "next"]
      BY <1>7, <2>4 DEF RaisesParent
    <3>2. /\ job' \in Job /\ job'.pc = "next" /\ job'.kind = "purge" /\ job'.owner = job.owner /\ job'.uid = job.uid
      BY <2>4, <3>1, JobMoves
    <3>3. Request(job')
      BY <2>1, <2>4, <3>2, JobFine DEF Request, LimitKinds
    <3>4. QED
      BY <2>1, <2>3, <3>2, <3>3, JobStep, JobFine
  <2>5. CASE job.kind # "purge"
    BY <1>7, <2>1, <2>3, <2>5, JobStep, JobFine, IdleFine DEF RaisesParent
  <2>6. QED
    BY <2>4, <2>5
<1>8. CASE SyncStarts
  <2>1. UNCHANGED <<db, os, native, waiting>> /\ job' = [Idle EXCEPT !.kind = "sync"]
    BY <1>8 DEF SyncStarts
  <2>2. job' \in Job /\ job'.kind = "sync" /\ job'.pc = "start"
    BY <2>1, IdleFine DEF Job, Idle
  <2>3. Request(job')
    BY <2>2 DEF Request, LimitKinds
  <2>4. QED
    BY <2>1, <2>2, <2>3, JobStep, JobFine
<1>9. ASSUME NEW u \in Uids, Syncs(u) PROVE BytesInv'
  <2>1. UNCHANGED <<db, os, waiting, job>> /\ job.kind = "sync" /\ NativeSet(u, EffectiveQuota(u))
    BY <1>9 DEF Syncs
  <2>2. job.pc = "start"
    BY <2>1, JobFine DEF Request
  <2>3. EffectiveQuota(u) \in Int
    BY Amounts
  <2>4. native' \in [Uids -> Nat]
    BY <2>1, <2>3, NativeTyped
  <2>5. QED
    BY <2>1, <2>2, <2>4, JobStep, JobFine
<1>10. QED
  BY <1>1, <1>2, <1>3, <1>4, <1>5, <1>6, <1>7, <1>8, <1>9

\* What the purge removes.
LEMMA RemovesBytes == ASSUME BytesInv, PurgeClears \/ PurgeUserdel \/ PurgeGroupdel PROVE BytesInv'
<1>1. ASSUME NEW pc \in PurgeStages, NEW pieces, NEW next \in PurgeStages, Removes(pc, pieces, next) PROVE BytesInv'
  <2>0. next \in {"clear", "userdel", "groupdel", "tombstone"}
    BY DEF PurgeStages
  <2>1. /\ UNCHANGED <<db, native, waiting>> /\ job.kind = "purge" /\ job.pc = pc /\ job' = [job EXCEPT !.pc = next]
        /\ os' = [os EXCEPT ![job.uid] = @ \ pieces]
    BY <1>1 DEF Removes, At, Goto
  <2>2. /\ job' \in Job /\ job'.pc = next /\ job'.kind = "purge" /\ job'.owner = job.owner /\ job'.uid = job.uid
    BY <2>0, <2>1, JobMoves
  <2>3. Request(job')
    BY <2>1, <2>2, JobFine DEF Request, LimitKinds
  <2>4. os' \in [Uids -> SUBSET Pieces]
    BY <2>1, JobFine
  <2>5. QED
    BY <2>0, <2>1, <2>2, <2>3, <2>4, JobStep, JobFine
<1>2. QED
  BY <1>1 DEF PurgeClears, PurgeUserdel, PurgeGroupdel, PurgeStages

\* Accounts that exist keep their role and their owner.
Grown ==
  \A u \in Uids : acct[u].status # "none" =>
    acct'[u].status # "none" /\ acct'[u].role = acct[u].role /\ acct'[u].owner = acct[u].owner

\* Then every request stays right.
LEMMA RequestsKept ==
  ASSUME BytesInv, Grown, waiting' = waiting
  PROVE  /\ \A a : Administrator(a) => Administrator(a)'
         /\ \A h \in Helpers : Request(waiting[h])'
         /\ job' = job => Request(job)'
<1>1. \A a : Administrator(a) => Administrator(a)'
  BY DEF Grown, Administrator, IsAdmin
<1>2. ASSUME NEW h \in Helpers PROVE Request(waiting[h])'
  BY <1>1, JobFine DEF Request, Grown
<1>3. ASSUME job' = job PROVE Request(job)'
  BY <1>1, <1>3, JobFine DEF Request, Grown
<1>4. QED
  BY <1>1, <1>2, <1>3

\* The sums after a change of one account.
LEMMA AccountChange ==
  ASSUME BytesInv, NEW u \in Uids, acct' \in [Uids -> Account], \A x \in Uids : x # u => acct'[x] = acct[x],
         intents' = intents
  PROVE  \A a, e :
           /\ PendingReserved(a, e)' = PendingReserved(a, e)
           /\ Held(acct, u, a) \in Nat /\ Held(acct', u, a) \in Nat
           /\ Allocated(a, e)' = Allocated(a, e) - Held(acct, u, a) + Held(acct', u, a)
<1>1. \A x \in Uids : acct[x].quota \in Nat /\ acct'[x].quota \in Nat
  BY JobFine DEF Account
<1>2. PICK f, g : f = acct /\ g = acct'
  OBVIOUS
<1>3. \A x \in Uids : f[x].quota \in Nat /\ g[x].quota \in Nat
  BY <1>1, <1>2
<1>4. \A x \in Uids : x # u => f[x] = g[x]
  BY <1>2
<1>5. \A a : /\ Children(f, a) \in Nat /\ Held(f, u, a) \in Nat
             /\ Children(g, a) = Children(f, a) - Held(f, u, a) + Held(g, u, a)
  BY <1>3, <1>4, ChildrenUpdate
<1>6. \A a : Held(g, u, a) \in Nat
  BY <1>3 DEF Held
<1>7. /\ \A a : ChildQuotas(a) = Children(f, a) /\ ChildQuotas(a)' = Children(g, a)
      /\ \A a, e : PendingReserved(a, e)' = PendingReserved(a, e)
  BY <1>2 DEF ChildQuotas, Children, Quotas, ChildrenOf, PendingReserved
<1>8. \A a, e : Allocated(a, e) = ChildQuotas(a) + PendingReserved(a, e)
                /\ Allocated(a, e)' = ChildQuotas(a)' + PendingReserved(a, e)'
                /\ PendingReserved(a, e) \in Nat
  BY Amounts DEF Allocated
<1>9. QED
  BY <1>2, <1>5, <1>6, <1>7, <1>8

Share(x, o) == IF o = x.owner THEN x.quota ELSE 0

\* The sums after a new intent.
LEMMA IntentAdded ==
  ASSUME BytesInv, NEW x, x \notin intents, x \in Intent, ~x.done, intents' = intents \cup {x}, acct' = acct
  PROVE  /\ IsFiniteSet(intents') /\ intents' \subseteq Intent
         /\ \A o : /\ PendingReserved(o, NoRequest)' =
                        PendingReserved(o, NoRequest) + Share(x, o)
                   /\ Allocated(o, NoRequest)' =
                        Allocated(o, NoRequest) + Share(x, o)
<1>1. Priced(intents) /\ x.quota \in Nat /\ x.req # NoRequest
  BY Amounts, AllocationConstants DEF Intent, NoRequest
<1>2. PICK is, js : is = intents /\ js = is \cup {x}
  OBVIOUS
<1>3. \A o : /\ Total(is, o, NoRequest) \in Nat
             /\ Total(js, o, NoRequest) = Total(is, o, NoRequest) + Share(x, o)
  BY <1>1, <1>2, TotalAdds DEF Share
<1>4. \A o : /\ PendingReserved(o, NoRequest) = Total(is, o, NoRequest)
             /\ PendingReserved(o, NoRequest)' = Total(js, o, NoRequest)
  BY <1>2 DEF PendingReserved, Total
<1>5. \A o : /\ Allocated(o, NoRequest) = ChildQuotas(o) + PendingReserved(o, NoRequest)
             /\ Allocated(o, NoRequest)' = ChildQuotas(o) + PendingReserved(o, NoRequest)'
             /\ ChildQuotas(o) \in Nat
  BY Amounts DEF Allocated, ChildQuotas
<1>6. IsFiniteSet(intents') /\ intents' \subseteq Intent
  BY FS_AddElement DEF BytesInv, TypeOK
<1>7. \A o : Share(x, o) \in Nat
  BY <1>1 DEF Share
<1>8. ASSUME NEW o
      PROVE  /\ PendingReserved(o, NoRequest)' = PendingReserved(o, NoRequest) + Share(x, o)
             /\ Allocated(o, NoRequest)' = Allocated(o, NoRequest) + Share(x, o)
  BY <1>3, <1>4, <1>5, <1>7
<1>9. QED
  BY <1>6, <1>8

\* The sums after an intent was cancelled.
LEMMA IntentGone ==
  ASSUME BytesInv, NEW x \in intents, ~x.done, intents' = intents \ {x}, acct' = acct
  PROVE  /\ IsFiniteSet(intents') /\ intents' \subseteq Intent
         /\ \A o : /\ PendingReserved(o, NoRequest) =
                        PendingReserved(o, NoRequest)' + Share(x, o)
                   /\ Allocated(o, NoRequest) =
                        Allocated(o, NoRequest)' + Share(x, o)
                   /\ PendingReserved(o, NoRequest)' \in Nat /\ Allocated(o, NoRequest)' \in Nat
<1>1. Priced(intents) /\ x.quota \in Nat /\ x.req # NoRequest
  BY Amounts, AllocationConstants DEF Intent, NoRequest, BytesInv, TypeOK
<1>2. PICK is, js : is = intents /\ js = is \ {x}
  OBVIOUS
<1>3. \A o : /\ Total(is, o, NoRequest) \in Nat /\ Total(js, o, NoRequest) \in Nat
             /\ Total(is, o, NoRequest) = Total(js, o, NoRequest) + Share(x, o)
  BY <1>1, <1>2, TotalLoses DEF Share
<1>4. \A o : /\ PendingReserved(o, NoRequest) = Total(is, o, NoRequest)
             /\ PendingReserved(o, NoRequest)' = Total(js, o, NoRequest)
  BY <1>2 DEF PendingReserved, Total
<1>5. \A o : /\ Allocated(o, NoRequest) = ChildQuotas(o) + PendingReserved(o, NoRequest)
             /\ Allocated(o, NoRequest)' = ChildQuotas(o) + PendingReserved(o, NoRequest)'
             /\ ChildQuotas(o) \in Nat
  BY Amounts DEF Allocated, ChildQuotas
<1>6. IsFiniteSet(intents') /\ intents' \subseteq Intent
  BY FS_Subset DEF BytesInv, TypeOK
<1>7. \A o : Share(x, o) \in Nat
  BY <1>1 DEF Share
<1>8. ASSUME NEW o
      PROVE  /\ PendingReserved(o, NoRequest) = PendingReserved(o, NoRequest)' + Share(x, o)
             /\ Allocated(o, NoRequest) = Allocated(o, NoRequest)' + Share(x, o)
             /\ PendingReserved(o, NoRequest)' \in Nat /\ Allocated(o, NoRequest)' \in Nat
  BY <1>3, <1>4, <1>5, <1>7
<1>9. QED
  BY <1>6, <1>8

\* Promised bytes of an owner count against what it has left.
LEMMA ReserveBytes ==
  ASSUME BytesInv, NEW x, x \notin intents, x \in Intent, ~x.done, intents' = intents \cup {x},
         UNCHANGED <<pool, acct, budget, own, retired, purging, os, native, waiting>>,
         \/ x.owner = Root /\ x.quota <= pool - Delegated - PendingReserved(Root, NoRequest)
         \/ /\ Administrator(x.owner)
            /\ x.quota <= budget[x.owner] - Allocated(x.owner, NoRequest) - own[x.owner],
         issued' \in [Uids -> Nat], job' \in Job, Request(job'), job'.pc = "group"
  PROVE  BytesInv'
<1>1. /\ IsFiniteSet(intents') /\ intents' \subseteq Intent
      /\ \A o : /\ PendingReserved(o, NoRequest)' = PendingReserved(o, NoRequest) + Share(x, o)
                /\ Allocated(o, NoRequest)' = Allocated(o, NoRequest) + Share(x, o)
  BY IntentAdded
<1>2. /\ Delegated' = Delegated /\ Delegated \in Nat /\ pool \in Nat /\ x.quota \in Nat
      /\ PendingReserved(Root, NoRequest) \in Nat
      /\ \A a \in Uids : /\ Allocated(a, NoRequest) \in Nat /\ own[a] \in Nat /\ budget[a] \in Nat
                         /\ Allocated(a, NoRequest) + own[a] <= budget[a]
  BY Amounts, JobFine DEF Delegated, Intent
<1>3. Root \notin Uids
  BY AllocationConstants
<1>4. Delegated' + PendingReserved(Root, NoRequest)' <= pool'
  <2>1. Delegated + PendingReserved(Root, NoRequest) <= pool
    BY DEF BytesInv, NeverOverAllocated
  <2>2. QED
    BY <1>1, <1>2, <1>3, <2>1 DEF Share, Administrator
<1>5. ASSUME NEW a \in Uids PROVE Allocated(a, NoRequest)' + own'[a] <= budget'[a]
  BY <1>1, <1>2, <1>3 DEF Share, Administrator
<1>6. NeverOverAllocated'
  BY <1>4, <1>5 DEF NeverOverAllocated
<1>7. TypeOK'
  BY <1>1 DEF BytesInv, TypeOK
<1>8. AccountsInv'
  BY DEF BytesInv, AccountsInv, Administrator, IsAdmin
<1>9. Committing' /\ Request(job)' /\ \A h \in Helpers : Request(waiting[h])'
  BY DEF BytesInv, Committing, At, Request, Administrator, IsAdmin
<1>10. QED
  BY <1>1, <1>6, <1>7, <1>8, <1>9 DEF BytesInv

\* A creation that passed its check, inside its transaction.
LEMMA CreateReservesBytes == ASSUME IInv, BytesInv, CreateReserves PROVE BytesInv'
<1> DEFINE x == [owner |-> job.owner, req |-> job.req, quota |-> job.bytes, uid |-> job.uid, done |-> FALSE]
<1>1. At("create", "intent") /\ Administrator(job.owner) /\ job.req \in Requests /\ job.uid \in Uids
  BY JobFine DEF CreateReserves, At, Request
<1>2. x \in Intent /\ ~x.done /\ x.owner = job.owner /\ x.quota = job.bytes
  BY <1>1, JobFine DEF Intent, Administrator
<1>3. x \notin intents
  BY <1>1 DEF IInv, ReservingInv, At
<1>4. /\ intents' = intents \cup {x} /\ issued' = [issued EXCEPT ![job.uid] = @ + 1]
      /\ job' = [job EXCEPT !.pc = "group"]
      /\ UNCHANGED <<pool, acct, budget, own, retired, purging, os, native, waiting>>
      /\ job.bytes <= budget[job.owner] - Allocated(job.owner, NoRequest) - own[job.owner]
  BY DEF CreateReserves, RecordIntent, Goto
<1>5. issued' \in [Uids -> Nat]
  <2>1. issued \in [Uids -> Nat]
    BY DEF BytesInv, TypeOK
  <2>2. QED
    BY <1>1, <1>4, <2>1
<1>6. /\ job' \in Job /\ job'.pc = "group" /\ job'.kind = job.kind /\ job'.owner = job.owner
      /\ job'.uid = job.uid /\ job'.req = job.req
  BY <1>4, JobMoves
<1>7. Request(job')
  BY <1>1, <1>6 DEF Request, At, CreateStages, LimitKinds
<1> HIDE DEF x
<1>8. QED
  BY <1>1, <1>2, <1>3, <1>4, <1>5, <1>6, <1>7, ReserveBytes

\* Root's creation of an administrator, or its resumption.
LEMMA AdminReservesBytes ==
  ASSUME IInv, BytesInv, NEW r \in Requests, NEW b \in Sizes, AdminReserves(r, b) PROVE BytesInv'
<1> DEFINE started(u) == [Idle EXCEPT !.kind = "admin", !.pc = "group", !.uid = u, !.req = r, !.bytes = b]
<1>0. b \in Nat /\ UNCHANGED <<pool, acct, budget, own, retired, purging, os, native, waiting>>
  BY AllocationConstants DEF AdminReserves
<1>1. ASSUME NEW u \in Uids
      PROVE  /\ started(u) \in Job /\ Request(started(u)) /\ started(u).pc = "group"
  <2>0. 0 \in Generations
    BY AllocationConstants DEF Generations
  <2>1. /\ started(u) \in Job /\ started(u).kind = "admin" /\ started(u).owner = Root /\ started(u).req = r
        /\ started(u).uid = u /\ started(u).pc = "group"
    BY <1>0, <2>0 DEF Job, Idle
  <2>2. QED
    BY <2>1 DEF Request, CreateStages, LimitKinds
<1>2. CASE /\ IntentsOf(Root, r) = {}
           /\ b <= pool - Delegated - PendingReserved(Root, NoRequest)
           /\ \E u \in FreeUids : RecordIntent(Root, r, b, u) /\ job' = started(u)
  <2>1. PICK u \in FreeUids : RecordIntent(Root, r, b, u) /\ job' = started(u)
    BY <1>2
  <2> DEFINE x == [owner |-> Root, req |-> r, quota |-> b, uid |-> u, done |-> FALSE]
  <2>2. u \in Uids
    BY DEF FreeUids
  <2>3. x \in Intent /\ ~x.done /\ x.owner = Root /\ x.quota = b /\ x \notin intents
    BY <1>0, <1>2, <2>2 DEF Intent, IntentsOf
  <2>4. intents' = intents \cup {x} /\ issued' \in [Uids -> Nat]
    <3>1. issued \in [Uids -> Nat]
      BY DEF BytesInv, TypeOK
    <3>2. intents' = intents \cup {x} /\ issued' = [issued EXCEPT ![u] = @ + 1]
      BY <2>1 DEF RecordIntent
    <3>3. QED
      BY <2>2, <3>1, <3>2
  <2>5. job' \in Job /\ Request(job') /\ job'.pc = "group"
    BY <1>1, <2>1, <2>2
  <2> HIDE DEF x
  <2>6. QED
    BY <1>0, <1>2, <2>3, <2>4, <2>5, ReserveBytes
<1>3. CASE /\ \E i \in IntentsOf(Root, r) : ~i.done /\ i.quota = b /\ job' = started(i.uid)
           /\ UNCHANGED <<intents, issued>>
  <2>1. PICK i \in IntentsOf(Root, r) : job' = started(i.uid)
    BY <1>3
  <2>2. i.uid \in Uids
    BY DEF IntentsOf, BytesInv, TypeOK, Intent
  <2>3. job' \in Job /\ Request(job') /\ job'.pc = "group"
    BY <1>1, <2>1, <2>2
  <2>4. UNCHANGED <<db, waiting, os, native>>
    BY <1>0, <1>3 DEF db
  <2>5. QED
    BY <2>3, <2>4, JobStep, JobFine
<1>4. QED
  BY <1>2, <1>3 DEF AdminReserves

\* The bytes of a cancelled intent are free again.
LEMMA CancelsBytes == ASSUME BytesInv, NEW x \in intents, Cancels(x) PROVE BytesInv'
<1>0. /\ ~x.done /\ intents' = intents \ {x} /\ retired' = retired \cup {x.uid}
      /\ UNCHANGED <<pool, acct, budget, own, purging, issued, os, native, waiting>>
      /\ x \in Intent /\ x.quota \in Nat /\ x.uid \in Uids
      /\ job' = IF x.owner = Root THEN Idle
                ELSE [Idle EXCEPT !.kind = "cancel", !.pc = "parent", !.owner = x.owner]
  BY DEF Cancels, BytesInv, TypeOK, Intent
<1>1. /\ IsFiniteSet(intents') /\ intents' \subseteq Intent
      /\ \A o : /\ PendingReserved(o, NoRequest) = PendingReserved(o, NoRequest)' + Share(x, o)
                /\ Allocated(o, NoRequest) = Allocated(o, NoRequest)' + Share(x, o)
                /\ PendingReserved(o, NoRequest)' \in Nat /\ Allocated(o, NoRequest)' \in Nat
  BY <1>0, IntentGone
<1>2. Delegated' = Delegated /\ Delegated \in Nat /\ pool \in Nat /\ \A o : Share(x, o) \in Nat
  BY <1>0, Amounts, JobFine DEF Delegated, Share
<1>3. \A a \in Uids : own[a] \in Nat /\ budget[a] \in Nat /\ Allocated(a, NoRequest) + own[a] <= budget[a]
  BY Amounts
<1>4. Delegated' + PendingReserved(Root, NoRequest)' <= pool'
  <2>1. Delegated + PendingReserved(Root, NoRequest) <= pool
    BY DEF BytesInv, NeverOverAllocated
  <2>2. QED
    BY <1>0, <1>1, <1>2, <2>1
<1>5. ASSUME NEW a \in Uids PROVE Allocated(a, NoRequest)' + own'[a] <= budget'[a]
  BY <1>0, <1>1, <1>2, <1>3
<1>6. NeverOverAllocated'
  BY <1>4, <1>5 DEF NeverOverAllocated
<1>7. job' \in Job /\ Request(job') /\ job'.pc # "commit"
  <2>1. CASE x.owner = Root
    BY <1>0, <2>1, IdleFine
  <2>2. CASE x.owner # Root
    <3>1. Administrator(x.owner)
      BY <2>2 DEF BytesInv, AccountsInv
    <3>0. 0 \in Generations
      BY AllocationConstants DEF Generations
    <3>2. /\ job' \in Job /\ job'.kind = "cancel" /\ job'.owner = x.owner /\ job'.pc = "parent"
      BY <1>0, <2>2, <3>0, <3>1 DEF Job, Idle, NoRequest, Administrator
    <3>3. QED
      BY <3>1, <3>2 DEF Request, LimitKinds
  <2>3. QED
    BY <2>1, <2>2
<1>8. TypeOK'
  BY <1>0, <1>1, <1>7 DEF BytesInv, TypeOK
<1>9. AccountsInv'
  BY <1>0 DEF BytesInv, AccountsInv, Administrator, IsAdmin
<1>10. Committing' /\ Request(job)' /\ \A h \in Helpers : Request(waiting[h])'
  BY <1>0, <1>7 DEF BytesInv, Committing, At, Request, Administrator, IsAdmin
<1>11. QED
  BY <1>1, <1>6, <1>8, <1>9, <1>10 DEF BytesInv

\* The sums of the intents when one has become an account.
LEMMA FinishedSums ==
  ASSUME IInv, BytesInv, CreatesChild \/ CreatesAdmin
  PROVE  /\ job.uid \in Uids /\ acct[job.uid].status = "none"
         /\ IsFiniteSet(intents') /\ intents' \subseteq Intent
         /\ \A j \in intents' : \E k \in intents : k.owner = j.owner
         /\ \A a : PendingReserved(a, NoRequest)' \in Nat
                   /\ PendingReserved(a, NoRequest)' <= PendingReserved(a, NoRequest)
         /\ \A a : a = job.owner => PendingReserved(a, NoRequest)' = PendingReserved(a, job.req)
         /\ \E i \in intents : /\ i.owner = job.owner /\ i.req = job.req /\ i.uid = job.uid /\ ~i.done
                               /\ \A j \in intents' : j.uid # i.uid => j \in intents
                               /\ \A j \in intents : j.uid # i.uid => j \in intents'
                               /\ \A a : PendingReserved(a, NoRequest) = PendingReserved(a, NoRequest)' + Share(i, a)
<1>1. PICK i \in intents :
        /\ i.owner = job.owner /\ i.req = job.req /\ i.uid = job.uid /\ ~i.done
        /\ intents' = (intents \ {i}) \cup {[i EXCEPT !.done = TRUE]}
  BY FinishedIntent
<1>2. PICK is, js, ks, done : /\ is = intents /\ js = intents \ {i} /\ ks = intents'
                              /\ done = [i EXCEPT !.done = TRUE]
  OBVIOUS
<1>3. done \in Intent /\ done.done = TRUE /\ done.owner = i.owner /\ ks = js \cup {done} /\ i \in Intent
      /\ i.req # NoRequest /\ i.uid \in Uids /\ i.quota \in Nat
  BY <1>1, <1>2, AllocationConstants DEF BytesInv, TypeOK, Intent, NoRequest
<1>4. IsFiniteSet(ks) /\ ks \subseteq Intent /\ \A j \in ks : \E k \in is : k.owner = j.owner
  <2>1. IsFiniteSet(js)
    BY <1>2, FS_Subset DEF BytesInv
  <2>2. IsFiniteSet(ks)
    BY <1>3, <2>1, FS_AddElement
  <2>3. QED
    BY <1>2, <1>3, <2>2 DEF BytesInv, TypeOK
<1>6. ASSUME NEW a, NEW e PROVE Total(ks, a, e) = Total(js, a, e)
  <2>1. {j \in ks : j.owner = a /\ ~j.done /\ j.req # e} = {j \in js : j.owner = a /\ ~j.done /\ j.req # e}
    BY <1>3
  <2>2. QED
    BY <2>1, Zenon DEF Total
<1>7. \A a : /\ Total(is, a, NoRequest) \in Nat /\ Total(js, a, NoRequest) \in Nat
             /\ Total(js, a, NoRequest) <= Total(is, a, NoRequest)
             /\ Total(is, a, NoRequest) = Total(js, a, NoRequest) + Share(i, a)
  <2>1. Priced(is) /\ i \in is /\ js = is \ {i}
    BY <1>2, Amounts
  <2>2. \A a : /\ Total(is, a, NoRequest) \in Nat /\ Total(js, a, NoRequest) \in Nat
               /\ Total(is, a, NoRequest) = Total(js, a, NoRequest)
                    + IF i.owner = a /\ ~i.done /\ i.req # NoRequest THEN i.quota ELSE 0
    BY <2>1, TotalLoses
  <2>3. QED
    BY <1>1, <1>3, <2>2 DEF Share
<1>8. Total(js, job.owner, NoRequest) = Total(is, job.owner, job.req)
  <2>1. \A j \in intents : j.owner = job.owner /\ j.req = job.req => j = i
    BY <1>1 DEF IInv, IntentInv
  <2>2. \A j \in intents : j.req # NoRequest
    BY AllocationConstants DEF BytesInv, TypeOK, Intent, NoRequest
  <2>3. {j \in js : j.owner = job.owner /\ ~j.done /\ j.req # NoRequest}
          = {j \in is : j.owner = job.owner /\ ~j.done /\ j.req # job.req}
    BY <1>1, <1>2, <2>1, <2>2
  <2>4. QED
    BY <2>3, Zenon DEF Total
<1>9. /\ \A a, e : PendingReserved(a, e) = Total(is, a, e)
      /\ \A a, e : PendingReserved(a, e)' = Total(ks, a, e)
  BY <1>2 DEF PendingReserved, Total
<1>10. acct[job.uid].status = "none" /\ job.uid \in Uids
  BY <1>1, <1>3 DEF IInv, IntentInv
<1>11. \A a : PendingReserved(a, NoRequest)' = Total(js, a, NoRequest)
  BY <1>6, <1>9 DEF NoRequest
<1>12. /\ \A j \in intents' : j.uid # i.uid => j \in intents
       /\ \A j \in intents : j.uid # i.uid => j \in intents'
  BY <1>1, <1>3 DEF Intent
<1>13. \A a : PendingReserved(a, NoRequest) = PendingReserved(a, NoRequest)' + Share(i, a)
  BY <1>7, <1>9, <1>11
<1>14. QED
  BY <1>1, <1>2, <1>4, <1>7, <1>8, <1>9, <1>10, <1>11, <1>12, <1>13

\* The bytes of the account that a creation records.
Recorded == IF job.kind = "create" THEN job.bytes ELSE 0

\* The account a creation records, and the sums of children after it.
LEMMA AccountMade ==
  ASSUME IInv, BytesInv, CreatesChild \/ CreatesAdmin
  PROVE  LET u == job.uid IN
         /\ Recorded \in Nat
         /\ acct' \in [Uids -> Account] /\ \A x \in Uids : x # u => acct'[x] = acct[x]
         /\ acct'[u].owner = job.owner /\ acct'[u].quota = Recorded /\ acct'[u].gen = 0 /\ acct'[u].status = "active"
         /\ acct'[u].role \in {"admin", "user"} /\ (acct'[u].role = "user" => CreatesChild)
         /\ acct'[u].role = "admin" => CreatesAdmin /\ budget'[u] = job.bytes
         /\ budget' \in [Uids -> Nat] /\ \A x \in Uids : x # u => budget'[x] = budget[x]
         /\ budget[u] = 0 /\ budget'[u] \in Nat
         /\ budget'[u] # 0 => CreatesAdmin /\ budget'[u] = job.bytes
         /\ \A a : /\ ChildQuotas(a)' \in Nat
                   /\ ChildQuotas(a)' <= ChildQuotas(a) + IF a = job.owner THEN Recorded ELSE 0
<1> DEFINE u == job.uid
           q == Recorded
<1>0. job.kind \in {"create", "admin"}
  BY DEF CreatesChild, CreatesAdmin, At
<1>1. u \in Uids /\ acct[u].status = "none"
  BY FinishedSums
<1>2. q \in Nat /\ job.owner \in Uids \cup {Root} /\ 0 \in Generations
  BY JobFine, AllocationConstants DEF Job, Generations, Recorded
<1>3. PICK role \in {"admin", "user"} :
        /\ acct' = [acct EXCEPT ![u] = [role |-> role, owner |-> job.owner, quota |-> q, gen |-> 0, status |-> "active"]]
        /\ role = "user" => CreatesChild
        /\ role = "admin" => CreatesAdmin
  BY <1>0 DEF CreatesChild, CreatesAdmin, NewAccount, At, Recorded
<1> HIDE DEF q
<1>4. /\ acct' \in [Uids -> Account] /\ \A x \in Uids : x # u => acct'[x] = acct[x]
      /\ acct'[u].owner = job.owner /\ acct'[u].quota = q /\ acct'[u].gen = 0 /\ acct'[u].status = "active"
      /\ acct'[u].role = role
  BY <1>1, <1>2, <1>3, JobFine DEF Account
<1>6. /\ budget' \in [Uids -> Nat] /\ \A x \in Uids : x # u => budget'[x] = budget[x]
      /\ budget[u] = 0 /\ budget'[u] \in Nat
      /\ budget'[u] # 0 => CreatesAdmin /\ budget'[u] = job.bytes
      /\ CreatesAdmin => budget'[u] = job.bytes
  BY <1>1, JobFine DEF CreatesChild, CreatesAdmin, BytesInv, AccountsInv
<1>9. \A a : /\ ChildQuotas(a)' \in Nat
                      /\ ChildQuotas(a)' <= ChildQuotas(a) + IF a = job.owner THEN q ELSE 0
  <2>1. PICK f, g : f = acct /\ g = acct'
    OBVIOUS
  <2>2. /\ \A x \in Uids : f[x].quota \in Nat /\ g[x].quota \in Nat
        /\ \A x \in Uids : x # u => f[x] = g[x]
        /\ g[u].owner = job.owner /\ g[u].quota = q
    BY <1>4, <2>1, JobFine DEF Account
  <2>3. \A a : /\ Children(f, a) \in Nat /\ Held(f, u, a) \in Nat /\ Children(g, a) \in Nat
               /\ Children(g, a) = Children(f, a) - Held(f, u, a) + Held(g, u, a)
    BY <1>1, <2>2, ChildrenUpdate
  <2>4. \A a : Held(g, u, a) = IF a = job.owner THEN q ELSE 0
    BY <2>2 DEF Held
  <2>5. \A a : ChildQuotas(a) = Children(f, a) /\ ChildQuotas(a)' = Children(g, a)
    BY <2>1 DEF ChildQuotas, Children, Quotas, ChildrenOf
  <2>6. QED
    BY <1>2, <2>3, <2>4, <2>5
<1>10. QED
  BY <1>2, <1>3, <1>4, <1>6, <1>9 DEF q

\* A reservation becomes an account.
LEMMA CreatesBytes == ASSUME IInv, BytesInv, CreatesChild \/ CreatesAdmin PROVE BytesInv'
<1> DEFINE u == job.uid
           q == Recorded
           role == acct'[u].role
<1>0. /\ UNCHANGED <<pool, own, retired, purging, issued, os, native, waiting>> /\ job' = Idle
      /\ job.pc = "account" /\ job.kind \in {"create", "admin"}
  BY DEF CreatesChild, CreatesAdmin, At
<1>1. /\ u \in Uids /\ acct[u].status = "none"
      /\ IsFiniteSet(intents') /\ intents' \subseteq Intent
      /\ \A j \in intents' : \E k \in intents : k.owner = j.owner
      /\ \A a : PendingReserved(a, NoRequest)' \in Nat
                /\ PendingReserved(a, NoRequest)' <= PendingReserved(a, NoRequest)
      /\ \A a : a = job.owner => PendingReserved(a, NoRequest)' = PendingReserved(a, job.req)
  BY FinishedSums
<1>2. /\ q \in Nat
      /\ acct' \in [Uids -> Account] /\ \A x \in Uids : x # u => acct'[x] = acct[x]
      /\ acct'[u].owner = job.owner /\ acct'[u].quota = q /\ acct'[u].gen = 0 /\ acct'[u].status = "active"
      /\ role = "user" => CreatesChild
      /\ budget' \in [Uids -> Nat] /\ \A x \in Uids : x # u => budget'[x] = budget[x]
      /\ budget[u] = 0 /\ budget'[u] \in Nat
      /\ budget'[u] # 0 => CreatesAdmin /\ budget'[u] = job.bytes
      /\ \A a : /\ ChildQuotas(a)' \in Nat
                /\ ChildQuotas(a)' <= ChildQuotas(a) + IF a = job.owner THEN q ELSE 0
  BY AccountMade
<1> HIDE DEF q
<1>5. Grown
  BY <1>1, <1>2 DEF Grown
<1>7. TypeOK'
  BY <1>0, <1>1, <1>2, IdleFine DEF BytesInv, TypeOK
<1>8. \A a \in Uids : /\ ChildQuotas(a) \in Nat /\ PendingReserved(a, NoRequest) \in Nat
                      /\ Allocated(a, NoRequest) = ChildQuotas(a) + PendingReserved(a, NoRequest)
                      /\ Allocated(a, job.req) = ChildQuotas(a) + PendingReserved(a, job.req)
                      /\ own[a] \in Nat /\ budget[a] \in Nat /\ Allocated(a, NoRequest) + own[a] <= budget[a]
                      /\ PendingReserved(a, job.req) \in Nat
  BY Amounts
<1>10. \A a \in Uids : Allocated(a, NoRequest)' = ChildQuotas(a)' + PendingReserved(a, NoRequest)'
  BY DEF Allocated
<1>11. ASSUME NEW a \in Uids PROVE Allocated(a, NoRequest)' + own'[a] <= budget'[a]
  <2>1. CASE a = job.owner
    <3>1. CreatesChild
      BY <2>1, AllocationConstants DEF CreatesAdmin, At, BytesInv, Request
    <3>2. q = job.bytes /\ job.bytes <= budget[a] - Allocated(a, job.req) - own[a] /\ budget' = budget
      BY <2>1, <3>1 DEF CreatesChild, At, Recorded, q
    <3>3. PendingReserved(a, NoRequest)' = PendingReserved(a, job.req)
      BY <1>1, <2>1
    <3>4. QED
      BY <1>0, <1>2, <1>8, <1>10, <2>1, <3>2, <3>3
  <2>2. CASE a # job.owner
    <3>1. budget'[a] >= budget[a]
      BY <1>2, <1>8
    <3>2. Allocated(a, NoRequest)' <= Allocated(a, NoRequest) /\ Allocated(a, NoRequest)' \in Nat
      BY <1>1, <1>2, <1>8, <1>10, <2>2
    <3>3. budget'[a] \in Nat
      BY <1>2
    <3>4. QED
      BY <1>0, <1>8, <3>1, <3>2, <3>3
  <2>3. QED
    BY <2>1, <2>2
<1>12. Delegated' + PendingReserved(Root, NoRequest)' <= pool'
  <2>1. Delegated \in Nat /\ Delegated' \in Nat /\ Delegated' = Delegated - budget[u] + budget'[u]
    <3>1. PICK f, g, w : f = budget /\ g = budget' /\ w = u
      OBVIOUS
    <3>2. \A x \in Uids : f[x] \in Nat /\ g[x] \in Nat
      BY <1>2, <3>1, JobFine
    <3>3. w \in Uids /\ \A x \in Uids : x # w => f[x] = g[x]
      BY <1>1, <1>2, <3>1
    <3>4. /\ SumFunctionOnSet(f, Uids) \in Nat /\ SumFunctionOnSet(g, Uids) \in Nat
          /\ SumFunctionOnSet(g, Uids) = SumFunctionOnSet(f, Uids) - f[w] + g[w]
      BY <3>2, <3>3, SumUpdate, AllocationConstants
    <3>5. Delegated = SumFunctionOnSet(f, Uids) /\ Delegated' = SumFunctionOnSet(g, Uids)
      BY <3>1 DEF Delegated
    <3>6. QED
      BY <3>1, <3>4, <3>5
  <2>2. /\ Delegated + PendingReserved(Root, NoRequest) <= pool /\ pool \in Nat
        /\ PendingReserved(Root, NoRequest) \in Nat /\ PendingReserved(Root, job.req) \in Nat
    BY Amounts, JobFine DEF BytesInv, NeverOverAllocated
  <2>3. CASE budget'[u] = 0
    BY <1>0, <1>1, <1>2, <2>1, <2>2, <2>3
  <2>4. CASE budget'[u] # 0
    <3>1. job.owner = Root /\ job.bytes <= pool - Delegated - PendingReserved(Root, job.req)
      BY <1>2, <2>4 DEF CreatesAdmin, At, BytesInv, Request
    <3>2. PendingReserved(Root, NoRequest)' = PendingReserved(Root, job.req)
      BY <1>1, <3>1
    <3>3. budget'[u] = job.bytes /\ job.bytes \in Nat /\ pool' = pool
      BY <1>0, <1>2, <2>4, JobFine
    <3>4. QED
      BY <1>2, <2>1, <2>2, <3>1, <3>2, <3>3
  <2>5. QED
    BY <2>3, <2>4
<1>13. NeverOverAllocated'
  BY <1>11, <1>12 DEF NeverOverAllocated
<1>14. AccountsInv'
  <2>1. \A a : Administrator(a) => Administrator(a)'
    BY <1>0, <1>5, RequestsKept
  <2>2. role = "user" => Administrator(job.owner)
    BY <1>2 DEF CreatesChild, At, BytesInv, Request
  <2>3. ASSUME NEW x \in Uids
        PROVE  /\ acct'[x].gen <= MaxGen \/ acct'[x].status = "purged"
               /\ acct'[x].status = "none" => budget'[x] = 0
               /\ acct'[x].status # "none" /\ acct'[x].role = "user" => Administrator(acct[x].owner)'
    <3>1. CASE x = u
      <4>1. 0 <= MaxGen
        BY AllocationConstants
      <4>2. QED
        BY <1>2, <2>1, <2>2, <3>1, <4>1 DEF Administrator, IsAdmin
    <3>2. CASE x # u
      BY <1>2, <2>1, <3>2 DEF BytesInv, AccountsInv, Administrator, IsAdmin
    <3>3. QED
      BY <3>1, <3>2
  <2>4. \A i \in intents' : i.owner = Root \/ Administrator(i.owner)'
    BY <1>1, <2>1 DEF BytesInv, AccountsInv, Administrator, IsAdmin
  <2>5. QED
    BY <2>3, <2>4 DEF AccountsInv, Administrator, IsAdmin
<1>15. Committing' /\ Request(job)' /\ \A h \in Helpers : Request(waiting[h])'
  <2>1. Request(job)' /\ job'.pc = "start"
    BY <1>0, IdleFine DEF Request, Idle, LimitKinds
  <2>2. Committing'
    BY <2>1 DEF Committing, At
  <2>3. QED
    BY <1>0, <1>5, <2>1, <2>2, RequestsKept
<1>16. QED
  BY <1>1, <1>7, <1>13, <1>14, <1>15 DEF BytesInv

\* One account changes, and its owner's budget still holds.
LEMMA RowChange ==
  ASSUME BytesInv, NEW u \in Uids, acct' \in [Uids -> Account], \A x \in Uids : x # u => acct'[x] = acct[x],
         acct[u].status # "none", acct'[u].status # "none", acct'[u].role = acct[u].role,
         acct'[u].owner = acct[u].owner, acct'[u].gen <= MaxGen \/ acct'[u].status = "purged",
         UNCHANGED <<pool, budget, intents, purging, issued, os, native, waiting>>,
         own' \in [Uids -> Nat], retired' \subseteq Uids,
         \A a \in Uids : Allocated(a, NoRequest) + own'[a]
                           <= budget[a] + (IF acct[u].owner = a THEN acct[u].quota - acct'[u].quota ELSE 0),
         job' \in Job, job'.pc # "commit", Request(job)'
  PROVE  BytesInv'
<1>1. Grown
  BY DEF Grown
<1>2. \A a : Administrator(a) => Administrator(a)'
  BY <1>1, RequestsKept
<1>3. TypeOK' /\ IsFiniteSet(intents')
  BY DEF BytesInv, TypeOK
<1>4. AccountsInv'
  <2>1. \A i \in intents' : i.owner = Root \/ Administrator(i.owner)'
    BY <1>2 DEF BytesInv, AccountsInv
  <2>2. ASSUME NEW x \in Uids
        PROVE  /\ acct'[x].gen <= MaxGen \/ acct'[x].status = "purged"
               /\ acct'[x].status = "none" => budget'[x] = 0
               /\ acct'[x].status # "none" /\ acct'[x].role = "user" => Administrator(acct[x].owner)'
    <3>1. PICK o : o = acct[x].owner
      OBVIOUS
    <3>2. acct'[x].owner = o /\ acct'[x].role = acct[x].role /\ (acct'[x].status = "none" <=> acct[x].status = "none")
      BY <3>1
    <3>3. acct[x].status # "none" /\ acct[x].role = "user" => Administrator(o)'
      BY <1>2, <3>1 DEF BytesInv, AccountsInv
    <3>4. Administrator(o)' => Administrator(acct[x].owner)'
      BY <3>2 DEF Administrator, IsAdmin
    <3>5. QED
      BY <3>2, <3>3, <3>4 DEF BytesInv, AccountsInv
  <2>3. QED
    BY <2>1, <2>2 DEF AccountsInv, Administrator, IsAdmin
<1>5. \A a : /\ PendingReserved(a, NoRequest)' = PendingReserved(a, NoRequest)
             /\ Held(acct, u, a) \in Nat /\ Held(acct', u, a) \in Nat
             /\ Allocated(a, NoRequest)' = Allocated(a, NoRequest) - Held(acct, u, a) + Held(acct', u, a)
  BY AccountChange DEF NoRequest
<1>6. NeverOverAllocated'
  <2>1. Delegated' = Delegated
    BY DEF Delegated
  <2>2. Delegated' + PendingReserved(Root, NoRequest)' <= pool'
    BY <1>5, <2>1 DEF BytesInv, NeverOverAllocated
  <2>3. ASSUME NEW a \in Uids PROVE Allocated(a, NoRequest)' + own'[a] <= budget'[a]
    <3>1. Allocated(a, NoRequest) \in Nat /\ budget[a] \in Nat /\ own'[a] \in Nat
      BY Amounts
    <3>2. acct[u].quota \in Nat /\ acct'[u].quota \in Nat
      BY JobFine DEF Account
    <3>3. Held(acct, u, a) - Held(acct', u, a) = IF acct[u].owner = a THEN acct[u].quota - acct'[u].quota ELSE 0
      BY <3>2 DEF Held
    <3>4. QED
      BY <1>5, <3>1, <3>2, <3>3
  <2>4. QED
    BY <2>2, <2>3 DEF NeverOverAllocated
<1>7. Committing'
  BY DEF Committing, At
<1>8. \A h \in Helpers : Request(waiting[h])'
  BY <1>1, RequestsKept
<1>9. QED
  BY <1>3, <1>4, <1>6, <1>7, <1>8 DEF BytesInv

\* A request after a change of one account.
LEMMA RequestMoves ==
  ASSUME BytesInv, Grown, waiting' = waiting, job' \in Job, job'.kind = job.kind, job'.owner = job.owner,
         job'.uid = job.uid, job'.bytes = job.bytes,
         \/ job.kind = "quota" /\ job'.pc = "child"
         \/ job.kind \in LimitKinds \cup {"purge"} /\ job'.pc = "parent"
  PROVE  Request(job)'
<1>1. \A a : Administrator(a) => Administrator(a)'
  BY RequestsKept
<1>2. PICK o : o = job.owner
  OBVIOUS
<1>3. Administrator(o)' => Administrator(job.owner)'
  BY <1>2 DEF Administrator, IsAdmin
<1>4. CASE job.kind = "quota"
  BY <1>1, <1>2, <1>3, <1>4 DEF BytesInv, Request, Grown, LimitKinds
<1>5. CASE job.kind \in LimitKinds
  BY <1>1, <1>2, <1>3, <1>5 DEF BytesInv, Request, LimitKinds
<1>6. CASE job.kind = "purge"
  BY <1>1, <1>2, <1>3, <1>6 DEF BytesInv, Request, LimitKinds
<1>7. QED
  BY <1>4, <1>5, <1>6

\* The row that the commit of a quota writes.
LEMMA QuotaRow ==
  ASSUME BytesInv, QuotaCommits
  PROVE  LET u == job.uid IN
         /\ At("quota", "commit") /\ u \in Uids /\ acct[u].status # "none" /\ acct[u].owner = job.owner
         /\ Administrator(job.owner) /\ acct[u].gen < MaxGen
         /\ job.bytes <= budget[job.owner] - (Allocated(job.owner, NoRequest) - acct[u].quota) - own[job.owner]
         /\ UNCHANGED <<pool, budget, own, intents, retired, purging, issued, os, native, waiting>>
         /\ acct' \in [Uids -> Account] /\ \A x \in Uids : x # u => acct'[x] = acct[x]
         /\ acct'[u].owner = acct[u].owner /\ acct'[u].role = acct[u].role /\ acct'[u].status = acct[u].status
         /\ acct'[u].quota = job.bytes /\ acct'[u].gen <= MaxGen
         /\ job' \in Job /\ job'.pc = "child" /\ job'.kind = job.kind /\ job'.owner = job.owner /\ job'.uid = job.uid
         /\ job'.bytes = job.bytes /\ job'.limit = job.limit
<1> DEFINE u == job.uid
<1>0. /\ At("quota", "commit") /\ u \in Uids /\ acct[u].status # "none" /\ acct[u].owner = job.owner
      /\ Administrator(job.owner) /\ acct[u].gen < MaxGen
      /\ job.bytes <= budget[job.owner] - (Allocated(job.owner, NoRequest) - acct[u].quota) - own[job.owner]
  BY DEF QuotaCommits, Bumped, BytesInv, Request, Committing, At
<1>1. UNCHANGED <<pool, budget, own, intents, retired, purging, issued, os, native, waiting>>
      /\ job' = [job EXCEPT !.pc = "child"]
      /\ acct' = [x \in Uids |-> IF x = u THEN [acct[x] EXCEPT !.quota = job.bytes, !.gen = @ + 1] ELSE acct[x]]
  BY <1>0, JobFine DEF QuotaCommits, Goto
<1>2. acct[u] \in Account /\ acct[u].gen \in Nat /\ acct[u].gen + 1 \in Generations /\ acct[u].gen + 1 <= MaxGen
  BY <1>0, JobFine, AllocationConstants DEF Account, Generations
<1>3. /\ acct' \in [Uids -> Account] /\ \A x \in Uids : x # u => acct'[x] = acct[x]
      /\ acct'[u].owner = acct[u].owner /\ acct'[u].role = acct[u].role /\ acct'[u].status = acct[u].status
      /\ acct'[u].quota = job.bytes /\ acct'[u].gen <= MaxGen
  <2>1. /\ acct'[u] = [acct[u] EXCEPT !.quota = job.bytes, !.gen = acct[u].gen + 1]
        /\ \A x \in Uids : x # u => acct'[x] = acct[x]
    BY <1>0, <1>1
  <2>2. /\ acct'[u] \in Account /\ acct'[u].quota = job.bytes /\ acct'[u].gen = acct[u].gen + 1
        /\ acct'[u].owner = acct[u].owner /\ acct'[u].role = acct[u].role /\ acct'[u].status = acct[u].status
    BY <1>2, <2>1, JobFine DEF Account
  <2>3. acct' \in [Uids -> Account]
    BY <1>1, <2>1, <2>2, JobFine
  <2>4. QED
    BY <1>2, <2>1, <2>2, <2>3
<1>4. /\ job' \in Job /\ job'.pc = "child" /\ job'.kind = job.kind /\ job'.owner = job.owner /\ job'.uid = job.uid
      /\ job'.bytes = job.bytes
  BY <1>1, JobMoves
<1>5. job'.limit = job.limit
  BY <1>1, JobFine DEF Job
<1>6. QED
  BY <1>0, <1>1, <1>3, <1>4, <1>5

\* The rows that the commit of an own quota writes.
LEMMA OwnRow ==
  ASSUME BytesInv, OwnCommits
  PROVE  LET u == job.owner IN
         /\ At("own", "commit") /\ u \in Uids /\ acct[u].status # "none" /\ acct[u].gen < MaxGen
         /\ job.bytes <= budget[u] - Allocated(u, NoRequest) /\ job.bytes > 0
         /\ UNCHANGED <<pool, budget, intents, retired, purging, issued, os, native, waiting>>
         /\ own' = [own EXCEPT ![u] = job.bytes]
         /\ acct' \in [Uids -> Account] /\ \A x \in Uids : x # u => acct'[x] = acct[x]
         /\ acct'[u].owner = acct[u].owner /\ acct'[u].role = acct[u].role /\ acct'[u].status = acct[u].status
         /\ acct'[u].quota = acct[u].quota /\ acct'[u].gen <= MaxGen
         /\ job' \in Job /\ job'.pc = "parent" /\ job'.kind = job.kind /\ job'.owner = job.owner /\ job'.uid = job.uid
         /\ job'.bytes = job.bytes /\ job'.limit = job.limit
<1> DEFINE u == job.owner
<1>0. /\ At("own", "commit") /\ u \in Uids /\ acct[u].status # "none" /\ acct[u].gen < MaxGen
      /\ job.bytes <= budget[u] - Allocated(u, NoRequest) /\ job.bytes > 0
  BY DEF OwnCommits, Bumped, BytesInv, Request, Committing, At, LimitKinds, Administrator, IsAdmin
<1>1. UNCHANGED <<pool, budget, intents, retired, purging, issued, os, native, waiting>>
      /\ job' = [job EXCEPT !.pc = "parent"] /\ own' = [own EXCEPT ![u] = job.bytes]
      /\ acct' = [x \in Uids |-> IF x = u THEN [acct[x] EXCEPT !.gen = @ + 1] ELSE acct[x]]
  BY <1>0, JobFine DEF OwnCommits, Goto
<1>2. acct[u] \in Account /\ acct[u].gen \in Nat /\ acct[u].gen + 1 \in Generations /\ acct[u].gen + 1 <= MaxGen
  BY <1>0, JobFine, AllocationConstants DEF Account, Generations
<1>3. /\ acct' \in [Uids -> Account] /\ \A x \in Uids : x # u => acct'[x] = acct[x]
      /\ acct'[u].owner = acct[u].owner /\ acct'[u].role = acct[u].role /\ acct'[u].status = acct[u].status
      /\ acct'[u].quota = acct[u].quota /\ acct'[u].gen <= MaxGen
  <2>1. /\ acct'[u] = [acct[u] EXCEPT !.gen = acct[u].gen + 1]
        /\ \A x \in Uids : x # u => acct'[x] = acct[x]
    BY <1>0, <1>1
  <2>2. /\ acct'[u] \in Account /\ acct'[u].quota = acct[u].quota /\ acct'[u].gen = acct[u].gen + 1
        /\ acct'[u].owner = acct[u].owner /\ acct'[u].role = acct[u].role /\ acct'[u].status = acct[u].status
    BY <1>2, <2>1, JobFine DEF Account
  <2>3. acct' \in [Uids -> Account]
    BY <1>1, <2>1, <2>2, JobFine
  <2>4. QED
    BY <1>2, <2>1, <2>2, <2>3
<1>4. /\ job' \in Job /\ job'.pc = "parent" /\ job'.kind = job.kind /\ job'.owner = job.owner /\ job'.uid = job.uid
      /\ job'.bytes = job.bytes
  BY <1>1, JobMoves
<1>5. job'.limit = job.limit
  BY <1>1, JobFine DEF Job
<1>6. QED
  BY <1>0, <1>1, <1>3, <1>4, <1>5

\* The commit of a quota, an own quota or a budget, which were checked before.
LEMMA CommitsBytes == ASSUME BytesInv, QuotaCommits \/ OwnCommits \/ BudgetCommits PROVE BytesInv'
<1>1. CASE QuotaCommits
  <2> DEFINE u == job.uid
  <2>0. /\ At("quota", "commit") /\ u \in Uids /\ acct[u].status # "none" /\ acct[u].owner = job.owner
        /\ Administrator(job.owner) /\ acct[u].gen < MaxGen
        /\ job.bytes <= budget[job.owner] - (Allocated(job.owner, NoRequest) - acct[u].quota) - own[job.owner]
        /\ UNCHANGED <<pool, budget, own, intents, retired, purging, issued, os, native, waiting>>
        /\ acct' \in [Uids -> Account] /\ \A x \in Uids : x # u => acct'[x] = acct[x]
        /\ acct'[u].owner = acct[u].owner /\ acct'[u].role = acct[u].role /\ acct'[u].status = acct[u].status
        /\ acct'[u].quota = job.bytes /\ acct'[u].gen <= MaxGen
        /\ job' \in Job /\ job'.pc = "child" /\ job'.kind = job.kind /\ job'.owner = job.owner /\ job'.uid = job.uid
        /\ job'.bytes = job.bytes /\ job'.limit = job.limit
    BY <1>1, QuotaRow
  <2>5. Request(job)'
    <3>1. Grown
      BY <2>0 DEF Grown
    <3>2. QED
      BY <2>0, <3>1, RequestMoves DEF At
  <2>6. \A a \in Uids : Allocated(a, NoRequest) + own'[a]
                          <= budget[a] + (IF acct[u].owner = a THEN acct[u].quota - acct'[u].quota ELSE 0)
    <3>1. \A a \in Uids : /\ Allocated(a, NoRequest) \in Nat /\ own[a] \in Nat /\ budget[a] \in Nat
                          /\ Allocated(a, NoRequest) + own[a] <= budget[a]
      BY Amounts
    <3>2. acct[u].quota \in Nat /\ job.bytes \in Nat
      BY <2>0, JobFine DEF Account
    <3>3. own' = own /\ acct'[u].quota = job.bytes /\ acct[u].owner = job.owner
      BY <2>0
    <3>4. Allocated(job.owner, NoRequest) + own[job.owner] <= budget[job.owner] + (acct[u].quota - job.bytes)
      <4>1. job.owner \in Uids
        BY <2>0 DEF Administrator
      <4>2. QED
        BY <2>0, <3>1, <3>2, <4>1
    <3>5. QED
      BY <3>1, <3>3, <3>4
  <2>7. own' \in [Uids -> Nat] /\ retired' \subseteq Uids
    BY <2>0 DEF BytesInv, TypeOK
  <2>8. PICK w : w = u
    OBVIOUS
  <2>9. QED
    BY <2>0, <2>5, <2>6, <2>7, <2>8, RowChange
<1>2. CASE OwnCommits
  <2> DEFINE u == job.owner
  <2>0. /\ At("own", "commit") /\ u \in Uids /\ acct[u].status # "none" /\ acct[u].gen < MaxGen
        /\ job.bytes <= budget[u] - Allocated(u, NoRequest) /\ job.bytes > 0
        /\ UNCHANGED <<pool, budget, intents, retired, purging, issued, os, native, waiting>>
        /\ own' = [own EXCEPT ![u] = job.bytes]
        /\ acct' \in [Uids -> Account] /\ \A x \in Uids : x # u => acct'[x] = acct[x]
        /\ acct'[u].owner = acct[u].owner /\ acct'[u].role = acct[u].role /\ acct'[u].status = acct[u].status
        /\ acct'[u].quota = acct[u].quota /\ acct'[u].gen <= MaxGen
        /\ job' \in Job /\ job'.pc = "parent" /\ job'.kind = job.kind /\ job'.owner = job.owner /\ job'.uid = job.uid
        /\ job'.bytes = job.bytes /\ job'.limit = job.limit
    BY <1>2, OwnRow
  <2>5. Request(job)'
    <3>1. Grown
      BY <2>0 DEF Grown
    <3>2. QED
      BY <2>0, <3>1, RequestMoves DEF At, LimitKinds
  <2>6. \A a \in Uids : Allocated(a, NoRequest) + own'[a]
                          <= budget[a] + (IF acct[u].owner = a THEN acct[u].quota - acct'[u].quota ELSE 0)
    <3>1. \A a \in Uids : /\ Allocated(a, NoRequest) \in Nat /\ own[a] \in Nat /\ budget[a] \in Nat
                          /\ Allocated(a, NoRequest) + own[a] <= budget[a]
      BY Amounts
    <3>2. acct[u].quota - acct'[u].quota = 0 /\ job.bytes \in Nat
      BY <2>0, JobFine DEF Account
    <3>3. \A a \in Uids : own'[a] = IF a = u THEN job.bytes ELSE own[a]
      BY <2>0, JobFine
    <3>4. QED
      BY <2>0, <3>1, <3>2, <3>3
  <2>7. own' \in [Uids -> Nat] /\ retired' \subseteq Uids
    BY <2>0, JobFine DEF BytesInv, TypeOK
  <2>8. PICK w : w = u
    OBVIOUS
  <2>9. QED
    BY <2>0, <2>5, <2>6, <2>7, <2>8, RowChange
<1>3. CASE BudgetCommits
  <2> DEFINE u == job.owner
  <2>0. /\ At("budget", "commit") /\ u \in Uids /\ acct[u].status # "none"
        /\ job.bytes >= Allocated(u, NoRequest) + own[u]
        /\ job.bytes <= pool - (Delegated - budget[u]) - PendingReserved(Root, NoRequest)
    BY <1>3 DEF BudgetCommits, BytesInv, Request, Committing, At, LimitKinds, Administrator, IsAdmin
  <2>1. UNCHANGED <<pool, acct, own, intents, retired, purging, issued, os, native, waiting>>
        /\ job' = [job EXCEPT !.pc = "parent"] /\ budget' = [budget EXCEPT ![u] = job.bytes]
    BY <1>3 DEF BudgetCommits, Goto
  <2>2. /\ job' \in Job /\ job'.pc = "parent" /\ job'.kind = job.kind /\ job'.owner = job.owner /\ job'.uid = job.uid
        /\ job'.bytes = job.bytes
    BY <2>1, JobMoves
  <2>3. Grown
    BY <2>1 DEF Grown
  <2>4. Request(job)' /\ \A h \in Helpers : Request(waiting[h])'
    BY <2>0, <2>1, <2>2, <2>3, RequestMoves, RequestsKept DEF At, LimitKinds
  <2>5. budget' \in [Uids -> Nat] /\ \A a \in Uids : budget'[a] = IF a = u THEN job.bytes ELSE budget[a]
    BY <2>0, <2>1, JobFine
  <2>6. TypeOK' /\ IsFiniteSet(intents')
    BY <2>1, <2>2, <2>5 DEF BytesInv, TypeOK
  <2>7. Delegated \in Nat /\ Delegated' \in Nat /\ Delegated' = Delegated - budget[u] + job.bytes
    <3>1. PICK f, g, w : f = budget /\ g = budget' /\ w = u
      OBVIOUS
    <3>2. \A x \in Uids : f[x] \in Nat /\ g[x] \in Nat
      BY <2>5, <3>1, JobFine
    <3>3. w \in Uids /\ \A x \in Uids : x # w => f[x] = g[x]
      BY <2>0, <2>5, <3>1
    <3>4. /\ SumFunctionOnSet(f, Uids) \in Nat /\ SumFunctionOnSet(g, Uids) \in Nat
          /\ SumFunctionOnSet(g, Uids) = SumFunctionOnSet(f, Uids) - f[w] + g[w]
      BY <3>2, <3>3, SumUpdate, AllocationConstants
    <3>5. Delegated = SumFunctionOnSet(f, Uids) /\ Delegated' = SumFunctionOnSet(g, Uids)
      BY <3>1 DEF Delegated
    <3>6. g[w] = job.bytes
      BY <2>0, <2>5, <3>1
    <3>7. QED
      BY <3>1, <3>4, <3>5, <3>6
  <2>8. \A a : /\ PendingReserved(a, NoRequest)' = PendingReserved(a, NoRequest)
               /\ Allocated(a, NoRequest)' = Allocated(a, NoRequest)
    BY <2>1 DEF PendingReserved, Allocated, ChildQuotas, NoRequest
  <2>9. NeverOverAllocated'
    <3>1. /\ Delegated' + PendingReserved(Root, NoRequest)' <= pool'
      <4>1. PendingReserved(Root, NoRequest) \in Nat /\ budget[u] \in Nat /\ pool \in Nat /\ job.bytes \in Nat
        BY <2>0, Amounts, JobFine
      <4>2. QED
        BY <2>0, <2>1, <2>7, <2>8, <4>1
    <3>2. ASSUME NEW a \in Uids PROVE Allocated(a, NoRequest)' + own'[a] <= budget'[a]
      <4>1. Allocated(a, NoRequest) \in Nat /\ own[a] \in Nat /\ Allocated(a, NoRequest) + own[a] <= budget[a]
        BY Amounts
      <4>2. QED
        BY <2>0, <2>1, <2>5, <2>8, <4>1
    <3>3. QED
      BY <3>1, <3>2 DEF NeverOverAllocated
  <2>10. AccountsInv'
    BY <2>0, <2>1, <2>5 DEF BytesInv, AccountsInv, Administrator, IsAdmin
  <2>11. Committing'
    BY <2>2 DEF Committing, At
  <2>12. QED
    BY <2>4, <2>6, <2>9, <2>10, <2>11 DEF BytesInv
<1>4. QED
  BY <1>1, <1>2, <1>3

\* The row that a change of status, or the tombstone of a purge, writes.
LEMMA StatusRow ==
  ASSUME IInv, BytesInv, NEW u \in Uids, NEW s \in {"active", "suspended", "deleted"}, NEW purged \in BOOLEAN,
         IF purged THEN PurgeEntombs /\ u = job.uid ELSE Transition(u, s)
  PROVE  LET q == IF purged THEN 0 ELSE acct[u].quota
             t == IF purged THEN "purged" ELSE s
         IN /\ acct[u].status # "none" /\ acct[u] \in Account /\ acct[u].gen \in Nat
            /\ acct[u].gen + 1 <= MaxGen \/ purged
            /\ UNCHANGED <<pool, budget, own, intents, purging, issued, os, native, waiting>>
            /\ acct' \in [Uids -> Account] /\ \A x \in Uids : x # u => acct'[x] = acct[x]
            /\ acct'[u].quota = q /\ acct'[u].gen = acct[u].gen + 1 /\ acct'[u].status = t
            /\ acct'[u].owner = acct[u].owner /\ acct'[u].role = acct[u].role
<1> DEFINE q == IF purged THEN 0 ELSE acct[u].quota
           t == IF purged THEN "purged" ELSE s
<1>0. /\ acct[u].status # "none" /\ acct[u] \in Account /\ acct[u].gen \in Nat /\ acct[u].gen + 1 \in Generations
      /\ acct[u].gen + 1 <= MaxGen \/ purged
  <2>1. acct[u] \in Account /\ acct[u].gen \in Nat
    BY JobFine, AllocationConstants DEF Account, Generations
  <2>2. CASE purged
    <3>1. acct[u].status = "deleted"
      BY <2>2 DEF PurgeEntombs, At, IInv, PurgingInv, PurgeStages
    <3>2. acct[u].gen <= MaxGen
      BY <3>1 DEF BytesInv, AccountsInv
    <3>3. QED
      BY <2>1, <2>2, <3>1, <3>2, AllocationConstants DEF Generations
  <2>3. CASE ~purged
    BY <2>1, <2>3, AllocationConstants DEF Transition, Bumped, Generations
  <2>4. QED
    BY <2>2, <2>3
<1>1. /\ UNCHANGED <<pool, budget, own, intents, purging, issued, os, native, waiting>>
      /\ acct' = [x \in Uids |-> IF x = u THEN [acct[x] EXCEPT !.quota = q, !.status = t, !.gen = @ + 1] ELSE acct[x]]
  <2>1. CASE purged
    BY <2>1, <1>0, JobFine DEF PurgeEntombs
  <2>2. CASE ~purged
    <3>1. acct' = [x \in Uids |-> IF x = u THEN [acct[x] EXCEPT !.status = s, !.gen = @ + 1] ELSE acct[x]]
      BY <2>2, <1>0, JobFine DEF Transition
    <3>2. [acct[u] EXCEPT !.status = s, !.gen = @ + 1] = [acct[u] EXCEPT !.quota = q, !.status = t, !.gen = @ + 1]
      BY <1>0, <2>2 DEF Account
    <3>3. QED
      BY <2>2, <3>1, <3>2 DEF Transition
  <2>3. QED
    BY <2>1, <2>2
<1>2. /\ acct'[u] = [acct[u] EXCEPT !.quota = q, !.status = t, !.gen = acct[u].gen + 1]
      /\ \A x \in Uids : x # u => acct'[x] = acct[x]
  BY <1>1
<1>3. q \in Nat /\ t \in {"active", "suspended", "deleted", "purged"} /\ (purged => t = "purged")
  BY <1>0 DEF Account
<1>4. /\ acct'[u] \in Account /\ acct'[u].quota = q /\ acct'[u].gen = acct[u].gen + 1 /\ acct'[u].status = t
      /\ acct'[u].owner = acct[u].owner /\ acct'[u].role = acct[u].role
  <2> HIDE DEF q, t
  <2>1. QED
    BY <1>0, <1>2, <1>3 DEF Account
<1>5. acct' \in [Uids -> Account]
  BY <1>1, <1>2, <1>4, JobFine
<1>6. QED
  BY <1>0, <1>1, <1>2, <1>4, <1>5

\* A change of status, and the tombstone that frees a purged child's quota.
LEMMA StatusBytes ==
  ASSUME IInv, BytesInv, NEW u \in Uids, NEW s \in {"active", "suspended", "deleted"}, NEW purged \in BOOLEAN,
         IF purged THEN PurgeEntombs /\ u = job.uid ELSE Transition(u, s)
  PROVE  BytesInv'
<1> DEFINE q == IF purged THEN 0 ELSE acct[u].quota
           t == IF purged THEN "purged" ELSE s
<1>0. /\ acct[u].status # "none" /\ acct[u] \in Account /\ acct[u].gen \in Nat
      /\ acct[u].gen + 1 <= MaxGen \/ purged
      /\ UNCHANGED <<pool, budget, own, intents, purging, issued, os, native, waiting>>
      /\ acct' \in [Uids -> Account] /\ \A x \in Uids : x # u => acct'[x] = acct[x]
      /\ acct'[u].quota = q /\ acct'[u].gen = acct[u].gen + 1 /\ acct'[u].status = t
      /\ acct'[u].owner = acct[u].owner /\ acct'[u].role = acct[u].role
  BY StatusRow
<1>3. q \in Nat /\ t \in {"active", "suspended", "deleted", "purged"} /\ (purged => t = "purged")
  BY <1>0 DEF Account
<1>6. Grown
  BY <1>0, <1>3 DEF Grown
<1>7. job' \in Job /\ job'.pc # "commit" /\ Request(job)'
  <2>1. CASE purged
    <3>1. job' = [job EXCEPT !.pc = "parent"] /\ job.kind = "purge"
      BY <2>1 DEF PurgeEntombs, Goto, At
    <3>2. /\ job' \in Job /\ job'.pc = "parent" /\ job'.kind = job.kind /\ job'.owner = job.owner
          /\ job'.uid = job.uid /\ job'.bytes = job.bytes
      BY <3>1, JobMoves
    <3>3. QED
      BY <1>0, <1>6, <3>1, <3>2, RequestMoves
  <2>2. CASE ~purged
    BY <1>0, <1>6, <2>2, RequestsKept, JobFine DEF Transition, TxFree
  <2>3. QED
    BY <2>1, <2>2
<1>8. retired' \subseteq Uids /\ own' \in [Uids -> Nat]
  BY <1>0, JobFine DEF BytesInv, TypeOK, PurgeEntombs, Transition
<1>9. \A a \in Uids : Allocated(a, NoRequest) + own'[a]
                        <= budget[a] + (IF acct[u].owner = a THEN acct[u].quota - acct'[u].quota ELSE 0)
  <2>1. \A a \in Uids : /\ Allocated(a, NoRequest) \in Nat /\ own[a] \in Nat /\ budget[a] \in Nat
                        /\ Allocated(a, NoRequest) + own[a] <= budget[a]
    BY Amounts
  <2>2. acct[u].quota - acct'[u].quota \in Nat /\ own' = own
    <3>1. acct[u].quota \in Nat
      BY <1>0 DEF Account
    <3>2. purged => q = 0
      BY Zenon
    <3>3. ~purged => q = acct[u].quota
      BY Zenon
    <3>4. acct'[u].quota = 0 \/ acct'[u].quota = acct[u].quota
      BY <1>0, <3>2, <3>3, Zenon
    <3>5. own' = own
      BY <1>0
    <3>6. QED
      BY <3>1, <3>4, <3>5
  <2>3. QED
    BY <2>1, <2>2
<1>10. acct'[u].gen <= MaxGen \/ acct'[u].status = "purged"
  BY <1>0, <1>3
<1>11. acct'[u].status # "none"
  BY <1>3, <1>0
<1> HIDE DEF q, t
<1>12. QED
  BY <1>0, <1>7, <1>8, <1>9, <1>10, <1>11, RowChange

\* Root sets the pool.
LEMMA PoolBytes == ASSUME BytesInv, NEW b \in Sizes, SetPool(b) PROVE BytesInv'
<1>0. /\ UNCHANGED <<acct, budget, own, intents, retired, purging, issued, os, native, waiting, job>>
      /\ pool' = b /\ b >= Delegated + PendingReserved(Root, NoRequest) /\ job.pc # "commit" /\ b \in Nat
  BY AllocationConstants DEF SetPool, TxFree
<1>1. TypeOK' /\ IsFiniteSet(intents')
  BY <1>0 DEF BytesInv, TypeOK
<1>2. /\ Delegated' = Delegated
      /\ \A a : /\ PendingReserved(a, NoRequest)' = PendingReserved(a, NoRequest)
                /\ Allocated(a, NoRequest)' = Allocated(a, NoRequest)
  BY <1>0 DEF Delegated, PendingReserved, Allocated, ChildQuotas, NoRequest
<1>3. NeverOverAllocated'
  BY <1>0, <1>2, Amounts DEF BytesInv, NeverOverAllocated
<1>4. AccountsInv' /\ Committing' /\ Request(job)' /\ \A h \in Helpers : Request(waiting[h])'
  BY <1>0 DEF BytesInv, AccountsInv, Committing, At, Request, Administrator, IsAdmin
<1>5. QED
  BY <1>1, <1>3, <1>4 DEF BytesInv

\* A purge begins.
LEMMA PurgeStartsBytes == ASSUME BytesInv, NEW u \in Uids, PurgeStarts(u) PROVE BytesInv'
<1> DEFINE purge(pc) == [Idle EXCEPT !.kind = "purge", !.pc = pc, !.uid = u, !.owner = acct[u].owner]
<1>0. /\ UNCHANGED <<pool, acct, budget, own, intents, issued, os, native, waiting>>
      /\ purging' \subseteq Uids /\ retired' \subseteq Uids
      /\ \E pc \in {"clear", "userdel"} : job' = purge(pc)
      /\ acct[u].status # "none" /\ acct[u].role = "user"
  BY DEF PurgeStarts, BytesInv, TypeOK
<1>1. PICK pc \in {"clear", "userdel"} : job' = purge(pc)
  BY <1>0
<1>2. Administrator(acct[u].owner) /\ 0 \in Generations
  BY <1>0, AllocationConstants DEF BytesInv, AccountsInv, Generations
<1>3. /\ job' \in Job /\ job'.kind = "purge" /\ job'.owner = acct[u].owner /\ job'.uid = u /\ job'.pc = pc
  BY <1>1, <1>2 DEF Job, Idle, NoRequest, Administrator
<1>4. Request(job)'
  <2>1. Administrator(job.owner)'
    BY <1>0, <1>2, <1>3 DEF Administrator, IsAdmin
  <2>2. QED
    BY <1>3, <2>1 DEF Request, PurgeStages, LimitKinds
<1>5. TypeOK' /\ IsFiniteSet(intents')
  BY <1>0, <1>3 DEF BytesInv, TypeOK
<1>6. /\ Delegated' = Delegated
      /\ \A a : /\ PendingReserved(a, NoRequest)' = PendingReserved(a, NoRequest)
                /\ Allocated(a, NoRequest)' = Allocated(a, NoRequest)
  BY <1>0 DEF Delegated, PendingReserved, Allocated, ChildQuotas, NoRequest
<1>7. NeverOverAllocated'
  BY <1>0, <1>6 DEF BytesInv, NeverOverAllocated
<1>8. AccountsInv' /\ Committing' /\ \A h \in Helpers : Request(waiting[h])'
  BY <1>0, <1>3 DEF BytesInv, AccountsInv, Committing, At, Request, Administrator, IsAdmin
<1>9. QED
  BY <1>4, <1>5, <1>7, <1>8 DEF BytesInv

\* The empty database.
LEMMA InitBytes == Init => BytesInv
<1> SUFFICES ASSUME Init PROVE BytesInv
  OBVIOUS
<1>1. Absent \in Account
  BY AllocationConstants DEF Absent, Account, Generations
<1>2. TypeOK /\ IsFiniteSet(intents)
  BY <1>1, IdleFine, FS_EmptySet DEF Init, TypeOK
<1>3. /\ \A o, e : PendingReserved(o, e) = 0 /\ ChildQuotas(o) = 0
      /\ Delegated = 0
  <2>1. ASSUME NEW o, NEW e PROVE PendingReserved(o, e) = 0
    <3>1. {i \in intents : i.owner = o /\ ~i.done /\ i.req # e} = {}
      BY DEF Init
    <3>2. QED
      BY <3>1, PromisedNone DEF PendingReserved
  <2>2. ASSUME NEW o PROVE ChildQuotas(o) = 0
    <3>1. PICK f, S : f = [u \in Uids |-> acct[u].quota] /\ S = {u \in Uids : acct[u].owner = o}
      OBVIOUS
    <3>2. IsFiniteSet(S) /\ \A x \in S : f[x] = 0
      <4>1. \A x \in S : f[x] = 0
        BY <3>1 DEF Init, Absent
      <4>2. S \subseteq Uids
        BY <3>1
      <4>3. QED
        BY <4>1, <4>2, FS_Subset, AllocationConstants
    <3>3. QED
      BY <3>1, <3>2, SumZero DEF ChildQuotas
  <2>3. Delegated = 0
    <3>1. IsFiniteSet(Uids) /\ \A x \in Uids : budget[x] = 0
      BY AllocationConstants DEF Init
    <3>2. QED
      BY <3>1, SumZero DEF Delegated
  <2>4. QED
    BY <2>1, <2>2, <2>3
<1>4. NeverOverAllocated
  BY <1>3 DEF Init, NeverOverAllocated, Allocated
<1>5. AccountsInv
  BY AllocationConstants DEF Init, AccountsInv, Absent
<1>6. Committing /\ Request(job) /\ \A h \in Helpers : Request(waiting[h])
  BY IdleFine DEF Init, Committing, At
<1>7. QED
  BY <1>2, <1>4, <1>5, <1>6 DEF BytesInv

\* Every step.
LEMMA BytesStep == ASSUME IInv, BytesInv, [Next]_vars PROVE BytesInv'
<1>1. CASE Asks
  BY <1>1, AsksBytes
<1>2. CASE Creates
  <2>1. CASE CreateReserves
    BY <2>1, CreateReservesBytes
  <2>2. CASE \E r \in Requests, b \in Sizes : AdminReserves(r, b)
    BY <2>2, AdminReservesBytes
  <2>3. CASE CreatesChild \/ CreatesAdmin
    BY <2>3, CreatesBytes
  <2>4. CASE \E i \in intents : Cancels(i)
    BY <2>4, CancelsBytes
  <2>5. QED
    BY <1>2, <2>1, <2>2, <2>3, <2>4, CreationBytes DEF Creates
<1>3. CASE Resizes
  <2>1. CASE \E b \in Sizes : SetPool(b)
    BY <2>1, PoolBytes
  <2>2. CASE QuotaCommits \/ OwnCommits \/ BudgetCommits
    BY <2>2, CommitsBytes
  <2>3. QED
    BY <1>3, <2>1, <2>2, ResizeBytes DEF Resizes
<1>4. CASE Removals
  <2>1. ASSUME NEW u \in Uids, NEW s \in {"active", "suspended", "deleted"}, Transition(u, s) PROVE BytesInv'
    <3>1. IF FALSE THEN PurgeEntombs /\ u = job.uid ELSE Transition(u, s)
      BY <2>1
    <3>2. QED
      BY <3>1, StatusBytes
  <2>2. ASSUME PurgeEntombs PROVE BytesInv'
    <3>1. PICK u, s : u = job.uid /\ s = "active"
      OBVIOUS
    <3>2. u \in Uids
      BY <2>2, <3>1 DEF PurgeEntombs, At, BytesInv, Request
    <3>3. IF TRUE THEN PurgeEntombs /\ u = job.uid ELSE Transition(u, s)
      BY <2>2, <3>1
    <3>4. QED
      BY <3>1, <3>2, <3>3, StatusBytes
  <2>3. QED
    BY <1>4, <2>1, <2>2, PurgeStartsBytes, RemovesBytes DEF Removals
<1>5. CASE Ends
  BY <1>5, CreationBytes
<1>6. CASE UNCHANGED vars
  <2>1. UNCHANGED <<db, os, native, waiting, job>>
    BY <1>6 DEF vars, db
  <2>2. job'.pc = "commit" => Committing'
    BY <2>1 DEF BytesInv, Committing, At, db, Allocated, ChildQuotas, PendingReserved, Delegated
  <2>3. QED
    BY <2>1, <2>2, JobStep, JobFine
<1>7. QED
  BY <1>1, <1>2, <1>3, <1>4, <1>5, <1>6 DEF Next

\* The tables, the requests and the checks before a commit stay right.
THEOREM BytesRight == Spec => []BytesInv
<1>1. Init => BytesInv
  BY InitBytes
<1>2. IInv /\ BytesInv /\ [Next]_vars => BytesInv'
  BY BytesStep
<1>3. QED
  BY <1>1, <1>2, Identities, PTL DEF Spec

\* Every table, the operating system and every process keep their types.
THEOREM AllocationTyped == Spec => []TypeOK
<1>1. BytesInv => TypeOK
  BY DEF BytesInv
<1>2. QED
  BY <1>1, BytesRight, PTL

\* No bytes are promised twice: the pool holds every budget and unfinished
\* administrator, and every budget its children, their unfinished creations
\* and its own quota.
THEOREM BytesPromisedOnce == Spec => []NeverOverAllocated
<1>1. BytesInv => NeverOverAllocated
  BY DEF BytesInv
<1>2. QED
  BY <1>1, BytesRight, PTL

-----------------------------------------------------------------------------
(* Kernel limits. *)

Within(limit, bytes) == limit \in 1..NativeLimit(bytes)
Close(u) == Within(native[u], Allotment(u))
Given(u) == "owned" \in os[u] \/ (Creating /\ job.pc = "owned" /\ job.uid = u)
AtMost(u, bytes) == "owned" \in os[u] => native[u] <= NativeLimit(bytes)

\* A change of a quota knows what it replaces.
KnowsOld(j) ==
  j.kind = "quota" /\ j.pc \in {"start", "commit"} =>
    acct[j.uid].status = "purged" \/ acct[j.uid].quota = j.old

\* The side that is about to lose bytes has its smaller limit already.
Lowered ==
  LET a == job.owner IN
  /\ At("create", "intent") =>
       /\ job.limit = EffectiveQuota(a)
       /\ AtMost(a, IF own[a] > 0 THEN own[a] ELSE job.limit - job.bytes)
  /\ At("quota", "commit") =>
       /\ job.limit = Remainder
       /\ job.bytes > acct[job.uid].quota => AtMost(a, Remainder)
       /\ job.bytes < acct[job.uid].quota => AtMost(job.uid, job.bytes)
  /\ job.kind \in LimitKinds /\ job.pc = "commit" => job.limit = LimitAfter /\ AtMost(a, LimitAfter)

\* The side that has gained them does not get more than it has.
Raises ==
  /\ At("quota", "child") => acct[job.uid].quota = job.bytes
  /\ job.kind \in LimitKinds \cup {"quota"} /\ job.pc \in {"child", "parent"} =>
       job.limit <= EffectiveQuota(job.owner)

\* A creation gives its child the bytes of its intent.
PricedInv ==
  Creating /\ job.pc \in CreateStages =>
    \E i \in intents : i.owner = job.owner /\ i.req = job.req /\ i.quota = job.bytes

Homes == \A u \in Uids : Given(u) => Close(u)
JobKnows == PricedInv /\ Lowered /\ Raises /\ KnowsOld(job)
LimitsInv == Homes /\ JobKnows /\ \A h \in Helpers : KnowsOld(waiting[h])

\* One child has one change of its quota waiting or under way.
Serial ==
  \A h \in Helpers : waiting[h].kind = "quota" =>
    /\ ~(job.kind = "quota" /\ job.uid = waiting[h].uid)
    /\ \A k \in Helpers \ {h} : ~(waiting[k].kind = "quota" /\ waiting[k].uid = waiting[h].uid)

\* The kernel's number for a number of bytes.
LEMMA NativeGrows ==
  ASSUME NEW x \in Int, NEW y \in Int, x <= y
  PROVE  NativeLimit(x) \in Nat /\ NativeLimit(x) >= 1 /\ NativeLimit(x) <= NativeLimit(y) /\ NativeLimit(y) \in Nat
  BY DEF NativeLimit

\* A larger allotment lets the same limit pass.
LEMMA WithinMore ==
  ASSUME NEW n, NEW x \in Int, NEW y \in Int, x <= y, Within(n, x)
  PROVE  Within(n, y)
<1>1. NativeLimit(x) \in Nat /\ NativeLimit(x) <= NativeLimit(y) /\ NativeLimit(y) \in Nat
  BY NativeGrows
<1>2. QED
  BY <1>1 DEF Within

\* The limit written for a number of bytes.
LEMMA WithinSelf ==
  ASSUME NEW x \in Int, NEW y \in Int, x <= y
  PROVE  Within(NativeLimit(x), y)
<1>1. NativeLimit(x) \in Nat /\ NativeLimit(x) >= 1 /\ NativeLimit(x) <= NativeLimit(y) /\ NativeLimit(y) \in Nat
  BY NativeGrows
<1>2. QED
  BY <1>1 DEF Within

\* What is promised to a home is a number; an administrator's is what is left.
LEMMA Allotments ==
  ASSUME BytesInv
  PROVE  /\ \A u \in Uids : Allotment(u) \in Nat /\ EffectiveQuota(u) \in Nat /\ native[u] \in Nat
         /\ \A u \in Uids : acct[u].status # "none" => Allotment(u) = EffectiveQuota(u)
         /\ \A a : Administrator(a) => /\ a \in Uids /\ acct[a].status # "none" /\ acct[a].role = "admin"
                                       /\ EffectiveQuota(a) = IF own[a] > 0 THEN own[a]
                                                              ELSE budget[a] - Allocated(a, NoRequest)
<1>1. ASSUME NEW u \in Uids PROVE Promised({i \in intents : i.uid = u /\ ~i.done}) \in Nat
  <2> DEFINE A == {i \in intents : i.uid = u /\ ~i.done}
  <2>1. A \subseteq intents
    OBVIOUS
  <2>2. Priced(A)
    BY <2>1, FS_Subset, Amounts DEF Priced
  <2> HIDE DEF A
  <2>3. Promised(A) \in Nat
    BY <2>2, PromisedFacts
  <2>4. QED
    BY <2>3 DEF A
<1>2. \A u \in Uids : Allotment(u) \in Nat /\ EffectiveQuota(u) \in Nat /\ native[u] \in Nat
  BY <1>1, Amounts, JobFine DEF Allotment
<1>3. \A u \in Uids : acct[u].status # "none" => Allotment(u) = EffectiveQuota(u)
  BY DEF Allotment
<1>4. ASSUME NEW a, Administrator(a)
      PROVE  /\ a \in Uids /\ acct[a].status # "none" /\ acct[a].role = "admin"
             /\ EffectiveQuota(a) = IF own[a] > 0 THEN own[a] ELSE budget[a] - Allocated(a, NoRequest)
  BY <1>4 DEF Administrator, IsAdmin, EffectiveQuota
<1>5. QED
  BY <1>2, <1>3, <1>4

\* The promise of an unfinished creation.
LEMMA PromisedOne ==
  ASSUME IInv, BytesInv, NEW i \in intents, ~i.done
  PROVE  acct[i.uid].status = "none" /\ Allotment(i.uid) = i.quota /\ i.quota \in Nat
<1>1. acct[i.uid].status = "none" /\ {j \in intents : j.uid = i.uid /\ ~j.done} = {i}
  BY DEF IInv, IntentInv, UidInv
<1>2. Priced({i}) /\ i.quota \in Nat
  BY Amounts, FS_Singleton DEF Priced
<1>3. Promised({i}) = i.quota + Promised({i} \ {i})
  BY <1>2, PromisedFacts
<1>4. {i} \ {i} = {}
  OBVIOUS
<1>5. Promised({i}) = i.quota
  BY <1>2, <1>3, <1>4, PromisedNone
<1>6. QED
  BY <1>1, <1>2, <1>5 DEF Allotment

TablesKept == UNCHANGED <<acct, budget, own, intents>>

\* While these tables stay, so do the allotments.
LEMMA DbKept ==
  ASSUME TablesKept
  PROVE  /\ \A u : EffectiveQuota(u)' = EffectiveQuota(u) /\ Allotment(u)' = Allotment(u)
         /\ \A a, e : Allocated(a, e)' = Allocated(a, e)
<1>1. UNCHANGED <<acct, budget, own, intents>>
  BY DEF TablesKept
<1>2. \A a, e : Allocated(a, e)' = Allocated(a, e)
  BY <1>1 DEF Allocated, ChildQuotas, PendingReserved
<1>3. \A u : EffectiveQuota(u)' = EffectiveQuota(u)
  BY <1>1, <1>2 DEF EffectiveQuota, NoRequest
<1>4. \A u : Allotment(u)' = Allotment(u)
  BY <1>1, <1>3 DEF Allotment
<1>5. QED
  BY <1>2, <1>3, <1>4

\* A step outside the database: each limit it writes is within the allotment,
\* and it gives no home away without one.
LEMMA HomesKept ==
  ASSUME BytesInv, LimitsInv, TablesKept,
         \A u \in Uids : Given(u)' => Given(u) \/ Within(native'[u], Allotment(u)),
         \A u \in Uids : Given(u)' => native'[u] = native[u] \/ Within(native'[u], Allotment(u))
  PROVE  Homes'
<1>1. ASSUME NEW u \in Uids, Given(u)' PROVE Close(u)'
  <2>1. Allotment(u)' = Allotment(u)
    BY DbKept
  <2>2. Within(native'[u], Allotment(u))
    BY <1>1 DEF LimitsInv, Homes, Close
  <2>3. QED
    BY <2>1, <2>2 DEF Close, Within, NativeLimit
<1>2. QED
  BY <1>1 DEF Homes

\* What the waiting helpers have read stays true while the accounts stay.
LEMMA WaitingKnows ==
  ASSUME BytesInv, LimitsInv, TablesKept, waiting' = waiting
  PROVE  \A h \in Helpers : KnowsOld(waiting[h])'
  BY DEF TablesKept, LimitsInv, KnowsOld

\* A job of which the invariant asks nothing about limits.
AtRest(j) ==
  /\ j.pc \notin {"intent", "commit", "child", "parent"} \cup CreateStages
  /\ j.kind = "quota" => j.pc # "start"

\* Then it knows enough.
LEMMA RestKnows == ASSUME AtRest(job)' PROVE JobKnows'
  BY DEF AtRest, JobKnows, PricedInv, Lowered, Raises, KnowsOld, At, CreateStages

\* An end of a job, or a step to one at rest, that writes a limit within the allotment.
LEMMA RestStep ==
  ASSUME BytesInv, LimitsInv, TablesKept, waiting' = waiting, AtRest(job)', \A u \in Uids : os'[u] \subseteq os[u],
         \A u \in Uids : "owned" \in os[u] => native'[u] = native[u] \/ Within(native'[u], Allotment(u))
  PROVE  LimitsInv'
<1>1. ASSUME NEW u \in Uids, Given(u)' PROVE Given(u) /\ "owned" \in os[u]
  BY <1>1 DEF Given, AtRest, CreateStages
<1>2. Homes'
  BY <1>1, HomesKept
<1>3. QED
  BY <1>2, RestKnows, WaitingKnows DEF LimitsInv

\* The kernel limit of one uid.
LEMMA NativeAt ==
  ASSUME BytesInv, NEW v \in Uids, NEW b \in Int, b <= Allotment(v), NativeSet(v, b)
  PROVE  \A u \in Uids : native'[u] = native[u] \/ Within(native'[u], Allotment(u))
<1>1. Allotment(v) \in Int
  BY Allotments
<1>2. \A u \in Uids : native'[u] = IF u = v THEN NativeLimit(b) ELSE native[u]
  BY JobFine DEF NativeSet
<1>3. Within(NativeLimit(b), Allotment(v))
  BY <1>1, WithinSelf
<1>4. QED
  BY <1>2, <1>3

\* A job that is idle, or has just begun, is at rest unless it changes a quota.
LEMMA IdleRests == AtRest(Idle)
  BY IdleFine DEF AtRest, CreateStages

\* What helpers ask for, and who gets the lock.
LEMMA AsksLimits == ASSUME IInv, BytesInv, LimitsInv, Asks PROVE LimitsInv'
<1>0. UNCHANGED <<db, os, native>>
  BY DEF Asks, AskCreate, AskQuota, Lock, Abandon
<1>1. /\ TablesKept /\ UNCHANGED <<acct, budget, own, intents>> /\ \A u : EffectiveQuota(u)' = EffectiveQuota(u)
      /\ \A a, e : Allocated(a, e)' = Allocated(a, e)
  BY <1>0, DbKept DEF db, TablesKept
<1>2. ASSUME NEW h \in Helpers, NEW j, waiting' = [waiting EXCEPT ![h] = j], KnowsOld(j), job' = job
      PROVE  LimitsInv'
  <2>1. Homes'
    BY <1>0, <1>1, <1>2, HomesKept DEF Given, Creating
  <2>2. Remainder' = Remainder /\ LimitAfter' = LimitAfter
    BY <1>1, <1>2 DEF Remainder, LimitAfter, NoRequest
  <2>3. JobKnows'
    <3>1. PricedInv'
      BY <1>1, <1>2 DEF LimitsInv, JobKnows, PricedInv, Creating
    <3>2. Lowered'
      BY <1>0, <1>1, <1>2, <2>2 DEF LimitsInv, JobKnows, Lowered, At, AtMost, NativeLimit
    <3>3. Raises' /\ KnowsOld(job)'
      BY <1>1, <1>2 DEF LimitsInv, JobKnows, Raises, At, KnowsOld
    <3>4. QED
      BY <3>1, <3>2, <3>3 DEF JobKnows
  <2>4. \A k \in Helpers : KnowsOld(waiting[k])'
    BY <1>1, <1>2, JobFine DEF LimitsInv, KnowsOld
  <2>5. QED
    BY <2>1, <2>3, <2>4 DEF LimitsInv
<1>3. KnowsOld(Idle)
  BY IdleFine DEF KnowsOld
<1>4. ASSUME NEW h \in Helpers, NEW a \in Uids, NEW r \in Requests, NEW q \in Sizes, AskCreate(h, a, r, q)
      PROVE  LimitsInv'
  <2> DEFINE j == [Idle EXCEPT !.kind = "create", !.by = h, !.owner = a, !.req = r, !.auth = acct[a].gen, !.bytes = q]
  <2>1. j.kind = "create"
    BY DEF Idle
  <2>2. KnowsOld(j) /\ waiting' = [waiting EXCEPT ![h] = j] /\ job' = job
    BY <1>4, <2>1 DEF KnowsOld, AskCreate
  <2> HIDE DEF j
  <2>3. QED
    BY <1>2, <2>2
<1>5. ASSUME NEW h \in Helpers, NEW u \in Uids, NEW q \in Sizes, NEW auth \in 0..MaxGen \cup {Root},
             AskQuota(h, u, q, auth)
      PROVE  LimitsInv'
  <2> DEFINE j == [Idle EXCEPT !.kind = "quota", !.by = h, !.owner = acct[u].owner, !.uid = u, !.auth = auth,
                               !.gen = acct[u].gen, !.bytes = q, !.old = acct[u].quota]
  <2>1. j.uid = u /\ j.old = acct[u].quota
    BY DEF Idle
  <2>2. KnowsOld(j) /\ waiting' = [waiting EXCEPT ![h] = j] /\ job' = job
    BY <1>5, <2>1 DEF KnowsOld, AskQuota
  <2> HIDE DEF j
  <2>3. QED
    BY <1>2, <2>2
<1>6. ASSUME NEW h \in Helpers, Abandon(h) PROVE LimitsInv'
  BY <1>2, <1>3, <1>6 DEF Abandon
<1>7. ASSUME NEW h \in Helpers, Lock(h) PROVE LimitsInv'
  <2>1. job' = waiting[h] /\ waiting' = [waiting EXCEPT ![h] = Idle] /\ waiting[h].pc = "start"
    BY <1>7 DEF Lock, IInv, Shapes
  <2>2. Homes'
    <3>1. \A u \in Uids : Given(u)' => Given(u)
      BY <1>0, <2>1 DEF Given
    <3>2. QED
      BY <1>0, <1>1, <3>1, HomesKept
  <2>3. JobKnows'
    BY <1>1, <2>1 DEF LimitsInv, JobKnows, PricedInv, Lowered, Raises, KnowsOld, At, CreateStages
  <2>4. \A k \in Helpers : KnowsOld(waiting[k])'
    BY <1>1, <1>3, <2>1, JobFine DEF LimitsInv, KnowsOld
  <2>5. QED
    BY <2>2, <2>3, <2>4 DEF LimitsInv
<1>8. QED
  BY <1>4, <1>5, <1>6, <1>7 DEF Asks

\* A creation goes on with its intent.
LEMMA StageKnows ==
  ASSUME BytesInv, LimitsInv, job'.kind = job.kind, job'.owner = job.owner, job'.req = job.req, job'.bytes = job.bytes,
         job'.kind \in {"create", "admin"}, job'.pc \in CreateStages,
         \E i \in intents' : i.owner = job.owner /\ i.req = job.req /\ i.quota = job.bytes
  PROVE  JobKnows'
<1>1. PricedInv'
  BY DEF PricedInv
<1>2. QED
  BY <1>1 DEF JobKnows, Lowered, Raises, KnowsOld, At, CreateStages, LimitKinds

\* Creations outside the database, and the end of any job.
LEMMA CreationLimits ==
  ASSUME IInv, BytesInv, LimitsInv, CreateResumes \/ CreateLowers \/ CreateRefused
         \/ MakesGroup \/ MakesUser \/ MakesHome \/ LimitsChild \/ HandsOver \/ Ends
  PROVE  LimitsInv'
<1>0. UNCHANGED <<db, waiting>> /\ TablesKept
  BY DEF CreateResumes, CreateLowers, CreateRefused, MakesGroup, MakesUser, MakesHome, HandsOver, MakesPiece,
     LimitsChild, Ends, db, TablesKept
<1>a. /\ UNCHANGED <<acct, budget, own, intents>> /\ \A u : EffectiveQuota(u)' = EffectiveQuota(u)
      /\ \A a, e : Allocated(a, e)' = Allocated(a, e)
  BY <1>0, DbKept DEF TablesKept
<1>b. job.kind = "create" =>
        /\ job.owner \in Uids /\ own[job.owner] \in Nat /\ job.bytes \in Nat /\ EffectiveQuota(job.owner) \in Nat
        /\ Allotment(job.owner) = EffectiveQuota(job.owner)
        /\ own[job.owner] > 0 => EffectiveQuota(job.owner) = own[job.owner]
  BY JobFine, Amounts, Allotments DEF BytesInv, Request, Administrator
<1>c. \A h \in Helpers : KnowsOld(waiting[h])'
  BY <1>0, WaitingKnows
<1>1. CASE CreateResumes
  <2>1. PICK i \in intents : /\ i.owner = job.owner /\ i.req = job.req /\ i.quota = job.bytes
                             /\ job' = [job EXCEPT !.pc = "group", !.uid = i.uid]
    BY <1>1 DEF CreateResumes, IntentsOf
  <2>2. /\ job'.kind = job.kind /\ job'.owner = job.owner /\ job'.req = job.req /\ job'.bytes = job.bytes
        /\ job'.pc = "group" /\ job.kind = "create" /\ os' = os /\ NativeSet(job.owner, EffectiveQuota(job.owner))
    BY <1>1, <2>1, JobFine DEF CreateResumes, At, Job
  <2>3. JobKnows'
    <3>1. \E k \in intents' : k.owner = job.owner /\ k.req = job.req /\ k.quota = job.bytes
      BY <1>a, <2>1
    <3>2. QED
      BY <2>2, <3>1, StageKnows DEF CreateStages
  <2>4. Homes'
    <3>1. \A u \in Uids : native'[u] = native[u] \/ Within(native'[u], Allotment(u))
      BY <1>b, <2>2, NativeAt
    <3>2. \A u \in Uids : Given(u)' => Given(u)
      BY <2>2 DEF Given
    <3>3. QED
      BY <1>0, <3>1, <3>2, HomesKept
  <2>5. QED
    BY <1>c, <2>3, <2>4 DEF LimitsInv
<1>2. CASE CreateLowers
  <2> DEFINE limit == EffectiveQuota(job.owner)
             b == IF own[job.owner] > 0 THEN limit ELSE limit - job.bytes
  <2>1. PICK u \in FreeUids : job' = [job EXCEPT !.pc = "intent", !.uid = u, !.limit = limit]
    BY <1>2 DEF CreateLowers
  <2>2. /\ job'.kind = job.kind /\ job'.owner = job.owner /\ job'.bytes = job.bytes /\ job'.limit = limit
        /\ job'.pc = "intent" /\ job.kind = "create" /\ os' = os /\ NativeSet(job.owner, b)
    BY <1>2, <2>1, JobFine DEF CreateLowers, At, Job
  <2>3. b \in Int /\ b <= Allotment(job.owner)
    BY <1>b, <2>2
  <2>4. Homes'
    <3>1. \A v \in Uids : native'[v] = native[v] \/ Within(native'[v], Allotment(v))
      <4> HIDE DEF b
      <4>1. QED
        BY <1>b, <2>2, <2>3, NativeAt
    <3>2. \A v \in Uids : Given(v)' => Given(v)
      BY <2>2 DEF Given
    <3>3. QED
      BY <1>0, <3>1, <3>2, HomesKept
  <2>5. native'[job.owner] = NativeLimit(b)
    <3> HIDE DEF b
    <3>1. QED
      BY <1>b, <2>2, JobFine DEF NativeSet
  <2>6. JobKnows'
    <3>1. PricedInv' /\ Raises' /\ KnowsOld(job)'
      BY <2>2 DEF PricedInv, Raises, KnowsOld, At, CreateStages, LimitKinds
    <3>2. (IF own[job.owner] > 0 THEN own[job.owner] ELSE limit - job.bytes) = b
      BY <1>b, <2>2
    <3>3. AtMost(job.owner, IF own[job.owner] > 0 THEN own[job.owner] ELSE job.limit - job.bytes)'
      <4>1. own' = own
        BY <1>a
      <4>2. (IF own'[job'.owner] > 0 THEN own'[job'.owner] ELSE job'.limit - job'.bytes) = b
        BY <2>2, <3>2, <4>1
      <4>3. NativeLimit(b) \in Nat
        BY <2>3, NativeGrows
      <4> HIDE DEF b
      <4>4. QED
        BY <2>2, <2>5, <4>2, <4>3 DEF AtMost, NativeLimit
    <3>4. job'.limit = EffectiveQuota(job.owner)'
      <4>1. PICK o : o = job.owner
        OBVIOUS
      <4>2. EffectiveQuota(o)' = EffectiveQuota(o)
        BY <1>a
      <4>3. QED
        BY <2>2, <4>1, <4>2 DEF EffectiveQuota
    <3>5. Lowered'
      BY <2>2, <3>3, <3>4 DEF Lowered, At, LimitKinds
    <3>6. QED
      BY <3>1, <3>5 DEF JobKnows
  <2>7. QED
    BY <1>c, <2>4, <2>6 DEF LimitsInv
<1>3. CASE CreateRefused
  <2>1. job.kind = "create" /\ job.limit = EffectiveQuota(job.owner) /\ NativeSet(job.owner, job.limit) /\ job' = Idle
        /\ os' = os
    BY <1>3 DEF CreateRefused, At, LimitsInv, JobKnows, Lowered
  <2>2. \A v \in Uids : native'[v] = native[v] \/ Within(native'[v], Allotment(v))
    BY <1>b, <2>1, NativeAt
  <2>3. AtRest(job)'
    BY <2>1, IdleRests DEF AtRest, Idle
  <2>4. QED
    BY <1>0, <2>1, <2>2, <2>3, RestStep
<1>4. CASE Ends
  <2>1. job' = Idle /\ os' = os /\ native' = native
    BY <1>4 DEF Ends
  <2>2. AtRest(job)'
    BY <2>1, IdleRests DEF AtRest, Idle
  <2>3. QED
    BY <1>0, <2>1, <2>2, RestStep
<1>5. ASSUME NEW x \in CreateStages, NEW y \in CreateStages \ {"group"}, Creating, job.pc = x, Goto(y),
             \A u \in Uids : u # job.uid => os'[u] = os[u],
             "owned" \in os'[job.uid] => x = "owned" \/ "owned" \in os[job.uid],
             \/ y # "owned" /\ native' = native
             \/ x = "limit" /\ y = "owned" /\ NativeSet(job.uid, job.bytes)
      PROVE  LimitsInv'
  <2>1. /\ job' = [job EXCEPT !.pc = y] /\ job.kind \in {"create", "admin"} /\ job.uid \in Uids
        /\ job'.kind = job.kind /\ job'.owner = job.owner /\ job'.req = job.req /\ job'.bytes = job.bytes
        /\ job'.uid = job.uid /\ job'.pc = y
    BY <1>5, JobFine DEF Goto, Creating, BytesInv, Request, CreateStages, Job
  <2>2. PICK i \in intents : /\ i.owner = job.owner /\ i.req = job.req /\ i.uid = job.uid /\ ~i.done
                             /\ i.quota = job.bytes
    BY <1>5, <2>1 DEF IInv, IntentInv, CreatingInv, LimitsInv, JobKnows, PricedInv, Creating
  <2>3. Allotment(job.uid) = job.bytes /\ job.bytes \in Nat
    BY <2>2, PromisedOne
  <2>4. JobKnows'
    <3>1. \E k \in intents' : k.owner = job.owner /\ k.req = job.req /\ k.quota = job.bytes
      BY <1>a, <2>2
    <3>2. QED
      BY <2>1, <3>1, StageKnows
  <2>5. Homes'
    <3>1. CASE y # "owned" /\ native' = native
      <4>1. \A u \in Uids : Given(u)' => Given(u)
        BY <1>5, <2>1, <3>1 DEF Given, Creating
      <4>2. QED
        BY <1>0, <3>1, <4>1, HomesKept
    <3>2. CASE x = "limit" /\ y = "owned" /\ NativeSet(job.uid, job.bytes)
      <4>1. \A u \in Uids : native'[u] = native[u] \/ Within(native'[u], Allotment(u))
        BY <2>1, <2>3, <3>2, NativeAt
      <4>2. native'[job.uid] = NativeLimit(job.bytes)
        BY <2>1, <3>2, JobFine DEF NativeSet
      <4>3. Within(native'[job.uid], Allotment(job.uid))
        BY <2>3, <4>2, WithinSelf
      <4>4. \A u \in Uids : Given(u)' => Given(u) \/ u = job.uid
        BY <1>5, <2>1, <3>2 DEF Given
      <4>5. QED
        BY <1>0, <4>1, <4>3, <4>4, HomesKept
    <3>3. QED
      BY <1>5, <3>1, <3>2
  <2>6. QED
    BY <1>c, <2>4, <2>5 DEF LimitsInv
<1>6. CASE MakesGroup \/ MakesUser \/ MakesHome \/ HandsOver
  <2>1. ASSUME NEW x \in CreateStages, NEW y \in CreateStages \ {"group", "owned"}, MakesPiece(x, y)
        PROVE  LimitsInv'
    <3>1. Creating /\ job.pc = x /\ Goto(y) /\ native' = native /\ os' = [os EXCEPT ![job.uid] = @ \cup {x}]
      BY <2>1 DEF MakesPiece
    <3>2. \A u \in Uids : os'[u] = IF u = job.uid THEN os[u] \cup {x} ELSE os[u]
      BY <3>1, JobFine
    <3>3. job.uid \in Uids
      BY <3>1 DEF Creating, BytesInv, Request, CreateStages
    <3>4. QED
      BY <1>5, <3>1, <3>2, <3>3
  <2>2. QED
    BY <1>6, <2>1 DEF MakesGroup, MakesUser, MakesHome, HandsOver, CreateStages
<1>7. CASE LimitsChild
  <2>1. Creating /\ job.pc = "limit" /\ Goto("owned") /\ os' = os /\ NativeSet(job.uid, job.bytes)
    BY <1>7 DEF LimitsChild
  <2>2. QED
    BY <1>5, <2>1 DEF CreateStages
<1>8. QED
  BY <1>1, <1>2, <1>3, <1>4, <1>6, <1>7

\* What a change of a quota is about.
LEMMA QuotaFacts ==
  ASSUME BytesInv, job.kind = "quota"
  PROVE  LET u == job.uid
             a == job.owner
         IN /\ u \in Uids /\ a \in Uids /\ u # a /\ acct[u].quota \in Nat /\ job.bytes \in Nat /\ job.old \in Nat
            /\ Allotment(u) = acct[u].quota /\ EffectiveQuota(u) = acct[u].quota
            /\ Allotment(a) = EffectiveQuota(a) /\ EffectiveQuota(a) \in Nat /\ own[a] \in Nat
            /\ acct[u].owner = a /\ acct[u].status # "none" /\ acct[u].role = "user"
            /\ own[a] > 0 => EffectiveQuota(a) = own[a]
            /\ Remainder \in Int
            /\ Remainder = IF own[a] > 0 THEN own[a] ELSE EffectiveQuota(a) + acct[u].quota - job.bytes
<1> DEFINE u == job.uid
           a == job.owner
<1>1. /\ u \in Uids /\ Administrator(a) /\ acct[u].owner = a /\ acct[u].status # "none" /\ acct[u].role = "user"
  BY DEF BytesInv, Request
<1>2. /\ a \in Uids /\ acct[a].status # "none" /\ acct[a].role = "admin"
      /\ EffectiveQuota(a) = IF own[a] > 0 THEN own[a] ELSE budget[a] - Allocated(a, NoRequest)
      /\ Allotment(a) = EffectiveQuota(a) /\ EffectiveQuota(a) \in Nat
  BY <1>1, Allotments
<1>3. EffectiveQuota(u) = acct[u].quota /\ Allotment(u) = acct[u].quota
  BY <1>1, Allotments DEF EffectiveQuota
<1>4. /\ acct[u].quota \in Nat /\ job.bytes \in Nat /\ job.old \in Nat /\ own[a] \in Nat
      /\ budget[a] \in Nat /\ Allocated(a, NoRequest) \in Nat
  BY <1>1, <1>2, JobFine, Amounts
<1>5. Remainder = IF own[a] > 0 THEN own[a] ELSE budget[a] - Allocated(a, NoRequest) + acct[u].quota - job.bytes
  BY DEF Remainder
<1>6. Remainder \in Int /\ Remainder = IF own[a] > 0 THEN own[a] ELSE EffectiveQuota(a) + acct[u].quota - job.bytes
  BY <1>2, <1>4, <1>5
<1>7. QED
  BY <1>1, <1>2, <1>3, <1>4, <1>6

\* A purged account has nothing left in the operating system.
LEMMA PurgedIsGone ==
  ASSUME IInv, NEW u \in Uids, acct[u].status = "purged" PROVE os[u] = {}
  BY DEF IInv, IdentityInv, Exists, Pending, IntentInv

\* The limits of a child and its administrator before the commit, and after a refusal.
LEMMA QuotaLimits ==
  ASSUME IInv, BytesInv, LimitsInv, QuotaLowers \/ QuotaFails \/ QuotaRaisesChild PROVE LimitsInv'
<1> DEFINE u == job.uid
           a == job.owner
<1>0. job.kind = "quota" /\ UNCHANGED <<db, os, waiting>> /\ TablesKept
  BY DEF QuotaLowers, QuotaFails, QuotaRaisesChild, At, db, TablesKept
<1>1. /\ u \in Uids /\ a \in Uids /\ u # a /\ acct[u].quota \in Nat /\ job.bytes \in Nat /\ job.old \in Nat
      /\ Allotment(u) = acct[u].quota /\ EffectiveQuota(u) = acct[u].quota
      /\ Allotment(a) = EffectiveQuota(a) /\ EffectiveQuota(a) \in Nat /\ own[a] \in Nat
      /\ acct[u].owner = a /\ acct[u].status # "none" /\ acct[u].role = "user"
      /\ own[a] > 0 => EffectiveQuota(a) = own[a]
      /\ Remainder \in Int
      /\ Remainder = IF own[a] > 0 THEN own[a] ELSE EffectiveQuota(a) + acct[u].quota - job.bytes
  BY <1>0, QuotaFacts
<1>2. \A h \in Helpers : KnowsOld(waiting[h])'
  BY <1>0, WaitingKnows
<1>3. /\ UNCHANGED <<acct, budget, own, intents>>
      /\ \A v : EffectiveQuota(v)' = EffectiveQuota(v)
      /\ \A w, e : Allocated(w, e)' = Allocated(w, e)
  BY <1>0, DbKept DEF TablesKept
<1>4. CASE QuotaLowers
  <2>1. /\ job.pc = "start" /\ acct[u].status # "purged" /\ job' = [job EXCEPT !.pc = "commit", !.limit = Remainder]
        /\ job.bytes > job.old => native' = [native EXCEPT ![a] = NativeLimit(Remainder)]
        /\ job.bytes < job.old => native' = [native EXCEPT ![u] = NativeLimit(job.bytes)]
        /\ job.bytes = job.old => native' = native
    BY <1>1, <1>4 DEF QuotaLowers, At, QuotaFits
  <2>2. acct[u].quota = job.old
    BY <1>0, <2>1 DEF LimitsInv, JobKnows, KnowsOld
  <2>3. /\ job'.kind = "quota" /\ job'.pc = "commit" /\ job'.uid = u /\ job'.owner = a /\ job'.bytes = job.bytes
        /\ job'.old = job.old /\ job'.limit = Remainder
    BY <1>0, <2>1, JobFine DEF Job
  <2>4. \A v \in Uids : native'[v] = native[v] \/ Within(native'[v], Allotment(v))
    <3>1. CASE job.bytes > job.old
      <4>1. Remainder <= Allotment(a) /\ NativeSet(a, Remainder)
        BY <1>1, <2>1, <2>2, <3>1 DEF NativeSet
      <4>2. QED
        BY <1>1, <4>1, NativeAt
    <3>2. CASE job.bytes < job.old
      <4>1. job.bytes <= Allotment(u) /\ NativeSet(u, job.bytes)
        BY <1>1, <2>1, <2>2, <3>2 DEF NativeSet
      <4>2. QED
        BY <1>1, <4>1, NativeAt
    <3>3. CASE job.bytes = job.old
      BY <2>1, <3>3
    <3>4. QED
      BY <1>1, <3>1, <3>2, <3>3
  <2>5. Homes'
    <3>1. \A v \in Uids : Given(v)' => Given(v)
      BY <1>0, <2>3 DEF Given
    <3>2. QED
      BY <1>0, <2>4, <3>1, HomesKept
  <2>6. JobKnows'
    <3>1. PricedInv' /\ Raises'
      BY <2>3 DEF PricedInv, Creating, Raises, At
    <3>2. KnowsOld(job)'
      BY <1>3, <2>2, <2>3 DEF KnowsOld
    <3>3. Remainder' = Remainder
      BY <1>3, <2>3 DEF Remainder, NoRequest
    <3>4. /\ job.bytes > acct[u].quota => native'[a] <= NativeLimit(Remainder)
          /\ job.bytes < acct[u].quota => native'[u] <= NativeLimit(job.bytes)
      <4>1. NativeLimit(Remainder) \in Nat /\ NativeLimit(job.bytes) \in Nat
        BY <1>1, NativeGrows
      <4>2. QED
        BY <1>1, <2>1, <2>2, <4>1, JobFine
    <3>5. /\ job'.bytes > acct'[job'.uid].quota => native'[job'.owner] <= NativeLimit(Remainder')
          /\ job'.bytes < acct'[job'.uid].quota => native'[job'.uid] <= NativeLimit(job'.bytes)
      BY <1>3, <2>3, <3>3, <3>4
    <3>6. Lowered'
      BY <2>3, <3>3, <3>5 DEF Lowered, At, AtMost, LimitKinds, NativeLimit
    <3>7. QED
      BY <3>1, <3>2, <3>6 DEF JobKnows
  <2>7. QED
    BY <1>2, <2>5, <2>6 DEF LimitsInv
<1>5. CASE QuotaFails
  <2>1. /\ job.pc \in {"start", "commit"} /\ job' = Idle
        /\ job.bytes < job.old => native' = [native EXCEPT ![u] = NativeLimit(job.old)]
        /\ job.bytes > job.old => native' = [native EXCEPT ![a] = NativeLimit(EffectiveQuota(a))]
        /\ job.bytes = job.old => native' = native
    BY <1>1, <1>5 DEF QuotaFails, QuotaRestored
  <2>2. acct[u].status = "purged" \/ acct[u].quota = job.old
    BY <1>0, <2>1 DEF LimitsInv, JobKnows, KnowsOld
  <2>3. \A v \in Uids : "owned" \in os[v] => native'[v] = native[v] \/ Within(native'[v], Allotment(v))
    <3>1. CASE job.bytes > job.old
      <4>1. EffectiveQuota(a) <= Allotment(a) /\ NativeSet(a, EffectiveQuota(a))
        BY <1>1, <2>1, <3>1 DEF NativeSet
      <4>2. QED
        BY <1>1, <4>1, NativeAt
    <3>2. CASE job.bytes < job.old
      <4>1. CASE acct[u].quota = job.old
        <5>1. job.old <= Allotment(u) /\ NativeSet(u, job.old)
          BY <1>1, <2>1, <3>2, <4>1 DEF NativeSet
        <5>2. QED
          BY <1>1, <5>1, NativeAt
      <4>2. CASE acct[u].status = "purged"
        <5>1. os[u] = {}
          BY <1>1, <4>2, PurgedIsGone
        <5>2. QED
          BY <1>1, <2>1, <3>2, <5>1, JobFine
      <4>3. QED
        BY <2>2, <4>1, <4>2
    <3>3. CASE job.bytes = job.old
      BY <2>1, <3>3
    <3>4. QED
      BY <1>1, <3>1, <3>2, <3>3
  <2>4. AtRest(job)'
    BY <2>1, IdleRests DEF AtRest, Idle
  <2>5. QED
    BY <1>0, <2>3, <2>4, RestStep
<1>6. CASE QuotaRaisesChild
  <2>1. job.pc = "child" /\ NativeSet(u, job.bytes) /\ job' = [job EXCEPT !.pc = "parent"]
    BY <1>6 DEF QuotaRaisesChild, At, Goto
  <2>2. acct[u].quota = job.bytes /\ job.limit <= EffectiveQuota(a)
    BY <1>0, <2>1 DEF LimitsInv, JobKnows, Raises, At
  <2>3. job'.kind = "quota" /\ job'.pc = "parent" /\ job'.owner = a /\ job'.limit = job.limit
    BY <1>0, <2>1, JobFine DEF Job
  <2>4. \A v \in Uids : native'[v] = native[v] \/ Within(native'[v], Allotment(v))
    BY <1>1, <2>1, <2>2, NativeAt
  <2>5. Homes'
    <3>1. \A v \in Uids : Given(v)' => Given(v)
      BY <1>0, <2>3 DEF Given
    <3>2. QED
      BY <1>0, <2>4, <3>1, HomesKept
  <2>6. EffectiveQuota(job.owner)' = EffectiveQuota(a)
    <3>1. PICK o : o = a
      OBVIOUS
    <3>2. EffectiveQuota(o)' = EffectiveQuota(o)
      BY <1>3
    <3>3. QED
      BY <2>3, <3>1, <3>2 DEF EffectiveQuota
  <2>7. JobKnows'
    BY <2>2, <2>3, <2>6 DEF JobKnows, PricedInv, Creating, Lowered, Raises, KnowsOld, At, LimitKinds
  <2>8. QED
    BY <1>2, <2>5, <2>7 DEF LimitsInv
<1>7. QED
  BY <1>4, <1>5, <1>6

\* The job stays, and so does what it knows.
LEMMA JobStays ==
  ASSUME BytesInv, LimitsInv, TablesKept, UNCHANGED <<os, job>>,
         \A u \in Uids : "owned" \in os[u] => native'[u] = native[u] \/ job.kind = "sync"
  PROVE  JobKnows'
<1>1. /\ UNCHANGED <<acct, budget, own, intents>>
      /\ \A v : EffectiveQuota(v)' = EffectiveQuota(v)
      /\ \A w, e : Allocated(w, e)' = Allocated(w, e)
  BY DbKept DEF TablesKept
<1>2. Remainder' = Remainder /\ LimitAfter' = LimitAfter
  BY <1>1 DEF Remainder, LimitAfter, NoRequest
<1>3. PricedInv' /\ Raises' /\ KnowsOld(job)'
  BY <1>1 DEF LimitsInv, JobKnows, PricedInv, Creating, Raises, At, KnowsOld
<1>4. Lowered'
  <2>1. CASE job.kind = "sync"
    BY <2>1 DEF Lowered, At, LimitKinds
  <2>2. CASE job.kind # "sync"
    <3>1. job.kind \in {"create", "quota"} \cup LimitKinds => job.kind = "create" \/ job.owner \in Uids
      BY DEF BytesInv, Request, Administrator
    <3>2. job.kind = "create" => job.owner \in Uids
      BY DEF BytesInv, Request, Administrator
    <3>3. job.kind = "quota" => job.uid \in Uids
      BY DEF BytesInv, Request
    <3>4. \A u \in Uids : "owned" \in os[u] => native'[u] = native[u]
      BY <2>2
    <3>5. QED
      BY <1>1, <1>2, <3>1, <3>2, <3>3, <3>4 DEF LimitsInv, JobKnows, Lowered, At, AtMost, NativeLimit
  <2>3. QED
    BY <2>1, <2>2
<1>5. QED
  BY <1>3, <1>4 DEF JobKnows

\* Root's changes before their commit, the last step of a change, and the repair of limits.
LEMMA RootLimits ==
  ASSUME IInv, BytesInv, LimitsInv,
         \/ \E kind \in LimitKinds, a \in Uids, b \in Sizes : LimitStarts(kind, a, b)
         \/ LimitLowers \/ LimitFails \/ RaisesParent \/ SyncStarts
         \/ \E u \in Uids : Syncs(u)
         \/ \E b \in Sizes : SetPool(b)
         \/ UNCHANGED vars
  PROVE  LimitsInv'
<1> DEFINE a == job.owner
<1>0. UNCHANGED <<os, waiting>> /\ TablesKept
  BY DEF LimitStarts, LimitLowers, LimitFails, RaisesParent, SyncStarts, Syncs, SetPool, db, TablesKept, vars
<1>1. \A h \in Helpers : KnowsOld(waiting[h])'
  BY <1>0, WaitingKnows
<1>2. Administrator(a) => /\ a \in Uids /\ EffectiveQuota(a) \in Nat /\ Allotment(a) = EffectiveQuota(a)
                          /\ EffectiveQuota(a) = IF own[a] > 0 THEN own[a] ELSE budget[a] - Allocated(a, NoRequest)
  BY Allotments
<1>3. job.kind \in LimitKinds => Administrator(a) /\ LimitAfter \in Int /\ job.bytes \in Nat
  BY Remainders, JobFine DEF Request
<1>4. CASE (\E kind \in LimitKinds, b \in Uids, q \in Sizes : LimitStarts(kind, b, q)) \/ SyncStarts
  <2>1. job'.pc = "start" /\ job'.kind \in LimitKinds \cup {"sync"} /\ native' = native
    BY <1>4 DEF LimitStarts, SyncStarts, Idle, LimitKinds
  <2>2. AtRest(job)'
    BY <2>1 DEF AtRest, CreateStages, LimitKinds
  <2>3. QED
    BY <1>0, <2>1, <2>2, RestStep
<1>5. CASE LimitLowers
  <2>1. /\ job.kind \in LimitKinds /\ job.pc = "start" /\ job' = [job EXCEPT !.pc = "commit", !.limit = LimitAfter]
        /\ native' = IF LimitAfter < EffectiveQuota(a) THEN [native EXCEPT ![a] = NativeLimit(LimitAfter)] ELSE native
    BY <1>5 DEF LimitLowers
  <2>2. /\ job'.kind = job.kind /\ job'.pc = "commit" /\ job'.owner = a /\ job'.bytes = job.bytes
        /\ job'.limit = LimitAfter
    BY <2>1, JobFine DEF Job
  <2>3. \A v \in Uids : native'[v] = native[v] \/ Within(native'[v], Allotment(v))
    <3>1. CASE LimitAfter < EffectiveQuota(a)
      <4>1. LimitAfter <= Allotment(a) /\ NativeSet(a, LimitAfter)
        BY <1>2, <1>3, <2>1, <3>1 DEF NativeSet
      <4>2. QED
        BY <1>2, <1>3, <2>1, <4>1, NativeAt
    <3>2. CASE ~(LimitAfter < EffectiveQuota(a))
      BY <2>1, <3>2
    <3>3. QED
      BY <3>1, <3>2
  <2>4. Homes'
    <3>1. \A v \in Uids : Given(v)' => Given(v)
      BY <1>0, <2>2 DEF Given
    <3>2. QED
      BY <1>0, <2>3, <3>1, HomesKept
  <2>5. LimitAfter' = LimitAfter
    BY <1>0, <2>2, DbKept DEF LimitAfter, NoRequest, TablesKept
  <2>6. "owned" \in os[a] => native'[a] <= NativeLimit(LimitAfter)
    <3>1. CASE LimitAfter < EffectiveQuota(a)
      <4>1. NativeLimit(LimitAfter) \in Nat
        BY <1>3, <2>1, NativeGrows
      <4>2. QED
        BY <1>2, <1>3, <2>1, <3>1, <4>1, JobFine
    <3>2. CASE ~(LimitAfter < EffectiveQuota(a))
      <4>1. "owned" \in os[a] => Within(native[a], EffectiveQuota(a))
        BY <1>2, <1>3, <2>1 DEF LimitsInv, Homes, Given, Close
      <4>2. "owned" \in os[a] => Within(native[a], LimitAfter)
        BY <1>2, <1>3, <2>1, <3>2, <4>1, WithinMore
      <4>3. NativeLimit(LimitAfter) \in Nat
        BY <1>3, <2>1, NativeGrows
      <4>4. QED
        BY <2>1, <3>2, <4>2, <4>3 DEF Within
    <3>3. QED
      BY <3>1, <3>2
  <2>7. JobKnows'
    <3>1. PricedInv' /\ Raises' /\ KnowsOld(job)'
      BY <2>1, <2>2 DEF PricedInv, Creating, Raises, KnowsOld, At, LimitKinds
    <3>2. Lowered'
      BY <1>0, <2>1, <2>2, <2>5, <2>6 DEF Lowered, At, AtMost, LimitKinds, NativeLimit
    <3>3. QED
      BY <3>1, <3>2 DEF JobKnows
  <2>8. QED
    BY <1>1, <2>4, <2>7 DEF LimitsInv
<1>6. CASE LimitFails
  <2>1. Administrator(a) /\ NativeSet(a, EffectiveQuota(a)) /\ job' = Idle
    BY <1>3, <1>6 DEF LimitFails
  <2>2. \A v \in Uids : native'[v] = native[v] \/ Within(native'[v], Allotment(v))
    BY <1>2, <2>1, NativeAt
  <2>3. AtRest(job)'
    BY <2>1, IdleRests DEF AtRest, Idle
  <2>4. QED
    BY <1>0, <2>2, <2>3, RestStep
<1>7. CASE RaisesParent
  <2>1. PICK b : b = IF job.kind \in {"cancel", "purge"} THEN EffectiveQuota(a) ELSE job.limit
    OBVIOUS
  <2>2. job.pc = "parent" /\ NativeSet(a, b) /\ job' = IF job.kind = "purge" THEN [job EXCEPT !.pc = "next"] ELSE Idle
    BY <1>7, <2>1 DEF RaisesParent
  <2>3. job.kind \in {"cancel", "purge", "quota"} \cup LimitKinds
    BY <2>2, JobFine DEF BytesInv, Request, Job, CreateStages, LimitKinds
  <2>4. Administrator(a)
    BY <2>3 DEF BytesInv, Request
  <2>5. b \in Int /\ b <= Allotment(a)
    <3>1. CASE job.kind \in {"cancel", "purge"}
      BY <1>2, <2>1, <2>4, <3>1
    <3>2. CASE job.kind \notin {"cancel", "purge"}
      <4>1. job.limit <= EffectiveQuota(a)
        BY <2>2, <2>3, <3>2 DEF LimitsInv, JobKnows, Raises
      <4>2. QED
        BY <1>2, <2>1, <2>4, <3>2, <4>1, JobFine
    <3>3. QED
      BY <3>1, <3>2
  <2>6. \A v \in Uids : native'[v] = native[v] \/ Within(native'[v], Allotment(v))
    BY <1>2, <2>2, <2>4, <2>5, NativeAt
  <2>7. AtRest(job)'
    <3>1. CASE job.kind = "purge"
      <4>1. job'.pc = "next" /\ job'.kind = "purge"
        BY <2>2, <3>1, JobFine DEF Job
      <4>2. QED
        BY <4>1 DEF AtRest, CreateStages
    <3>2. CASE job.kind # "purge"
      BY <2>2, <3>2, IdleRests DEF AtRest, Idle
    <3>3. QED
      BY <3>1, <3>2
  <2>8. QED
    BY <1>0, <2>6, <2>7, RestStep
<1>8. CASE (\E u \in Uids : Syncs(u)) \/ (\E b \in Sizes : SetPool(b)) \/ UNCHANGED vars
  <2>1. job' = job
    BY <1>8 DEF Syncs, SetPool, vars
  <2>2. \A v \in Uids : native'[v] = native[v] \/ (job.kind = "sync" /\ Within(native'[v], Allotment(v)))
    <3>1. ASSUME NEW u \in Uids, Syncs(u)
          PROVE  \A v \in Uids : native'[v] = native[v] \/ (job.kind = "sync" /\ Within(native'[v], Allotment(v)))
      <4>1. NativeSet(u, EffectiveQuota(u)) /\ acct[u].status # "none" /\ job.kind = "sync"
        BY <3>1 DEF Syncs, Exists
      <4>2. EffectiveQuota(u) \in Int /\ EffectiveQuota(u) <= Allotment(u)
        BY <4>1, Allotments
      <4>3. QED
        BY <4>1, <4>2, NativeAt
    <3>2. CASE (\E b \in Sizes : SetPool(b)) \/ UNCHANGED vars
      BY <3>2 DEF SetPool, vars
    <3>3. QED
      BY <1>8, <3>1, <3>2
  <2>3. Homes'
    <3>1. \A v \in Uids : Given(v)' => Given(v)
      BY <1>0, <2>1 DEF Given, Creating
    <3>2. QED
      BY <1>0, <2>2, <3>1, HomesKept
  <2>4. JobKnows'
    BY <1>0, <2>1, <2>2, JobStays
  <2>5. QED
    BY <1>1, <2>3, <2>4 DEF LimitsInv
<1>9. QED
  BY <1>4, <1>5, <1>6, <1>7, <1>8

\* A purge begins, and removes an identity piece by piece.
LEMMA RemovalLimits ==
  ASSUME BytesInv, LimitsInv, (\E u \in Uids : PurgeStarts(u)) \/ PurgeClears \/ PurgeUserdel \/ PurgeGroupdel
  PROVE  LimitsInv'
<1>1. /\ TablesKept /\ UNCHANGED <<native, waiting>> /\ \A u \in Uids : os'[u] \subseteq os[u]
  BY JobFine DEF PurgeStarts, PurgeClears, PurgeUserdel, PurgeGroupdel, Removes, db, TablesKept
<1>2. job'.pc \in PurgeStages /\ job'.kind = "purge"
  BY JobFine DEF PurgeStarts, PurgeClears, PurgeUserdel, PurgeGroupdel, Removes, At, Goto, Idle, Job, PurgeStages
<1>3. AtRest(job)'
  BY <1>2 DEF AtRest, CreateStages, PurgeStages
<1>4. QED
  BY <1>1, <1>3, RestStep

\* A limit that was lowered before.
LEMMA WithinLess ==
  ASSUME NEW n, NEW x \in Int, NEW y \in Int, Within(n, x), n <= NativeLimit(y)
  PROVE  Within(n, y)
<1>1. NativeLimit(x) \in Nat /\ NativeLimit(y) \in Nat
  BY NativeGrows
<1>2. QED
  BY <1>1 DEF Within

\* The bytes of unfinished creations of a uid depend on its own intents only.
LEMMA SamePromise ==
  ASSUME NEW u, acct[u].status = "none", acct'[u].status = "none",
         {i \in intents' : i.uid = u /\ ~i.done} = {i \in intents : i.uid = u /\ ~i.done}
  PROVE  Allotment(u)' = Allotment(u)
<1>1. PICK A, B : A = {i \in intents : i.uid = u /\ ~i.done} /\ B = {i \in intents' : i.uid = u /\ ~i.done}
  OBVIOUS
<1>2. A = B /\ Allotment(u) = Promised(A) /\ Allotment(u)' = Promised(B)
  BY <1>1 DEF Allotment
<1>3. QED
  BY <1>2

\* A creation holds its reservation: the owner's limit was lowered before.
LEMMA ReserveLimits ==
  ASSUME IInv, BytesInv, LimitsInv, NEW x, x \notin intents, x \in Intent, ~x.done, intents' = intents \cup {x},
         UNCHANGED <<acct, budget, own, os, native, waiting>>, os[x.uid] = {},
         job'.pc = "group", job'.kind \in {"create", "admin"}, job'.owner = x.owner, job'.req = x.req, job'.bytes = x.quota,
         \/ x.owner = Root
         \/ /\ Administrator(x.owner)
            /\ own[x.owner] > 0 \/ AtMost(x.owner, EffectiveQuota(x.owner) - x.quota)
  PROVE  LimitsInv'
<1>1. \A o : Allocated(o, NoRequest)' = Allocated(o, NoRequest) + Share(x, o)
  BY IntentAdded
<1>2. ASSUME NEW u \in Uids, Given(u)' PROVE Close(u)'
  <2>1. "owned" \in os[u] /\ Within(native[u], Allotment(u)) /\ u # x.uid /\ native' = native
    BY <1>2 DEF Given, LimitsInv, Homes, Close
  <2>2. CASE acct[u].status = "none"
    <3>1. {i \in intents' : i.uid = u /\ ~i.done} = {i \in intents : i.uid = u /\ ~i.done}
      BY <2>1
    <3>2. Allotment(u)' = Allotment(u)
      BY <2>2, <3>1, SamePromise
    <3>3. QED
      BY <2>1, <3>2 DEF Close, Within, NativeLimit
  <2>3. CASE acct[u].status # "none"
    <3>1. Allotment(u) = EffectiveQuota(u) /\ Allotment(u)' = EffectiveQuota(u)' /\ EffectiveQuota(u) \in Nat
      BY <2>3, Allotments DEF Allotment
    <3>2. CASE acct[u].role = "user" \/ own[u] > 0 \/ u # x.owner
      <4>1. EffectiveQuota(u)' = EffectiveQuota(u)
        <5>1. u # x.owner => Allocated(u, NoRequest)' = Allocated(u, NoRequest)
          BY <1>1, Amounts DEF Share
        <5>2. QED
          BY <3>2, <5>1 DEF EffectiveQuota, NoRequest
      <4>2. QED
        BY <2>1, <3>1, <4>1 DEF Close, Within, NativeLimit
    <3>3. CASE acct[u].role # "user" /\ ~(own[u] > 0) /\ u = x.owner
      <4>1. Allocated(u, NoRequest)' = Allocated(u, NoRequest) + x.quota
        BY <1>1, <3>3 DEF Share
      <4>2. Allocated(u, NoRequest) \in Nat /\ budget[u] \in Nat /\ x.quota \in Nat
        BY Amounts DEF Intent
      <4>3. EffectiveQuota(u) = budget[u] - Allocated(u, NoRequest)
        BY <3>3 DEF EffectiveQuota
      <4>4. EffectiveQuota(u)' = budget[u] - Allocated(u, NoRequest)'
        BY <3>3 DEF EffectiveQuota
      <4>5. EffectiveQuota(u)' = EffectiveQuota(u) - x.quota
        BY <4>1, <4>2, <4>3, <4>4
      <4>6. native[u] <= NativeLimit(EffectiveQuota(u) - x.quota)
        BY <2>1, <3>3, AllocationConstants DEF AtMost
      <4>7. Within(native[u], EffectiveQuota(u) - x.quota)
        BY <2>1, <3>1, <4>2, <4>6, WithinLess
      <4>8. QED
        BY <2>1, <3>1, <4>5, <4>7 DEF Close, Within, NativeLimit
    <3>4. QED
      BY <3>2, <3>3
  <2>4. QED
    BY <2>2, <2>3
<1>3. JobKnows'
  <2>1. PricedInv'
    BY DEF PricedInv
  <2>2. QED
    BY <2>1 DEF JobKnows, Lowered, Raises, KnowsOld, At, LimitKinds
<1>4. \A h \in Helpers : KnowsOld(waiting[h])'
  BY DEF LimitsInv, KnowsOld
<1>5. QED
  BY <1>2, <1>3, <1>4 DEF LimitsInv, Homes

\* An unused uid has no identity.
LEMMA UnusedIsBare ==
  ASSUME IInv, NEW u \in Uids, issued[u] = 0, acct[u].status = "none" PROVE os[u] = {}
  BY DEF IInv, IdentityInv, Exists, Pending, UidInv

\* Both reservations.
LEMMA ReservesLimits ==
  ASSUME IInv, BytesInv, LimitsInv, CreateReserves \/ \E r \in Requests, b \in Sizes : AdminReserves(r, b)
  PROVE  LimitsInv'
<1>1. CASE CreateReserves
  <2> DEFINE x == [owner |-> job.owner, req |-> job.req, quota |-> job.bytes, uid |-> job.uid, done |-> FALSE]
  <2>1. job.kind = "create" /\ job.pc = "intent" /\ Administrator(job.owner) /\ job.req \in Requests /\ job.uid \in Uids
    BY <1>1, JobFine DEF CreateReserves, At, Request
  <2>2. x \in Intent /\ ~x.done /\ x.owner = job.owner /\ x.quota = job.bytes /\ x.req = job.req /\ x.uid = job.uid
    BY <2>1, JobFine DEF Intent, Administrator
  <2>3. x \notin intents /\ os[job.uid] = {}
    BY <2>1, UnusedIsBare DEF IInv, ReservingInv
  <2>4. /\ intents' = intents \cup {x} /\ job' = [job EXCEPT !.pc = "group"]
        /\ UNCHANGED <<acct, budget, own, os, native, waiting>>
    BY <1>1 DEF CreateReserves, RecordIntent, Goto
  <2>5. job'.pc = "group" /\ job'.kind = "create" /\ job'.owner = job.owner /\ job'.req = job.req /\ job'.bytes = job.bytes
    BY <2>1, <2>4, JobMoves
  <2>6. own[job.owner] > 0 \/ AtMost(job.owner, EffectiveQuota(job.owner) - job.bytes)
    BY <2>1 DEF LimitsInv, JobKnows, Lowered, At
  <2> HIDE DEF x
  <2>7. QED
    BY <2>1, <2>2, <2>3, <2>4, <2>5, <2>6, ReserveLimits
<1>2. ASSUME NEW r \in Requests, NEW b \in Sizes, AdminReserves(r, b) PROVE LimitsInv'
  <2> DEFINE started(u) == [Idle EXCEPT !.kind = "admin", !.pc = "group", !.uid = u, !.req = r, !.bytes = b]
  <2>0. b \in Nat /\ UNCHANGED <<acct, budget, own, os, native, waiting>>
    BY <1>2, AllocationConstants DEF AdminReserves
  <2>1. \A u : /\ started(u).pc = "group" /\ started(u).kind = "admin" /\ started(u).owner = Root /\ started(u).req = r
               /\ started(u).bytes = b
    BY DEF Idle
  <2>2. CASE IntentsOf(Root, r) = {} /\ \E u \in FreeUids : RecordIntent(Root, r, b, u) /\ job' = started(u)
    <3>1. PICK u \in FreeUids : RecordIntent(Root, r, b, u) /\ job' = started(u)
      BY <2>2
    <3> DEFINE x == [owner |-> Root, req |-> r, quota |-> b, uid |-> u, done |-> FALSE]
    <3>2. u \in Uids /\ os[u] = {}
      BY DEF FreeUids
    <3>3. /\ x \in Intent /\ ~x.done /\ x.owner = Root /\ x.quota = b /\ x.req = r /\ x.uid = u /\ x \notin intents
      BY <2>0, <2>2, <3>2 DEF Intent, IntentsOf
    <3>4. intents' = intents \cup {x}
      BY <3>1 DEF RecordIntent
    <3>5. job'.pc = "group" /\ job'.kind = "admin" /\ job'.owner = Root /\ job'.req = r /\ job'.bytes = b
      BY <2>1, <3>1
    <3> HIDE DEF x
    <3>6. QED
      BY <2>0, <3>2, <3>3, <3>4, <3>5, ReserveLimits
  <2>3. CASE (\E i \in IntentsOf(Root, r) : ~i.done /\ i.quota = b /\ job' = started(i.uid)) /\ UNCHANGED <<intents, issued>>
    <3>1. PICK i \in intents : i.owner = Root /\ i.req = r /\ i.quota = b /\ job' = started(i.uid)
      BY <2>3 DEF IntentsOf
    <3>2. job'.pc = "group" /\ job'.kind = "admin" /\ job'.owner = Root /\ job'.req = r /\ job'.bytes = b
      BY <2>1, <3>1
    <3>3. TablesKept
      BY <2>0, <2>3 DEF TablesKept
    <3>4. Homes'
      <4>1. \A u \in Uids : Given(u)' => Given(u)
        BY <2>0, <3>2 DEF Given
      <4>2. QED
        BY <2>0, <3>3, <4>1, HomesKept
    <3>5. JobKnows'
      <4>1. PricedInv'
        BY <2>3, <3>1, <3>2 DEF PricedInv
      <4>2. QED
        BY <3>2, <4>1 DEF JobKnows, Lowered, Raises, KnowsOld, At, LimitKinds
    <3>6. QED
      BY <2>0, <3>3, <3>4, <3>5, WaitingKnows DEF LimitsInv
  <2>4. QED
    BY <1>2, <2>2, <2>3 DEF AdminReserves
<1>3. QED
  BY <1>1, <1>2

\* No home that has its limit loses bytes it was not ready to lose.
LEMMA HomesGrow ==
  ASSUME BytesInv, LimitsInv, native' = native,
         \A u \in Uids : Given(u)' => /\ Given(u) /\ Allotment(u)' \in Int
                                      /\ Allotment(u) <= Allotment(u)' \/ native[u] <= NativeLimit(Allotment(u)')
  PROVE  Homes'
<1>1. ASSUME NEW u \in Uids, Given(u)' PROVE Close(u)'
  <2>1. PICK x, y : x = Allotment(u) /\ y = Allotment(u)'
    OBVIOUS
  <2>2. x \in Int /\ y \in Int /\ Within(native[u], x) /\ (x <= y \/ native[u] <= NativeLimit(y))
    BY <1>1, <2>1, Allotments DEF LimitsInv, Homes, Close
  <2>3. Within(native[u], y)
    BY <2>2, WithinMore, WithinLess
  <2>4. QED
    BY <2>1, <2>3 DEF Close, Within, NativeLimit
<1>2. QED
  BY <1>1 DEF Homes

\* What is left to an administrator when less is allocated.
LEMMA EffectiveGrows ==
  ASSUME BytesInv, NEW u \in Uids, acct'[u].role = acct[u].role, acct'[u].quota = acct[u].quota,
         own'[u] = own[u], budget'[u] = budget[u],
         Allocated(u, NoRequest)' \in Int, Allocated(u, NoRequest)' <= Allocated(u, NoRequest)
  PROVE  EffectiveQuota(u)' \in Int /\ EffectiveQuota(u) <= EffectiveQuota(u)'
<1>1. EffectiveQuota(u)' = IF acct[u].role = "user" THEN acct[u].quota
                           ELSE IF own[u] > 0 THEN own[u] ELSE budget[u] - Allocated(u, NoRequest)'
  BY DEF EffectiveQuota
<1>2. EffectiveQuota(u) = IF acct[u].role = "user" THEN acct[u].quota
                          ELSE IF own[u] > 0 THEN own[u] ELSE budget[u] - Allocated(u, NoRequest)
  BY DEF EffectiveQuota
<1>3. acct[u].quota \in Nat /\ own[u] \in Nat /\ budget[u] \in Nat /\ Allocated(u, NoRequest) \in Nat
  BY Amounts
<1>4. QED
  BY <1>1, <1>2, <1>3

\* A cancelled creation gives its bytes back.
LEMMA CancelsLimits == ASSUME IInv, BytesInv, LimitsInv, NEW x \in intents, Cancels(x) PROVE LimitsInv'
<1>0. /\ ~x.done /\ os[x.uid] = {} /\ intents' = intents \ {x} /\ UNCHANGED <<acct, budget, own, os, native, waiting>>
      /\ job' = IF x.owner = Root THEN Idle
                ELSE [Idle EXCEPT !.kind = "cancel", !.pc = "parent", !.owner = x.owner]
      /\ x.quota \in Nat
  BY Amounts DEF Cancels, Priced
<1>1. job'.kind \in {"none", "cancel"} /\ job'.pc \in {"start", "parent"}
  BY <1>0, IdleFine DEF Idle
<1>2. \A o : Allocated(o, NoRequest) = Allocated(o, NoRequest)' + Share(x, o) /\ Allocated(o, NoRequest)' \in Nat
  BY <1>0, IntentGone
<1>3. \A o : Share(x, o) \in Nat
  BY <1>0 DEF Share
<1>4. ASSUME NEW u \in Uids, Given(u)'
      PROVE  Given(u) /\ Allotment(u)' \in Int /\ Allotment(u) <= Allotment(u)'
  <2>1. "owned" \in os[u] /\ Given(u) /\ u # x.uid
    BY <1>0, <1>1, <1>4 DEF Given, Creating
  <2>2. CASE acct[u].status = "none"
    <3>1. {i \in intents' : i.uid = u /\ ~i.done} = {i \in intents : i.uid = u /\ ~i.done}
      BY <1>0, <2>1
    <3>2. Allotment(u)' = Allotment(u)
      BY <1>0, <2>2, <3>1, SamePromise
    <3>3. QED
      BY <2>1, <3>2, Allotments
  <2>3. CASE acct[u].status # "none"
    <3>1. Allotment(u) = EffectiveQuota(u) /\ Allotment(u)' = EffectiveQuota(u)'
      BY <1>0, <2>3 DEF Allotment
    <3>2. Allocated(u, NoRequest)' <= Allocated(u, NoRequest) /\ Allocated(u, NoRequest)' \in Nat
      BY <1>2, <1>3
    <3>3. EffectiveQuota(u)' \in Int /\ EffectiveQuota(u) <= EffectiveQuota(u)'
      BY <1>0, <3>2, EffectiveGrows
    <3>4. QED
      BY <2>1, <3>1, <3>3
  <2>4. QED
    BY <2>2, <2>3
<1>5. Homes'
  BY <1>0, <1>4, HomesGrow
<1>6. JobKnows'
  BY <1>1 DEF JobKnows, PricedInv, Creating, Lowered, Raises, KnowsOld, At, LimitKinds
<1>7. \A h \in Helpers : KnowsOld(waiting[h])'
  BY <1>0 DEF LimitsInv, KnowsOld
<1>8. QED
  BY <1>5, <1>6, <1>7 DEF LimitsInv

\* The account takes over the bytes and the limit of its intent.
LEMMA CreatesLimits == ASSUME IInv, BytesInv, LimitsInv, CreatesChild \/ CreatesAdmin PROVE LimitsInv'
<1> DEFINE v == job.uid
<1>0. /\ UNCHANGED <<own, os, native, waiting>> /\ job' = Idle
      /\ job.pc = "account" /\ job.kind \in {"create", "admin"}
  BY DEF CreatesChild, CreatesAdmin, At
<1>1. PICK i \in intents : /\ i.owner = job.owner /\ i.req = job.req /\ i.uid = v /\ ~i.done
                           /\ \A j \in intents' : j.uid # i.uid => j \in intents
                           /\ \A j \in intents : j.uid # i.uid => j \in intents'
                           /\ \A a : PendingReserved(a, NoRequest) = PendingReserved(a, NoRequest)' + Share(i, a)
  BY FinishedSums
<1>2. /\ v \in Uids /\ acct[v].status = "none"
      /\ \A a : PendingReserved(a, NoRequest)' \in Nat /\ PendingReserved(a, NoRequest)' <= PendingReserved(a, NoRequest)
  BY FinishedSums
<1>3. /\ Recorded \in Nat
      /\ acct' \in [Uids -> Account] /\ \A x \in Uids : x # v => acct'[x] = acct[x]
      /\ acct'[v].owner = job.owner /\ acct'[v].quota = Recorded /\ acct'[v].status = "active"
      /\ acct'[v].role \in {"admin", "user"} /\ (acct'[v].role = "user" => CreatesChild)
      /\ acct'[v].role = "admin" => CreatesAdmin /\ budget'[v] = job.bytes
      /\ budget' \in [Uids -> Nat] /\ \A x \in Uids : x # v => budget'[x] = budget[x]
      /\ budget[v] = 0
      /\ \A a : /\ ChildQuotas(a)' \in Nat
                /\ ChildQuotas(a)' <= ChildQuotas(a) + IF a = job.owner THEN Recorded ELSE 0
  BY AccountMade
<1>4. i.quota = job.bytes /\ Allotment(v) = job.bytes /\ job.bytes \in Nat
  <2>1. PICK k \in intents : k.owner = job.owner /\ k.req = job.req /\ k.quota = job.bytes
    BY <1>0 DEF LimitsInv, JobKnows, PricedInv, Creating, CreateStages
  <2>2. k = i
    BY <1>1, <2>1 DEF IInv, IntentInv
  <2>3. QED
    BY <1>1, <2>1, <2>2, PromisedOne
<1>5. \A a \in Uids : Allocated(a, NoRequest)' \in Nat /\ Allocated(a, NoRequest)' <= Allocated(a, NoRequest)
  <2>1. ASSUME NEW a \in Uids PROVE Allocated(a, NoRequest)' \in Nat /\ Allocated(a, NoRequest)' <= Allocated(a, NoRequest)
    <3>1. /\ Allocated(a, NoRequest)' = ChildQuotas(a)' + PendingReserved(a, NoRequest)'
          /\ Allocated(a, NoRequest) = ChildQuotas(a) + PendingReserved(a, NoRequest)
          /\ ChildQuotas(a) \in Nat /\ PendingReserved(a, NoRequest) \in Nat
      BY Amounts DEF Allocated
    <3>2. a = job.owner => Recorded <= i.quota /\ Share(i, a) = i.quota
      BY <1>1, <1>4 DEF Recorded, Share
    <3>3. PendingReserved(a, NoRequest) = PendingReserved(a, NoRequest)' + Share(i, a)
      BY <1>1
    <3>4. CASE a = job.owner
      BY <1>2, <1>3, <1>4, <3>1, <3>2, <3>3, <3>4
    <3>5. CASE a # job.owner
      BY <1>2, <1>3, <3>1, <3>5
    <3>6. QED
      BY <3>4, <3>5
  <2>2. QED
    BY <2>1
<1>6. ASSUME NEW w, w = v PROVE Allotment(w)' = job.bytes
  <2>1. Allotment(w)' = EffectiveQuota(w)'
    BY <1>3, <1>6 DEF Allotment
  <2>2. CASE acct'[w].role = "user"
    <3>1. Recorded = job.bytes
      BY <1>3, <1>6, <2>2 DEF CreatesChild, At, Recorded
    <3>2. EffectiveQuota(w)' = acct'[w].quota
      BY <2>2 DEF EffectiveQuota
    <3>3. QED
      BY <1>3, <1>6, <2>1, <3>1, <3>2
  <2>3. CASE acct'[w].role = "admin"
    <3>1. w \in Uids /\ own'[w] = own[w] /\ budget'[w] = job.bytes /\ budget[w] = 0
      BY <1>0, <1>2, <1>3, <1>6, <2>3
    <3>2. own[w] = 0 /\ Allocated(w, NoRequest) = 0
      <4>1. Allocated(w, NoRequest) \in Nat /\ own[w] \in Nat /\ Allocated(w, NoRequest) + own[w] <= budget[w]
        BY <3>1, Amounts
      <4>2. QED
        BY <3>1, <4>1
    <3>3. Allocated(w, NoRequest)' = 0
      <4>1. Allocated(w, NoRequest)' \in Nat /\ Allocated(w, NoRequest)' <= Allocated(w, NoRequest)
        BY <1>5, <3>1
      <4>2. QED
        BY <3>2, <4>1
    <3>4. EffectiveQuota(w)' = budget'[w] - Allocated(w, NoRequest)'
      BY <2>3, <3>1, <3>2 DEF EffectiveQuota
    <3>5. QED
      BY <1>4, <2>1, <3>1, <3>3, <3>4
  <2>4. QED
    BY <1>3, <1>6, <2>2, <2>3
<1>7. ASSUME NEW u \in Uids, Given(u)' PROVE Given(u) /\ Allotment(u)' \in Int /\ Allotment(u) <= Allotment(u)'
  <2>1. Given(u)
    BY <1>0, <1>7, IdleFine DEF Given, Creating
  <2>2. CASE u = v
    BY <1>4, <1>6, <2>1, <2>2
  <2>3. CASE u # v /\ acct[u].status = "none"
    <3>1. {j \in intents' : j.uid = u /\ ~j.done} = {j \in intents : j.uid = u /\ ~j.done}
      BY <1>1, <2>3
    <3>2. Allotment(u)' = Allotment(u)
      BY <1>3, <2>3, <3>1, SamePromise
    <3>3. QED
      BY <2>1, <3>2, Allotments
  <2>4. CASE u # v /\ acct[u].status # "none"
    <3>1. Allotment(u) = EffectiveQuota(u) /\ Allotment(u)' = EffectiveQuota(u)'
      BY <1>3, <2>4 DEF Allotment
    <3>2. /\ acct'[u].role = acct[u].role /\ acct'[u].quota = acct[u].quota /\ own'[u] = own[u] /\ budget'[u] = budget[u]
      BY <1>0, <1>3, <2>4
    <3>3. EffectiveQuota(u)' \in Int /\ EffectiveQuota(u) <= EffectiveQuota(u)'
      BY <1>5, <3>2, EffectiveGrows
    <3>4. QED
      BY <2>1, <3>1, <3>3
  <2>5. QED
    BY <2>2, <2>3, <2>4
<1>8. Homes'
  BY <1>0, <1>7, HomesGrow
<1>9. JobKnows'
  BY <1>0, IdleRests, RestKnows DEF AtRest, Idle
<1>10. \A h \in Helpers : KnowsOld(waiting[h])'
  <2>1. ASSUME NEW h \in Helpers, waiting[h].kind = "quota" PROVE waiting[h].uid \in Uids /\ acct[waiting[h].uid].status # "none"
    BY <2>1 DEF BytesInv, Request
  <2>2. QED
    BY <1>0, <1>2, <1>3, <2>1 DEF LimitsInv, KnowsOld
<1>11. QED
  BY <1>8, <1>9, <1>10 DEF LimitsInv

\* A change of one account leaves the others what they have, except for the
\* administrator that pays for it.
LEMMA OthersKeep ==
  ASSUME BytesInv, NEW u \in Uids, acct' \in [Uids -> Account], \A x \in Uids : x # u => acct'[x] = acct[x],
         acct'[u].owner = acct[u].owner, intents' = intents, NEW x \in Uids, x # u,
         own'[x] = own[x], budget'[x] = budget[x],
         x # acct[u].owner \/ acct'[u].quota <= acct[u].quota
  PROVE  Allotment(x)' \in Int /\ Allotment(x) <= Allotment(x)'
<1>1. CASE acct[x].status = "none"
  <2>1. Allotment(x)' = Allotment(x)
    BY <1>1, SamePromise
  <2>2. QED
    BY <2>1, Allotments
<1>2. CASE acct[x].status # "none"
  <2>1. Allotment(x) = EffectiveQuota(x) /\ Allotment(x)' = EffectiveQuota(x)'
    BY <1>2 DEF Allotment
  <2>2. /\ Held(acct, u, x) \in Nat /\ Held(acct', u, x) \in Nat
        /\ Allocated(x, NoRequest)' = Allocated(x, NoRequest) - Held(acct, u, x) + Held(acct', u, x)
    BY AccountChange DEF NoRequest
  <2>3. Held(acct', u, x) <= Held(acct, u, x)
    BY <2>2 DEF Held
  <2>4. Allocated(x, NoRequest) \in Nat
    BY Amounts
  <2>5. QED
    BY <1>2, <2>1, <2>2, <2>3, <2>4, EffectiveGrows
<1>3. QED
  BY <1>1, <1>2

\* The commit of a quota: the side that loses has its limit, and the change
\* that is under way is the only one that knows the child's old quota.
LEMMA QuotaCommitsLimits == ASSUME IInv, BytesInv, LimitsInv, Serial, QuotaCommits PROVE LimitsInv'
<1>0. PICK u, a, R : u = job.uid /\ a = job.owner /\ R = Remainder
  OBVIOUS
<1>1. /\ At("quota", "commit") /\ job.kind = "quota" /\ job.pc = "commit"
      /\ UNCHANGED <<budget, own, intents, os, native, waiting>>
      /\ acct' \in [Uids -> Account] /\ \A x \in Uids : x # u => acct'[x] = acct[x]
      /\ acct'[u].owner = acct[u].owner /\ acct'[u].role = acct[u].role /\ acct'[u].status = acct[u].status
      /\ acct'[u].quota = job.bytes
      /\ job'.pc = "child" /\ job'.kind = "quota" /\ job'.owner = a /\ job'.uid = u
      /\ job'.bytes = job.bytes /\ job'.limit = job.limit
  BY <1>0, QuotaRow DEF At
<1>2. /\ u \in Uids /\ a \in Uids /\ u # a /\ acct[u].quota \in Nat /\ job.bytes \in Nat
      /\ Allotment(u) = acct[u].quota /\ Allotment(a) = EffectiveQuota(a) /\ EffectiveQuota(a) \in Nat /\ own[a] \in Nat
      /\ acct[u].owner = a /\ acct[u].status # "none" /\ acct[u].role = "user"
      /\ own[a] > 0 => EffectiveQuota(a) = own[a]
      /\ R \in Int
      /\ R = IF own[a] > 0 THEN own[a] ELSE EffectiveQuota(a) + acct[u].quota - job.bytes
  BY <1>0, <1>1, QuotaFacts
<1>3. /\ job.limit = R
      /\ job.bytes > acct[u].quota => AtMost(a, R)
      /\ job.bytes < acct[u].quota => AtMost(u, job.bytes)
  BY <1>0, <1>1 DEF LimitsInv, JobKnows, Lowered, At
<1>4. Administrator(a)
  BY <1>0, <1>1 DEF BytesInv, Request
<1>5. Allotment(a)' = R /\ EffectiveQuota(a)' = R
  <2>1. acct[a].status # "none" /\ acct[a].role = "admin"
        /\ EffectiveQuota(a) = IF own[a] > 0 THEN own[a] ELSE budget[a] - Allocated(a, NoRequest)
    BY <1>4, Allotments
  <2>2. acct'[a].status # "none" /\ acct'[a].role = "admin"
    BY <1>1, <1>2, <2>1
  <2>3. Allotment(a)' = EffectiveQuota(a)'
        /\ EffectiveQuota(a)' = IF own[a] > 0 THEN own[a] ELSE budget[a] - Allocated(a, NoRequest)'
    BY <1>1, <2>2 DEF Allotment, EffectiveQuota
  <2>4. Allocated(a, NoRequest)' = Allocated(a, NoRequest) - Held(acct, u, a) + Held(acct', u, a)
    BY <1>1, <1>2, AccountChange DEF NoRequest
  <2>5. Held(acct, u, a) = acct[u].quota /\ Held(acct', u, a) = job.bytes
    BY <1>1, <1>2 DEF Held
  <2>6. Allocated(a, NoRequest) \in Nat /\ budget[a] \in Nat
    BY <1>2, Amounts
  <2>7. QED
    BY <1>2, <2>1, <2>3, <2>4, <2>5, <2>6
<1>6. Allotment(u)' = job.bytes
  BY <1>1, <1>2 DEF Allotment, EffectiveQuota
<1>7. ASSUME NEW x \in Uids, Given(x)'
      PROVE  /\ Given(x) /\ Allotment(x)' \in Int
             /\ Allotment(x) <= Allotment(x)' \/ native[x] <= NativeLimit(Allotment(x)')
  <2>1. "owned" \in os[x] /\ Given(x)
    BY <1>1, <1>7 DEF Given, Creating
  <2>2. CASE x = u
    <3>1. job.bytes < acct[u].quota => native[u] <= NativeLimit(job.bytes)
      BY <1>3, <2>1, <2>2 DEF AtMost
    <3>2. PICK y : y = Allotment(x)'
      OBVIOUS
    <3>3. y = job.bytes
      BY <1>6, <2>2, <3>2
    <3>4. y \in Int /\ (Allotment(x) <= y \/ native[x] <= NativeLimit(y))
      BY <1>2, <2>2, <3>1, <3>3
    <3>5. QED
      BY <2>1, <3>2, <3>4 DEF NativeLimit
  <2>3. CASE x = a
    <3>1. job.bytes > acct[u].quota => native[a] <= NativeLimit(R)
      BY <1>3, <2>1, <2>3 DEF AtMost
    <3>2. PICK y : y = Allotment(x)'
      OBVIOUS
    <3>3. y = R
      BY <1>5, <2>3, <3>2
    <3>4. y \in Int /\ (Allotment(x) <= y \/ native[x] <= NativeLimit(y))
      BY <1>2, <2>3, <3>1, <3>3
    <3>5. QED
      BY <2>1, <3>2, <3>4 DEF NativeLimit
  <2>4. CASE x # u /\ x # a
    <3>1. Allotment(x)' \in Int /\ Allotment(x) <= Allotment(x)'
      BY <1>1, <1>2, <2>4, OthersKeep
    <3>2. QED
      BY <2>1, <3>1
  <2>5. QED
    BY <2>2, <2>3, <2>4
<1>8. Homes'
  BY <1>1, <1>7, HomesGrow
<1>9. JobKnows'
  <2>1. EffectiveQuota(job.owner)' = R
    BY <1>1, <1>5 DEF EffectiveQuota
  <2>2. Raises'
    BY <1>1, <1>2, <1>3, <2>1 DEF Raises, At, LimitKinds
  <2>3. QED
    BY <1>1, <2>2 DEF JobKnows, PricedInv, Creating, Lowered, KnowsOld, At, LimitKinds
<1>10. \A h \in Helpers : KnowsOld(waiting[h])'
  <2>1. ASSUME NEW h \in Helpers, waiting[h].kind = "quota" PROVE waiting[h].uid \in Uids /\ waiting[h].uid # u
    BY <1>0, <1>1, <2>1 DEF BytesInv, Request, Serial
  <2>2. QED
    BY <1>1, <2>1 DEF LimitsInv, KnowsOld
<1>11. QED
  BY <1>8, <1>9, <1>10 DEF LimitsInv

\* The commit of an own quota or a budget: a smaller limit was written before.
LEMMA LimitCommitsLimits == ASSUME BytesInv, LimitsInv, OwnCommits \/ BudgetCommits PROVE LimitsInv'
<1>0. PICK a, L : a = job.owner /\ L = LimitAfter
  OBVIOUS
<1>1. /\ job.kind \in LimitKinds /\ job.pc = "commit" /\ Administrator(a) /\ job.bytes > 0 /\ L \in Int
      /\ job.limit = L /\ AtMost(a, L)
  BY <1>0, Remainders DEF OwnCommits, BudgetCommits, At, LimitKinds, LimitsInv, JobKnows, Lowered, BytesInv, Request
<1>2. /\ a \in Uids /\ acct[a].status # "none" /\ acct[a].role = "admin"
      /\ Allotment(a) = EffectiveQuota(a) /\ EffectiveQuota(a) \in Nat
  BY <1>1, Allotments
<1>3. /\ UNCHANGED <<intents, os, native, waiting>>
      /\ acct' \in [Uids -> Account] /\ \A x \in Uids : x # a => acct'[x] = acct[x]
      /\ acct'[a].owner = acct[a].owner /\ acct'[a].role = acct[a].role /\ acct'[a].status = acct[a].status
      /\ acct'[a].quota = acct[a].quota
      /\ \A x \in Uids : x # a => own'[x] = own[x] /\ budget'[x] = budget[x]
      /\ job'.pc = "parent" /\ job'.kind = job.kind /\ job'.owner = a /\ job'.limit = L
  <2>1. CASE OwnCommits
    <3>1. /\ UNCHANGED <<budget, intents, os, native, waiting>> /\ own' = [own EXCEPT ![a] = job.bytes]
          /\ acct' \in [Uids -> Account] /\ \A x \in Uids : x # a => acct'[x] = acct[x]
          /\ acct'[a].owner = acct[a].owner /\ acct'[a].role = acct[a].role /\ acct'[a].status = acct[a].status
          /\ acct'[a].quota = acct[a].quota
          /\ job'.pc = "parent" /\ job'.kind = job.kind /\ job'.owner = a /\ job'.limit = job.limit
      BY <1>0, <2>1, OwnRow
    <3>2. QED
      BY <1>1, <1>2, <3>1, JobFine
  <2>2. CASE BudgetCommits
    <3>1. /\ UNCHANGED <<acct, own, intents, os, native, waiting>> /\ budget' = [budget EXCEPT ![a] = job.bytes]
          /\ job' = [job EXCEPT !.pc = "parent"]
      BY <1>0, <2>2 DEF BudgetCommits, Goto
    <3>2. job'.pc = "parent" /\ job'.kind = job.kind /\ job'.owner = a /\ job'.limit = job.limit
      BY <1>0, <3>1, JobFine DEF Job
    <3>3. QED
      BY <1>1, <1>2, <3>1, <3>2, JobFine
  <2>3. QED
    BY <2>1, <2>2
<1>4. Allotment(a)' = L /\ EffectiveQuota(a)' = L
  <2>1. Allotment(a)' = EffectiveQuota(a)'
        /\ EffectiveQuota(a)' = IF own'[a] > 0 THEN own'[a] ELSE budget'[a] - Allocated(a, NoRequest)'
    BY <1>2, <1>3 DEF Allotment, EffectiveQuota
  <2>2. CASE OwnCommits
    <3>1. own'[a] = job.bytes /\ L = job.bytes
      BY <1>0, <1>2, <2>2, JobFine DEF OwnCommits, At, LimitAfter
    <3>2. QED
      BY <1>1, <2>1, <3>1
  <2>3. CASE BudgetCommits
    <3>1. own' = own /\ acct' = acct /\ intents' = intents /\ budget'[a] = job.bytes /\ job.kind = "budget"
      BY <1>0, <1>2, <2>3, JobFine DEF BudgetCommits, At
    <3>2. Allocated(a, NoRequest)' = Allocated(a, NoRequest)
      BY <3>1 DEF Allocated, ChildQuotas, PendingReserved, NoRequest
    <3>3. L = IF own[a] > 0 THEN own[a] ELSE job.bytes - Allocated(a, NoRequest)
      BY <1>0, <3>1 DEF LimitAfter
    <3>4. QED
      BY <2>1, <3>1, <3>2, <3>3
  <2>4. QED
    BY <2>2, <2>3
<1>5. ASSUME NEW x \in Uids, Given(x)'
      PROVE  /\ Given(x) /\ Allotment(x)' \in Int
             /\ Allotment(x) <= Allotment(x)' \/ native[x] <= NativeLimit(Allotment(x)')
  <2>1. "owned" \in os[x] /\ Given(x)
    BY <1>1, <1>3, <1>5 DEF Given, Creating, LimitKinds
  <2>2. CASE x = a
    <3>1. native[x] <= NativeLimit(L)
      BY <1>1, <2>1, <2>2 DEF AtMost
    <3>2. PICK y : y = Allotment(x)'
      OBVIOUS
    <3>3. y = L
      BY <1>4, <2>2, <3>2
    <3>4. QED
      BY <1>1, <2>1, <3>1, <3>2, <3>3 DEF NativeLimit
  <2>3. CASE x # a
    <3>1. acct'[a].quota <= acct[a].quota
      BY <1>2, <1>3, Amounts
    <3>2. Allotment(x)' \in Int /\ Allotment(x) <= Allotment(x)'
      BY <1>2, <1>3, <2>3, <3>1, OthersKeep
    <3>3. QED
      BY <2>1, <3>2
  <2>4. QED
    BY <2>2, <2>3
<1>6. Homes'
  BY <1>3, <1>5, HomesGrow
<1>7. JobKnows'
  <2>1. EffectiveQuota(job.owner)' = L
    BY <1>3, <1>4 DEF EffectiveQuota
  <2>2. Raises'
    BY <1>1, <1>3, <2>1 DEF Raises, At, LimitKinds
  <2>3. QED
    BY <1>1, <1>3, <2>2 DEF JobKnows, PricedInv, Creating, Lowered, KnowsOld, At, LimitKinds
<1>8. \A h \in Helpers : KnowsOld(waiting[h])'
  <2>1. \A x \in Uids : acct'[x].status = acct[x].status /\ acct'[x].quota = acct[x].quota
    BY <1>3
  <2>2. \A h \in Helpers : waiting[h].kind = "quota" => waiting[h].uid \in Uids
    BY DEF BytesInv, Request
  <2>3. QED
    BY <1>3, <2>1, <2>2 DEF LimitsInv, KnowsOld
<1>9. QED
  BY <1>6, <1>7, <1>8 DEF LimitsInv

\* A change of status moves no bytes, and the tombstone of a purge gives the
\* child's bytes back when its home is gone.
LEMMA StatusLimits ==
  ASSUME IInv, BytesInv, LimitsInv, NEW u \in Uids, NEW s \in {"active", "suspended", "deleted"}, NEW purged \in BOOLEAN,
         IF purged THEN PurgeEntombs /\ u = job.uid ELSE Transition(u, s)
  PROVE  LimitsInv'
<1>0. /\ acct[u].status # "none" /\ acct[u] \in Account
      /\ UNCHANGED <<budget, own, intents, os, native, waiting>>
      /\ acct' \in [Uids -> Account] /\ \A x \in Uids : x # u => acct'[x] = acct[x]
      /\ acct'[u].quota = IF purged THEN 0 ELSE acct[u].quota
      /\ acct'[u].status = IF purged THEN "purged" ELSE s
      /\ acct'[u].owner = acct[u].owner /\ acct'[u].role = acct[u].role
  BY StatusRow
<1>1. acct[u].quota \in Nat /\ acct'[u].quota <= acct[u].quota /\ acct'[u].status # "none"
  BY <1>0 DEF Account
<1>2. \A x \in Uids : x # u => Allotment(x)' \in Int /\ Allotment(x) <= Allotment(x)'
  BY <1>0, <1>1, OthersKeep
<1>3. purged => os[u] = {} /\ acct[u].status = "deleted"
  <2>1. LeftBefore("tombstone") = {}
    BY DEF LeftBefore
  <2>2. QED
    BY <2>1 DEF PurgeEntombs, At, IInv, PurgingInv, PurgeStages
<1>4. ~purged => /\ job' = job /\ job.pc # "commit" /\ acct[u].status \in {"active", "suspended"}
  BY DEF Transition, TxFree
<1>5. purged => job'.kind = "purge" /\ job'.pc = "parent" /\ job.kind = "purge"
  BY JobFine DEF PurgeEntombs, At, Goto, Job
<1>6. \A h \in Helpers : KnowsOld(waiting[h])'
  <2>1. \A h \in Helpers : waiting[h].kind = "quota" => waiting[h].uid \in Uids
    BY DEF BytesInv, Request
  <2>2. \A x \in Uids : (acct[x].status = "purged" => acct'[x].status = "purged")
                        /\ (acct'[x].quota = acct[x].quota \/ acct'[x].status = "purged")
    BY <1>0, <1>3, <1>4
  <2>3. QED
    BY <1>0, <2>1, <2>2 DEF LimitsInv, KnowsOld
<1>7. CASE purged
  <2>1. ASSUME NEW x \in Uids, Given(x)'
        PROVE  Given(x) /\ Allotment(x)' \in Int /\ Allotment(x) <= Allotment(x)'
    <3>1. "owned" \in os[x] /\ Given(x) /\ x # u
      BY <1>0, <1>3, <1>5, <1>7, <2>1 DEF Given, Creating
    <3>2. QED
      BY <1>2, <3>1
  <2>2. Homes'
    BY <1>0, <2>1, HomesGrow
  <2>3. JobKnows'
    BY <1>5, <1>7 DEF JobKnows, PricedInv, Creating, Lowered, Raises, KnowsOld, At, LimitKinds
  <2>4. QED
    BY <1>6, <2>2, <2>3 DEF LimitsInv
<1>8. CASE ~purged
  <2>1. ASSUME NEW x \in Uids PROVE EffectiveQuota(x)' = EffectiveQuota(x) /\ acct'[x].quota = acct[x].quota
    <3>1. /\ Held(acct, u, x) \in Nat
          /\ Allocated(x, NoRequest)' = Allocated(x, NoRequest) - Held(acct, u, x) + Held(acct', u, x)
      BY <1>0, AccountChange DEF NoRequest
    <3>2. Held(acct', u, x) = Held(acct, u, x)
      BY <1>0, <1>8 DEF Held
    <3>3. Allocated(x, NoRequest) \in Nat
      BY Amounts
    <3>4. Allocated(x, NoRequest)' = Allocated(x, NoRequest)
      BY <3>1, <3>2, <3>3
    <3>5. acct'[x].role = acct[x].role /\ acct'[x].quota = acct[x].quota
      BY <1>0, <1>8
    <3>6. QED
      BY <1>0, <3>4, <3>5 DEF EffectiveQuota
  <2>2. job' = job /\ job.pc # "commit"
    BY <1>4, <1>8
  <2>3. ASSUME NEW x \in Uids, Given(x)'
        PROVE  Given(x) /\ Allotment(x)' \in Int /\ Allotment(x) <= Allotment(x)'
    <3>1. Given(x)
      BY <1>0, <2>2, <2>3 DEF Given, Creating
    <3>2. CASE x = u
      <4>1. Allotment(x) = EffectiveQuota(x) /\ Allotment(x)' = EffectiveQuota(x)' /\ EffectiveQuota(x) \in Nat
        BY <1>0, <1>1, <3>2, Amounts DEF Allotment
      <4>2. QED
        BY <2>1, <3>1, <4>1
    <3>3. QED
      BY <1>2, <3>1, <3>2
  <2>4. Homes'
    BY <1>0, <2>3, HomesGrow
  <2>5. JobKnows'
    <3>1. PricedInv'
      BY <1>0, <2>2 DEF LimitsInv, JobKnows, PricedInv, Creating
    <3>2. KnowsOld(job)' /\ Raises' /\ Lowered'
      <4>1. PICK o : o = job.owner
        OBVIOUS
      <4>2. job.kind \in {"create", "quota"} \cup LimitKinds => o \in Uids
        BY <4>1 DEF BytesInv, Request, Administrator
      <4>3. o \in Uids => EffectiveQuota(o)' = EffectiveQuota(o)
        BY <2>1
      <4>4. EffectiveQuota(job.owner)' = EffectiveQuota(o)' /\ EffectiveQuota(job.owner) = EffectiveQuota(o)
        BY <2>2, <4>1 DEF EffectiveQuota
      <4>5. job.kind = "quota" => job.uid \in Uids /\ acct'[job.uid].quota = acct[job.uid].quota
        BY <2>1 DEF BytesInv, Request
      <4>6. Raises'
        BY <2>2, <4>2, <4>3, <4>4, <4>5 DEF LimitsInv, JobKnows, Raises, At
      <4>7. Lowered'
        BY <1>0, <2>2, <4>2, <4>3, <4>4 DEF LimitsInv, JobKnows, Lowered, At, AtMost, NativeLimit
      <4>8. job.kind = "quota" => (acct[job.uid].status = "purged" => acct'[job.uid].status = "purged")
        BY <1>0, <1>4, <1>8, <4>5
      <4>9. KnowsOld(job)'
        BY <2>2, <4>5, <4>8 DEF LimitsInv, JobKnows, KnowsOld
      <4>10. QED
        BY <4>6, <4>7, <4>9
    <3>3. QED
      BY <3>1, <3>2 DEF JobKnows
  <2>6. QED
    BY <1>6, <2>4, <2>5 DEF LimitsInv
<1>9. QED
  BY <1>7, <1>8

\* At the start nothing is given to anyone.
LEMMA InitLimits == Init => LimitsInv
<1> SUFFICES ASSUME Init PROVE LimitsInv
  OBVIOUS
<1>1. job.kind = "none" /\ job.pc = "start" /\ \A h \in Helpers : waiting[h].kind = "none"
  BY IdleFine DEF Init
<1>2. Homes
  BY <1>1 DEF Init, Homes, Given, Creating
<1>3. JobKnows /\ \A h \in Helpers : KnowsOld(waiting[h])
  BY <1>1 DEF JobKnows, PricedInv, Creating, Lowered, Raises, KnowsOld, At, LimitKinds
<1>4. QED
  BY <1>2, <1>3 DEF LimitsInv

\* Every step.
LEMMA LimitsStep == ASSUME IInv, BytesInv, LimitsInv, Serial, [Next]_vars PROVE LimitsInv'
<1>1. CASE Asks
  BY <1>1, AsksLimits
<1>2. CASE Creates
  BY <1>2, CreationLimits, ReservesLimits, CreatesLimits, CancelsLimits DEF Creates
<1>3. CASE Resizes
  BY <1>3, QuotaLimits, QuotaCommitsLimits, LimitCommitsLimits, RootLimits DEF Resizes
<1>4. CASE Removals
  <2>1. ASSUME NEW u \in Uids, NEW s \in {"active", "suspended", "deleted"}, Transition(u, s) PROVE LimitsInv'
    <3>1. IF FALSE THEN PurgeEntombs /\ u = job.uid ELSE Transition(u, s)
      BY <2>1
    <3>2. QED
      BY <3>1, StatusLimits
  <2>2. ASSUME PurgeEntombs PROVE LimitsInv'
    <3>1. PICK u, s : u = job.uid /\ s = "active"
      OBVIOUS
    <3>2. u \in Uids
      BY <2>2, <3>1 DEF PurgeEntombs, At, BytesInv, Request
    <3>3. IF TRUE THEN PurgeEntombs /\ u = job.uid ELSE Transition(u, s)
      BY <2>2, <3>1
    <3>4. QED
      BY <3>1, <3>2, <3>3, StatusLimits
  <2>3. QED
    BY <1>4, <2>1, <2>2, RemovalLimits DEF Removals
<1>5. CASE Ends \/ UNCHANGED vars
  BY <1>5, CreationLimits, RootLimits
<1>6. QED
  BY <1>1, <1>2, <1>3, <1>4, <1>5 DEF Next

\* set_quota, create, set_budget, set_own_quota, sync_limits, cancel_pending
\* and purge_deleted never leave a home with a kernel limit above what the
\* metadata promises it, wherever each of them is interrupted, as long as two
\* changes of one child's quota do not overlap.
THEOREM LimitsFollow == Spec /\ []Serial => []LimitsWithinAllotment
<1>1. IInv /\ BytesInv /\ LimitsInv /\ Serial /\ [Next]_vars => LimitsInv'
  BY LimitsStep
<1>2. LimitsInv => LimitsWithinAllotment
  BY DEF LimitsInv, Homes, Given, Close, Within, LimitsWithinAllotment
<1>3. QED
  BY <1>1, <1>2, InitLimits, Identities, BytesRight, PTL DEF Spec
=============================================================================
