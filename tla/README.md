# TLA+ models of TealDrive

TealDrive is a web file manager for the Unix accounts of one machine. This
directory holds TLA+ models of its core, TLC instances of them, and proofs
checked by TLAPS. `PROJECT.json` maps every definition to the lines it models.

## The system

Four programs: the unprivileged **server** (HTTP and WebSocket), the setuid-root
**helper** that the server starts once per request, the root **wizard** and the
users' **ctl**. All durable authority is in the SQLite file `accounts.db`,
which only root opens; user files stay in the home directories. The helper runs
as a *supervisor* (root) that checks the caller's grant, takes the `flock` of the
home, writes the journal and starts a *worker* (the user's uid, Landlock) that
does the file operation.

| Part | State | Operations | What is hard |
|---|---|---|---|
| Account store (`accounts/store.rs`, `policies.rs`) | accounts: status, generation, password hash, role, scope, flags | create, transition, set password, force change, role, scope, policy | every change must invalidate what was handed out before |
| Grants and enrollment (`accounts/grants.rs`) | `session_grants`, `enrollment` | issue, verify, revoke, begin and complete enrollment | several statements per command, other helpers in between |
| Account gateway (`helper/account_gateway.rs`) | none; one process per command | login, change password, access, policy, local commands | values read in one transaction, used in the next |
| Journal (`accounts/journal.rs`) | `operation_v1` rows, `trash_expiry_v1` and `staging_expiry_v1` tokens | begin, finish, evict, expire | crash between intent, effect and outcome |
| Undo (`accounts/undo.rs`, `helper/undo.rs`) | `undo_status`, undo epoch | candidate, claim, apply, finish | single use across crashes and restores |
| Supervisor and worker (`helper/ipc.rs`, `worker.rs`, `quota.rs`, `cancellation.rs`) | home lock, processes | lock, revalidate, spawn, answer, cancel | orphans, lost answers |
| Expiry (`accounts/lifecycle.rs`, `staging.rs`, `helper/maintenance.rs`) | copies of tokens | list, lock, sweep, put aside | stale copies, aborts, starvation |
| Backup and restore (`wizard.rs`) | a copy of the database | backup, restore, fence | old authority coming back |
| Virtual accounts (`accounts/virtuals.rs`) | pool, budgets, child quotas, Unix identities | provision, resize, delete, purge | crash between the two databases, over-allocation |
| Sessions and leases (`session/`) | in-memory sessions, leases | create, look up, expire, deny, revoke, poll, validate | a lease outlives its session for a while |
| Uploads (`upload/`) | stage files, leases on disk, counters in memory, suspended transfers | begin, chunk, end, abort, suspend, resume, purge | disconnect, purge, shutdown and other processes racing |
| Server and shutdown (`ws/`, `download/`, `shutdown.rs`) | activity count, draining flag, permits, sockets, streams, jobs | admit, drain, cancel, exit | admission racing the drain, orphaned jobs |
| Login limits (`rate_limit/`, `accounts/limits.rs`) | failures in memory, `login_limits` rows | check, reserve, refund, evict, sweep | parallel attempts, floods of names |
| Policy (`policy/`, `helper/policy.rs`, `helper/access.rs`) | none | decide on the server, in the supervisor and in the worker | three decisions under three configurations |
| File requests and workers (`fs/`, `helper/*.rs`) | the tree, the trash, archives, open editors | list, read, save, upload, copy, move, trash, restore, archive, extract | permitted steps that together do what is forbidden |
| Configuration (`config.rs`, `runtime_settings.rs`, `admin/api.rs`) | root file, panel settings, served configuration | reload, patch | validated against one file, stored next to another |
| Audit, protocol, TLS, UI, installation | I/O and data | | no concurrent state of their own |

The server calls the helper; helpers and the wizard meet only in `accounts.db`
(each SQLite immediate transaction is atomic), in the `flock` of a home, and in
the files of the home, which other programs of the user write too.

## Modules

| Module | Models | Extends |
|---|---|---|
| `Grants` | accounts, grants, enrollment, the helper processes of account commands, the root CLI, server restarts, backup and restore | |
| `GrantsProofs` | theorems about `Grants` | `Grants`, `TLAPS` |
| `MCGrants` | TLC instances | `Grants` |
| `Operations` | journal, tokens, undo, home lock, supervisors, workers, sweep, backup and restore of one account | |
| `OperationsProofs` | theorems about `Operations` | `Operations`, `TLAPS` |
| `MCOperations` | TLC instances | `Operations` |
| `Allocation` | the pool, budgets, own and child quotas, creation intents, Unix identities and kernel limits of virtual accounts | |
| `AllocationProofs` | theorems about `Allocation` | `Allocation`, `Sums` |
| `MCAllocation` | TLC instances | `Allocation` |
| `Access` | the decisions about one request: path rules, policy engine, the helper's checks, the intersection of two policies | |
| `AccessProofs` | theorems about `Access` | `Access`, `TLAPS` |
| `Files` | file requests from the server's decision to the worker's effect on the tree, the lock, and the configuration they are decided by | `Access` |
| `FilesProofs` | theorems about `Files` | `Files`, `AccessProofs` |
| `MCFiles` | TLC instances | `Files` |
| `Staging` | stage files, leases and counters of uploads, as operators on their state | |
| `Logins` | login attempts and their two limits, as operators on their state | |
| `Server` | the composition: processes, sessions, leases, sockets, jobs, downloads, uploads, logins, shutdown | `Staging`, `Logins` |
| `Transfer` | abstract: what an upload promises its client; `Server` refines it | |
| `LoginsProofs` | theorems about the logins of `Server` | `Server`, `TLAPS` |
| `ServerProofs` | theorems about `Server`, and that it implements `Transfer` | `LoginsProofs`, `Sums` |
| `Sums` | lemmas about sums over finite sets | `TLAPS` |
| `MCServer` | TLC instances | `Server` |

### Grants

`acct[a]` is a row of `accounts`, `row[n]` and `token[n]` the two halves of a
session grant (the row of the store, and what the server holds), `proof[p]` an
enrollment row, `hp[h]` the local variables of one helper process. Every SQLite
transaction, and every query that is outside of one, is one action: a login is
`LoginReadRow`, `ReadHash`, `IssueGrant`; a command with a grant is `VerifyRow`,
`VerifyGeneration` and the command. Between two actions of a helper all others
may run. A command whose guard fails ends in `Fail`.

Abstractions. `login_enabled` is written only together with `status` and is
folded into it. The list of administrators in the configuration, the NSS checks
and the contents of policies are left out, so the model admits more commands
than the code. The server process is an incarnation number (`CallerBinding` is
pid, start time and boot id); incarnation 0 stands for a ctl process. Expiry is
an event. Only the cap per account is modelled, not the global one. A command of
a global administrator runs as `Authority::Root` (`auth = "root"`), which no later
transaction checks again (`store.rs:232`); `FreshAuthority` speaks of the others. `deny` bars
the owner of an account that others closed from enrolling; a row of an absent or
active account never has it (part of `TypeOK`). A restore
happens with the service stopped; it may be cut short before
`invalidate_restored_sessions` (`fenced = FALSE`). There is one backup at a time.

### Operations

`op[o]` is what never changes of an operation, `rec[o]` its journal row, `tok[o]`
its expiry token, `place[f]` and `ver[f]` where a file is and which observable
state it has, `staged` the staging paths that exist, `proc[p]` a supervisor with
its worker, `gc` the sweep. A supervisor goes through `Request` or `RequestUndo`,
`AcquireLock`, `Begin` or `Claim`, `Spawn`, `Finish` or `FinishUndo`, and may be
refused (`Refuse`, `LedgerFull`) or end anywhere (`SupervisorExits`). A worker
stages, acts, answers, fails or dies; one whose supervisor is gone (`pc =
"dead"`) takes the same steps until `OrphanEnds`. The sweep is `GcStarts`,
`GcTakes`, `GcLocks`, `GcSweeps` or `GcSweepFails`, `GcSettles`, `GcMovesOn`.
A restore puts the rows of a backup back and fences them with a new undo epoch; it
may be cut short in between (`Restore` with `fenced = FALSE`: `wizard.rs:1434` before
`wizard.rs:1443`), and then runs on under the old epoch. `did`, `undone`, `tries`,
`cuts` (restores cut short) and `forgotten` (what was begun before the last restore)
are history.

Abstractions. One account and home. "move" stands for move, rename and chmod,
"write" for all operations with a staging path. `FileState` is a version that
every change moves on, as the change time does. Clocks are the events `Lapses`,
`Ages`, `FallsDue`. Left out: the continuation of range reads, the ledger files,
the global caps, the LIMIT and the time budget of a sweep, tokens of purged
accounts, undo preferences, and trees deleted halfway.

### Allocation

`pool`, `budget[a]`, `own[a]` and `acct[u]` are the tables of the store, `intents`
the `virtual_create_v1` rows, `retired` and `purging` the uid and purge markers;
`os[u]` is what the operating system has of an identity (group, user, home, home
given to its user) and `native[u]` its kernel limit, which is a second store that
no transaction covers. `job` is the holder of the global lock
(`virtuals.rs: lock`) with its program counter, `waiting[h]` a helper that has read
the database and waits for the lock. A child is created by `AskCreate`, `Lock`,
`CreateLowers` or `CreateResumes`, `CreateReserves` or `CreateRefused`, the steps of
`ensure_os_identity` (`MakesGroup`, `MakesUser`, `MakesHome`, `LimitsChild`,
`HandsOver`) and `CreatesChild`; an administrator by `AdminReserves`, the same
steps and `CreatesAdmin`. A resize is a lowering, a commit and a raise
(`QuotaLowers`, `QuotaCommits`, `QuotaRaisesChild`, `RaisesParent`; `LimitLowers`,
`BudgetCommits` or `OwnCommits`, `RaisesParent`), or ends in `QuotaFails` or
`LimitFails`. The lowering happens in the `before` closure of the open transaction,
so from it to the commit no other transaction runs (`TxFree`). `Cancels`,
`PurgeStarts` to `PurgeEntombs`, `SetPool`, `Syncs` and `Transition` are the
other commands. `Ends` stops the job between any two steps. `issued` is history.

Abstractions. Only `user_quota` enforcement, where the kernel holds the limits.
An account is named by its uid. Names, the cap on accounts, subordinate ids, the
order in which uids are tried and the bytes really used can only refuse, and a
refusal is `Ends`. Kernel writes that fail do so before they change anything. The
`virtual_quota_sync_v1` marker is never read by the code and is left out.
Administrators that are Linux users, who have no kernel limit, are left out, as is
the ceiling of the home template. The retention of a deleted account may be over
at any time. A quota request names the generation that is current when it is
sent.

### Server, Staging, Logins and Transfer

`phase[p]` is `Shutdown` of a process (up, draining, forced, clean or dirty, down)
and `acts[p]` its count of `Activity` guards; `free[p]` the permits of
`operation_slots`; `sess[s]` an entry of the session store; `conn[c]` a WebSocket
task with the frame it serves, `stream[x]` the body of a download, `check` the
validation jobs of leases. A socket is admitted (`Upgrade`, or `PreAuth` and
`Authenticated`), reads a frame (`Receives`), waits for a permit (`JobStarts` or
`WaitBreaks`), runs the blocking job of the frame (`JobReserves`, `JobCreates`,
`JobWrites`, `JobEnds`, `JobCommits`, `JobAborts`, `JobResumes`, `JobOther`),
answers (`Delivers`) and closes; `UploadCleanup` is `CloseReads` (it reads
`is_draining`) and `CloseDrops` (it suspends or drops), because the expiry task
may run in between. A dropped body leaves its job behind (`BodyDropped`,
`OrphanReturns`). `Staging` has the bodies of the upload requests: `Reserve` under
the flock of the budget directory, the counter in memory, `Suspends`, `Takes`,
`Purged`; a transfer has a stage file, a lease with its holder, and a place
(`active`, `pending` or a job). `Logins` has an attempt from `Arrives` through
`Reserves` and `Verifies` to `RecordsFailure` or `RecordsSuccess`; a helper may die
in between (`LoginUnanswered`).

`Transfer` says of each upload: it begins in one session, its acknowledged bytes
only grow, it may be parked and resumed, and once over it stays over.
`TransferPromise` is its specification under the mapping `SeenUpload`, where an
open upload is attributed to the session of the connection that holds it.

Abstractions. Clocks are events, except for logins, which count seconds. All
attempts come from one address; the "ip" rows behave like the "global" one. The
idle and the absolute lifetime of a session are one event. `Totals` are units of
bytes; a chunk adds one unit and may be torn. Publication (`upload_end_request`
calling the helper) is one step here and is detailed in `Files` and `Operations`.
Left out: frame encoding, hello negotiation, TLS reload, ranges of a download. Pings
are answered and refusals sent from the loop itself (`ws/server.rs:1111`, `1124`,
`1304-1313`), by sends that neither the lease nor the drain interrupts; the model
has the sends of answers only, and a Pong's touch of the session is left out.

### Access and Files

A policy is a record of rules and flags. `CheckOperation` is the policy engine of
the server, `AccessAuthorize` and `PolicyAuthorize` the checks of the helper,
`PreflightTree` the walk over the descendants, `Restrict` the intersection of the
server's snapshot and the ceiling that the helper trusts. In `Files`, `tree`
is the home (content is a set of atoms, an archive holds those of its entries),
`trash` its trash, `root` the root configuration file, `stored` the rules in
`accounts.db`, which only helpers read, `panel` and `served` what the panel saved
and the server serves, `tab` what an editor shows. A request is asked
(`AskRead`, `AskChange`, ... one per group of dispatch handlers, with the
decision of its `fs/*.rs` function), admitted by the supervisor under the
restricted policy (`Admits`), waits for the lock if it changes anything, and with a
grant is decided again from the start with what is configured then (`Locks`; a
refusal there has no typed answer). With a ticket (no web accounts, `wl.grants =
FALSE`) there are no stored rules and the policy of the admission is kept
(`ipc.rs:753`). Then it is run by the worker, which decides on paths, descendants and features
(`WorkerDecides`) before it acts. Workers that publish do so in steps: `Stages`,
`Rechecks`, `Publishes`, or `Cancels`. `OwnerWrites`, `RootEdits`, `RulesStored`,
`Reloads` and the patch (`PatchBegins`, `PatchChecks`, `PatchStores`) happen in
between. An archive lists what it likes. A zip needs no entries for its directories:
`create_dir_all` makes them unchecked (`archive.rs:834-836`; `way` remembers which), a
tar without them fails (`ExtractZip`, `ExtractTar`).

Abstractions. One user, one root, an archive of one source. No links, sizes,
quotas or paging. A read is one step. A revision is equality of the file, its
mode included. Grants are not revalidated here (see `Grants`: a stored rule also
moves the generation on, so the code refuses more requests), and no supervisor
dies (see `Operations`). A read of a journaled account waits for the lock; here
reads never do. A tar lists a directory before what is in it. `ValidRuntime` and with
it `RevokedStaysRevoked` are about the split configuration; with a single file
`validate_runtime` has no ceiling to check (`config.rs:874`).

## Runs

| Run | Instance | Shows |
|---|---|---|
| `grants_login` | an account and a newcomer, 2 helpers, 2 grants, 2 proofs, 2 passwords, 2 servers, backup (889,364 states) | login, enrollment, password change, logout, closing, restarts and restores leave no old password's grant usable and revive nothing |
| `grants_admin` | an administrator, its virtual user, a newcomer | a command about to commit is still permitted |
| `operations_safe` | 2 operations on 1 file, 2 helpers, sweep, 1 outside edit; undo, a journal of 1 row, backup, also cut short (2.2 million states) | journal and tokens tell the truth across crashes, undo is single use unless a restore is cut short, live records are kept |
| `operations_live` | 2 operations, 2 helpers, sweep, suspension (77,000 states) | lock and due tokens are served, also when one token is retired under the sweep |
| `allocation_lifecycle` | an administrator with two children, 2 sizes, 1 helper (2.1 million states) | no byte is promised twice, a limit never exceeds the metadata, no identity is orphaned, no uid is given out twice |
| `server` | up to 2 processes, 3 sockets, 3 uploads, 3 logins, 1 download (950,409 states) | reservations are neither leaked nor returned twice, the staging budget holds, a clean shutdown is idle, guesses are bounded, nobody else's failures touch a lockout, every upload implements `Transfer` |
| `server_live` | 1 process, 2 sockets, 1 download, 1 upload (9,506 states) | sockets of dead sessions are let go, a shutdown ends, no upload stays suspended |
| `files` | 12 paths, 2 requests at a time, up to 5 in a row (324,721 states) | forbidden content stays where it is forbidden, hidden names are answered NotFound, changes are permitted when they happen, no editor overwrites another, a patch revives no revoked feature |
| `operations_lock` | violation | a cancelled supervisor's worker publishes without the lock |
| `operations_undo_sweep` | violation | the sweep's test of the undo status never fires |
| `allocation_overlap` | violation | of two overlapping resizes the refused one restores a stale limit |
| `files_folder` | violation | a new folder is checked without its parent |

Bounds. Two helpers suffice for every pairwise race of account commands, since
a helper shares only the store; two grants let one be pruned while the other
lives; three generations allow a change before, between and after the steps of a
login. `OneStory` keeps a behaviour of `grants_login` to the enrolled account or to the
newcomer, and lets helpers overlap only without a backup or a second server, since
a restore happens with the service stopped. Two operations let one act on what the other left (trash, then restore or
delete) with both processes alive; the sweep is a third process. The journal cap
of one makes every second operation evict; `Cut` has restores one of which is cut
short. `operations_live` has two tokens, one of which may be undone between its
listing and its turn (`OneByOne`), two helpers at once (`AtOnce`) and an account that
is suspended now and then (`Suspended`). In `Allocation` three uids are an
administrator and two children that share its budget, two sizes make every sum
hit its limit exactly and exceed it, two request keys allow a retry beside
another request, and one generation step is a change between reading an account
and using it. The passing runs have one helper, so quota requests do not overlap
there; `allocation_overlap` has two.

A behaviour of `Operations`, `Server` or `Files` follows one workload, chosen in
`Init`: who takes part, which requests and events happen. The workloads of
`server` are two sockets and a download that compete for one permit (`Traffic`),
a login on a socket's own channel (`Channel`), an upload handed from socket to
socket and claimed by another session (`Handover`), uploads next to a shutdown
(`Closing`), two processes in one staging directory that may crash (`Sharing`),
parallel logins (`Doorstep`) and their failures (`Doorway`). Caps are one or two, so
that each is hit. The workloads of `files` are a file that may be moved but not
read (`Carrying`), an undiscoverable one (`Secluding`), editors and the owner
(`Editing`), replacement of an edited file (`Replacing`), policies that change on the way
(`Tightening`, `Freezing`, with tickets `Ticketed`), archives without directory entries and
with a file where a directory is needed (`Opened`), names with a meaning (`Naming`, one
of them hidden too in `Shrouding`) and the panel (`Panelling`). Four or five requests in a row are enough to move, archive, extract and read.

Deadlock is checked in `Allocation`, whose
repair can always start. In the other modules it is not: ids, generations and
edits are bounded, so an instance stops when they are used up.

Fairness (`operations_live`). Supervisors and workers run or are ended by their
deadlines (weak); `watch_parent` ends orphans (weak); a blocked `flock` is granted
in turn (strong, `AcquireLock` and `GcLocks`); the timer starts the sweep again
and again and it makes progress through its list (weak on `Sweep`, strong on
`GcTakes` and `GcMovesOn`, which a crash may interrupt); it is killed in the
middle of a token only finitely often.

Fairness (`server_live`), weak throughout: the runtime runs a task that can go on
(`ConnTask`, `StreamTask`), a lease polls every 250 ms (`LeasePoll`,
`StreamLeasePoll`), a validation job ends by its own deadline, a suspended upload
reaches its expiry, the expiry task ticks (`Expiry`) and `finish` has its two timeouts
(`Finishing`). Nothing is assumed of peers: they may never read, send or close.
Nor is anything assumed of who gets a permit.

## Findings

- `operations_lock`: `helper/quota.rs:1` promises that the lock is held until
  commit or rollback. When the client cancels, `watch_parent` ends the supervisor
  and with it the lock, while the worker has up to a second more.
- `operations_undo_sweep`: `eligible` (`accounts/lifecycle.rs:147`) spares trash
  with an unsettled undo, but tests the token's copy of the record, which
  `claim_undo` never updates.
- `allocation_overlap`: `docs/intgr/IMPLEMENTATION_DECISIONS.md:206` says of a quota
  change "Failure over-restrictive kalır" (a failure leaves the limits
  over-restrictive). `set_quota` takes `old` from an account that was read before
  the lock. When two requests shrink one child, the second fails the check of the
  generation and its error path (`accounts/virtuals.rs:941`) sets the kernel limit
  to the quota of before the first one, above the committed quota, until
  `storage sync` repairs it.
- `files_folder`: `docs/CONFIGURATION.md:344` says that a denial of `discover`
  "returns NotFound". For a new folder the server sends the bare name, and
  `authorize` (`helper/access.rs:119`) joins only the name of a rename to its parent.
  A rule in the account database, which the server does not know, does not stop
  a folder of an undiscoverable name from being made, or is betrayed by "exists".

Met while modelling, without a run of their own:

- `shutdown.rs:32` speaks of every job; the validation job of a lease
  (`session/lease.rs`) and the grant revocation of a logout (`auth/api.rs`) run without
  an `Activity`, so a clean shutdown does not wait for them. `CleanMeansIdle` speaks
  of connections, downloads, operations and logins.
- `UploadCleanup::drop` (`ws/server.rs:949`) reads `is_draining` before it suspends;
  when `resume::clear` runs in between, the stage file outlives a clean exit. The
  next reservation charges the leftover (`StagingWithinBudget`).
- A suspended upload of a session that was purged before lives until its own
  expiry (`SuspendedGo`).
- A save by modification time (`fs/text.rs:233`) is compared in the metadata request
  only. `NoLostEdit` is about saves by revision.
- A failure is recorded under the time its request came in (`rate_limit/login.rs:119`,
  `now` of `auth/api.rs:159`): a slow wrong answer during a lockout dates it back, and
  it ends that much earlier. `LockoutKept` says that nothing but an answer for
  the same name does that.
- A metadata restore that is cut short before `invalidate_restored_sessions`
  (`wizard.rs:1434-1443`) leaves rows of before an undo under the old epoch, and
  that undo can start again. Only its comparison of the file's state would stop it.
  `UndoStartedOnce` counts such restores.
- Trash whose operation has a pending or unknown outcome is listed by no query
  (`accounts/lifecycle.rs:167`) and stays until somebody looks. `ArtifactsCovered`
  excepts it.
- A command of a global administrator that was verified before a demotion commits
  after it, for `Authority::Root` is not checked again (`accounts/store.rs:232`).
- With a ticket instead of a grant the policy of the admission is used even if it
  was tightened while the request waited for the lock (`helper/ipc.rs:753`).
- A zip without entries for its directories has them made unchecked
  (`helper/archive.rs:834-836`): a rule that denies writing such a directory, and is not
  recursive, does not stop it. `ChangesPermitted` excepts them.
- An extraction makes the directories on the way to its destination before it
  reads the archive, unchecked, and leaves them when it fails (`helper/archive.rs:641`).
  `ChangesPermitted` excepts them.

## Proofs

All theorems hold for every value of the constants under the `ASSUME` of the
modules, which state types and distinctness only. Three say a little more:
`StagingConstants` has a largest transfer size (a `u64` in the code),
`ServerConstants` at least one boot, and `FilesConstants` what a workload is (see
Files below). TLC checked every inductive invariant on the
runs before its proof.

`Sums` has what `SumFunctionOnSet` (the community module's fold, in an order of
its own) computes: the type of a sum, a sum with one element more or less, a sum
of zeros, of smaller terms. Induction over the set is not available, so each fact
goes by a smallest set for which it would fail. The sums of `Allocation` and
`Staging` are written with that operator for this reason.

### Grants

`Typing` (`TypeOK`), `PasswordBinding` (`GrantProvesCurrentPassword`), `Revocation`
(`DeadStaysDead`), `Denial` (`NoOpenProofWhileDenied`), `Authorization`
(`FreshAuthority`), `GrantCap` (`OwnGrantsBounded`).

`GrantProvesCurrentPassword` is not inductive: a helper between two statements
and a backup also carry a generation with a password. `Inv` adds
`Binding` (a live row is superseded, or its account is active with the password
the grant proved) for the database and for every backup, `HelperInv` (the same
for a helper about to issue), `CallerInv` (no binding comes from a future server)
and `ProofInv`. `Revocation` follows from `Inv`, since generations never run
backwards except in a restore, which needs a stopped server and hence a new
binding. `Denial` rests on the fact that absent and active accounts deny nobody.
`Authorization` adds
`FreshInv`: what a helper has verified for a command under the account's own authority
is still true, or the generation it verified has moved on and its commit will fail. `GrantCap` adds `BoundInv`, the
cap for the rows of the database and of every backup; it counts a row when it is
inserted and uses the library's theorems on cardinalities.

### Operations

`Consistent` (the invariant), `OperationsTyped` (`TypeOK`), `JournalTrue`
(`TruthfulJournal`), `UndoneOnce` (`UndoStartedOnce`), `ArtifactsFound`
(`ArtifactsCovered`), `LiveRecordsKept` (`KeepsLiveRecords`).

`IInv` relates five things that no single step keeps together: the row, the
token, the file, the process and the history. An operation has one owner, and an
owner that has not acted (`OwnerInv`) is not in `did`, so a failure it reports is
one; a worker that lost its supervisor leaves a row that stays pending or
unknown, never a wrong success. The lock has at most one live supervisor
(`LockInv`); an undo runs under it and its claim is written before (`UndoInv`,
`ClaimInv`), so a second claim meets the status of the first, and an operation with no
claim in the journal was undone at most as often as restores were cut short. A trash or staging
place holds only the file of its own operation (`SlotInv`), and a token that fell due
has no owner left (`TokenInv`, `SweepInv`). A token says what its operation came to
(`MarkInv`), so that one which is due is one that the sweep accepts. The rows are described for the database
and for every backup (`JournalInv`); clauses that a restore would break speak of
the current epoch only, which a restore moves on.

### Allocation

`Identities`, `NoUidTwice` (`UidIssuedOnce`), `NoOrphanIdentity`
(`IdentityAccountedFor`); `BytesRight`, `AllocationTyped` (`TypeOK`),
`BytesPromisedOnce` (`NeverOverAllocated`); `LimitsFollow`
(`LimitsWithinAllotment`).

- Identities. Between two steps the holder of the lock relies on what it
  found before. `IInv` adds that an issued uid is retired or held by
  exactly one intent (`UidInv`); that a request key has one intent and an unfinished
  one no account (`IntentInv`); and for the job, that a uid it has chosen but not yet
  recorded is unused (`ReservingInv`), that a creation has its intent and the parts
  made so far (`CreatingInv`), and that a purge has its purge intent and at most
  the parts not yet removed (`PurgingInv`).
- Bytes. `BytesInv` adds to `NeverOverAllocated` that what a job has checked
  is still true when it commits (`Committing`: no other transaction gets in
  between, `TxFree`), that requests name administrators and their children
  (`Request`), and that a uid without an account has no budget (`AccountsInv`).
  Every step is then a change of one row or one intent, whose effect on the
  sums `AccountChange`, `IntentAdded` and `IntentGone` give.
- Kernel limits. `LimitsInv` says that a home that was given to its user, or is
  about to be, has a limit within its allotment (`Homes`); that the side which
  is about to lose bytes already has its smaller limit (`Lowered`); that the side
  which gains them is raised to no more than it has by then (`Raises`); that a
  creation gives its child what its intent holds (`PricedInv`); and that a quota
  change knows the quota it replaces (`KnowsOld`). The last is false when two
  changes of one child overlap, which is what `allocation_overlap` shows, so
  `LimitsFollow` is `Spec /\ []Serial => []LimitsWithinAllotment`, where `Serial`
  forbids just that.

### Server and Logins

`LoginsTyped`, `LockoutsHold` (`LockoutKept`), `GuessesLimited` (`GuessesBounded`);
`UploadsConsistent`, `UploadsKeepPromise` (`TransferPromise`, the refinement of
`Transfer`), `AccountsRight`, `BudgetKept` (`StagingWithinBudget`),
`ReservationsHeldOnce` (`StageHeldOnce`), `GuardsCounted`, `CleanShutdown`
(`CleanMeansIdle`), `ServerTyped` (`TypeOK`).

- Logins. `LoginsInv` types the tables and dates nothing after now; with it every
  step changes the limiter as an answer, an eviction or the sweep does, and the
  last two spare a lockout that is active.
  `GuessInv` says that every password checked under a deadline was paid for by a
  reservation of that deadline, and that an old deadline is never issued again:
  a refund returns only what its own attempt has reserved.
- Uploads. `UploadInv` says where a transfer can be (a connection, `PENDING`, a
  job) and that it is in one place, with the lease of that process and the
  session that began it. Every action then moves each transfer by one of the few
  moves of `MoveOf`, and each of these is a step of `Transfer` or a stutter.
- Budget. `StockInv` says that the counters in memory are the sums over the
  uploads a process holds (`Books`), that a file is no larger than its
  reservation (`Backed`), and that what a reservation would count is within the
  budget (`BudgetInv`); except at a reservation, charges only shrink.
- Shutdown. `TallyInv` says that the count of activities and the permits are
  the sizes of six sets (open sockets, bodies, logins, and their jobs), those of
  orphaned jobs included; a count of zero then means that all are empty. The
  validation jobs of leases are in none of them.

### Access

`AccessProofs` proves, for any rules, paths and requests, that the restriction of a
policy loses no denial: `RestrictMeets` (the restricted policy permits exactly what
both policies do), `AuthorizeNeverWidens`, `FeatureNeverWidens` and
`PreflightNeverWidens` (what passes the supervisor, the switches or the walk over a tree
under the restricted policy passes under the snapshot alone and under the ceiling
alone). They rest on `First` (the first refusal of a list) and on a comparison of
`Check` under a union of rules (`CheckBoth`).

### Files

`TypesHold` (`TypeOK`), `ChangesWerePermitted` (`ChangesPermitted`),
`UnreadableIsNeverRead` (`UnreadableStaysUnread`), `HiddenIsNeverShown`
(`HiddenStaysHidden`), `NoEditIsLost` (`NoLostEdit`), `RevokedThroughout`
(`RevokedStaysRevoked`): all properties of the run `files`, for any number of
requests, any tree of paths and any workload.

`FilesConstants` says what a workload is. Everything in its tree lies in a
directory; different files have different contents, so that content can be
followed; requests are built as the handlers build them (a new name is made in the
directory the request names, a listing of the trash or a quota names the root);
the rules of `floor` are in every set of rules the account database may hold, or with
tickets in every root file. Of archives it says nothing. `floor` is what the two properties about secrets speak of: a rule that is
withdrawn in the middle protects nothing any more.

`IInv` has three parts. `ConfInv`: the policies are policies, `floor` is in the ceiling,
and a patch in progress remembers every feature the root file had since it began.
`ReqsInv`: a request in its worker has the lock if it changes anything; from its
admission on its policy is the restriction of its snapshot by the ceiling it saw
last; and each part of what it has staged may be written at its destination, or
is a directory that its zip does not list (`PublishOK`, `PartOK`). `FilesInv`: the home and every trash entry are
trees. The last is what the preflight relies on: it walks down from a path, so
that every descendant it must check has to be reachable. The invariant is needed
as a whole, since a change is permitted by a decision taken several steps before
and applied to a tree that has changed since.

`NextStep` shows that `IInv` is kept and that every step is of one of seven kinds
(`Opens`, `Supervised`, `ReadOnly`, `Alters`, `Prepares`, `OwnerStep`, `ConfigStep`),
each of which says what it does to the tree, the trash and the request and under
which permissions. The theorems go over these kinds instead of over the
actions one by one. `ChangesWerePermitted` follows from `Alters` and from `CheckBoth` of
`AccessProofs`; the others have an invariant of their own. `EditInv`: after the
second look at the revision the file is the one the editor showed, or was written
by the owner since. `SecretInv`: no secret is staged, and no request carries one as
its new content. `HiddenInv`: a request about an undiscoverable path is never
admitted, and nothing it was answered names one. A refusal of such a request is
NotFound, or a denial that would be given if nothing were hidden: `Keeps` compares
each decision under a policy with the same decision without its discover rules
(`Blind`), through `Check`, the handlers of the server and the helper's checks
(`CheckKeeps`, `PolicyKeeps`, `ServerKeeps`, `AuthorizeKeeps`), and says that only NotFound
may take the place of another answer.

The exceptions are those of the properties: `ChangesPermitted` excepts the new
folder, the directories on the way to an extraction and those a zip does not list
(`Excused`, see Findings), `HiddenStaysHidden` the name of a new folder. A listing of the trash and the quota
name no path, so the second part of `HiddenStaysHidden` does not speak of them.

### Only model-checked

Liveness under fairness
(`LockServed`, `DueSettles`, `DeadSessionsLetGo`, `ShutdownEnds`, `SuspendedGo`) is out of
the prover's reach, and the four violation runs are counterexamples.

## Plan

All modules of the plan are written: the account store and grants, operations,
allocation, the server with its uploads and logins, and file requests with their
decisions. Left, in this order:

1. An abstract specification of the pool that `Allocation` refines.
2. The sweep over several accounts with its LIMIT; the ledger; range reads.

## Not modelled

HTTP and WebSocket framing, TLS and the Noise channel, the wire types, audit output,
the parsing and the validation of configuration values, UI packages, layout and
installation are I/O or data. Links, byte quotas and sizes of files depend on the
file system. PAM, NSS, SQLite, `flock`
and the kernel are external: they appear as the atomicity of transactions, the
exclusion of the lock and the nondeterminism of failures.
