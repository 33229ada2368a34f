----------------------------- MODULE Operations -----------------------------
(***************************************************************************)
(* Protected file operations of one account: the operation journal, its    *)
(* trash and staging expiry tokens and the single-use undo of accounts.db, *)
(* the home flock, the root supervisor and user worker pair that runs each *)
(* operation (helper/ipc.rs, helper/worker.rs, helper/undo.rs), and the    *)
(* root sweep that expires trash, staging and records (wizard gc).         *)
(*                                                                         *)
(* A supervisor commits an intent, starts a worker that changes the home,  *)
(* and commits the outcome.  Either process may end between any two steps: *)
(* a supervisor whose client cancels or times out exits and its worker     *)
(* runs on for a moment without it.                                        *)
(*                                                                         *)
(* "move" stands for the operations undone in place (move, rename, chmod), *)
(* "write" for those that publish a staged output (write, upload, copy,    *)
(* archive, extract).  An observed FileState is a version number, which    *)
(* every change of the file moves on, as ctime does.  Clocks are the       *)
(* events Lapses (undo window over), Ages (journal retention over) and     *)
(* FallsDue (trash or staging retention over).                             *)
(***************************************************************************)
EXTENDS Naturals, FiniteSets, FiniteSetsExt

CONSTANTS
  MaxOps,      \* bound of the model: operation ids 1..MaxOps, in creation order
  Files,       \* files of the home
  Procs,       \* helper invocations that may run at once
  Workloads,   \* bound of the model: what may happen in a behaviour (acts:
               \* requests and events, procs: who may run them, edits: changes by writers outside the
               \* system, epochs: metadata restores that end, cuts: those cut
               \* short), and max_entries_per_account
  Gc, NoOne    \* lock holders other than Procs

Ops == 1..MaxOps

\* Where a file can be: at its path, moved away, deleted, or in the trash slot
\* of an operation.
Home == 0
Moved == MaxOps + 1
Gone == MaxOps + 2
Places == 0..(MaxOps + 2)

Undoable == {"move", "trash"}
OpActs == Undoable \cup {"write", "restore", "delete"}

ASSUME OperationsConstants ==
  /\ MaxOps \in Nat
  /\ \A w \in Workloads :
       /\ w.entries \in Nat /\ w.edits \in Nat /\ w.epochs \in Nat /\ w.cuts \in Nat
       /\ w.procs \subseteq Procs
       /\ w.acts \subseteq OpActs \cup {"undo", "gc", "suspend", "backup", "lapse", "age", "due"}
  /\ Gc \notin Procs /\ NoOne \notin Procs \cup Files \cup Nat \cup {Gc}

VARIABLES
  wl,      \* the workload of this behaviour
  op,      \* the immutable part of an operation's record and of its token
  rec,     \* operation_v1 rows: status, undo status, after-state
  tok,     \* trash_expiry_v1 and staging_expiry_v1 rows
  epoch,   \* undo_epoch_v1
  place,   \* where a file is
  ver,     \* its observable state
  staged,  \* operations whose staging path exists in the home
  proc,    \* supervisors and their workers
  lock,    \* holder of the flock on the home
  gc,      \* the sweep
  active,  \* is the account active?
  lapsed,  \* operations past the undo window
  aged,    \* operations past the journal's retention
  due,     \* operations past the trash or staging retention
  backup,  \* contents of a metadata backup, or the empty set
  did,     \* history: operations whose effect reached the home
  undone,  \* history: operations whose inverse reached the home
  tries,   \* history: undo workers started per operation
  cuts,    \* history: metadata restores that were cut short
  forgotten \* history: operations begun before the last metadata restore

meta == <<epoch, backup, cuts, forgotten>>
db == <<op, rec, tok, meta>>
fs == <<place, ver, staged, did, undone>>
clock == <<lapsed, aged, due>>
vars == <<wl, op, rec, tok, epoch, place, ver, staged, proc, lock, gc, active,
          lapsed, aged, due, backup, did, undone, tries, cuts, forgotten>>

Statuses == {"pending", "success", "failed", "unknown"}
OpRec == [act : OpActs \cup {"none"}, file : Files \cup {NoOne},
          target : Ops \cup {0}, epoch : Nat]
RecRec == [st : Statuses \cup {"none", "gone"}, undo : Statuses \cup {"none"},
           after : Nat \cup {NoOne}]
TokRec == [st : Statuses \cup {"none"}, after : Nat \cup {NoOne},
           review : BOOLEAN]
ProcRec == [pc : {"idle", "wait", "locked", "begun", "run", "dead"},
            act : OpActs \cup {"undo", "none"}, file : Files \cup {NoOne},
            target : Ops \cup {0}, op : Ops \cup {0}, exp : Nat \cup {NoOne},
            wk : {"none", "start", "staged", "done", "ok", "fail", "lost"}]
GcRec == [pc : {"idle", "trash", "staging", "wait", "locked", "swept", "failed"},
          phase : {"trash", "staging"}, todo : SUBSET Ops, op : Ops \cup {0},
          copy : TokRec]

NoOp == [act |-> "none", file |-> NoOne, target |-> 0, epoch |-> 0]
NoRec == [st |-> "none", undo |-> "none", after |-> NoOne]
NoTok == [st |-> "none", after |-> NoOne, review |-> FALSE]
Idle == [pc |-> "idle", act |-> "none", file |-> NoOne, target |-> 0,
         op |-> 0, exp |-> NoOne, wk |-> "none"]
GcIdle == [pc |-> "idle", phase |-> "trash", todo |-> {}, op |-> 0,
           copy |-> NoTok]

Acts == wl.acts
MaxEntries == wl.entries
MaxEdits == wl.edits
MaxEpoch == wl.epochs
MaxCuts == wl.cuts

Init ==
  /\ wl \in Workloads
  /\ op = [o \in Ops |-> NoOp]
  /\ rec = [o \in Ops |-> NoRec]
  /\ tok = [o \in Ops |-> NoTok]
  /\ epoch = 1
  /\ place = [f \in Files |-> Home]
  /\ ver = [f \in Files |-> 0]
  /\ staged = {}
  /\ proc = [p \in Procs |-> Idle]
  /\ lock = NoOne
  /\ gc = GcIdle
  /\ active = TRUE
  /\ lapsed = {} /\ aged = {} /\ due = {}
  /\ backup = {}
  /\ did = {} /\ undone = {}
  /\ tries = [o \in Ops |-> 0]
  /\ cuts = 0 /\ forgotten = {}

-----------------------------------------------------------------------------
(* The journal. *)

Rows(r) == {o \in Ops : r[o].st \notin {"none", "gone"}}
Tokens(ns) == {o \in Ops : tok[o].st # "none" /\ op[o].act = ns}

\* Mutant: a settled record may be evicted inside its undo window.
EvictableAnyAge(r, o) == o \in Rows(r) /\ r[o].st \in {"success", "failed"}

\* begin_operation may evict a settled record that cannot be undone any more.
Evictable(r, o) ==
  /\ o \in Rows(r)
  /\ r[o].st \in {"success", "failed"}
  /\ op[o].act \notin Undoable \/ o \in lapsed

Drop(r, S) == [o \in Ops |-> IF o \in S THEN [r[o] EXCEPT !.st = "gone"] ELSE r[o]]

\* The rows after begin_operation made room, and whether it could.
Expired == Drop(rec, Rows(rec) \cap aged)
Full(r) == Cardinality(Rows(r)) >= MaxEntries
Victims(r) == {o \in Ops : Evictable(r, o)}
Trimmed == IF Full(Expired) /\ Victims(Expired) # {}
           THEN Drop(Expired, {Min(Victims(Expired))}) ELSE Expired
HasRoom == ~Full(Expired) \/ Victims(Expired) # {}

\* A trash or staging intent also reserves its expiry token.
NeedsToken(act) == act \in {"trash", "write"}
TokenRoom(act) == NeedsToken(act) => Cardinality(Tokens(act)) < MaxEntries

\* Mutant: a worker that never answered counts as failed.
OutcomeLostFails(wk) == IF wk = "ok" THEN "success" ELSE "failed"

\* Mutant: the worker's own word for its outcome is stored.
OutcomeUnmapped(wk) == wk

\* The status a worker's answer, or its absence, settles to.
Outcome(wk) ==
  CASE wk = "ok" -> "success" [] wk = "fail" -> "failed" [] OTHER -> "unknown"

\* Mutant: a trash token is dropped unless the operation succeeded.
SettledTokenOnlySuccess(o, r) ==
  CASE op[o].act = "trash" /\ r.st # "success" -> NoTok
    [] op[o].act = "write" /\ r.st = "success" -> NoTok
    [] tok[o].st = "none" -> NoTok
    [] OTHER -> [tok[o] EXCEPT !.st = r.st, !.after = r.after]

\* What finish_operation leaves of the operation's own token.
SettledToken(o, r) ==
  CASE op[o].act = "trash" /\ r.st = "failed" -> NoTok
    [] op[o].act = "write" /\ r.st = "success" -> NoTok
    [] tok[o].st = "none" -> NoTok
    [] OTHER -> [tok[o] EXCEPT !.st = r.st, !.after = r.after]

\* finish_operation; an expired or already settled row is left alone.
FinishOperation(o, wk, seen) ==
  LET r == [rec[o] EXCEPT !.st = Outcome(wk), !.after = seen]
      retired == IF Outcome(wk) = "success" /\ op[o].act \in {"restore", "delete"}
                 THEN {op[o].target} ELSE {}
  IN IF rec[o].st # "pending" THEN UNCHANGED <<wl, rec, tok>>
     ELSE /\ rec' = [rec EXCEPT ![o] = r]
          /\ tok' = [q \in Ops |-> IF q = o THEN SettledToken(o, r)
                                   ELSE IF q \in retired THEN NoTok ELSE tok[q]]

\* candidate: the record conditions of an undo.
Available(o) ==
  /\ o \in Rows(rec)
  /\ rec[o].st = "success"
  /\ op[o].act \in Undoable
  /\ rec[o].undo = "none"
  /\ op[o].epoch = epoch
  /\ o \notin lapsed
  /\ rec[o].after # NoOne

-----------------------------------------------------------------------------
(* Supervisors. *)

Release == lock' = NoOne
Goes(p, pc) == proc' = [proc EXCEPT ![p].pc = pc]
Ends(p) == proc' = [proc EXCEPT ![p] = Idle]

\* The server accepts a request and starts a helper for it.
Request(p, act, f) ==
  /\ act \in Acts \cap OpActs /\ p \in wl.procs
  /\ proc[p].pc = "idle"
  /\ CASE act \in {"trash", "move", "write"} -> place[f] = Home
       [] act = "restore" -> place[f] \in Ops
       [] OTHER -> place[f] \in Ops \cup {Home}
  /\ proc' = [proc EXCEPT ![p] = [Idle EXCEPT !.pc = "wait", !.act = act, !.file = f,
                !.target = IF place[f] \in Ops THEN place[f] ELSE 0]]
  /\ UNCHANGED <<wl, db, fs, clock, lock, gc, active, tries>>

\* undo::apply up to the lock: the candidate and its expected state are read.
RequestUndo(p, o) ==
  /\ "undo" \in Acts /\ p \in wl.procs
  /\ proc[p].pc = "idle"
  /\ active
  /\ Available(o)
  /\ proc' = [proc EXCEPT ![p] = [Idle EXCEPT !.pc = "wait", !.act = "undo",
                !.file = op[o].file, !.op = o, !.exp = rec[o].after]]
  /\ UNCHANGED <<wl, db, fs, clock, lock, gc, active, tries>>

\* Reservation::acquire
AcquireLock(p) ==
  /\ proc[p].pc = "wait"
  /\ lock = NoOne
  /\ lock' = p
  /\ Goes(p, "locked")
  /\ UNCHANGED <<wl, db, fs, clock, gc, active, tries>>

\* The grant, policy, journal room or claim is refused inside the lock.
Refuse(p) ==
  /\ proc[p].pc = "locked"
  /\ Ends(p)
  /\ Release
  /\ UNCHANGED <<wl, db, fs, clock, gc, active, tries>>

\* The grant is validated again inside the lock, then begin_operation commits
\* the intent.
Begin(p) ==
  LET act == proc[p].act
      unused == {o \in Ops : op[o] = NoOp}
      o == Min(unused)
  IN /\ proc[p].pc = "locked"
     /\ act # "undo"
     /\ active
     /\ unused # {}
     /\ HasRoom
     /\ TokenRoom(act)
     /\ op' = [op EXCEPT ![o] = [act |-> act, file |-> proc[p].file,
                 target |-> proc[p].target, epoch |-> epoch]]
     /\ rec' = [Trimmed EXCEPT ![o] = [NoRec EXCEPT !.st = "pending"]]
     /\ tok' = IF NeedsToken(act)
               THEN [tok EXCEPT ![o] = [NoTok EXCEPT !.st = "pending"]] ELSE tok
     /\ proc' = [proc EXCEPT ![p].pc = "begun", ![p].op = o]
     /\ UNCHANGED <<wl, meta, fs, clock, lock, gc, active, tries>>

\* The grant is verified again inside the lock, then claim_undo.
Claim(p) ==
  LET o == proc[p].op
  IN /\ proc[p].pc = "locked"
     /\ proc[p].act = "undo"
     /\ active
     /\ Available(o)
     /\ rec[o].after = proc[p].exp
     /\ rec' = [rec EXCEPT ![o].undo = "pending"]
     /\ Goes(p, "begun")
     /\ UNCHANGED <<wl, op, tok, meta, fs, clock, lock, gc, active, tries>>

\* The quota has no room for the ledger entry: the operation fails unstarted.
\* Deleting stays possible.
LedgerFull(p) ==
  /\ proc[p].pc = "begun"
  /\ proc[p].act \notin {"undo", "delete"}
  /\ proc' = [proc EXCEPT ![p].pc = "run", ![p].wk = "fail"]
  /\ UNCHANGED <<wl, db, fs, clock, lock, gc, active, tries>>

\* worker::spawn_inner
Spawn(p) ==
  /\ proc[p].pc = "begun"
  /\ proc' = [proc EXCEPT ![p].pc = "run", ![p].wk = "start"]
  /\ tries' = IF proc[p].act = "undo"
              THEN [tries EXCEPT ![proc[p].op] = @ + 1] ELSE tries
  /\ UNCHANGED <<wl, db, fs, clock, lock, gc, active>>

Answered == {"ok", "fail", "lost"}

\* The worker ended: finish_operation, the response, the lock.
Finish(p) ==
  /\ proc[p].pc = "run"
  /\ proc[p].act # "undo"
  /\ proc[p].wk \in Answered
  /\ FinishOperation(proc[p].op, proc[p].wk, proc[p].exp)
  /\ Ends(p)
  /\ Release
  /\ UNCHANGED <<wl, op, meta, fs, clock, gc, active, tries>>

\* finish_undo: a success retires the trash token.
FinishUndo(p) ==
  LET o == proc[p].op
      st == Outcome(proc[p].wk)
  IN /\ proc[p].pc = "run"
     /\ proc[p].act = "undo"
     /\ proc[p].wk \in Answered
     /\ IF o \in Rows(rec) /\ rec[o].undo = "pending"
        THEN /\ rec' = [rec EXCEPT ![o].undo = st]
             /\ tok' = IF st = "success" /\ op[o].act = "trash"
                       THEN [tok EXCEPT ![o] = NoTok] ELSE tok
        ELSE UNCHANGED <<wl, rec, tok>>
     /\ Ends(p)
     /\ Release
     /\ UNCHANGED <<wl, op, meta, fs, clock, gc, active, tries>>

\* Mutant: the flock is still held once the supervisor is gone.
HandedOver(p) == UNCHANGED lock

\* The descriptor of the flock closes with the supervisor.
Dropped(p) == lock' = IF lock = p THEN NoOne ELSE lock

\* The client cancels or times out, or an unanswered error ends the supervisor:
\* it exits with the descriptor of the lock, its worker goes on.
SupervisorExits(p) ==
  /\ proc[p].pc \in {"wait", "locked", "begun", "run"}
  /\ Dropped(p)
  /\ IF proc[p].wk \in {"start", "staged", "done"} THEN Goes(p, "dead") ELSE Ends(p)
  /\ UNCHANGED <<wl, db, fs, clock, gc, active, tries>>

-----------------------------------------------------------------------------
(* Workers; each step is also taken by a worker whose supervisor is gone. *)

Working(p, wk) == proc[p].pc \in {"run", "dead"} /\ proc[p].wk = wk
Worker(p, wk) == proc' = [proc EXCEPT ![p].wk = wk]

\* transaction::execute writes the staging path first.
WorkerStages(p) ==
  /\ Working(p, "start")
  /\ proc[p].act = "write"
  /\ staged' = staged \cup {proc[p].op}
  /\ Worker(p, "staged")
  /\ UNCHANGED <<wl, db, place, ver, did, undone, clock, lock, gc, active, tries>>

\* Where the file must be for the operation, and where it leaves it.
Before(p) ==
  IF proc[p].act \in {"restore", "delete"} /\ proc[p].target # 0
  THEN proc[p].target ELSE Home
After(p) ==
  CASE proc[p].act = "trash" -> proc[p].op
    [] proc[p].act = "move" -> Moved
    [] proc[p].act = "delete" -> Gone
    [] OTHER -> Home

\* The one system call that makes the operation happen.
WorkerActs(p) ==
  LET f == proc[p].file
  IN /\ Working(p, IF proc[p].act = "write" THEN "staged" ELSE "start")
     /\ proc[p].act # "undo"
     /\ place[f] = Before(p)
     /\ place' = [place EXCEPT ![f] = After(p)]
     /\ ver' = [ver EXCEPT ![f] = @ + 1]
     /\ staged' = staged \ {proc[p].op}
     /\ did' = did \cup {proc[p].op}
     /\ Worker(p, "done")
     /\ UNCHANGED <<wl, db, undone, clock, lock, gc, active, tries>>

\* undo::execute: rename back, only over the recorded after-state.
WorkerUndoes(p) ==
  LET o == proc[p].op
      f == proc[p].file
  IN /\ Working(p, "start")
     /\ proc[p].act = "undo"
     /\ place[f] = IF op[o].act = "trash" THEN o ELSE Moved
     /\ ver[f] = proc[p].exp
     /\ place' = [place EXCEPT ![f] = Home]
     /\ ver' = [ver EXCEPT ![f] = @ + 1]
     /\ undone' = undone \cup {o}
     /\ Worker(p, "done")
     /\ UNCHANGED <<wl, db, staged, did, clock, lock, gc, active, tries>>

\* Success, with the after-state observed now.
WorkerResponds(p) ==
  LET f == proc[p].file
      there == place[f] = After(p) /\ proc[p].act \in Undoable
  IN /\ Working(p, "done")
     /\ proc' = [proc EXCEPT ![p].wk = "ok",
                   ![p].exp = IF there THEN ver[f] ELSE NoOne]
     /\ UNCHANGED <<wl, db, fs, clock, lock, gc, active, tries>>

\* A refusal, a failed check or a cancellation: staging is dropped.
WorkerFails(p) ==
  /\ Working(p, "start") \/ Working(p, "staged")
  /\ staged' = staged \ {proc[p].op}
  /\ Worker(p, "fail")
  /\ UNCHANGED <<wl, db, place, ver, did, undone, clock, lock, gc, active, tries>>

\* Killed, or its answer was lost: what it left in the home stays.
WorkerDies(p) ==
  /\ proc[p].pc = "run"
  /\ proc[p].wk \in {"start", "staged", "done"}
  /\ Worker(p, "lost")
  /\ UNCHANGED <<wl, db, fs, clock, lock, gc, active, tries>>

\* cancellation::watch_parent ends a worker one second after its supervisor.
OrphanEnds(p) ==
  /\ proc[p].pc = "dead"
  /\ Ends(p)
  /\ UNCHANGED <<wl, db, fs, clock, lock, gc, active, tries>>

-----------------------------------------------------------------------------
(* The root sweep: lifecycle::cleanup, staging::cleanup, gc_operations. *)

\* The rows each query lists, in key order.
DueTrash == {o \in Tokens("trash") : tok[o].st = "success" /\ ~tok[o].review /\ o \in due}
DueStaging == {o \in Tokens("write") : ~tok[o].review /\ o \in due}

GcLists(phase) ==
  gc' = [GcIdle EXCEPT !.pc = phase, !.phase = phase,
           !.todo = IF phase = "trash" THEN DueTrash ELSE DueStaging]

GcStarts ==
  /\ "gc" \in Acts
  /\ gc.pc = "idle"
  /\ GcLists("trash")
  /\ UNCHANGED <<wl, db, fs, clock, proc, lock, active, tries>>

\* eligible, or stage_target: read from the token's own copy of the record.
\* A token never carries an undo status: claim_undo writes the record only.
Eligible(o, t) ==
  /\ o \in due
  /\ IF op[o].act = "trash" THEN t.st = "success" /\ t.after # NoOne
                           ELSE t.st # "success"

\* The next listed token is read; one retired meanwhile aborts the run.
GcTakes ==
  /\ gc.pc \in {"trash", "staging"}
  /\ gc.todo # {}
  /\ LET o == Min(gc.todo)
         rest == gc.todo \ {o}
     IN gc' = IF tok[o].st = "none" THEN GcIdle
              ELSE IF ~active \/ (op[o].act = "trash" /\ ~Eligible(o, tok[o]))
              THEN [gc EXCEPT !.todo = rest]
              ELSE [gc EXCEPT !.pc = "wait", !.todo = rest, !.op = o, !.copy = tok[o]]
  /\ UNCHANGED <<wl, db, fs, clock, proc, lock, active, tries>>

GcLocks ==
  /\ gc.pc = "wait"
  /\ lock = NoOne
  /\ lock' = Gc
  /\ gc' = [gc EXCEPT !.pc = "locked"]
  /\ UNCHANGED <<wl, db, fs, clock, proc, active, tries>>

InSlot(o) == {f \in Files : place[f] = o}

\* The expiry worker reads the token again and removes the unchanged artifact;
\* one that is already gone counts as cleaned.
GcSweeps ==
  LET o == gc.op
  IN /\ gc.pc = "locked"
     /\ active
     /\ tok[o].st # "none"
     /\ Eligible(o, tok[o])
     /\ \A f \in InSlot(o) : ver[f] = tok[o].after
     /\ place' = [f \in Files |-> IF f \in InSlot(o) THEN Gone ELSE place[f]]
     /\ staged' = staged \ {o}
     /\ gc' = [gc EXCEPT !.pc = "swept"]
     /\ UNCHANGED <<wl, db, ver, did, undone, clock, proc, lock, active, tries>>

\* It refuses, finds a changed artifact, or runs past its deadline.
GcSweepFails ==
  /\ gc.pc = "locked"
  /\ gc' = [gc EXCEPT !.pc = "failed"]
  /\ UNCHANGED <<wl, db, fs, clock, proc, lock, active, tries>>

\* Mutant: a failed sweep leaves the token as it is.
ReviewedNever(o, copy) == tok[o]

\* The copy read before the lock goes back, marked needsReview.
Reviewed(o, copy) ==
  IF tok[o].st = "none" THEN NoTok ELSE [copy EXCEPT !.review = TRUE]

GcSettles ==
  /\ gc.pc \in {"swept", "failed"}
  /\ tok' = [tok EXCEPT ![gc.op] =
              IF gc.pc = "swept" THEN NoTok ELSE Reviewed(gc.op, gc.copy)]
  /\ gc' = [gc EXCEPT !.pc = gc.phase, !.op = 0, !.copy = NoTok]
  /\ Release
  /\ UNCHANGED <<wl, op, rec, meta, fs, clock, proc, active, tries>>

\* After the trash come the staging tokens, then gc_operations.
GcMovesOn ==
  /\ gc.pc \in {"trash", "staging"}
  /\ gc.todo = {}
  /\ IF gc.pc = "trash" THEN GcLists("staging") /\ UNCHANGED rec
     ELSE gc' = GcIdle /\ rec' = Expired
  /\ UNCHANGED <<wl, op, tok, meta, fs, clock, proc, lock, active, tries>>

\* The sweep ends at any point; its expiry worker dies with it.
GcDies ==
  /\ gc.pc \notin {"idle"}
  /\ gc' = GcIdle
  /\ lock' = IF lock = Gc THEN NoOne ELSE lock
  /\ UNCHANGED <<wl, db, fs, clock, proc, active, tries>>

-----------------------------------------------------------------------------
(* The surroundings: time, other writers, administration. *)

Begun(o) == op[o] # NoOp
InProgress(o) == \E p \in Procs : proc[p].op = o /\ proc[p].act # "undo"

Lapses(o) ==
  /\ "lapse" \in Acts
  /\ Begun(o) /\ ~InProgress(o) /\ o \notin lapsed
  /\ lapsed' = lapsed \cup {o}
  /\ UNCHANGED <<wl, db, fs, aged, due, proc, lock, gc, active, tries>>

\* undo_max_hours never exceeds retention_hours.
Ages(o) ==
  /\ "age" \in Acts
  /\ o \in lapsed \ aged
  /\ aged' = aged \cup {o}
  /\ UNCHANGED <<wl, db, fs, lapsed, due, proc, lock, gc, active, tries>>

\* An hour at least: no worker runs that long.
FallsDue(o) ==
  /\ "due" \in Acts
  /\ Begun(o) /\ ~InProgress(o) /\ o \notin due
  /\ NeedsToken(op[o].act)
  /\ due' = due \cup {o}
  /\ UNCHANGED <<wl, db, fs, lapsed, aged, proc, lock, gc, active, tries>>

\* SSH and other programs write to the home as well.
ExternalEdit(f) ==
  /\ ver[f] < MaxEdits
  /\ place[f] # Gone
  /\ ver' = [ver EXCEPT ![f] = @ + 1]
  /\ UNCHANGED <<wl, db, place, staged, did, undone, clock, proc, lock, gc, active, tries>>

SetActive ==
  /\ "suspend" \in Acts
  /\ active' = ~active
  /\ UNCHANGED <<wl, db, fs, clock, proc, lock, gc, tries>>

\* Bound of the model: one backup at a time, restored once, so that its epoch is
\* the current one.
TakeBackup ==
  /\ "backup" \in Acts
  /\ backup = {}
  /\ backup' = {[rec |-> rec, tok |-> tok]}
  /\ UNCHANGED <<wl, op, rec, tok, epoch, cuts, forgotten, fs, clock, proc, lock, gc, active, tries>>

\* Mutant: the restore keeps the undo epoch.
RestoredEpochKept == epoch

\* invalidate_restored_sessions gives the store a new undo epoch.
RestoredEpoch == epoch + 1

\* wizard restore, with the service and its helpers stopped: the file of the
\* database is replaced, then its sessions and undos are fenced off.  A restore
\* cut short between the two leaves the backup's rows under their old epoch.
Restore(b, fenced) ==
  /\ IF fenced THEN epoch < MaxEpoch ELSE cuts < MaxCuts
  /\ \A p \in Procs : proc[p].pc = "idle"
  /\ gc.pc = "idle"
  /\ rec' = b.rec
  /\ tok' = b.tok
  /\ epoch' = IF fenced THEN RestoredEpoch ELSE epoch
  /\ cuts' = IF fenced THEN cuts ELSE cuts + 1
  /\ forgotten' = {o \in Ops : Begun(o)}
  /\ backup' = {}
  /\ UNCHANGED <<wl, op, fs, clock, proc, lock, gc, active, tries>>

-----------------------------------------------------------------------------

Supervisor(p) ==
  \/ Refuse(p) \/ Begin(p) \/ Claim(p) \/ LedgerFull(p) \/ Spawn(p)
  \/ Finish(p) \/ FinishUndo(p)
Work(p) ==
  \/ WorkerStages(p) \/ WorkerActs(p) \/ WorkerUndoes(p) \/ WorkerResponds(p)
  \/ WorkerFails(p)
Sweep == GcStarts \/ GcTakes \/ GcSweeps \/ GcSweepFails \/ GcSettles \/ GcMovesOn

Next ==
  \/ \E p \in Procs :
       \/ \E act \in OpActs, f \in Files : Request(p, act, f)
       \/ \E o \in Ops : RequestUndo(p, o)
       \/ AcquireLock(p) \/ Supervisor(p) \/ SupervisorExits(p)
       \/ Work(p) \/ WorkerDies(p) \/ OrphanEnds(p)
  \/ Sweep \/ GcLocks \/ GcDies
  \/ \E o \in Ops : Lapses(o) \/ Ages(o) \/ FallsDue(o)
  \/ \E f \in Files : ExternalEdit(f)
  \/ SetActive \/ TakeBackup
  \/ \E b \in backup, fenced \in BOOLEAN : Restore(b, fenced)

Spec == Init /\ [][Next]_vars

\* Helpers and workers run or are ended by their deadlines, blocked flock calls
\* are granted in turn, and the timer starts the sweep again and again; it is
\* killed while it handles a token a finite number of times only.
CutShort == gc.pc \in {"wait", "locked", "swept", "failed"} /\ gc' = GcIdle
Fairness ==
  /\ \A p \in Procs : /\ WF_vars(Supervisor(p))
                      /\ WF_vars(Work(p) \/ WorkerDies(p))
                      /\ WF_vars(OrphanEnds(p))
                      /\ SF_vars(AcquireLock(p))
  /\ WF_vars(Sweep)
  /\ SF_vars(GcTakes) /\ SF_vars(GcMovesOn) /\ SF_vars(GcLocks)
  /\ <>[][~CutShort]_vars

FairSpec == Spec /\ Fairness

-----------------------------------------------------------------------------
(* Properties. *)

\* Every variable has its type.
TypeOK ==
  /\ wl \in Workloads
  /\ op \in [Ops -> OpRec]
  /\ rec \in [Ops -> RecRec]
  /\ tok \in [Ops -> TokRec]
  /\ epoch \in Nat
  /\ place \in [Files -> Places]
  /\ ver \in [Files -> Nat]
  /\ staged \in SUBSET Ops
  /\ proc \in [Procs -> ProcRec]
  /\ lock \in Procs \cup {Gc, NoOne}
  /\ gc \in GcRec
  /\ active \in BOOLEAN
  /\ lapsed \in SUBSET Ops /\ aged \in SUBSET Ops /\ due \in SUBSET Ops
  /\ \A b \in backup : b \in [rec : [Ops -> RecRec], tok : [Ops -> TokRec]]
  /\ did \in SUBSET Ops /\ undone \in SUBSET Ops
  /\ tries \in [Ops -> Nat]
  /\ cuts \in Nat /\ forgotten \in SUBSET Ops

\* The journal tells the truth: a success happened in the home and a failure
\* did not, for operations (finish_operation) and for undos (finish_undo),
\* whichever process ended early and whatever an orphaned worker did later.  A
\* failed undo says so of the only attempt: once a metadata restore was cut short
\* a second attempt may fail because the first one succeeded.
TruthfulJournal ==
  \A o \in Rows(rec) :
    /\ rec[o].st = "success" => o \in did
    /\ rec[o].st = "failed" => o \notin did
    /\ rec[o].undo = "success" => o \in undone
    /\ rec[o].undo = "failed" /\ tries[o] = 1 => o \notin undone

\* claim_undo is single use: no operation ever gets a second undo worker, not
\* after a lost or failed attempt and not after the restore of a backup that
\* was taken before the claim.  Only a restore cut short before its fence
\* (invalidate_restored_sessions) brings an undo back, once each.
UndoStartedOnce == \A o \in Ops : tries[o] <= 1 + cuts

\* A token that the sweep handles at its next turn.
Sweepable(o) == o \in DueTrash \cup DueStaging /\ Eligible(o, tok[o])

\* Whatever an operation left in the trash or in a staging path has a token,
\* even when the journal row is gone, and once it is due the sweep can act on
\* that token, unless it was put aside for review or is one of the trash tokens
\* nobody reads: of an operation without a known outcome (lifecycle.rs:167).
\* Metadata restores forget tokens of the operations begun before them.
ArtifactsCovered ==
  \A o \in Ops \ forgotten :
    InSlot(o) # {} \/ o \in staged =>
      /\ tok[o].st # "none"
      /\ \/ o \in due => Sweepable(o)
         \/ tok[o].review
         \/ op[o].act = "trash" /\ tok[o].st \in {"pending", "unknown"}

\* Making room in the journal (begin_operation) costs no record that is still
\* pending, of unknown outcome, undoable, or being undone.
RunningUndo(o) == \E p \in Procs : proc[p].act = "undo" /\ proc[p].op = o /\ proc[p].pc = "run"
KeepsLiveRecords ==
  [][epoch' = epoch /\ cuts' = cuts =>
       \A o \in Rows(rec) \ aged :
         rec'[o].st = "gone" =>
           rec[o].st \in {"success", "failed"} /\ ~Available(o) /\ ~RunningUndo(o)]_vars

\* Nobody waits on the home lock for ever.
LockServed == \A p \in Procs : proc[p].pc = "wait" ~> proc[p].pc # "wait"

\* A token that may be expired is eventually retired or put aside for review,
\* as long as the account stays active.
DueSettles == \A o \in Ops : Sweepable(o) ~> (~Sweepable(o) \/ ~active)

\* "The lock stays held until commit or rollback" (helper/quota.rs:1): a worker
\* publishes its change of the home only under its supervisor's lock.
CommitsUnderLock ==
  [][\A p \in Procs : WorkerActs(p) \/ WorkerUndoes(p) => lock = p]_vars

\* The sweep spares trash whose undo has no known outcome (lifecycle.rs:147).
UnsettledUndoKeepsTrash ==
  [][\A o \in Ops :
       rec[o].undo \in {"pending", "unknown"} /\ InSlot(o) # {} /\ gc.op = o
         => ~GcSweeps]_vars

=============================================================================
