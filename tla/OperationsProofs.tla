-------------------------- MODULE OperationsProofs --------------------------
(***************************************************************************)
(* Theorems about Operations, for every number of operations, files and    *)
(* processes and every workload: the journal tells the truth, no undo is   *)
(* started twice, whatever an operation leaves behind keeps its token, and *)
(* room in the journal is never made at the cost of a live record.         *)
(***************************************************************************)
EXTENDS Operations, WellFoundedInduction, TLAPS

(* The process that carries out operation o, and one that undoes it.        *)
Owner(p, o) == proc[p].op = o /\ proc[p].act # "undo"
Undoing(p, o) ==
  proc[p].op = o /\ proc[p].act = "undo" /\ proc[p].pc \in {"begun", "run", "dead"}

(* A process knows what the record of its operation says, and a request for *)
(* something in the trash names a trash operation that happened.            *)
ProcFacts(P) ==
  /\ IF P.pc = "idle" THEN P = Idle ELSE P.file \in Files /\ P.act # "none"
  /\ P.pc \in {"wait", "locked", "begun"} => P.wk = "none"
  /\ P.pc \in {"wait", "locked"} /\ P.act # "undo" => P.op = 0
  /\ P.pc \in {"begun", "run", "dead"} => P.op \in Ops
  /\ P.op \in Ops =>
       /\ op[P.op] # NoOp
       /\ P.file = op[P.op].file
       /\ P.act # "undo" => P.act = op[P.op].act /\ P.target = op[P.op].target
  /\ P.target # 0 => P.target \in did /\ op[P.target].act = "trash"
ProcInv == \A p \in Procs : ProcFacts(proc[p])

(* The flock excludes.                                                      *)
LockInv ==
  /\ \A p \in Procs : proc[p].pc \in {"locked", "begun", "run"} => lock = p
  /\ gc.pc \in {"locked", "swept", "failed"} => lock = Gc

(* An operation has one process, whose worker knows whether it happened.    *)
OwnerInv ==
  /\ \A p, q \in Procs, o \in Ops : Owner(p, o) /\ Owner(q, o) => p = q
  /\ \A p \in Procs, o \in Ops : Owner(p, o) =>
       /\ proc[p].wk \in {"none", "start", "staged", "fail"} => o \notin did
       /\ proc[p].wk \in {"done", "ok"} => o \in did /\ o \notin staged

(* The same of an undo; one that was started is counted.  Without a restore  *)
(* cut short it is the first of its operation.                              *)
UndoInv ==
  /\ \A p, q \in Procs, o \in Ops : Undoing(p, o) /\ Undoing(q, o) => p = q
  /\ \A p \in Procs, o \in Ops : Undoing(p, o) =>
       /\ o \in did
       /\ IF proc[p].pc = "begun" THEN tries[o] <= cuts ELSE tries[o] > 0
       /\ proc[p].pc # "begun" /\ tries[o] = 1 /\ proc[p].wk \in {"none", "start", "staged", "fail"} =>
            o \notin undone
       /\ proc[p].wk \in {"done", "ok"} => o \in undone
  /\ \A o \in Ops : tries[o] <= 1 + cuts

(* What was claimed in this epoch stays claimed in the journal, unless a      *)
(* restore was cut short.                                                   *)
Claimed(o) == tries[o] > 0 \/ \E p \in Procs : Undoing(p, o)
ClaimInv ==
  \A o \in Ops :
    /\ op[o].epoch <= epoch
    /\ op[o] # NoOp => op[o].file \in Files
    /\ Claimed(o) => op[o] # NoOp
    /\ op[o].epoch = epoch /\ rec[o].undo = "none" =>
         tries[o] <= cuts /\ \A p \in Procs : ~Undoing(p, o)
    /\ o \in undone => o \in did /\ tries[o] > 0
    /\ o \in did => op[o] # NoOp

(* What a copy of the journal says is true and stays true.                  *)
JournalInv(r) ==
  \A o \in Ops :
    /\ op[o] = NoOp => r[o].st = "none"
    /\ r[o].st = "success" => o \in did
    /\ r[o].st = "failed" => o \notin did /\ \A p \in Procs : ~Owner(p, o)
    /\ r[o].undo = "success" => o \in undone
    /\ r[o].undo = "failed" =>
         /\ tries[o] > 0
         /\ tries[o] = 1 =>
              o \notin undone /\ \A p \in Procs : Undoing(p, o) => proc[p].pc = "begun"
Journals == {rec} \cup {b.rec : b \in backup}

(* A trash slot holds the one file its operation put there, once.           *)
SlotInv ==
  /\ \A f \in Files, o \in Ops : place[f] = o =>
       /\ op[o].act = "trash" /\ op[o].file = f
       /\ o \in did /\ o \notin undone
       /\ \A q \in did : op[q].act \in {"restore", "delete"} => op[q].target # o
  /\ \A o \in Ops : op[o].target # 0 =>
       op[o].target \in did /\ op[op[o].target].act = "trash"
  /\ \A o \in staged : op[o].act = "write"

(* Artifacts, and those about to be made, have their token.                 *)
TokenInv ==
  \A o \in Ops \ forgotten :
    /\ (\E f \in Files : place[f] = o) \/ o \in staged => tok[o].st # "none"
    /\ \A p \in Procs :
         Owner(p, o) /\ NeedsToken(proc[p].act) /\ proc[p].wk \in {"none", "start", "staged"}
           => tok[o].st # "none"

(* A token says what its operation came to, unless it was put aside: none of  *)
(* those that settle without one is left, and trash that the worker did not *)
(* find where it had put it is not there any more.                          *)
Empty(o) == \A f \in Files : place[f] # o
FairToken(o, t) ==
  ~t.review =>
    /\ op[o].act = "trash" => t.st # "failed" /\ (t.st = "success" /\ t.after = NoOne => Empty(o))
    /\ op[o].act = "write" => t.st # "success"
MarkInv ==
  \A o \in Ops \ forgotten :
    /\ FairToken(o, tok[o])
    /\ \A p \in Procs : Owner(p, o) /\ proc[p].act = "trash" =>
         /\ proc[p].wk \in {"none", "start", "staged"} => tok[o].st \in {"none", "pending"}
         /\ proc[p].wk = "ok" /\ proc[p].exp = NoOne => Empty(o)

(* What is due has no process any more; the sweep works on what is due.     *)
SweepInv ==
  /\ \A o \in due : op[o] # NoOp /\ \A p \in Procs : ~Owner(p, o)
  /\ gc.todo \subseteq due
  /\ gc.pc \in {"wait", "locked", "swept", "failed"} => gc.op \in due /\ gc.copy.st # "none"
  /\ gc.pc = "swept" => gc.op \notin staged /\ \A f \in Files : place[f] # gc.op

IInv ==
  /\ TypeOK /\ ProcInv /\ LockInv /\ OwnerInv /\ UndoInv /\ ClaimInv
  /\ \A r \in Journals : JournalInv(r)
  /\ SlotInv /\ TokenInv /\ MarkInv /\ SweepInv

-----------------------------------------------------------------------------
(* Facts about the operators of the model.                                  *)

LessThan == {ss \in Nat \X Nat : ss[1] < ss[2]}

\* The order of the operation ids is well-founded.
LEMMA LessThanWellFounded == IsWellFoundedOn(LessThan, Nat)
BY NatLessThanWellFounded, Zenon DEF OpToRel, LessThan

\* Min of a non-empty set of operations is one of them.
LEMMA MinOfOps == ASSUME NEW S \in SUBSET Ops, S # {} PROVE Min(S) \in S
<1>1. S \subseteq Nat
  BY DEF Ops
<1>2. PICK x \in S : \A y \in S : ~(<<y, x>> \in LessThan)
  BY <1>1, LessThanWellFounded, WFMin
<1>3. \A y \in S : x <= y
  <2> SUFFICES ASSUME NEW y \in S PROVE x <= y
    OBVIOUS
  <2>1. <<y, x>> \in Nat \X Nat /\ <<y, x>>[1] = y /\ <<y, x>>[2] = x
    BY <1>1
  <2>2. ~(y < x)
    BY <1>2, <2>1, Zenon DEF LessThan
  <2> QED BY <1>1, <2>2
<1> QED BY <1>3 DEF Min

\* The records that a fresh process or sweep starts from.
LEMMA Blank ==
  /\ Idle \in ProcRec /\ GcIdle \in GcRec /\ NoTok \in TokRec /\ NoRec \in RecRec /\ NoOp \in OpRec
  /\ Idle.pc = "idle" /\ Idle.act = "none" /\ Idle.op = 0 /\ Idle.target = 0 /\ Idle.wk = "none"
  /\ GcIdle.pc = "idle" /\ GcIdle.todo = {}
  /\ NoTok.st = "none" /\ NoRec.st = "none" /\ NoRec.undo = "none"
BY DEF Idle, GcIdle, NoTok, NoRec, NoOp, ProcRec, GcRec, TokRec, RecRec, OpRec

\* Zero is not an operation.
LEMMA NoZero == 0 \notin Ops /\ Ops \subseteq Nat
BY DEF Ops

-----------------------------------------------------------------------------
(* Steps of one process that touch neither the home nor the database.       *)

\* A record that process p may go on with: it owns and undoes nothing new, and
\* its worker has not changed its mind about what happened.
Tame(p, P) ==
  /\ ProcFacts(P)
  /\ P.op # 0 /\ (P.act # "undo" \/ P.pc \in {"begun", "run", "dead"}) =>
       /\ P.op = proc[p].op /\ P.act = proc[p].act
       /\ P.act # "undo" \/ P.pc = proc[p].pc
            \/ (P.pc \in {"run", "dead"} /\ proc[p].pc \in {"run", "dead"})
       /\ \/ P.wk = proc[p].wk /\ P.exp = proc[p].exp
          \/ P.wk = "lost"
          \/ P.wk = "ok" /\ proc[p].wk = "done" /\ (P.act = "trash" /\ P.exp = NoOne => Empty(P.op))
          \/ P.wk \in {"start", "fail"} /\ proc[p].wk = "none"

\* Such a step keeps the invariant, whatever it does to the lock.
LEMMA ProcStep ==
  ASSUME IInv, NEW p \in Procs, NEW P \in ProcRec, proc' = [proc EXCEPT ![p] = P], Tame(p, P),
         UNCHANGED <<wl, db, fs, clock, gc, active, tries>>,
         lock' \in Procs \cup {Gc, NoOne}, LockInv'
  PROVE  IInv'
<1>1. proc' \in [Procs -> ProcRec] /\ proc'[p] = P /\ \A q \in Procs \ {p} : proc'[q] = proc[q]
  BY DEF IInv, TypeOK
<1>2. TypeOK'
  BY <1>1 DEF IInv, TypeOK, db, meta, fs, clock
<1>3. ProcInv'
  BY <1>1 DEF IInv, ProcInv, ProcFacts, Tame, db, meta, fs
<1>4. \A q \in Procs, o \in Ops : Owner(q, o)' => Owner(q, o)
  BY <1>1, NoZero DEF Owner, Tame
<1>5. \A q \in Procs, o \in Ops :
        Undoing(q, o)' => Undoing(q, o) /\ (proc[q].pc = "begun" <=> proc'[q].pc = "begun")
  BY <1>1, NoZero DEF Undoing, Tame
<1>6. OwnerInv'
  BY <1>1, <1>4, NoZero DEF IInv, OwnerInv, Owner, Tame, fs, meta
<1>7. UndoInv'
  <2>1. ASSUME NEW q \in Procs, NEW o \in Ops, Undoing(q, o)', proc'[q].pc # "begun"
        PROVE  \/ proc'[q].wk \in {proc[q].wk, "lost"}
               \/ proc'[q].wk = "ok" /\ proc[q].wk = "done"
               \/ proc'[q].wk \in {"start", "fail"} /\ proc[q].wk = "none"
    BY <1>1, <2>1, NoZero DEF Undoing, Tame
  <2>2. ASSUME NEW q \in Procs, NEW o \in Ops, Undoing(q, o)', proc'[q].pc = "begun"
        PROVE  proc'[q].wk = "none"
    BY <1>1, <2>2, <1>3 DEF ProcInv, ProcFacts
  <2> QED BY <1>1, <1>5, <2>1, <2>2 DEF IInv, UndoInv, fs, db, meta
<1>8. ClaimInv'
  BY <1>5 DEF IInv, ClaimInv, Claimed, fs, db, meta
<1>9. \A r \in Journals' : JournalInv(r)'
  BY <1>4, <1>5 DEF IInv, Journals, JournalInv, fs, db, meta
<1>10. SlotInv'
  BY DEF IInv, SlotInv, fs, db, meta
<1>11. TokenInv'
  BY <1>1, <1>4, NoZero DEF IInv, TokenInv, Owner, Tame, fs, db, meta
<1>12. SweepInv'
  BY <1>4 DEF IInv, SweepInv, TypeOK, fs, db, meta, clock
<1>13. MarkInv'
  BY <1>1, <1>4, NoZero DEF IInv, MarkInv, FairToken, Empty, Owner, Tame, fs, db, meta
<1> QED BY <1>2, <1>3, <1>6, <1>7, <1>8, <1>9, <1>10, <1>11, <1>12, <1>13 DEF IInv

\* A process ends.
LEMMA IdleIsTame == ASSUME NEW p \in Procs PROVE Tame(p, Idle)
BY Blank, NoZero DEF Tame, ProcFacts

\* A request in the trash names the operation whose slot holds its file.
LEMMA RequestKeeps ==
  ASSUME IInv, NEW p \in Procs, NEW act \in OpActs, NEW f \in Files, Request(p, act, f)
  PROVE  IInv'
<1> DEFINE P == [Idle EXCEPT !.pc = "wait", !.act = act, !.file = f,
                   !.target = IF place[f] \in Ops THEN place[f] ELSE 0]
<1>1. P \in ProcRec /\ P.pc = "wait" /\ P.wk = "none" /\ P.op = 0 /\ P.act = act /\ P.file = f
      /\ act # "none" /\ P.target = IF place[f] \in Ops THEN place[f] ELSE 0
  BY DEF Idle, ProcRec, OpActs, Undoable
<1>2. P.target # 0 => P.target \in did /\ op[P.target].act = "trash"
  BY <1>1 DEF IInv, SlotInv
<1>3. Tame(p, P)
  BY <1>1, <1>2, NoZero DEF Tame, ProcFacts
<1>4. proc' = [proc EXCEPT ![p] = P] /\ UNCHANGED <<wl, db, fs, clock, lock, gc, active, tries>>
  BY DEF Request
<1>5. LockInv' /\ lock' \in Procs \cup {Gc, NoOne}
  BY <1>1, <1>4 DEF IInv, LockInv, TypeOK
<1> HIDE DEF P
<1> QED BY <1>1, <1>3, <1>4, <1>5, ProcStep

\* A candidate for undo was begun, and its file is known.
LEMMA RequestUndoKeeps ==
  ASSUME IInv, NEW p \in Procs, NEW o \in Ops, RequestUndo(p, o)
  PROVE  IInv'
<1> DEFINE P == [Idle EXCEPT !.pc = "wait", !.act = "undo",
                   !.file = op[o].file, !.op = o, !.exp = rec[o].after]
<1>1. op[o] \in OpRec /\ rec[o] \in RecRec
  BY DEF IInv, TypeOK
<1>2. P \in ProcRec /\ P.pc = "wait" /\ P.wk = "none" /\ P.op = o /\ P.act = "undo"
      /\ P.target = 0 /\ P.file = op[o].file
  BY <1>1 DEF Idle, ProcRec, OpRec, RecRec
<1>3. op[o] # NoOp
  BY DEF RequestUndo, Available, NoOp, Undoable
<1>4. Tame(p, P)
  BY <1>2, <1>3, NoZero DEF Tame, ProcFacts, IInv, ClaimInv
<1>5. proc' = [proc EXCEPT ![p] = P] /\ UNCHANGED <<wl, db, fs, clock, lock, gc, active, tries>>
  BY DEF RequestUndo
<1>6. LockInv' /\ lock' \in Procs \cup {Gc, NoOne}
  BY <1>2, <1>5 DEF IInv, LockInv, TypeOK
<1> HIDE DEF P
<1> QED BY <1>2, <1>4, <1>5, <1>6, ProcStep

\* Only a free lock is taken.
LEMMA AcquireLockKeeps == ASSUME IInv, NEW p \in Procs, AcquireLock(p) PROVE IInv'
<1> DEFINE P == [proc[p] EXCEPT !.pc = "locked"]
<1>1. proc[p] \in ProcRec
  BY DEF IInv, TypeOK
<1>2. /\ P \in ProcRec /\ P.pc = "locked" /\ P.wk = proc[p].wk /\ P.op = proc[p].op
      /\ P.act = proc[p].act /\ P.target = proc[p].target /\ P.file = proc[p].file /\ P.exp = proc[p].exp
  BY <1>1 DEF ProcRec
<1>3. Tame(p, P)
  BY <1>2, NoZero DEF IInv, ProcInv, Tame, ProcFacts, AcquireLock
<1>4. proc' = [proc EXCEPT ![p] = P] /\ UNCHANGED <<wl, db, fs, clock, gc, active, tries>>
  BY DEF AcquireLock, Goes
<1>5. LockInv' /\ lock' \in Procs \cup {Gc, NoOne}
  BY <1>2, <1>4, OperationsConstants DEF IInv, LockInv, TypeOK, AcquireLock
<1> HIDE DEF P
<1> QED BY <1>2, <1>3, <1>4, <1>5, ProcStep

\* A refusal inside the lock gives the lock back and leaves nothing.
LEMMA RefuseKeeps == ASSUME IInv, NEW p \in Procs, Refuse(p) PROVE IInv'
<1>1. proc' = [proc EXCEPT ![p] = Idle] /\ UNCHANGED <<wl, db, fs, clock, gc, active, tries>>
  BY DEF Refuse, Ends
<1>2. LockInv' /\ lock' \in Procs \cup {Gc, NoOne}
  BY <1>1, Blank, OperationsConstants DEF IInv, LockInv, TypeOK, Refuse, Release
<1> QED BY <1>1, <1>2, Blank, IdleIsTame, ProcStep

\* An operation refused for its ledger entry never happened.
LEMMA LedgerFullKeeps == ASSUME IInv, NEW p \in Procs, LedgerFull(p) PROVE IInv'
<1> DEFINE P == [proc[p] EXCEPT !.pc = "run", !.wk = "fail"]
<1>1. proc[p] \in ProcRec
  BY DEF IInv, TypeOK
<1>2. /\ P \in ProcRec /\ P.pc = "run" /\ P.wk = "fail" /\ P.op = proc[p].op
      /\ P.act = proc[p].act /\ P.target = proc[p].target /\ P.file = proc[p].file
  BY <1>1 DEF ProcRec
<1>3. Tame(p, P)
  BY <1>2, NoZero DEF IInv, ProcInv, Tame, ProcFacts, LedgerFull
<1>4. proc' = [proc EXCEPT ![p] = P] /\ UNCHANGED <<wl, db, fs, clock, lock, gc, active, tries>>
  BY <1>1 DEF LedgerFull, ProcRec
<1>5. LockInv' /\ lock' \in Procs \cup {Gc, NoOne}
  BY <1>2, <1>4 DEF IInv, LockInv, TypeOK, LedgerFull
<1> HIDE DEF P
<1> QED BY <1>2, <1>3, <1>4, <1>5, ProcStep

\* A supervisor that exits frees the lock; its worker still knows what it did.
LEMMA SupervisorExitsKeeps == ASSUME IInv, NEW p \in Procs, SupervisorExits(p) PROVE IInv'
<1>1. UNCHANGED <<wl, db, fs, clock, gc, active, tries>>
  BY DEF SupervisorExits
<1>2. lock' \in Procs \cup {Gc, NoOne}
  BY DEF IInv, TypeOK, SupervisorExits, Dropped
<1>3. CASE proc[p].wk \in {"start", "staged", "done"}
  <2> DEFINE P == [proc[p] EXCEPT !.pc = "dead"]
  <2>1. proc[p] \in ProcRec
    BY DEF IInv, TypeOK
  <2>2. /\ P \in ProcRec /\ P.pc = "dead" /\ P.wk = proc[p].wk /\ P.op = proc[p].op
        /\ P.act = proc[p].act /\ P.target = proc[p].target /\ P.file = proc[p].file /\ P.exp = proc[p].exp
    BY <2>1 DEF ProcRec
  <2>3. Tame(p, P)
    BY <1>3, <2>2, NoZero DEF IInv, ProcInv, Tame, ProcFacts, SupervisorExits
  <2>4. proc' = [proc EXCEPT ![p] = P]
    BY <1>3 DEF SupervisorExits, Goes
  <2>5. LockInv'
    BY <1>1, <2>2, <2>4, OperationsConstants DEF IInv, LockInv, TypeOK, SupervisorExits, Dropped
  <2> HIDE DEF P
  <2> QED BY <1>1, <1>2, <2>2, <2>3, <2>4, <2>5, ProcStep
<1>4. CASE proc[p].wk \notin {"start", "staged", "done"}
  <2>1. proc' = [proc EXCEPT ![p] = Idle]
    BY <1>4 DEF SupervisorExits, Ends
  <2>2. LockInv'
    BY <1>1, <2>1, Blank, OperationsConstants DEF IInv, LockInv, TypeOK, SupervisorExits, Dropped
  <2> QED BY <1>1, <1>2, <2>1, <2>2, Blank, IdleIsTame, ProcStep
<1> QED BY <1>3, <1>4

\* A worker answers success only once the change was made.
LEMMA WorkerRespondsKeeps == ASSUME IInv, NEW p \in Procs, WorkerResponds(p) PROVE IInv'
<1> DEFINE seen == IF place[proc[p].file] = After(p) /\ proc[p].act \in Undoable
                   THEN ver[proc[p].file] ELSE NoOne
           P == [proc[p] EXCEPT !.wk = "ok", !.exp = seen]
<1>1. proc[p] \in ProcRec
  BY DEF IInv, TypeOK
<1>2. seen \in Nat \cup {NoOne}
  <2>1. proc[p].file \in Files
    BY DEF IInv, ProcInv, ProcFacts, WorkerResponds, Working
  <2> QED BY <2>1 DEF IInv, TypeOK
<1>2a. proc[p].act = "trash" /\ seen = NoOne => Empty(proc[p].op)
  <2>1. proc[p].file \in Files /\ proc[p].op \in Ops
        /\ (proc[p].act # "undo" => op[proc[p].op].file = proc[p].file)
    BY DEF IInv, ProcInv, ProcFacts, WorkerResponds, Working
  <2>2. ver[proc[p].file] \in Nat /\ NoOne \notin Nat
    BY <2>1, OperationsConstants DEF IInv, TypeOK
  <2>3. proc[p].act = "trash" => After(p) = proc[p].op /\ proc[p].act \in Undoable
    BY DEF After, Undoable
  <2> QED BY <2>1, <2>2, <2>3 DEF Empty, IInv, SlotInv
<1> HIDE DEF seen
<1>3. /\ P \in ProcRec /\ P.pc = proc[p].pc /\ P.wk = "ok" /\ P.op = proc[p].op
      /\ P.act = proc[p].act /\ P.target = proc[p].target /\ P.file = proc[p].file /\ P.exp = seen
  BY <1>1, <1>2 DEF ProcRec
<1>4. Tame(p, P)
  BY <1>3, <1>2a, NoZero DEF IInv, ProcInv, Tame, ProcFacts, WorkerResponds, Working
<1>5. proc' = [proc EXCEPT ![p] = P] /\ UNCHANGED <<wl, db, fs, clock, lock, gc, active, tries>>
  BY <1>1 DEF WorkerResponds, ProcRec, seen
<1>6. LockInv' /\ lock' \in Procs \cup {Gc, NoOne}
  BY <1>3, <1>5 DEF IInv, LockInv, TypeOK
<1> HIDE DEF P
<1> QED BY <1>3, <1>4, <1>5, <1>6, ProcStep

\* A lost answer claims nothing.
LEMMA WorkerDiesKeeps == ASSUME IInv, NEW p \in Procs, WorkerDies(p) PROVE IInv'
<1> DEFINE P == [proc[p] EXCEPT !.wk = "lost"]
<1>1. proc[p] \in ProcRec
  BY DEF IInv, TypeOK
<1>2. /\ P \in ProcRec /\ P.pc = proc[p].pc /\ P.wk = "lost" /\ P.op = proc[p].op
      /\ P.act = proc[p].act /\ P.target = proc[p].target /\ P.file = proc[p].file
  BY <1>1 DEF ProcRec
<1>3. Tame(p, P)
  BY <1>2, NoZero DEF IInv, ProcInv, Tame, ProcFacts, WorkerDies
<1>4. proc' = [proc EXCEPT ![p] = P] /\ UNCHANGED <<wl, db, fs, clock, lock, gc, active, tries>>
  BY DEF WorkerDies, Worker
<1>5. LockInv' /\ lock' \in Procs \cup {Gc, NoOne}
  BY <1>2, <1>4 DEF IInv, LockInv, TypeOK
<1> HIDE DEF P
<1> QED BY <1>2, <1>3, <1>4, <1>5, ProcStep

\* An orphan ends without a word to the journal.
LEMMA OrphanEndsKeeps == ASSUME IInv, NEW p \in Procs, OrphanEnds(p) PROVE IInv'
<1>1. proc' = [proc EXCEPT ![p] = Idle] /\ UNCHANGED <<wl, db, fs, clock, lock, gc, active, tries>>
  BY DEF OrphanEnds, Ends
<1>2. LockInv' /\ lock' \in Procs \cup {Gc, NoOne}
  BY <1>1, Blank DEF IInv, LockInv, TypeOK
<1> QED BY <1>1, <1>2, Blank, IdleIsTame, ProcStep

-----------------------------------------------------------------------------
(* The intent: begin_operation.                                             *)

\* What making room does to a row: nothing, or it is dropped because its
\* retention is over, or because it is settled and past its undo.
LEMMA TrimmedRows ==
  ASSUME IInv
  PROVE  /\ Trimmed \in [Ops -> RecRec]
         /\ \A q \in Ops :
              \/ Trimmed[q] = rec[q]
              \/ /\ q \in Rows(rec)
                 /\ Trimmed[q].st = "gone" /\ Trimmed[q].undo = rec[q].undo
                 /\ \/ q \in aged
                    \/ /\ rec[q].st \in {"success", "failed"}
                       /\ op[q].act \notin Undoable \/ q \in lapsed
<1>1. rec \in [Ops -> RecRec]
  BY DEF IInv, TypeOK
<1>2. ASSUME NEW r \in [Ops -> RecRec], NEW S
      PROVE  /\ Drop(r, S) \in [Ops -> RecRec]
             /\ \A q \in Ops : IF q \in S THEN Drop(r, S)[q].st = "gone" /\ Drop(r, S)[q].undo = r[q].undo
                                          ELSE Drop(r, S)[q] = r[q]
  BY DEF Drop, RecRec
<1>3. /\ Expired \in [Ops -> RecRec]
      /\ \A q \in Ops : \/ Expired[q] = rec[q]
                        \/ q \in Rows(rec) /\ q \in aged /\ Expired[q].st = "gone" /\ Expired[q].undo = rec[q].undo
  BY <1>1, <1>2 DEF Expired
<1>4. CASE Full(Expired) /\ Victims(Expired) # {}
  <2> DEFINE v == Min(Victims(Expired))
  <2>1. v \in Ops /\ Evictable(Expired, v)
    <3>1. Victims(Expired) \in SUBSET Ops
      BY DEF Victims
    <3>2. v \in Victims(Expired)
      BY <1>4, <3>1, MinOfOps
    <3> QED BY <3>2 DEF Victims
  <2> HIDE DEF v
  <2>2. Expired[v] = rec[v] /\ v \in Rows(rec) /\ rec[v].st \in {"success", "failed"}
        /\ (op[v].act \notin Undoable \/ v \in lapsed)
    BY <1>3, <2>1 DEF Evictable, Rows
  <2>3. Trimmed = Drop(Expired, {v})
    BY <1>4 DEF Trimmed, v
  <2>4. /\ Trimmed \in [Ops -> RecRec]
        /\ Trimmed[v].st = "gone" /\ Trimmed[v].undo = rec[v].undo
        /\ \A q \in Ops \ {v} : Trimmed[q] = Expired[q]
    BY <1>2, <1>3, <2>1, <2>2, <2>3
  <2> QED BY <1>3, <2>2, <2>4
<1>5. CASE ~(Full(Expired) /\ Victims(Expired) # {})
  BY <1>3, <1>5 DEF Trimmed
<1> QED BY <1>4, <1>5

\* The intent takes a fresh id: nothing in the home, the journal or the processes
\* knows it yet, and its token is there before any worker.
LEMMA BeginKeeps == ASSUME IInv, NEW p \in Procs, Begin(p) PROVE IInv'
<1> DEFINE unused == {o \in Ops : op[o] = NoOp}
           o == Min(unused)
           P == [proc[p] EXCEPT !.pc = "begun", !.op = o]
           O == [act |-> proc[p].act, file |-> proc[p].file, target |-> proc[p].target, epoch |-> epoch]
           R == [NoRec EXCEPT !.st = "pending"]
           T == [NoTok EXCEPT !.st = "pending"]
<1>1. o \in Ops /\ op[o] = NoOp
  <2>1. unused \in SUBSET Ops /\ unused # {}
    BY DEF Begin
  <2>2. o \in unused
    BY <2>1, MinOfOps
  <2> QED BY <2>2
<1>2. /\ proc[p].pc = "locked" /\ proc[p].act # "undo"
      /\ op' = [op EXCEPT ![o] = O]
      /\ rec' = [Trimmed EXCEPT ![o] = R]
      /\ tok' = IF NeedsToken(proc[p].act) THEN [tok EXCEPT ![o] = T] ELSE tok
      /\ UNCHANGED <<wl, meta, fs, clock, lock, gc, active, tries>>
  BY DEF Begin
<1>3. proc' = [proc EXCEPT ![p].pc = "begun", ![p].op = o]
  BY DEF Begin
<1> HIDE DEF o
<1>4. proc[p] \in ProcRec /\ ProcFacts(proc[p]) /\ proc[p].act # "none" /\ proc[p].op = 0 /\ proc[p].wk = "none"
  BY <1>2 DEF IInv, TypeOK, ProcInv, ProcFacts
<1>5. /\ P \in ProcRec /\ P.pc = "begun" /\ P.wk = "none" /\ P.op = o
      /\ P.act = proc[p].act /\ P.target = proc[p].target /\ P.file = proc[p].file
  BY <1>1, <1>4 DEF ProcRec
<1>6. proc' = [proc EXCEPT ![p] = P]
  BY <1>3, <1>4 DEF IInv, TypeOK, ProcRec
<1>7. /\ O \in OpRec /\ O # NoOp /\ O.act = proc[p].act /\ O.file = proc[p].file
      /\ O.target = proc[p].target /\ O.epoch = epoch
  BY <1>2, <1>4 DEF OpRec, ProcRec, NoOp, IInv, TypeOK
<1>8. R \in RecRec /\ R.st = "pending" /\ R.undo = "none" /\ T \in TokRec /\ T.st = "pending" /\ NoTok.st = "none"
  BY DEF RecRec, TokRec, NoRec, NoTok, Statuses
<1> HIDE DEF P, O, R, T
<1>9. /\ op' \in [Ops -> OpRec] /\ op'[o] = O /\ \A q \in Ops \ {o} : op'[q] = op[q]
      /\ rec' \in [Ops -> RecRec] /\ rec'[o] = R
      /\ tok' \in [Ops -> TokRec] /\ (NeedsToken(proc[p].act) => tok'[o] = T)
      /\ \A q \in Ops \ {o} : tok'[q] = tok[q]
      /\ proc' \in [Procs -> ProcRec] /\ proc'[p] = P /\ \A q \in Procs \ {p} : proc'[q] = proc[q]
  BY <1>1, <1>2, <1>5, <1>6, <1>7, <1>8, TrimmedRows DEF IInv, TypeOK
<1>10. \A q \in Ops \ {o} :
         rec'[q] = rec[q] \/ (q \in Rows(rec) /\ rec'[q].st = "gone" /\ rec'[q].undo = rec[q].undo)
  BY <1>1, <1>2, TrimmedRows
<1>11. /\ o \notin did /\ o \notin undone /\ o \notin staged /\ o \notin due /\ tries[o] = 0
       /\ \A q \in Procs : proc[q].op # o /\ proc[q].target # o
       /\ \A f \in Files : place[f] # o
       /\ \A q \in Ops : op[q].target # o
  <2>1. NoOp.act = "none"
    BY DEF NoOp
  <2>2. o \notin did /\ o \notin undone /\ o \notin staged /\ o \notin due
    BY <1>1, <2>1 DEF IInv, ClaimInv, SlotInv, SweepInv
  <2>3. ~Claimed(o) /\ tries[o] \in Nat
    BY <1>1 DEF IInv, ClaimInv, TypeOK
  <2>4. \A q \in Procs : proc[q].op # o /\ proc[q].target # o
    BY <1>1, <2>2, NoZero DEF IInv, ProcInv, ProcFacts
  <2> QED BY <1>1, <2>2, <2>3, <2>4, NoZero DEF IInv, SlotInv, Claimed
<1>12. TypeOK'
  BY <1>2, <1>9 DEF IInv, TypeOK, fs, meta, clock
<1>13. ProcInv'
  <2>1. ASSUME NEW q \in Procs \ {p} PROVE ProcFacts(proc[q])'
    BY <1>2, <1>9, <1>11 DEF IInv, ProcInv, ProcFacts, fs, meta
  <2>2. ProcFacts(proc[p])'
    BY <1>1, <1>2, <1>4, <1>5, <1>7, <1>9, <1>11 DEF ProcFacts, fs, meta
  <2> QED BY <2>1, <2>2 DEF ProcInv
<1>14. LockInv'
  BY <1>2, <1>5, <1>9 DEF IInv, LockInv
<1>15. \A q \in Procs, i \in Ops : Owner(q, i)' => Owner(q, i) \/ (q = p /\ i = o)
  BY <1>5, <1>9 DEF Owner
<1>16. \A q \in Procs, i \in Ops : Undoing(q, i)' => Undoing(q, i)
  BY <1>2, <1>5, <1>9 DEF Undoing
<1>17. OwnerInv'
  BY <1>2, <1>5, <1>9, <1>11 DEF IInv, OwnerInv, Owner, fs, meta
<1>18. UndoInv'
  BY <1>2, <1>5, <1>9, <1>16 DEF IInv, UndoInv, Undoing, fs, meta
<1>19. ClaimInv'
  <2>1. \A i \in Ops : Claimed(i)' => Claimed(i) /\ i # o
    BY <1>2, <1>11, <1>16 DEF Claimed, Undoing
  <2>2. proc[p].file \in Files
    BY <1>2, <1>4 DEF ProcFacts
  <2>3. \A i \in Ops, q \in Procs : Undoing(q, i)' => Undoing(q, i) /\ i # o
    BY <1>11, <1>16 DEF Undoing
  <2> QED BY <1>2, <1>7, <1>8, <1>9, <1>10, <1>11, <2>1, <2>2, <2>3 DEF IInv, ClaimInv, TypeOK, fs, meta
<1>20. \A r \in Journals' : JournalInv(r)'
  <2>1. \A r \in Journals : JournalInv(r)'
    BY <1>1, <1>2, <1>7, <1>9, <1>11, <1>15, <1>16 DEF IInv, JournalInv, fs, meta
  <2>2. PICK old : old = rec
    OBVIOUS
  <2>3. JournalInv(old)'
    BY <2>1, <2>2 DEF Journals
  <2>4. JournalInv(rec)'
    BY <2>2, <2>3, <1>7, <1>8, <1>9, <1>10 DEF JournalInv, Rows
  <2> QED BY <1>2, <2>1, <2>4 DEF Journals, meta
<1>21. SlotInv'
  BY <1>2, <1>4, <1>7, <1>9, <1>11 DEF IInv, SlotInv, ProcFacts, fs, meta
<1>22. TokenInv'
  BY <1>2, <1>5, <1>8, <1>9, <1>11, <1>15 DEF IInv, TokenInv, Owner, fs, meta
<1>23. SweepInv'
  BY <1>2, <1>9, <1>11, <1>15 DEF IInv, SweepInv, fs, meta, clock, TypeOK
<1>24. MarkInv'
  <2>1. ASSUME NEW i \in Ops \ forgotten, i # o PROVE FairToken(i, tok[i])'
    BY <1>2, <1>9, <2>1 DEF IInv, MarkInv, FairToken, Empty, fs
  <2>2. ASSUME NEW i \in Ops, i = o PROVE FairToken(i, tok[i])'
    BY <1>2, <1>7, <1>8, <1>9, <2>2 DEF FairToken, NeedsToken
  <2>3. ASSUME NEW i \in Ops \ forgotten, NEW q \in Procs, Owner(q, i)', proc'[q].act = "trash"
        PROVE  /\ proc'[q].wk \in {"none", "start", "staged"} => tok'[i].st \in {"none", "pending"}
               /\ proc'[q].wk = "ok" /\ proc'[q].exp = NoOne => Empty(i)'
    <3>1. CASE i = o
      BY <1>5, <1>8, <1>9, <1>11, <2>3, <3>1 DEF Owner, NeedsToken
    <3>2. CASE i # o
      <4>1. Owner(q, i) /\ q # p
        BY <1>4, <1>5, <1>9, <2>3, <3>2, NoZero DEF Owner
      <4> QED BY <2>3, <1>2, <1>9, <3>2, <4>1 DEF IInv, MarkInv, Empty, fs
    <3> QED BY <3>1, <3>2
  <2> QED BY <1>2, <2>1, <2>2, <2>3 DEF MarkInv, meta
<1> QED BY <1>12, <1>13, <1>14, <1>17, <1>18, <1>19, <1>20, <1>21, <1>22, <1>23, <1>24 DEF IInv

-----------------------------------------------------------------------------
(* The claim of an undo, and the start of a worker.                         *)

\* A claim finds an operation that happened and was never claimed in this epoch.
LEMMA ClaimKeeps == ASSUME IInv, NEW p \in Procs, Claim(p) PROVE IInv'
<1> DEFINE o == proc[p].op
           P == [proc[p] EXCEPT !.pc = "begun"]
           R == [rec[o] EXCEPT !.undo = "pending"]
<1>1. /\ proc[p].pc = "locked" /\ proc[p].act = "undo"
      /\ o \in Ops /\ rec[o].st = "success" /\ rec[o].undo = "none" /\ op[o].epoch = epoch
      /\ rec' = [rec EXCEPT ![o].undo = "pending"]
      /\ proc' = [proc EXCEPT ![p].pc = "begun"]
      /\ UNCHANGED <<wl, op, tok, meta, fs, clock, lock, gc, active, tries>>
  BY DEF Claim, Available, Rows, Goes
<1>2. proc[p] \in ProcRec /\ ProcFacts(proc[p]) /\ rec[o] \in RecRec /\ tries[o] \in Nat
  BY <1>1 DEF IInv, TypeOK, ProcInv
<1>3. /\ P \in ProcRec /\ P.pc = "begun" /\ P.wk = "none" /\ P.op = o
      /\ P.act = "undo" /\ P.target = proc[p].target /\ P.file = proc[p].file
  BY <1>1, <1>2 DEF ProcRec, ProcFacts
<1>4. R \in RecRec /\ R.st = rec[o].st /\ R.undo = "pending"
  BY <1>2 DEF RecRec, Statuses
<1>5. rec' = [rec EXCEPT ![o] = R] /\ proc' = [proc EXCEPT ![p] = P]
  BY <1>1 DEF IInv, TypeOK
<1> HIDE DEF P, R
<1>6. /\ rec' \in [Ops -> RecRec] /\ rec'[o] = R /\ \A q \in Ops \ {o} : rec'[q] = rec[q]
      /\ proc' \in [Procs -> ProcRec] /\ proc'[p] = P /\ \A q \in Procs \ {p} : proc'[q] = proc[q]
  BY <1>1, <1>3, <1>4, <1>5 DEF IInv, TypeOK
<1>7. tries[o] <= cuts /\ o \in did /\ \A q \in Procs : ~Undoing(q, o)
  <2>1. o \in did
    BY <1>1 DEF IInv, Journals, JournalInv
  <2> QED BY <1>1, <2>1 DEF IInv, ClaimInv
<1>8. TypeOK'
  BY <1>1, <1>6 DEF IInv, TypeOK, fs, meta, clock
<1>9. ProcInv'
  BY <1>1, <1>2, <1>3, <1>6 DEF IInv, ProcInv, ProcFacts, fs, meta
<1>10. LockInv'
  BY <1>1, <1>3, <1>6 DEF IInv, LockInv
<1>11. \A q \in Procs, i \in Ops : Owner(q, i)' <=> Owner(q, i)
  BY <1>1, <1>3, <1>6 DEF Owner
<1>12. \A q \in Procs, i \in Ops : Undoing(q, i)' <=> Undoing(q, i) \/ (q = p /\ i = o)
  BY <1>1, <1>3, <1>6 DEF Undoing
<1>13. OwnerInv'
  BY <1>1, <1>3, <1>6, <1>11 DEF IInv, OwnerInv, Owner, fs, meta
<1>14. UndoInv'
  <2>1. ASSUME NEW q \in Procs, NEW i \in Ops, Undoing(q, i)'
        PROVE  (q = p /\ i = o) \/ (Undoing(q, i) /\ i # o /\ proc'[q] = proc[q])
    BY <1>1, <1>6, <1>7, <1>12, <2>1 DEF Undoing
  <2>2. \A q, z \in Procs, i \in Ops : Undoing(q, i)' /\ Undoing(z, i)' => q = z
    BY <2>1 DEF IInv, UndoInv
  <2>3. ASSUME NEW q \in Procs, NEW i \in Ops, Undoing(q, i)'
        PROVE  /\ i \in did
               /\ IF proc'[q].pc = "begun" THEN tries[i] <= cuts ELSE tries[i] > 0
               /\ proc'[q].pc # "begun" /\ tries[i] = 1
                    /\ proc'[q].wk \in {"none", "start", "staged", "fail"} => i \notin undone
               /\ proc'[q].wk \in {"done", "ok"} => i \in undone
    <3>1. CASE q = p /\ i = o
      BY <1>3, <1>6, <1>7, <3>1
    <3>2. CASE Undoing(q, i) /\ i # o /\ proc'[q] = proc[q]
      BY <3>2 DEF IInv, UndoInv
    <3> QED BY <2>1, <2>3, <3>1, <3>2
  <2> QED BY <1>1, <2>2, <2>3 DEF IInv, UndoInv, fs, meta
<1>15. ClaimInv'
  <2>1. \A i \in Ops : Claimed(i)' => Claimed(i) \/ i = o
    BY <1>1, <1>12 DEF Claimed
  <2>2. op[o] # NoOp
    BY <1>7, <1>1 DEF IInv, ClaimInv
  <2> QED BY <1>1, <1>4, <1>6, <1>12, <2>1, <2>2 DEF IInv, ClaimInv, fs, meta
<1>16. \A r \in Journals' : JournalInv(r)'
  <2>1. \A r \in Journals : JournalInv(r)'
    BY <1>1, <1>3, <1>6, <1>7, <1>11, <1>12 DEF IInv, JournalInv, fs, meta
  <2>2. PICK old : old = rec
    OBVIOUS
  <2>3. JournalInv(old)'
    BY <2>1, <2>2 DEF Journals
  <2>4. JournalInv(rec)'
    BY <2>2, <2>3, <1>4, <1>6 DEF JournalInv
  <2> QED BY <1>1, <2>1, <2>4 DEF Journals, meta
<1>17. SlotInv'
  BY <1>1 DEF IInv, SlotInv, fs, meta
<1>18. TokenInv'
  BY <1>1, <1>3, <1>6, <1>11 DEF IInv, TokenInv, fs, meta, Owner
<1>19. SweepInv'
  BY <1>1, <1>11 DEF IInv, SweepInv, fs, meta, clock, TypeOK
<1>20. MarkInv'
  BY <1>1, <1>3, <1>6, <1>11 DEF IInv, MarkInv, FairToken, Empty, fs, meta, Owner
<1> QED BY <1>8, <1>9, <1>10, <1>13, <1>14, <1>15, <1>16, <1>17, <1>18, <1>19, <1>20 DEF IInv

\* The one worker of a claim is the first of its operation.
LEMMA SpawnKeeps == ASSUME IInv, NEW p \in Procs, Spawn(p) PROVE IInv'
<1> DEFINE o == proc[p].op
           P == [proc[p] EXCEPT !.pc = "run", !.wk = "start"]
<1>1. /\ proc[p].pc = "begun"
      /\ tries' = IF proc[p].act = "undo" THEN [tries EXCEPT ![o] = @ + 1] ELSE tries
      /\ UNCHANGED <<wl, db, fs, clock, lock, gc, active>>
      /\ proc' = [proc EXCEPT ![p].pc = "run", ![p].wk = "start"]
  BY DEF Spawn
<1>2. proc[p] \in ProcRec /\ ProcFacts(proc[p]) /\ proc[p].wk = "none" /\ o \in Ops /\ tries[o] \in Nat
  BY <1>1 DEF IInv, TypeOK, ProcInv, ProcFacts
<1>3. /\ P \in ProcRec /\ P.pc = "run" /\ P.wk = "start" /\ P.op = o
      /\ P.act = proc[p].act /\ P.target = proc[p].target /\ P.file = proc[p].file
  BY <1>2 DEF ProcRec
<1>4. proc' = [proc EXCEPT ![p] = P]
  BY <1>1, <1>2 DEF IInv, TypeOK, ProcRec
<1>5. LockInv' /\ lock' \in Procs \cup {Gc, NoOne}
  BY <1>1, <1>3, <1>4 DEF IInv, LockInv, TypeOK
<1> HIDE DEF P
<1>6. CASE proc[p].act # "undo"
  <2>1. Tame(p, P)
    BY <1>1, <1>2, <1>3, <1>6 DEF Tame, ProcFacts
  <2> QED BY <1>1, <1>3, <1>4, <1>5, <1>6, <2>1, ProcStep
<1>7. CASE proc[p].act = "undo"
  <2>1. proc' \in [Procs -> ProcRec] /\ proc'[p] = P /\ \A q \in Procs \ {p} : proc'[q] = proc[q]
    BY <1>3, <1>4 DEF IInv, TypeOK
  <2>2. /\ tries' \in [Ops -> Nat] /\ tries'[o] = tries[o] + 1
        /\ \A q \in Ops \ {o} : tries'[q] = tries[q]
    BY <1>1, <1>2, <1>7 DEF IInv, TypeOK
  <2>3. \A q \in Procs, i \in Ops : Owner(q, i)' <=> Owner(q, i)
    BY <1>3, <2>1 DEF Owner
  <2>4. \A q \in Procs, i \in Ops : Undoing(q, i)' <=> Undoing(q, i)
    BY <1>1, <1>3, <2>1 DEF Undoing
  <2>5. Undoing(p, o) /\ tries[o] <= cuts /\ cuts \in Nat /\ (tries[o] = 0 => o \notin undone)
    BY <1>1, <1>2, <1>7 DEF IInv, UndoInv, Undoing, TypeOK, ClaimInv
  <2>6. TypeOK'
    BY <1>1, <1>5, <2>1, <2>2 DEF IInv, TypeOK, db, meta, fs, clock
  <2>7. ProcInv'
    BY <1>1, <1>2, <1>3, <2>1 DEF IInv, ProcInv, ProcFacts, db, meta, fs
  <2>8. OwnerInv'
    BY <1>1, <1>3, <1>7, <2>1, <2>3 DEF IInv, OwnerInv, Owner, fs, meta
  <2>9. UndoInv'
    BY <1>1, <1>2, <1>3, <2>1, <2>2, <2>4, <2>5 DEF IInv, UndoInv, Undoing, TypeOK, fs, db, meta
  <2>10. ClaimInv'
    <3>1. \A i \in Ops : Claimed(i)' => Claimed(i)
      BY <2>2, <2>4, <2>5 DEF Claimed
    <3> QED BY <1>1, <1>2, <2>2, <2>4, <2>5, <3>1 DEF IInv, ClaimInv, fs, db, meta
  <2>11. \A r \in Journals' : JournalInv(r)'
    BY <1>1, <1>2, <1>3, <2>1, <2>2, <2>3, <2>4, <2>5 DEF IInv, Undoing, Journals, JournalInv, db, meta, fs
  <2>12. SlotInv'
    BY <1>1 DEF IInv, SlotInv, fs, db, meta
  <2>13. TokenInv'
    BY <1>1, <1>3, <1>7, <2>1, <2>3 DEF IInv, TokenInv, Owner, fs, db, meta
  <2>14. SweepInv'
    BY <1>1, <2>3 DEF IInv, SweepInv, fs, clock, db, meta, TypeOK
  <2>15. MarkInv'
    BY <1>1, <1>3, <1>7, <2>1, <2>3 DEF IInv, MarkInv, FairToken, Empty, Owner, fs, db, meta
  <2> QED BY <1>5, <2>6, <2>7, <2>8, <2>9, <2>10, <2>11, <2>12, <2>13, <2>14, <2>15 DEF IInv
<1> QED BY <1>6, <1>7

-----------------------------------------------------------------------------
(* The outcome: finish_operation and finish_undo.                           *)

\* A supervisor that ends keeps the rest, if what it writes to the journal is
\* true and the tokens it leaves still cover what is there.
LEMMA EndStep ==
  ASSUME IInv, NEW p \in Procs, Ends(p), Release, proc[p].pc = "run",
         UNCHANGED <<wl, op, meta, fs, clock, gc, active, tries>>,
         rec' \in [Ops -> RecRec], tok' \in [Ops -> TokRec],
         \A o \in Ops : rec[o].undo # "none" => rec'[o].undo # "none",
         JournalInv(rec)', TokenInv', MarkInv'
  PROVE  IInv'
<1>1. /\ proc' \in [Procs -> ProcRec] /\ proc'[p] = Idle
      /\ \A q \in Procs \ {p} : proc'[q] = proc[q]
  BY Blank DEF IInv, TypeOK, Ends
<1>2. \A q \in Procs, o \in Ops : Owner(q, o)' => Owner(q, o) /\ q # p
  BY <1>1, Blank, NoZero DEF Owner
<1>3. \A q \in Procs, o \in Ops : Undoing(q, o)' => Undoing(q, o) /\ q # p /\ proc'[q] = proc[q]
  BY <1>1, Blank, NoZero DEF Undoing
<1>4. TypeOK'
  BY <1>1 DEF IInv, TypeOK, fs, meta, clock, Release
<1>5. ProcInv'
  BY <1>1, Blank, NoZero DEF IInv, ProcInv, ProcFacts, fs, meta
<1>6. LockInv'
  BY <1>1, Blank, OperationsConstants DEF IInv, LockInv, Release
<1>7. OwnerInv'
  BY <1>1, <1>2 DEF IInv, OwnerInv, fs, meta
<1>8. UndoInv'
  BY <1>1, <1>3 DEF IInv, UndoInv, fs, meta
<1>9. ClaimInv'
  <2>1. \A i \in Ops : Claimed(i)' => Claimed(i)
    BY <1>3 DEF Claimed
  <2> QED BY <1>3, <2>1 DEF IInv, ClaimInv, TypeOK, RecRec, Statuses, fs, meta
<1>10. \A r \in Journals' : JournalInv(r)'
  <2>1. \A r \in Journals : JournalInv(r)'
    BY <1>2, <1>3 DEF IInv, JournalInv, fs, meta
  <2> QED BY <2>1 DEF Journals, meta
<1>11. SlotInv'
  BY DEF IInv, SlotInv, fs, meta
<1>12. SweepInv'
  BY <1>2 DEF IInv, SweepInv, fs, meta, clock, TypeOK
<1> QED BY <1>4, <1>5, <1>6, <1>7, <1>8, <1>9, <1>10, <1>11, <1>12 DEF IInv

\* The token of a settled operation is dropped for one of three reasons.
LEMMA SettledTokenCases ==
  ASSUME NEW o, NEW r
  PROVE  \/ /\ SettledToken(o, r) = NoTok
            /\ \/ op[o].act = "trash" /\ r.st = "failed"
               \/ op[o].act = "write" /\ r.st = "success"
               \/ tok[o].st = "none"
         \/ SettledToken(o, r) = [tok[o] EXCEPT !.st = r.st, !.after = r.after]
BY Zenon DEF SettledToken

\* finish_operation: only the owner of the operation settles it, and the tokens it
\* retires cover nothing that is still there.
LEMMA FinishKeeps == ASSUME IInv, NEW p \in Procs, Finish(p) PROVE IInv'
<1> DEFINE o == proc[p].op
           wk == proc[p].wk
           R == [rec[o] EXCEPT !.st = Outcome(wk), !.after = proc[p].exp]
           retired == IF Outcome(wk) = "success" /\ op[o].act \in {"restore", "delete"}
                      THEN {op[o].target} ELSE {}
           T == SettledToken(o, R)
<1>1. /\ proc[p].pc = "run" /\ proc[p].act # "undo" /\ wk \in Answered
      /\ Ends(p) /\ Release
      /\ UNCHANGED <<wl, op, meta, fs, clock, gc, active, tries>>
  BY DEF Finish
<1>2. /\ proc[p] \in ProcRec /\ o \in Ops /\ Owner(p, o) /\ op[o] # NoOp
      /\ proc[p].act = op[o].act /\ rec[o] \in RecRec /\ tok[o] \in TokRec
  BY <1>1 DEF IInv, TypeOK, ProcInv, ProcFacts, Owner
<1>3. /\ proc'[p] = Idle /\ \A q \in Procs \ {p} : proc'[q] = proc[q]
  BY <1>1, Blank DEF IInv, TypeOK, Ends
<1>4. \A q \in Procs, i \in Ops : Owner(q, i)' => Owner(q, i) /\ q # p /\ proc'[q] = proc[q] /\ i # o
  <2>1. \A q \in Procs, i \in Ops : Owner(q, i)' => Owner(q, i) /\ q # p /\ proc'[q] = proc[q]
    BY <1>3, Blank, NoZero DEF Owner
  <2> QED BY <1>2, <2>1 DEF IInv, OwnerInv
<1>5. \A q \in Procs, i \in Ops : Undoing(q, i)' => Undoing(q, i) /\ proc'[q] = proc[q]
  BY <1>3, Blank, NoZero DEF Undoing
<1>6. \A r \in Journals : JournalInv(r)'
  BY <1>1, <1>4, <1>5 DEF IInv, JournalInv, fs, meta
<1>7. PICK old : old = rec /\ JournalInv(old)'
  BY <1>6 DEF Journals
<1>8. CASE rec[o].st # "pending"
  <2>1. UNCHANGED <<rec, tok>>
    BY <1>8 DEF Finish, FinishOperation
  <2>2. JournalInv(rec)'
    BY <1>7, <2>1 DEF JournalInv
  <2>3. TokenInv'
    BY <1>1, <1>4, <2>1 DEF IInv, TokenInv, fs, meta
  <2>4. rec' \in [Ops -> RecRec] /\ tok' \in [Ops -> TokRec]
    BY <2>1 DEF IInv, TypeOK
  <2>5. MarkInv'
    BY <1>1, <1>4, <2>1 DEF IInv, MarkInv, FairToken, Empty, fs, meta
  <2> QED BY <1>1, <2>1, <2>2, <2>3, <2>4, <2>5, EndStep
<1>9. CASE rec[o].st = "pending"
  <2>1. /\ rec' = [rec EXCEPT ![o] = R]
        /\ tok' = [q \in Ops |-> IF q = o THEN T ELSE IF q \in retired THEN NoTok ELSE tok[q]]
    BY <1>9 DEF Finish, FinishOperation
  <2>2. /\ Outcome(wk) \in {"success", "failed", "unknown"}
        /\ Outcome(wk) = "success" => wk = "ok"
        /\ Outcome(wk) = "failed" => wk = "fail"
    BY <1>1 DEF Outcome, Answered
  <2>3. /\ R \in RecRec /\ R.st = Outcome(wk) /\ R.undo = rec[o].undo
    BY <1>2, <2>2 DEF RecRec, ProcRec, Statuses
  <2>4. /\ T \in TokRec /\ (o \notin forgotten => FairToken(o, T))
        /\ T.st = "none" => \/ op[o].act = "trash" /\ wk = "fail"
                            \/ op[o].act = "write" /\ wk = "ok"
                            \/ tok[o].st = "none"
    <3>1. CASE T = [tok[o] EXCEPT !.st = R.st, !.after = R.after]
      <4>1. T \in TokRec /\ T.st = R.st /\ T.after = proc[p].exp /\ R.st # "none"
        BY <1>2, <2>2, <2>3, <3>1 DEF TokRec, RecRec, Statuses
      <4>2. ~(op[o].act = "trash" /\ R.st = "failed") /\ ~(op[o].act = "write" /\ R.st = "success")
        BY <4>1, Blank DEF SettledToken
      <4>3. o \notin forgotten /\ op[o].act = "trash" /\ R.st = "success" /\ proc[p].exp = NoOne => Empty(o)
        BY <1>2, <2>2, <2>3 DEF IInv, MarkInv
      <4> QED BY <4>1, <4>2, <4>3 DEF FairToken
    <3>2. CASE T = NoTok
      BY <2>2, <2>3, <3>1, <3>2, SettledTokenCases, Blank DEF FairToken
    <3> QED BY <3>1, <3>2, SettledTokenCases
  <2> HIDE DEF R, T
  <2>5. rec' \in [Ops -> RecRec] /\ rec'[o] = R /\ \A q \in Ops \ {o} : rec'[q] = rec[q]
    BY <1>2, <2>1, <2>3 DEF IInv, TypeOK
  <2>6. /\ tok' \in [Ops -> TokRec] /\ tok'[o] = T
        /\ \A q \in Ops \ {o} : q \notin retired => tok'[q] = tok[q]
        /\ \A q \in Ops \ {o} : q \in retired => tok'[q] = NoTok
    BY <1>2, <2>1, <2>4, Blank DEF IInv, TypeOK
  <2>7. /\ wk = "ok" => o \in did /\ o \notin staged
        /\ wk = "fail" => o \notin did
    BY <1>2 DEF IInv, OwnerInv
  <2>8. JournalInv(rec)'
    BY <1>1, <1>2, <1>4, <1>7, <2>2, <2>3, <2>5, <2>7 DEF JournalInv, fs, meta
  <2>9. TokenInv'
    <3>1. ASSUME NEW i \in retired, i \in Ops
          PROVE  /\ \A f \in Files : place[f] # i
                 /\ i \notin staged /\ i \in did
      <4>1. o \in did /\ op[o].act \in {"restore", "delete"} /\ i = op[o].target /\ i # 0
        BY <2>2, <2>7, <3>1, NoZero
      <4>2. i \in did /\ op[i].act = "trash"
        BY <1>2, <4>1 DEF IInv, SlotInv
      <4> QED BY <1>2, <3>1, <4>1, <4>2 DEF IInv, SlotInv
    <3>2. ASSUME NEW i \in Ops \ forgotten, (\E f \in Files : place[f] = i) \/ i \in staged
          PROVE  tok'[i].st # "none"
      <4>1. tok[i].st # "none"
        BY <3>2 DEF IInv, TokenInv
      <4>2. CASE i = o
        <5>1. op[o].act = "trash" => o \in did
          BY <3>2, <4>2 DEF IInv, SlotInv
        <5>2. op[o].act = "write" => o \in staged
          BY <3>2, <4>2 DEF IInv, SlotInv
        <5> QED BY <2>4, <2>6, <2>7, <4>1, <4>2, <5>1, <5>2
      <4> QED BY <2>6, <3>1, <3>2, <4>1, <4>2
    <3>3. ASSUME NEW i \in Ops \ forgotten, NEW q \in Procs, Owner(q, i)',
                 NeedsToken(proc'[q].act), proc'[q].wk \in {"none", "start", "staged"}
          PROVE  tok'[i].st # "none"
      <4>1. Owner(q, i) /\ proc'[q] = proc[q] /\ i # o
        BY <1>4, <3>3
      <4>2. i \notin did /\ tok[i].st # "none"
        BY <3>3, <4>1 DEF IInv, OwnerInv, TokenInv
      <4> QED BY <2>6, <3>1, <4>1, <4>2
    <3> QED BY <1>1, <3>2, <3>3 DEF TokenInv, fs, meta, NeedsToken
  <2>10. MarkInv'
    <3>1. ASSUME NEW i \in Ops \ forgotten PROVE FairToken(i, tok[i])'
      <4>1. FairToken(i, tok'[i])
        <5>1. CASE i = o
          BY <2>4, <2>6, <5>1
        <5>2. CASE i # o
          BY <2>6, <5>2, Blank DEF IInv, MarkInv, FairToken
        <5> QED BY <5>1, <5>2
      <4> QED BY <1>1, <4>1 DEF FairToken, Empty, fs
    <3>2. ASSUME NEW i \in Ops \ forgotten, NEW q \in Procs, Owner(q, i)', proc'[q].act = "trash"
          PROVE  /\ proc'[q].wk \in {"none", "start", "staged"} => tok'[i].st \in {"none", "pending"}
                 /\ proc'[q].wk = "ok" /\ proc'[q].exp = NoOne => Empty(i)'
      <4>1. Owner(q, i) /\ proc'[q] = proc[q] /\ i # o
        BY <1>4, <3>2
      <4>2. tok'[i] = tok[i] \/ tok'[i].st = "none"
        BY <2>6, <4>1, Blank
      <4> QED BY <3>2, <1>1, <4>1, <4>2 DEF IInv, MarkInv, Empty, fs
    <3> QED BY <1>1, <3>1, <3>2 DEF MarkInv, meta
  <2> QED BY <1>1, <2>3, <2>5, <2>6, <2>8, <2>9, <2>10, EndStep
<1> QED BY <1>8, <1>9

\* finish_undo: only the process of the claim settles it; a trash token goes only
\* once its slot is empty.
LEMMA FinishUndoKeeps == ASSUME IInv, NEW p \in Procs, FinishUndo(p) PROVE IInv'
<1> DEFINE o == proc[p].op
           wk == proc[p].wk
           st == Outcome(wk)
           R == [rec[o] EXCEPT !.undo = st]
<1>1. /\ proc[p].pc = "run" /\ proc[p].act = "undo" /\ wk \in Answered
      /\ Ends(p) /\ Release
      /\ UNCHANGED <<wl, op, meta, fs, clock, gc, active, tries>>
  BY DEF FinishUndo
<1>2. /\ proc[p] \in ProcRec /\ o \in Ops /\ Undoing(p, o) /\ op[o] # NoOp
      /\ rec[o] \in RecRec /\ tok[o] \in TokRec
  BY <1>1 DEF IInv, TypeOK, ProcInv, ProcFacts, Undoing
<1>3. /\ proc'[p] = Idle /\ \A q \in Procs \ {p} : proc'[q] = proc[q]
  BY <1>1, Blank DEF IInv, TypeOK, Ends
<1>4. \A q \in Procs, i \in Ops : Owner(q, i)' => Owner(q, i) /\ proc'[q] = proc[q]
  BY <1>3, Blank, NoZero DEF Owner
<1>5. \A q \in Procs, i \in Ops : Undoing(q, i)' => Undoing(q, i) /\ i # o /\ proc'[q] = proc[q]
  <2>1. \A q \in Procs, i \in Ops : Undoing(q, i)' => Undoing(q, i) /\ q # p /\ proc'[q] = proc[q]
    BY <1>3, Blank, NoZero DEF Undoing
  <2> QED BY <1>2, <2>1 DEF IInv, UndoInv
<1>6. \A r \in Journals : JournalInv(r)'
  BY <1>1, <1>4, <1>5 DEF IInv, JournalInv, fs, meta
<1>7. PICK old : old = rec /\ JournalInv(old)'
  BY <1>6 DEF Journals
<1>8. CASE ~(o \in Rows(rec) /\ rec[o].undo = "pending")
  <2>1. UNCHANGED <<rec, tok>>
    BY <1>8 DEF FinishUndo
  <2>2. JournalInv(rec)'
    BY <1>7, <2>1 DEF JournalInv
  <2>3. TokenInv'
    BY <1>1, <1>4, <2>1 DEF IInv, TokenInv, fs, meta
  <2>4. rec' \in [Ops -> RecRec] /\ tok' \in [Ops -> TokRec]
    BY <2>1 DEF IInv, TypeOK
  <2>5. MarkInv'
    BY <1>1, <1>4, <2>1 DEF IInv, MarkInv, FairToken, Empty, fs, meta
  <2> QED BY <1>1, <2>1, <2>2, <2>3, <2>4, <2>5, EndStep
<1>9. CASE o \in Rows(rec) /\ rec[o].undo = "pending"
  <2>1. /\ rec' = [rec EXCEPT ![o].undo = st]
        /\ tok' = IF st = "success" /\ op[o].act = "trash" THEN [tok EXCEPT ![o] = NoTok] ELSE tok
    BY <1>9 DEF FinishUndo
  <2>2. /\ st \in {"success", "failed", "unknown"}
        /\ st = "success" => wk = "ok"
        /\ st = "failed" => wk = "fail"
    BY <1>1 DEF Outcome, Answered
  <2> HIDE DEF st
  <2>3. R \in RecRec /\ R.st = rec[o].st /\ R.undo = st
    BY <1>2, <2>2 DEF RecRec, Statuses
  <2>4. rec' = [rec EXCEPT ![o] = R]
    BY <2>1
  <2> HIDE DEF R
  <2>5. rec' \in [Ops -> RecRec] /\ rec'[o] = R /\ \A q \in Ops \ {o} : rec'[q] = rec[q]
    BY <1>2, <2>4, <2>3 DEF IInv, TypeOK
  <2>6. /\ tok' \in [Ops -> TokRec]
        /\ tok'[o] = tok[o] \/ (st = "success" /\ op[o].act = "trash" /\ tok'[o] = NoTok)
        /\ \A q \in Ops \ {o} : tok'[q] = tok[q]
    BY <1>2, <2>1, Blank DEF IInv, TypeOK
  <2>7. /\ o \in did /\ tries[o] > 0
        /\ wk = "ok" => o \in undone
        /\ wk = "fail" /\ tries[o] = 1 => o \notin undone
    BY <1>1, <1>2 DEF IInv, UndoInv
  <2>8. JournalInv(rec)'
    BY <1>1, <1>2, <1>5, <1>7, <2>2, <2>3, <2>5, <2>7 DEF JournalInv, fs, meta
  <2>9. TokenInv'
    <3>1. ASSUME NEW i \in Ops \ forgotten, (\E f \in Files : place[f] = i) \/ i \in staged
          PROVE  tok'[i].st # "none"
      <4>1. tok[i].st # "none"
        BY <3>1 DEF IInv, TokenInv
      <4>2. i = o => ~(st = "success" /\ op[o].act = "trash")
        BY <2>2, <2>7, <3>1 DEF IInv, SlotInv
      <4> QED BY <2>6, <4>1, <4>2
    <3>2. ASSUME NEW i \in Ops \ forgotten, NEW q \in Procs, Owner(q, i)',
                 NeedsToken(proc'[q].act), proc'[q].wk \in {"none", "start", "staged"}
          PROVE  tok'[i].st # "none"
      <4>1. Owner(q, i) /\ proc'[q] = proc[q]
        BY <1>4, <3>2
      <4>2. i \notin did /\ tok[i].st # "none"
        BY <3>2, <4>1 DEF IInv, OwnerInv, TokenInv
      <4> QED BY <2>6, <2>7, <4>2
    <3> QED BY <1>1, <3>1, <3>2 DEF TokenInv, fs, meta, NeedsToken
  <2>10. \A i \in Ops : rec[i].undo # "none" => rec'[i].undo # "none"
    BY <2>2, <2>3, <2>5
  <2>11. MarkInv'
    <3>1. \A i \in Ops : tok'[i] = tok[i] \/ tok'[i] = NoTok
      BY <2>6
    <3> QED BY <1>1, <1>4, <3>1, Blank DEF IInv, MarkInv, FairToken, Empty, fs, meta
  <2> QED BY <1>1, <2>5, <2>6, <2>8, <2>9, <2>10, <2>11, EndStep
<1> QED BY <1>8, <1>9

-----------------------------------------------------------------------------
(* Workers change the home.                                                 *)

\* A staging path appears under the token of its operation.
LEMMA WorkerStagesKeeps == ASSUME IInv, NEW p \in Procs, WorkerStages(p) PROVE IInv'
<1> DEFINE o == proc[p].op
           P == [proc[p] EXCEPT !.wk = "staged"]
<1>1. /\ proc[p].pc \in {"run", "dead"} /\ proc[p].wk = "start" /\ proc[p].act = "write"
      /\ staged' = staged \cup {o}
      /\ proc' = [proc EXCEPT ![p] = P]
      /\ UNCHANGED <<wl, db, place, ver, did, undone, clock, lock, gc, active, tries>>
  BY DEF WorkerStages, Working, Worker
<1>2. /\ proc[p] \in ProcRec /\ ProcFacts(proc[p]) /\ o \in Ops /\ Owner(p, o)
      /\ op[o].act = "write"
  BY <1>1 DEF IInv, TypeOK, ProcInv, ProcFacts, Owner
<1>3. /\ P \in ProcRec /\ P.pc = proc[p].pc /\ P.wk = "staged" /\ P.op = o
      /\ P.act = "write" /\ P.target = proc[p].target /\ P.file = proc[p].file
  BY <1>1, <1>2 DEF ProcRec
<1> HIDE DEF P
<1>4. /\ proc' \in [Procs -> ProcRec] /\ proc'[p] = P /\ \A q \in Procs \ {p} : proc'[q] = proc[q]
  BY <1>1, <1>3 DEF IInv, TypeOK
<1>5. \A q \in Procs, i \in Ops : Owner(q, i)' <=> Owner(q, i)
  BY <1>1, <1>3, <1>4 DEF Owner
<1>6. \A q \in Procs, i \in Ops : Undoing(q, i)' => Undoing(q, i) /\ q # p /\ proc'[q] = proc[q]
  BY <1>1, <1>3, <1>4 DEF Undoing
<1>7. o \notin did /\ o \notin due /\ (o \notin forgotten => tok[o].st # "none")
  BY <1>1, <1>2 DEF IInv, OwnerInv, SweepInv, TokenInv, NeedsToken
<1>8. TypeOK'
  BY <1>1, <1>2, <1>4 DEF IInv, TypeOK, db, meta, clock
<1>9. ProcInv'
  BY <1>1, <1>2, <1>3, <1>4 DEF IInv, ProcInv, ProcFacts, db, meta
<1>10. LockInv'
  BY <1>1, <1>3, <1>4 DEF IInv, LockInv
<1>11. OwnerInv'
  <2>1. \A q \in Procs : Owner(q, o) => q = p
    BY <1>2 DEF IInv, OwnerInv
  <2> QED BY <1>1, <1>2, <1>3, <1>4, <1>5, <1>7, <2>1 DEF IInv, OwnerInv, Owner
<1>12. UndoInv'
  BY <1>1, <1>4, <1>6 DEF IInv, UndoInv, db, meta
<1>13. ClaimInv'
  <2>1. \A i \in Ops : Claimed(i)' => Claimed(i)
    BY <1>1, <1>6 DEF Claimed
  <2> QED BY <1>1, <1>6, <2>1 DEF IInv, ClaimInv, db, meta
<1>14. \A r \in Journals' : JournalInv(r)'
  BY <1>1, <1>5, <1>6 DEF IInv, JournalInv, Journals, db, meta
<1>15. SlotInv'
  BY <1>1, <1>2 DEF IInv, SlotInv, db, meta
<1>16. TokenInv'
  BY <1>1, <1>3, <1>4, <1>5, <1>7 DEF IInv, TokenInv, Owner, db, meta
<1>17. SweepInv'
  BY <1>1, <1>5, <1>7 DEF IInv, SweepInv, clock, db, meta, TypeOK
<1>18. MarkInv'
  BY <1>1, <1>3, <1>4, <1>5 DEF IInv, MarkInv, FairToken, Empty, Owner, db, meta
<1> QED BY <1>8, <1>9, <1>10, <1>11, <1>12, <1>13, <1>14, <1>15, <1>16, <1>17, <1>18 DEF IInv

\* A failure is reported only before the change was made.
LEMMA WorkerFailsKeeps == ASSUME IInv, NEW p \in Procs, WorkerFails(p) PROVE IInv'
<1> DEFINE o == proc[p].op
           P == [proc[p] EXCEPT !.wk = "fail"]
<1>1. /\ proc[p].pc \in {"run", "dead"} /\ proc[p].wk \in {"start", "staged"}
      /\ staged' = staged \ {o}
      /\ proc' = [proc EXCEPT ![p] = P]
      /\ UNCHANGED <<wl, db, place, ver, did, undone, clock, lock, gc, active, tries>>
  BY DEF WorkerFails, Working, Worker
<1>2. proc[p] \in ProcRec /\ ProcFacts(proc[p]) /\ o \in Ops
  BY <1>1 DEF IInv, TypeOK, ProcInv, ProcFacts
<1>3. /\ P \in ProcRec /\ P.pc = proc[p].pc /\ P.wk = "fail" /\ P.op = o
      /\ P.act = proc[p].act /\ P.target = proc[p].target /\ P.file = proc[p].file
  BY <1>2 DEF ProcRec
<1> HIDE DEF P
<1>4. /\ proc' \in [Procs -> ProcRec] /\ proc'[p] = P /\ \A q \in Procs \ {p} : proc'[q] = proc[q]
  BY <1>1, <1>3 DEF IInv, TypeOK
<1>5. \A q \in Procs, i \in Ops : Owner(q, i)' <=> Owner(q, i)
  BY <1>1, <1>3, <1>4 DEF Owner
<1>6. \A q \in Procs, i \in Ops : (Undoing(q, i)' <=> Undoing(q, i)) /\ proc'[q].pc = proc[q].pc
  BY <1>1, <1>3, <1>4 DEF Undoing
<1>7. TypeOK'
  BY <1>1, <1>2, <1>4 DEF IInv, TypeOK, db, meta, clock
<1>8. ProcInv'
  BY <1>1, <1>2, <1>3, <1>4 DEF IInv, ProcInv, ProcFacts, db, meta
<1>9. LockInv'
  BY <1>1, <1>3, <1>4 DEF IInv, LockInv
<1>10. OwnerInv'
  BY <1>1, <1>3, <1>4, <1>5 DEF IInv, OwnerInv, Owner
<1>11. UndoInv'
  BY <1>1, <1>3, <1>4, <1>6 DEF IInv, UndoInv, Undoing, db, meta
<1>12. ClaimInv'
  <2>1. \A i \in Ops : Claimed(i)' => Claimed(i)
    BY <1>1, <1>6 DEF Claimed
  <2> QED BY <1>1, <1>6, <2>1 DEF IInv, ClaimInv, db, meta
<1>13. \A r \in Journals' : JournalInv(r)'
  BY <1>1, <1>5, <1>6 DEF IInv, JournalInv, Journals, db, meta
<1>14. SlotInv'
  BY <1>1, <1>2 DEF IInv, SlotInv, db, meta
<1>15. TokenInv'
  BY <1>1, <1>3, <1>4, <1>5 DEF IInv, TokenInv, Owner, db, meta
<1>16. SweepInv'
  BY <1>1, <1>5 DEF IInv, SweepInv, clock, db, meta, TypeOK
<1>17. MarkInv'
  BY <1>1, <1>3, <1>4, <1>5 DEF IInv, MarkInv, FairToken, Empty, Owner, db, meta
<1> QED BY <1>7, <1>8, <1>9, <1>10, <1>11, <1>12, <1>13, <1>14, <1>15, <1>16, <1>17 DEF IInv

\* The change itself: a trash slot gets its one file, under its token.
LEMMA WorkerActsKeeps == ASSUME IInv, NEW p \in Procs, WorkerActs(p) PROVE IInv'
<1> DEFINE o == proc[p].op
           f == proc[p].file
           P == [proc[p] EXCEPT !.wk = "done"]
           to == After(p)
<1>1. /\ proc[p].pc \in {"run", "dead"} /\ proc[p].wk \in {"start", "staged"} /\ proc[p].act # "undo"
      /\ place[f] = Before(p)
      /\ place' = [place EXCEPT ![f] = to]
      /\ ver' = [ver EXCEPT ![f] = @ + 1]
      /\ staged' = staged \ {o}
      /\ did' = did \cup {o}
      /\ proc' = [proc EXCEPT ![p] = P]
      /\ UNCHANGED <<wl, db, undone, clock, lock, gc, active, tries>>
  BY DEF WorkerActs, Working, Worker
<1>2. /\ proc[p] \in ProcRec /\ ProcFacts(proc[p]) /\ o \in Ops /\ Owner(p, o) /\ f \in Files
      /\ op[o] # NoOp /\ op[o].act = proc[p].act /\ op[o].target = proc[p].target /\ op[o].file = f
  BY <1>1 DEF IInv, TypeOK, ProcInv, ProcFacts, Owner
<1>3. /\ P \in ProcRec /\ P.pc = proc[p].pc /\ P.wk = "done" /\ P.op = o
      /\ P.act = proc[p].act /\ P.target = proc[p].target /\ P.file = proc[p].file
  BY <1>2 DEF ProcRec
<1>4. to \in Places /\ (to \in Ops => to = o /\ proc[p].act = "trash")
  BY <1>1, <1>2, OperationsConstants DEF After, Places, Ops, Home, Moved, Gone
<1> HIDE DEF P, to
<1>5. /\ proc' \in [Procs -> ProcRec] /\ proc'[p] = P /\ \A q \in Procs \ {p} : proc'[q] = proc[q]
  BY <1>1, <1>3 DEF IInv, TypeOK
<1>6. /\ place' \in [Files -> Places] /\ place'[f] = to /\ \A g \in Files \ {f} : place'[g] = place[g]
      /\ ver' \in [Files -> Nat] /\ ver[f] \in Nat
  BY <1>1, <1>2, <1>4 DEF IInv, TypeOK
<1>7. \A q \in Procs, i \in Ops : Owner(q, i)' <=> Owner(q, i)
  BY <1>1, <1>3, <1>5 DEF Owner
<1>8. \A q \in Procs, i \in Ops : Undoing(q, i)' => Undoing(q, i) /\ q # p /\ proc'[q] = proc[q]
  BY <1>1, <1>3, <1>5 DEF Undoing
<1>9. o \notin did /\ o \notin undone /\ o \notin due
  <2>1. o \notin did
    BY <1>1, <1>2 DEF IInv, OwnerInv
  <2> QED BY <1>2, <2>1 DEF IInv, SweepInv, ClaimInv
<1>10. TypeOK'
  BY <1>1, <1>2, <1>5, <1>6 DEF IInv, TypeOK, db, meta, clock
<1>11. ProcInv'
  BY <1>1, <1>2, <1>3, <1>5 DEF IInv, ProcInv, ProcFacts, db, meta
<1>12. LockInv'
  BY <1>1, <1>3, <1>5 DEF IInv, LockInv
<1>13. OwnerInv'
  <2>1. \A q \in Procs : Owner(q, o) => q = p
    BY <1>2 DEF IInv, OwnerInv
  <2>2. \A i \in Ops : Owner(p, i) => i = o
    BY DEF Owner
  <2> QED BY <1>1, <1>2, <1>3, <1>5, <1>7, <2>1, <2>2 DEF IInv, OwnerInv
<1>14. UndoInv'
  BY <1>1, <1>5, <1>8 DEF IInv, UndoInv, db, meta
<1>15. ClaimInv'
  <2>1. \A i \in Ops : Claimed(i)' => Claimed(i)
    BY <1>1, <1>8 DEF Claimed
  <2> QED BY <1>1, <1>2, <1>8, <2>1 DEF IInv, ClaimInv, db, meta
<1>16. \A r \in Journals' : JournalInv(r)'
  BY <1>1, <1>2, <1>7, <1>8 DEF IInv, JournalInv, Journals, db, meta
<1>17. SlotInv'
  <2>1. \A q \in Ops : op[q].target # o
    BY <1>2, <1>9, NoZero DEF IInv, SlotInv
  <2>2. ASSUME NEW g \in Files, NEW i \in Ops, place'[g] = i
        PROVE  /\ op[i].act = "trash" /\ op[i].file = g
               /\ i \in did' /\ i \notin undone
               /\ \A q \in did' : op[q].act \in {"restore", "delete"} => op[q].target # i
    <3>1. CASE g = f
      <4>1. i = o /\ op[o].act = "trash"
        BY <1>2, <1>4, <1>6, <2>2, <3>1
      <4>2. did' \subseteq Ops
        BY <1>10 DEF TypeOK
      <4> QED BY <1>1, <1>2, <1>9, <2>1, <3>1, <4>1, <4>2
    <3>2. CASE g # f
      <4>1. place[g] = i
        BY <1>6, <2>2, <3>2
      <4>2. op[i].act = "trash" /\ op[i].file = g /\ i \in did /\ i \notin undone
        BY <4>1 DEF IInv, SlotInv
      <4>3. \A q \in did : op[q].act \in {"restore", "delete"} => op[q].target # i
        BY <4>1 DEF IInv, SlotInv
      <4>4. op[o].act \in {"restore", "delete"} => op[o].target # i
        <5>1. SUFFICES ASSUME op[o].act \in {"restore", "delete"}, op[o].target = i PROVE FALSE
          OBVIOUS
        <5>2. place[f] = i
          BY <1>1, <1>2, <5>1, NoZero DEF Before
        <5>3. op[i].file = f
          BY <1>2, <5>2 DEF IInv, SlotInv
        <5> QED BY <3>2, <4>2, <5>3
      <4> QED BY <1>1, <4>2, <4>3, <4>4
    <3> QED BY <3>1, <3>2
  <2> QED BY <1>1, <2>2 DEF IInv, SlotInv, db, meta
<1>18. TokenInv'
  <2>1. ASSUME NEW i \in Ops \ forgotten, (\E g \in Files : place'[g] = i) \/ i \in staged'
        PROVE  tok[i].st # "none"
    <3>1. CASE i = o /\ proc[p].act = "trash"
      <4>1. proc[p].wk = "start"
        BY <3>1 DEF WorkerActs, Working
      <4> QED BY <1>2, <2>1, <3>1, <4>1 DEF IInv, TokenInv, NeedsToken
    <3>2. CASE (\E g \in Files : place[g] = i) \/ i \in staged
      BY <2>1, <3>2 DEF IInv, TokenInv
    <3> QED BY <1>1, <1>4, <1>6, <2>1, <3>1, <3>2
  <2>2. ASSUME NEW i \in Ops \ forgotten, NEW q \in Procs, Owner(q, i)',
               NeedsToken(proc'[q].act), proc'[q].wk \in {"none", "start", "staged"}
        PROVE  tok[i].st # "none"
    <3>1. q # p
      BY <1>3, <1>5, <2>2
    <3> QED BY <1>5, <1>7, <2>2, <3>1 DEF IInv, TokenInv
  <2> QED BY <1>1, <2>1, <2>2 DEF TokenInv, db, meta, NeedsToken
<1>19. SweepInv'
  <2>1. ASSUME gc.pc = "swept", NEW g \in Files PROVE place'[g] # gc.op
    <3>1. gc.op \in due /\ gc.op \in Ops /\ place[g] # gc.op
      BY <2>1 DEF IInv, SweepInv, TypeOK
    <3> QED BY <1>4, <1>6, <1>9, <3>1
  <2> QED BY <1>1, <1>7, <2>1 DEF IInv, SweepInv, clock, db, meta, TypeOK
<1>20. MarkInv'
  <2>1. ASSUME NEW i \in Ops, Empty(i), ~(i = o /\ proc[p].act = "trash") PROVE Empty(i)'
    BY <1>4, <1>6, <2>1 DEF Empty
  <2>2. o \notin forgotten /\ proc[p].act = "trash" => tok[o].st \in {"none", "pending"}
    BY <1>1, <1>2 DEF IInv, MarkInv
  <2>3. ASSUME NEW i \in Ops \ forgotten PROVE FairToken(i, tok[i])'
    BY <1>1, <1>2, <2>1, <2>2 DEF IInv, MarkInv, FairToken, db
  <2>4. ASSUME NEW i \in Ops \ forgotten, NEW q \in Procs, Owner(q, i)', proc'[q].act = "trash"
        PROVE  /\ proc'[q].wk \in {"none", "start", "staged"} => tok'[i].st \in {"none", "pending"}
               /\ proc'[q].wk = "ok" /\ proc'[q].exp = NoOne => Empty(i)'
    <3>1. CASE q = p
      BY <1>3, <1>5, <3>1
    <3>2. CASE q # p
      <4>1. Owner(q, i) /\ proc'[q] = proc[q] /\ i # o
        BY <1>2, <1>5, <1>7, <2>4, <3>2 DEF IInv, OwnerInv
      <4> QED BY <2>4, <1>1, <2>1, <4>1 DEF IInv, MarkInv, db
    <3> QED BY <3>1, <3>2
  <2> QED BY <1>1, <2>3, <2>4 DEF MarkInv, db, meta
<1> QED BY <1>10, <1>11, <1>12, <1>13, <1>14, <1>15, <1>16, <1>17, <1>18, <1>19, <1>20 DEF IInv

\* The inverse change empties the slot of its own operation only.
LEMMA WorkerUndoesKeeps == ASSUME IInv, NEW p \in Procs, WorkerUndoes(p) PROVE IInv'
<1> DEFINE o == proc[p].op
           f == proc[p].file
           P == [proc[p] EXCEPT !.wk = "done"]
<1>1. /\ proc[p].pc \in {"run", "dead"} /\ proc[p].wk = "start" /\ proc[p].act = "undo"
      /\ place' = [place EXCEPT ![f] = Home]
      /\ ver' = [ver EXCEPT ![f] = @ + 1]
      /\ undone' = undone \cup {o}
      /\ proc' = [proc EXCEPT ![p] = P]
      /\ UNCHANGED <<wl, db, staged, did, clock, lock, gc, active, tries>>
  BY DEF WorkerUndoes, Working, Worker
<1>2. /\ proc[p] \in ProcRec /\ ProcFacts(proc[p]) /\ o \in Ops /\ Undoing(p, o) /\ f \in Files
      /\ op[o].file = f
  BY <1>1 DEF IInv, TypeOK, ProcInv, ProcFacts, Undoing
<1>3. /\ P \in ProcRec /\ P.pc = proc[p].pc /\ P.wk = "done" /\ P.op = o
      /\ P.act = "undo" /\ P.target = proc[p].target /\ P.file = proc[p].file
  BY <1>1, <1>2 DEF ProcRec
<1>4. Home \in Places /\ Home \notin Ops
  BY OperationsConstants DEF Places, Ops, Home
<1> HIDE DEF P
<1>5. /\ proc' \in [Procs -> ProcRec] /\ proc'[p] = P /\ \A q \in Procs \ {p} : proc'[q] = proc[q]
  BY <1>1, <1>3 DEF IInv, TypeOK
<1>6. /\ place' \in [Files -> Places] /\ place'[f] = Home /\ \A g \in Files \ {f} : place'[g] = place[g]
      /\ ver' \in [Files -> Nat] /\ ver[f] \in Nat
  BY <1>1, <1>2, <1>4 DEF IInv, TypeOK
<1>7. \A q \in Procs, i \in Ops : Owner(q, i)' => Owner(q, i) /\ proc'[q] = proc[q]
  BY <1>1, <1>3, <1>5 DEF Owner
<1>8. \A q \in Procs, i \in Ops : (Undoing(q, i)' <=> Undoing(q, i)) /\ proc'[q].pc = proc[q].pc
  BY <1>1, <1>3, <1>5 DEF Undoing
<1>9. o \in did /\ tries[o] > 0
  BY <1>1, <1>2 DEF IInv, UndoInv
<1>10. TypeOK'
  BY <1>1, <1>2, <1>5, <1>6 DEF IInv, TypeOK, db, meta, clock
<1>11. ProcInv'
  BY <1>1, <1>2, <1>3, <1>5 DEF IInv, ProcInv, ProcFacts, db, meta
<1>12. LockInv'
  BY <1>1, <1>3, <1>5 DEF IInv, LockInv
<1>13. OwnerInv'
  BY <1>1, <1>7 DEF IInv, OwnerInv
<1>14. UndoInv'
  <2>1. \A q \in Procs : Undoing(q, o) => q = p
    BY <1>2 DEF IInv, UndoInv
  <2>2. \A i \in Ops : Undoing(p, i) => i = o
    BY DEF Undoing
  <2> QED BY <1>1, <1>2, <1>3, <1>5, <1>8, <2>1, <2>2 DEF IInv, UndoInv, db, meta
<1>15. ClaimInv'
  <2>1. \A i \in Ops : Claimed(i)' => Claimed(i)
    BY <1>1, <1>8 DEF Claimed
  <2> QED BY <1>1, <1>2, <1>8, <1>9, <2>1 DEF IInv, ClaimInv, db, meta
<1>16. \A r \in Journals' : JournalInv(r)'
  BY <1>1, <1>2, <1>7, <1>8 DEF IInv, JournalInv, Journals, db, meta
<1>17. SlotInv'
  <2>1. ASSUME NEW g \in Files, NEW i \in Ops, place'[g] = i PROVE place[g] = i /\ g # f
    BY <1>4, <1>6, <2>1
  <2> QED BY <1>1, <1>2, <2>1 DEF IInv, SlotInv, db, meta
<1>18. TokenInv'
  <2>1. ASSUME NEW g \in Files, NEW i \in Ops, place'[g] = i PROVE place[g] = i
    BY <1>4, <1>6, <2>1
  <2> QED BY <1>1, <1>7, <2>1 DEF IInv, TokenInv, db, meta
<1>19. SweepInv'
  <2>1. ASSUME gc.pc = "swept", NEW g \in Files PROVE place'[g] # gc.op
    <3>1. gc.op \in Ops /\ place[g] # gc.op
      BY <2>1 DEF IInv, SweepInv, TypeOK
    <3> QED BY <1>4, <1>6, <3>1
  <2> QED BY <1>1, <1>7, <2>1 DEF IInv, SweepInv, clock, db, meta, TypeOK
<1>20. MarkInv'
  <2>1. \A i \in Ops : Empty(i) => Empty(i)'
    BY <1>4, <1>6 DEF Empty
  <2> QED BY <1>1, <1>7, <2>1 DEF IInv, MarkInv, FairToken, db, meta
<1> QED BY <1>10, <1>11, <1>12, <1>13, <1>14, <1>15, <1>16, <1>17, <1>18, <1>19, <1>20 DEF IInv

-----------------------------------------------------------------------------
(* The sweep.                                                               *)

\* Steps of the sweep that change neither the home nor the database.
LEMMA GcStep ==
  ASSUME IInv, gc' \in GcRec, lock' \in Procs \cup {Gc, NoOne}, LockInv', SweepInv',
         UNCHANGED <<wl, db, fs, clock, proc, active, tries>>
  PROVE  IInv'
<1>1. TypeOK'
  BY DEF IInv, TypeOK, db, meta, fs, clock
<1>2. ProcInv' /\ OwnerInv'
  BY DEF IInv, ProcInv, ProcFacts, OwnerInv, Owner, db, meta, fs
<1>3. UndoInv' /\ ClaimInv'
  BY DEF IInv, UndoInv, Undoing, ClaimInv, Claimed, db, meta, fs
<1>4. \A r \in Journals' : JournalInv(r)'
  BY DEF IInv, Journals, JournalInv, Owner, Undoing, db, meta, fs
<1>5. SlotInv' /\ TokenInv' /\ MarkInv'
  BY DEF IInv, SlotInv, TokenInv, MarkInv, FairToken, Empty, Owner, db, meta, fs
<1> QED BY <1>1, <1>2, <1>3, <1>4, <1>5 DEF IInv

\* What a query lists is due.
LEMMA ListedIsDue ==
  ASSUME IInv, NEW phase \in {"trash", "staging"}, GcLists(phase)
  PROVE  gc' \in GcRec /\ gc'.pc = phase /\ gc'.todo \subseteq due
<1>1. DueTrash \in SUBSET Ops /\ DueTrash \subseteq due /\ DueStaging \in SUBSET Ops /\ DueStaging \subseteq due
  BY DEF DueTrash, DueStaging, Tokens
<1> QED BY <1>1, Blank DEF GcLists, GcIdle, GcRec

\* The sweep begins with what is due.
LEMMA GcStartsKeeps == ASSUME IInv, GcStarts PROVE IInv'
<1>1. gc' \in GcRec /\ gc'.pc = "trash" /\ gc'.todo \subseteq due
  BY ListedIsDue DEF GcStarts
<1>2. UNCHANGED <<wl, db, fs, clock, proc, lock, active, tries>>
  BY DEF GcStarts
<1>3. LockInv' /\ lock' \in Procs \cup {Gc, NoOne}
  BY <1>1, <1>2 DEF IInv, LockInv, TypeOK
<1>4. SweepInv'
  BY <1>1, <1>2 DEF IInv, SweepInv, Owner, db, meta, fs, clock
<1> QED BY <1>1, <1>2, <1>3, <1>4, GcStep

\* The sweep works on one due token after the other.
LEMMA GcTakesKeeps == ASSUME IInv, GcTakes PROVE IInv'
<1> DEFINE o == Min(gc.todo)
<1>1. o \in gc.todo /\ o \in due /\ o \in Ops /\ gc.todo \in SUBSET Ops
  <2>1. gc.todo \in SUBSET Ops /\ gc.todo # {} /\ gc.todo \subseteq due
    BY DEF IInv, TypeOK, GcRec, SweepInv, GcTakes
  <2>2. o \in gc.todo
    BY <2>1, MinOfOps
  <2> QED BY <2>1, <2>2
<1>2. \/ gc' = GcIdle
      \/ gc' = [gc EXCEPT !.todo = gc.todo \ {o}]
      \/ tok[o].st # "none" /\ gc' = [gc EXCEPT !.pc = "wait", !.todo = gc.todo \ {o}, !.op = o, !.copy = tok[o]]
  BY DEF GcTakes
<1> HIDE DEF o
<1>3. gc \in GcRec /\ tok[o] \in TokRec /\ gc.pc \in {"trash", "staging"}
  BY <1>1 DEF IInv, TypeOK, GcTakes
<1>4. /\ gc' \in GcRec /\ gc'.pc \in {"idle", "trash", "staging", "wait"}
      /\ gc'.todo \subseteq due
      /\ gc'.pc = "wait" => gc'.op \in due /\ gc'.copy.st # "none"
  <2>1. CASE gc' = GcIdle
    BY <2>1, Blank
  <2>2. CASE gc' = [gc EXCEPT !.todo = gc.todo \ {o}]
    BY <1>1, <1>3, <2>2 DEF GcRec, IInv, SweepInv
  <2>3. CASE tok[o].st # "none" /\ gc' = [gc EXCEPT !.pc = "wait", !.todo = gc.todo \ {o}, !.op = o, !.copy = tok[o]]
    BY <1>1, <1>3, <2>3 DEF GcRec, IInv, SweepInv
  <2> QED BY <1>2, <2>1, <2>2, <2>3
<1>5. UNCHANGED <<wl, db, fs, clock, proc, lock, active, tries>>
  BY DEF GcTakes
<1>6. LockInv' /\ lock' \in Procs \cup {Gc, NoOne}
  BY <1>4, <1>5 DEF IInv, LockInv, TypeOK
<1>7. SweepInv'
  BY <1>4, <1>5 DEF IInv, SweepInv, Owner, db, meta, fs, clock
<1> QED BY <1>4, <1>5, <1>6, <1>7, GcStep

\* The sweep takes a free lock only.
LEMMA GcLocksKeeps == ASSUME IInv, GcLocks PROVE IInv'
<1>1. gc' \in GcRec /\ gc'.pc = "locked" /\ gc'.todo = gc.todo /\ gc'.op = gc.op /\ gc'.copy = gc.copy
  BY DEF IInv, TypeOK, GcRec, GcLocks
<1>2. UNCHANGED <<wl, db, fs, clock, proc, active, tries>> /\ lock' = Gc
  BY DEF GcLocks
<1>3. LockInv'
  BY <1>1, <1>2, OperationsConstants DEF IInv, LockInv, GcLocks
<1>4. SweepInv'
  BY <1>1, <1>2 DEF IInv, SweepInv, Owner, db, meta, fs, clock, GcLocks
<1> QED BY <1>1, <1>2, <1>3, <1>4, GcStep

\* A sweep that fails leaves the home as it was.
LEMMA GcSweepFailsKeeps == ASSUME IInv, GcSweepFails PROVE IInv'
<1>1. gc' \in GcRec /\ gc'.pc = "failed" /\ gc'.todo = gc.todo /\ gc'.op = gc.op /\ gc'.copy = gc.copy
  BY DEF IInv, TypeOK, GcRec, GcSweepFails
<1>2. UNCHANGED <<wl, db, fs, clock, proc, lock, active, tries>>
  BY DEF GcSweepFails
<1>3. LockInv' /\ lock' \in Procs \cup {Gc, NoOne}
  BY <1>1, <1>2 DEF IInv, LockInv, GcSweepFails, TypeOK
<1>4. SweepInv'
  BY <1>1, <1>2 DEF IInv, SweepInv, Owner, db, meta, fs, clock, GcSweepFails
<1> QED BY <1>1, <1>2, <1>3, <1>4, GcStep

\* A sweep that dies frees its lock.
LEMMA GcDiesKeeps == ASSUME IInv, GcDies PROVE IInv'
<1>1. gc' = GcIdle /\ UNCHANGED <<wl, db, fs, clock, proc, active, tries>>
  BY DEF GcDies
<1>2. LockInv' /\ lock' \in Procs \cup {Gc, NoOne}
  BY <1>1, Blank, OperationsConstants DEF IInv, LockInv, GcDies, TypeOK
<1>3. SweepInv'
  BY <1>1, Blank DEF IInv, SweepInv, Owner, db, meta, fs, clock
<1> QED BY <1>1, <1>2, <1>3, Blank, GcStep

\* A swept slot is empty, and no process can fill it again.
LEMMA GcSweepsKeeps == ASSUME IInv, GcSweeps PROVE IInv'
<1> DEFINE o == gc.op
<1>1. /\ gc.pc = "locked"
      /\ place' = [f \in Files |-> IF f \in InSlot(o) THEN Gone ELSE place[f]]
      /\ staged' = staged \ {o}
      /\ gc' = [gc EXCEPT !.pc = "swept"]
      /\ UNCHANGED <<wl, db, ver, did, undone, clock, proc, lock, active, tries>>
  BY DEF GcSweeps
<1>2. gc \in GcRec /\ o \in due /\ o \in Ops
  BY <1>1 DEF IInv, TypeOK, SweepInv
<1>3. gc' \in GcRec /\ gc'.pc = "swept" /\ gc'.todo = gc.todo /\ gc'.op = o /\ gc'.copy = gc.copy
  BY <1>1, <1>2 DEF GcRec
<1>4. Gone \in Places /\ Gone \notin Ops
  BY OperationsConstants DEF Places, Ops, Gone
<1>5. /\ place' \in [Files -> Places]
      /\ \A f \in Files : place'[f] # o /\ (place'[f] = place[f] \/ place'[f] = Gone)
  BY <1>1, <1>2, <1>4 DEF IInv, TypeOK, InSlot
<1>6. TypeOK'
  BY <1>1, <1>3, <1>5 DEF IInv, TypeOK, db, meta, clock
<1>7. ProcInv' /\ OwnerInv'
  BY <1>1 DEF IInv, ProcInv, ProcFacts, OwnerInv, Owner, db, meta
<1>8. LockInv'
  BY <1>1, <1>3 DEF IInv, LockInv
<1>9. UndoInv' /\ ClaimInv'
  BY <1>1 DEF IInv, UndoInv, Undoing, ClaimInv, Claimed, db, meta
<1>10. \A r \in Journals' : JournalInv(r)'
  BY <1>1 DEF IInv, Journals, JournalInv, Owner, Undoing, db, meta
<1>11. SlotInv'
  BY <1>1, <1>4, <1>5 DEF IInv, SlotInv, db, meta
<1>12. TokenInv'
  BY <1>1, <1>4, <1>5 DEF IInv, TokenInv, Owner, db, meta
<1>13. SweepInv'
  BY <1>1, <1>3, <1>5 DEF IInv, SweepInv, Owner, db, meta, clock
<1>14. MarkInv'
  <2>1. \A i \in Ops : Empty(i) => Empty(i)'
    BY <1>4, <1>5 DEF Empty
  <2> QED BY <1>1, <2>1 DEF IInv, MarkInv, FairToken, Owner, db, meta
<1> QED BY <1>6, <1>7, <1>8, <1>9, <1>10, <1>11, <1>12, <1>13, <1>14 DEF IInv

\* A token is retired only when its slot and staging path are empty; one put back
\* for review is put back over itself.
LEMMA GcSettlesKeeps == ASSUME IInv, GcSettles PROVE IInv'
<1> DEFINE o == gc.op
           T == IF gc.pc = "swept" THEN NoTok ELSE Reviewed(o, gc.copy)
<1>1. /\ gc.pc \in {"swept", "failed"} /\ Release
      /\ tok' = [tok EXCEPT ![o] = T]
      /\ gc' = [gc EXCEPT !.pc = gc.phase, !.op = 0, !.copy = NoTok]
      /\ UNCHANGED <<wl, op, rec, meta, fs, clock, proc, active, tries>>
  BY DEF GcSettles
<1>2. gc \in GcRec /\ o \in due /\ o \in Ops /\ gc.copy \in TokRec /\ gc.copy.st # "none"
  BY <1>1 DEF IInv, TypeOK, SweepInv, GcRec
<1>3. gc' \in GcRec /\ gc'.pc \in {"trash", "staging"} /\ gc'.todo = gc.todo
  BY <1>1, <1>2, Blank DEF GcRec
<1>4. T \in TokRec /\ (T.review \/ T = NoTok) /\ (T.st = "none" => gc.pc = "swept" \/ tok[o].st = "none")
  BY <1>2, Blank DEF Reviewed, TokRec
<1> HIDE DEF T
<1>5. tok' \in [Ops -> TokRec] /\ tok'[o] = T /\ \A q \in Ops \ {o} : tok'[q] = tok[q]
  BY <1>1, <1>2, <1>4 DEF IInv, TypeOK
<1>6. TypeOK'
  BY <1>1, <1>3, <1>5 DEF IInv, TypeOK, fs, meta, clock, Release
<1>7. ProcInv' /\ OwnerInv'
  BY <1>1 DEF IInv, ProcInv, ProcFacts, OwnerInv, Owner, fs, meta
<1>8. LockInv'
  BY <1>1, <1>3, OperationsConstants DEF IInv, LockInv, Release
<1>9. UndoInv' /\ ClaimInv'
  BY <1>1 DEF IInv, UndoInv, Undoing, ClaimInv, Claimed, fs, meta
<1>10. \A r \in Journals' : JournalInv(r)'
  BY <1>1 DEF IInv, Journals, JournalInv, Owner, Undoing, fs, meta
<1>11. SlotInv'
  BY <1>1 DEF IInv, SlotInv, fs, meta
<1>12. TokenInv'
  <2>1. gc.pc = "swept" => o \notin staged /\ \A f \in Files : place[f] # o
    BY DEF IInv, SweepInv
  <2>2. \A q \in Procs : ~Owner(q, o)
    BY <1>2 DEF IInv, SweepInv
  <2> QED BY <1>1, <1>4, <1>5, <2>1, <2>2 DEF IInv, TokenInv, Owner, fs, meta
<1>13. SweepInv'
  BY <1>1, <1>3 DEF IInv, SweepInv, Owner, fs, meta, clock
<1>14. MarkInv'
  <2>1. \A q \in Procs : ~Owner(q, o)
    BY <1>2 DEF IInv, SweepInv
  <2>2. FairToken(o, T)
    BY <1>4, Blank DEF FairToken
  <2>3. ASSUME NEW i \in Ops \ forgotten PROVE FairToken(i, tok[i])'
    <3>1. FairToken(i, tok'[i])
      BY <1>5, <2>2 DEF IInv, MarkInv
    <3> QED BY <1>1, <3>1 DEF FairToken, Empty, fs
  <2> QED BY <1>1, <1>5, <2>1, <2>3 DEF IInv, MarkInv, Empty, Owner, fs, meta
<1> QED BY <1>6, <1>7, <1>8, <1>9, <1>10, <1>11, <1>12, <1>13, <1>14 DEF IInv

\* gc_operations drops rows; what the others say stays true.
LEMMA GcMovesOnKeeps == ASSUME IInv, GcMovesOn PROVE IInv'
<1>1. UNCHANGED <<wl, op, tok, meta, fs, clock, proc, lock, active, tries>>
  BY DEF GcMovesOn
<1>2. CASE gc.pc = "trash"
  <2>1. GcLists("staging") /\ UNCHANGED rec
    BY <1>2 DEF GcMovesOn
  <2>2. gc' \in GcRec /\ gc'.pc = "staging" /\ gc'.todo \subseteq due
    BY <2>1, ListedIsDue
  <2>3. LockInv' /\ lock' \in Procs \cup {Gc, NoOne}
    BY <1>1, <2>2 DEF IInv, LockInv, TypeOK
  <2>4. SweepInv'
    BY <1>1, <2>2 DEF IInv, SweepInv, Owner, fs, meta, clock
  <2> QED BY <1>1, <2>1, <2>2, <2>3, <2>4, GcStep DEF db, meta
<1>3. CASE gc.pc # "trash"
  <2>1. gc' = GcIdle /\ rec' = Expired
    BY <1>3 DEF GcMovesOn
  <2>2. /\ Expired \in [Ops -> RecRec]
        /\ \A q \in Ops : Expired[q].undo = rec[q].undo /\ (Expired[q].st = rec[q].st \/ (Expired[q].st = "gone" /\ q \in Rows(rec)))
    BY DEF IInv, TypeOK, Expired, Drop, RecRec
  <2>3. TypeOK'
    BY <1>1, <2>1, <2>2, Blank DEF IInv, TypeOK, fs, meta, clock
  <2>4. ProcInv' /\ OwnerInv'
    BY <1>1 DEF IInv, ProcInv, ProcFacts, OwnerInv, Owner, fs, meta
  <2>5. LockInv'
    BY <1>1, <2>1, Blank DEF IInv, LockInv
  <2>6. UndoInv' /\ ClaimInv'
    BY <1>1, <2>1, <2>2 DEF IInv, UndoInv, Undoing, ClaimInv, Claimed, fs, meta
  <2>7. \A r \in Journals' : JournalInv(r)'
    <3>1. \A r \in Journals : JournalInv(r)'
      BY <1>1 DEF IInv, JournalInv, Owner, Undoing, fs, meta
    <3>2. PICK old : old = rec /\ JournalInv(old)'
      BY <3>1 DEF Journals
    <3>3. JournalInv(rec)'
      BY <2>1, <2>2, <3>2 DEF JournalInv, Rows
    <3> QED BY <1>1, <3>1, <3>3 DEF Journals, meta
  <2>8. SlotInv' /\ TokenInv' /\ MarkInv'
    BY <1>1 DEF IInv, SlotInv, TokenInv, MarkInv, FairToken, Empty, Owner, fs, meta
  <2>9. SweepInv'
    BY <1>1, <2>1, Blank DEF IInv, SweepInv, Owner, fs, meta, clock
  <2> QED BY <2>3, <2>4, <2>5, <2>6, <2>7, <2>8, <2>9 DEF IInv
<1> QED BY <1>2, <1>3

-----------------------------------------------------------------------------
(* Time, other writers, administration.                                     *)

\* The clocks, edits, the account's state and a backup touch none of the
\* relations between processes, journal and home.
LEMMA SurroundingsKeep ==
  ASSUME IInv, TypeOK', UNCHANGED <<op, rec, tok, epoch, cuts, forgotten, place, staged, did, undone, proc, lock, gc, tries>>,
         \A r \in Journals' : r \in Journals,
         due \subseteq due', \A o \in due' \ due : op[o] # NoOp /\ \A p \in Procs : ~Owner(p, o)
  PROVE  IInv'
<1>1. ProcInv' /\ LockInv' /\ OwnerInv'
  BY DEF IInv, ProcInv, ProcFacts, LockInv, OwnerInv, Owner
<1>2. UndoInv' /\ ClaimInv'
  BY DEF IInv, UndoInv, Undoing, ClaimInv, Claimed
<1>3. \A r \in Journals' : JournalInv(r)'
  BY DEF IInv, JournalInv, Owner, Undoing
<1>4. SlotInv' /\ TokenInv' /\ MarkInv'
  BY DEF IInv, SlotInv, TokenInv, MarkInv, FairToken, Empty, Owner
<1>5. SweepInv'
  BY DEF IInv, SweepInv, Owner
<1> QED BY <1>1, <1>2, <1>3, <1>4, <1>5 DEF IInv

\* Nothing falls due while its worker may still run.
LEMMA ClocksKeep ==
  ASSUME IInv, NEW o \in Ops, Lapses(o) \/ Ages(o) \/ FallsDue(o)
  PROVE  IInv'
<1>1. TypeOK'
  BY DEF IInv, TypeOK, Lapses, Ages, FallsDue, db, meta, fs
<1>2. UNCHANGED <<op, rec, tok, epoch, cuts, forgotten, place, staged, did, undone, proc, lock, gc, tries, backup>>
  BY DEF Lapses, Ages, FallsDue, db, meta, fs
<1>3. due' = due \/ (due' = due \cup {o} /\ Begun(o) /\ ~InProgress(o))
  BY DEF Lapses, Ages, FallsDue
<1> QED BY <1>1, <1>2, <1>3, SurroundingsKeep DEF Journals, Begun, InProgress, Owner

\* Other writers change what a file holds, not where it is.
LEMMA ExternalEditKeeps == ASSUME IInv, NEW f \in Files, ExternalEdit(f) PROVE IInv'
<1>1. ver' = [ver EXCEPT ![f] = @ + 1]
      /\ UNCHANGED <<wl, db, place, staged, did, undone, clock, proc, lock, gc, active, tries>>
  BY DEF ExternalEdit
<1>2. ver' \in [Files -> Nat]
  BY <1>1 DEF IInv, TypeOK
<1>3. TypeOK'
  BY <1>1, <1>2 DEF IInv, TypeOK, db, meta, clock
<1> QED BY <1>1, <1>3, SurroundingsKeep DEF Journals, db, meta, clock

\* Suspending an account breaks off nothing.
LEMMA SetActiveKeeps == ASSUME IInv, SetActive PROVE IInv'
<1>1. TypeOK'
  BY DEF IInv, TypeOK, SetActive, db, meta, fs, clock
<1> QED BY <1>1, SurroundingsKeep DEF SetActive, Journals, db, meta, fs, clock

\* A backup is a journal that was true when it was taken.
LEMMA TakeBackupKeeps == ASSUME IInv, TakeBackup PROVE IInv'
<1>1. TypeOK'
  BY DEF IInv, TypeOK, TakeBackup, fs, meta, clock
<1>2. \A r \in Journals' : r \in Journals
  BY DEF Journals, TakeBackup
<1> QED BY <1>1, <1>2, SurroundingsKeep DEF TakeBackup, fs, meta, clock

\* A restore ends every process.  Either it starts a new epoch, so that nothing
\* the journal forgets can be claimed again, or it is counted as cut short.
LEMMA RestoreKeeps ==
  ASSUME IInv, NEW b \in backup, NEW fenced \in BOOLEAN, Restore(b, fenced)
  PROVE  IInv'
<1>1. /\ \A p \in Procs : proc[p].pc = "idle"
      /\ gc.pc = "idle" /\ rec' = b.rec /\ tok' = b.tok /\ backup' = {}
      /\ forgotten' = {o \in Ops : op[o] # NoOp}
      /\ \/ epoch' = epoch + 1 /\ cuts' = cuts
         \/ epoch' = epoch /\ cuts' = cuts + 1
      /\ UNCHANGED <<wl, op, fs, clock, proc, lock, gc, active, tries>>
  BY DEF Restore, RestoredEpoch, Begun
<1>2. b \in [rec : [Ops -> RecRec], tok : [Ops -> TokRec]] /\ cuts \in Nat /\ epoch \in Nat
  BY DEF IInv, TypeOK
<1>3. \A p \in Procs, o \in Ops : ~Owner(p, o) /\ ~Undoing(p, o)
  BY <1>1, Blank, NoZero DEF IInv, ProcInv, ProcFacts, Owner, Undoing
<1>4. \A o \in Ops : op[o] \in OpRec /\ op[o].epoch \in Nat /\ op[o].epoch <= epoch /\ tries[o] \in Nat
                     /\ tries[o] <= 1 + cuts
  BY DEF IInv, ClaimInv, UndoInv, TypeOK, OpRec
<1>5. TypeOK'
  BY <1>1, <1>2 DEF IInv, TypeOK, fs, clock
<1>6. ProcInv' /\ LockInv' /\ OwnerInv'
  BY <1>1 DEF IInv, ProcInv, ProcFacts, LockInv, OwnerInv, Owner, fs
<1>7. \A p \in Procs, o \in Ops : ~Owner(p, o)' /\ ~Undoing(p, o)'
  BY <1>1, <1>3 DEF Owner, Undoing
<1>8. UndoInv'
  BY <1>1, <1>2, <1>4, <1>7 DEF UndoInv
<1>9. ClaimInv'
  BY <1>1, <1>2, <1>4, <1>7 DEF IInv, ClaimInv, Claimed, fs
<1>10. \A r \in Journals' : JournalInv(r)'
  <2>1. \A r \in Journals : JournalInv(r)'
    BY <1>1, <1>7 DEF IInv, JournalInv, fs
  <2>2. \A r \in Journals' : r \in Journals
    BY <1>1 DEF Journals
  <2> QED BY <2>1, <2>2
<1>11. SlotInv'
  BY <1>1 DEF IInv, SlotInv, fs
<1>12. \A o \in Ops \ forgotten' : op[o] = NoOp
  BY <1>1
<1>13. TokenInv'
  BY <1>1, <1>7, <1>12 DEF IInv, TokenInv, SlotInv, NoOp, fs
<1>15. SweepInv'
  BY <1>1 DEF IInv, SweepInv, Owner, fs, clock
<1>14. MarkInv'
  BY <1>1, <1>7, <1>12 DEF MarkInv, FairToken, NoOp
<1> QED BY <1>5, <1>6, <1>8, <1>9, <1>10, <1>11, <1>13, <1>14, <1>15 DEF IInv

-----------------------------------------------------------------------------
(* The theorems.                                                            *)

\* An empty journal and an untouched home.
LEMMA InitInv == Init => IInv
<1> SUFFICES ASSUME Init PROVE IInv
  OBVIOUS
<1>1. /\ \A o \in Ops : op[o] = NoOp /\ rec[o] = NoRec /\ tok[o] = NoTok /\ tries[o] = 0
      /\ \A p \in Procs : proc[p] = Idle
      /\ \A f \in Files : place[f] = Home
      /\ gc = GcIdle /\ did = {} /\ undone = {} /\ staged = {} /\ due = {} /\ epoch = 1 /\ backup = {}
      /\ cuts = 0
  BY DEF Init
<1>2. Home \notin Ops /\ Home \in Places
  BY OperationsConstants DEF Home, Ops, Places
<1>3. NoOp.epoch = 0 /\ NoOp.target = 0
  BY DEF NoOp
<1>4. TypeOK
  BY Blank, <1>2 DEF Init, TypeOK
<1>5. \A p \in Procs, o \in Ops : ~Owner(p, o) /\ ~Undoing(p, o)
  BY <1>1, Blank, NoZero DEF Owner, Undoing
<1>6. ProcInv
  BY <1>1, Blank, NoZero DEF ProcInv, ProcFacts
<1>7. LockInv
  BY <1>1, Blank DEF LockInv
<1>8. OwnerInv /\ UndoInv
  BY <1>1, <1>5 DEF OwnerInv, UndoInv
<1>9. ClaimInv
  BY <1>1, <1>3, <1>5 DEF ClaimInv, Claimed
<1>10. \A r \in Journals : JournalInv(r)
  <2>1. Journals = {rec}
    BY <1>1 DEF Journals
  <2>2. JournalInv(rec)
    BY <1>1, <1>5, Blank DEF JournalInv
  <2> QED BY <2>1, <2>2
<1>11. SlotInv /\ TokenInv
  BY <1>1, <1>2, <1>3, <1>5 DEF SlotInv, TokenInv
<1>12. SweepInv
  BY <1>1, Blank DEF SweepInv
<1>13. MarkInv
  BY <1>1, <1>5, Blank DEF MarkInv, FairToken
<1> QED BY <1>4, <1>6, <1>7, <1>8, <1>9, <1>10, <1>11, <1>12, <1>13 DEF IInv

\* Every step keeps the invariant.
LEMMA NextInv == IInv /\ [Next]_vars => IInv'
<1> SUFFICES ASSUME IInv, [Next]_vars PROVE IInv'
  OBVIOUS
<1>1. CASE UNCHANGED vars
  <2>1. TypeOK'
    BY <1>1 DEF IInv, TypeOK, vars
  <2> QED BY <1>1, <2>1, SurroundingsKeep DEF vars, Journals
<1>2. ASSUME NEW p \in Procs, NEW act \in OpActs, NEW f \in Files, Request(p, act, f) PROVE IInv'
  BY <1>2, RequestKeeps
<1>3. ASSUME NEW p \in Procs, NEW o \in Ops, RequestUndo(p, o) PROVE IInv'
  BY <1>3, RequestUndoKeeps
<1>4. ASSUME NEW p \in Procs, AcquireLock(p) \/ SupervisorExits(p) \/ WorkerDies(p) \/ OrphanEnds(p) PROVE IInv'
  BY <1>4, AcquireLockKeeps, SupervisorExitsKeeps, WorkerDiesKeeps, OrphanEndsKeeps
<1>5. ASSUME NEW p \in Procs, Supervisor(p) PROVE IInv'
  BY <1>5, RefuseKeeps, BeginKeeps, ClaimKeeps, LedgerFullKeeps, SpawnKeeps, FinishKeeps, FinishUndoKeeps
     DEF Supervisor
<1>6. ASSUME NEW p \in Procs, Work(p) PROVE IInv'
  BY <1>6, WorkerStagesKeeps, WorkerActsKeeps, WorkerUndoesKeeps, WorkerRespondsKeeps, WorkerFailsKeeps
     DEF Work
<1>7. CASE Sweep \/ GcLocks \/ GcDies
  BY <1>7, GcStartsKeeps, GcTakesKeeps, GcSweepsKeeps, GcSweepFailsKeeps, GcSettlesKeeps, GcMovesOnKeeps,
     GcLocksKeeps, GcDiesKeeps DEF Sweep
<1>8. ASSUME NEW o \in Ops, Lapses(o) \/ Ages(o) \/ FallsDue(o) PROVE IInv'
  BY <1>8, ClocksKeep
<1>9. ASSUME NEW f \in Files, ExternalEdit(f) PROVE IInv'
  BY <1>9, ExternalEditKeeps
<1>10. CASE SetActive \/ TakeBackup
  BY <1>10, SetActiveKeeps, TakeBackupKeeps
<1>11. ASSUME NEW b \in backup, NEW fenced \in BOOLEAN, Restore(b, fenced) PROVE IInv'
  BY <1>11, RestoreKeeps
<1> QED BY <1>1, <1>2, <1>3, <1>4, <1>5, <1>6, <1>7, <1>8, <1>9, <1>10, <1>11 DEF Next

\* The inductive invariant holds for every number of operations, files and
\* helper processes: journal, token, lock, process and home stay in step however
\* supervisors, orphaned workers, the sweep and restores interleave.
THEOREM Consistent == Spec => []IInv
BY InitInv, NextInv, PTL DEF Spec

\* Every variable keeps its type.
THEOREM OperationsTyped == Spec => []TypeOK
<1>1. IInv => TypeOK
  BY DEF IInv
<1> QED BY <1>1, Consistent, PTL

\* finish_operation and finish_undo never record a success that did not reach
\* the home or a failure that did, whatever ends early and whatever an orphaned
\* worker still does.
THEOREM JournalTrue == Spec => []TruthfulJournal
<1>1. IInv => TruthfulJournal
  BY DEF IInv, Journals, JournalInv, TruthfulJournal, Rows
<1> QED BY <1>1, Consistent, PTL

\* claim_undo is single use across crashes, lost answers and metadata restores;
\* only a restore cut short before its fence brings an undo back, once each.
THEOREM UndoneOnce == Spec => []UndoStartedOnce
<1>1. IInv => UndoStartedOnce
  BY DEF IInv, UndoInv, UndoStartedOnce
<1> QED BY <1>1, Consistent, PTL

\* What an operation begun since the last restore leaves in the trash or in
\* staging has a token, and once due one that the sweep acts on, that waits for
\* review, or that belongs to trash without a known outcome.
THEOREM ArtifactsFound == Spec => []ArtifactsCovered
<1>1. ASSUME IInv, NEW o \in Ops \ forgotten, InSlot(o) # {} \/ o \in staged
      PROVE  /\ tok[o].st # "none"
             /\ \/ o \in due => Sweepable(o)
                \/ tok[o].review
                \/ op[o].act = "trash" /\ tok[o].st \in {"pending", "unknown"}
  <2>1. /\ tok[o].st # "none" /\ FairToken(o, tok[o]) /\ tok[o] \in TokRec
        /\ InSlot(o) # {} => op[o].act = "trash" /\ ~Empty(o)
        /\ o \in staged => op[o].act = "write"
    BY <1>1 DEF IInv, TypeOK, TokenInv, MarkInv, SlotInv, InSlot, Empty
  <2>2. CASE InSlot(o) # {}
    BY <2>1, <2>2 DEF FairToken, TokRec, Statuses, Sweepable, DueTrash, Tokens, Eligible
  <2>3. CASE o \in staged
    BY <2>1, <2>3 DEF FairToken, Sweepable, DueStaging, Tokens, Eligible
  <2> QED BY <1>1, <2>1, <2>2, <2>3
<1>2. IInv => ArtifactsCovered
  BY <1>1 DEF ArtifactsCovered
<1> QED BY <1>2, Consistent, PTL

\* Only begin_operation drops a row inside its retention.
LEMMA OnlyBeginDrops ==
  ASSUME IInv, [Next]_vars, epoch' = epoch, cuts' = cuts, NEW o \in Rows(rec) \ aged, rec'[o].st = "gone"
  PROVE  \E p \in Procs : Begin(p)
<1>1. o \in Ops /\ rec[o] \in RecRec /\ rec[o].st # "gone" /\ rec \in [Ops -> RecRec] /\ o \notin aged
  BY DEF Rows, IInv, TypeOK
<1>2. rec' # rec
  BY <1>1
<1>3. ASSUME NEW p \in Procs, Claim(p) PROVE FALSE
  <2>1. rec' = [rec EXCEPT ![proc[p].op].undo = "pending"]
    BY <1>3 DEF Claim
  <2>2. rec'[o].st = rec[o].st
    BY <1>1, <2>1 DEF RecRec
  <2> QED BY <1>1, <2>2
<1>4. ASSUME NEW p \in Procs, Finish(p) PROVE FALSE
  <2> DEFINE R == [rec[proc[p].op] EXCEPT !.st = Outcome(proc[p].wk), !.after = proc[p].exp]
  <2>1. rec' = [rec EXCEPT ![proc[p].op] = R]
    BY <1>2, <1>4 DEF Finish, FinishOperation
  <2>2. proc[p].op = o => R.st \in {"success", "failed", "unknown"}
    BY <1>1 DEF RecRec, Outcome
  <2> HIDE DEF R
  <2> QED BY <1>1, <2>1, <2>2
<1>5. ASSUME NEW p \in Procs, FinishUndo(p) PROVE FALSE
  <2> DEFINE st == Outcome(proc[p].wk)
  <2>1. rec' = [rec EXCEPT ![proc[p].op].undo = st]
    BY <1>2, <1>5 DEF FinishUndo
  <2> HIDE DEF st
  <2>2. rec'[o].st = rec[o].st
    BY <1>1, <2>1 DEF RecRec
  <2> QED BY <1>1, <2>2
<1>6. ~GcMovesOn
  <2>1. Expired[o] = rec[o]
    BY <1>1 DEF Expired, Drop
  <2> QED BY <1>1, <2>1 DEF GcMovesOn
<1>7. ~\E b \in backup, fenced \in BOOLEAN : Restore(b, fenced)
  BY DEF Restore, RestoredEpoch, IInv, TypeOK
<1>8. ~\E p \in Procs : \/ \E act \in OpActs, f \in Files : Request(p, act, f)
                        \/ \E i \in Ops : RequestUndo(p, i)
                        \/ AcquireLock(p) \/ Refuse(p) \/ LedgerFull(p) \/ Spawn(p)
                        \/ SupervisorExits(p) \/ Work(p) \/ WorkerDies(p) \/ OrphanEnds(p)
  BY <1>2 DEF Request, RequestUndo, AcquireLock, Refuse, LedgerFull, Spawn, SupervisorExits, Work, WorkerStages,
     WorkerActs, WorkerUndoes, WorkerResponds, WorkerFails, WorkerDies, OrphanEnds, db, meta
<1>9. ~(GcStarts \/ GcTakes \/ GcSweeps \/ GcSweepFails \/ GcSettles \/ GcLocks \/ GcDies)
  BY <1>2 DEF GcStarts, GcTakes, GcSweeps, GcSweepFails, GcSettles, GcLocks, GcDies, db, meta
<1>10. /\ ~\E i \in Ops : Lapses(i) \/ Ages(i) \/ FallsDue(i)
       /\ ~\E f \in Files : ExternalEdit(f)
       /\ ~(SetActive \/ TakeBackup)
       /\ ~UNCHANGED vars
  BY <1>2 DEF Lapses, Ages, FallsDue, ExternalEdit, SetActive, TakeBackup, db, meta, vars
<1> QED BY <1>3, <1>4, <1>5, <1>6, <1>7, <1>8, <1>9, <1>10, Zenon DEF Next, Supervisor, Sweep

\* Room for a new operation never costs a record that is pending, of unknown
\* outcome, still undoable, or whose undo is running under the home lock.
THEOREM LiveRecordsKept == Spec => KeepsLiveRecords
<1>1. ASSUME IInv, [Next]_vars, epoch' = epoch, cuts' = cuts, NEW o \in Rows(rec) \ aged, rec'[o].st = "gone"
      PROVE  rec[o].st \in {"success", "failed"} /\ ~Available(o) /\ ~RunningUndo(o)
  <2>1. PICK p \in Procs : Begin(p)
    BY <1>1, OnlyBeginDrops
  <2>2. proc[p].pc = "locked" /\ lock = p
    BY <1>1, <2>1 DEF Begin, IInv, LockInv
  <2>3. \A q \in Procs : proc[q].pc # "run"
    BY <1>1, <2>2 DEF IInv, LockInv
  <2>4. o \in Ops /\ rec[o].st \notin {"none", "gone"}
    BY DEF Rows
  <2>5. rec'[o] = Trimmed[o] \/ rec'[o].st = "pending"
    BY <1>1, <2>1, <2>4, TrimmedRows DEF Begin, NoRec
  <2>6. rec[o].st \in {"success", "failed"} /\ (op[o].act \notin Undoable \/ o \in lapsed)
    BY <1>1, <2>4, <2>5, TrimmedRows
  <2> QED BY <2>3, <2>6 DEF Available, RunningUndo
<1>2. IInv /\ [Next]_vars =>
        [epoch' = epoch /\ cuts' = cuts =>
           \A o \in Rows(rec) \ aged :
             rec'[o].st = "gone" =>
               rec[o].st \in {"success", "failed"} /\ ~Available(o) /\ ~RunningUndo(o)]_vars
  BY <1>1
<1> QED BY <1>2, Consistent, PTL DEF Spec, KeepsLiveRecords
=============================================================================
