------------------------------ MODULE Staging ------------------------------
(***************************************************************************)
(* Upload staging: the stage files of the temporary directory, the leases  *)
(* of upload/budget.rs that account for them across server processes, the  *)
(* counter each process keeps in memory (upload/transfer.rs) and the       *)
(* uploads a process holds, in a connection or suspended for resumption    *)
(* (upload/resume.rs).                                                     *)
(*                                                                         *)
(* The operators are the bodies of the upload requests; Server runs them   *)
(* in the blocking jobs of its connections.  A reservation is taken and    *)
(* given back under the flock of the budget directory, so each is one      *)
(* step.  A stage file goes before its reservation does; since what is     *)
(* left in between only charges more, the two go in one step here.         *)
(***************************************************************************)
EXTENDS Integers, FiniteSets, FiniteSetsExt, Functions

CONSTANTS
  Procs,               \* server processes that share the temporary directory
  Conns,               \* WebSocket connections
  ProcOf,              \* the process of a connection (and of what Server adds)
  Sessions,            \* session ids
  Transfers,           \* transfer ids (fresh UUIDs, each issued at most once)
  Totals,              \* total_size values a client declares
  MaxStagingBytes,     \* system_storage.max_staging_bytes
  MaxStagingTransfers, \* system_storage.max_staging_transfers
  MaxSuspended,        \* suspend's cap on PENDING (4096 in the code)
  None                 \* no process, no session

ASSUME StagingConstants ==
  /\ \A c \in Conns : ProcOf[c] \in Procs
  /\ Totals \subseteq Nat
  /\ Totals # {} => \E m \in Totals : \A n \in Totals : n <= m   \* u64
  /\ MaxStagingBytes \in Nat /\ MaxStagingTransfers \in Nat
  /\ MaxSuspended \in Nat
  /\ None \notin Procs \cup Sessions

VARIABLES
  file,    \* bytes of the stage file of a transfer, NoFile if there is none
  lease,   \* the lease file: who holds its flock, and the bytes it declares
  up,      \* the ActiveUpload of a transfer, wherever it is held
  active,  \* context.active_uploads of each connection
  pending, \* PENDING of each process: the suspended transfers
  lapsed,  \* suspended transfers whose expires has passed
  mem      \* STAGING_RESERVED of each process

staging == <<file, lease, up, active, pending, lapsed, mem>>

NoFile == -1
NoLease == [there |-> FALSE, owner |-> None, bytes |-> 0]
NoUpload == [sess |-> None, total |-> 0, got |-> 0, keep |-> FALSE]
NoMemory == [bytes |-> 0, transfers |-> 0]

MaxTotal == IF Totals = {} THEN 0 ELSE Max(Totals)

StagingTypeOK ==
  /\ file \in [Transfers -> NoFile..MaxTotal]
  /\ lease \in [Transfers -> [there : BOOLEAN, owner : Procs \cup {None},
                              bytes : 0..MaxTotal]]
  /\ up \in [Transfers -> [sess : Sessions \cup {None}, total : 0..MaxTotal,
                           got : 0..MaxTotal, keep : BOOLEAN]]
  /\ active \in [Conns -> SUBSET Transfers]
  /\ pending \in [Procs -> SUBSET Transfers]
  /\ lapsed \subseteq Transfers
  /\ mem \in [Procs -> [bytes : Nat, transfers : Nat]]

StagingInit ==
  /\ file = [t \in Transfers |-> NoFile]
  /\ lease = [t \in Transfers |-> NoLease]
  /\ up = [t \in Transfers |-> NoUpload]
  /\ active = [c \in Conns |-> {}]
  /\ pending = [p \in Procs |-> {}]
  /\ lapsed = {}
  /\ mem = [p \in Procs |-> NoMemory]

-----------------------------------------------------------------------------
(* The budget. *)

\* total_size of every upload.
Declared == [t \in Transfers |-> up[t].total]

\* reserve_staging: this process' own uploads.
FitsMemory(p, total) ==
  /\ mem[p].bytes + total <= MaxStagingBytes
  /\ mem[p].transfers < MaxStagingTransfers

\* reserve: what a transfer is charged with.  A lease whose flock is free was
\* abandoned, and only the bytes that are really there count; a stage file
\* without a lease counts as well.
\* Mutant: a leftover without a holder is not charged.
ChargeHeld(t) == IF lease[t].owner # None THEN Max({lease[t].bytes, file[t]}) ELSE 0
Charge(t) == IF lease[t].there /\ lease[t].owner # None
             THEN Max({lease[t].bytes, file[t]}) ELSE Max({0, file[t]})
Charged == {t \in Transfers : file[t] # NoFile \/ lease[t].owner # None}

FitsDisk(total) ==
  /\ SumFunctionOnSet([t \in Transfers |-> Charge(t)], Charged) + total <= MaxStagingBytes
  /\ Cardinality(Charged) < MaxStagingTransfers

\* upload_begin_request up to the reservation; reserve removes the abandoned
\* leases without a stage file that it meets.
Reserve(p, t, total) ==
  /\ mem' = [mem EXCEPT ![p] = [bytes |-> @.bytes + total,
                                transfers |-> @.transfers + 1]]
  /\ lease' = [x \in Transfers |->
       IF x = t THEN [there |-> TRUE, owner |-> p, bytes |-> total]
       ELSE IF x \in Charged THEN lease[x] ELSE NoLease]

\* The last reference to uploads of process p goes: remove_file, then the drop
\* of StageReservation and of DiskReservation.
Dropped(p, ts) ==
  /\ file' = [t \in Transfers |-> IF t \in ts THEN NoFile ELSE file[t]]
  /\ lease' = [t \in Transfers |-> IF t \in ts THEN NoLease ELSE lease[t]]
  /\ mem' = [mem EXCEPT ![p] =
       [bytes |-> @.bytes - SumFunctionOnSet(Declared, ts),
        transfers |-> @.transfers - Cardinality(ts)]]

-----------------------------------------------------------------------------
(* The upload requests of a connection c. *)

Fresh(t) == up[t] = NoUpload

\* upload_begin_request: the reservation, and then the stage file, which a full
\* disk takes back (check_staging_capacity).
BeginReserves(c, s, t, total, keep) ==
  /\ Fresh(t)
  /\ FitsMemory(ProcOf[c], total)
  /\ FitsDisk(total)
  /\ Reserve(ProcOf[c], t, total)
  /\ up' = [up EXCEPT ![t] = [sess |-> s, total |-> total, got |-> 0, keep |-> keep]]
  /\ UNCHANGED <<file, active, pending, lapsed>>

BeginCreates(c, t) ==
  /\ file' = [file EXCEPT ![t] = 0]
  /\ active' = [active EXCEPT ![c] = @ \cup {t}]
  /\ UNCHANGED <<lease, up, pending, lapsed, mem>>

BeginFails(c, t) ==
  /\ Dropped(ProcOf[c], {t})
  /\ UNCHANGED <<up, active, pending, lapsed>>

\* upload_chunk_request: n bytes at offset got; a write that fails after k of
\* them leaves the file longer than bytes_received.
ChunkWithin(c, t, n) ==
  /\ t \in active[c]
  /\ up[t].got + n <= up[t].total
  /\ file[t] # NoFile

ChunkWritten(c, t, n) ==
  /\ ChunkWithin(c, t, n)
  /\ file' = [file EXCEPT ![t] = Max({@, up[t].got + n})]
  /\ up' = [up EXCEPT ![t].got = @ + n]
  /\ UNCHANGED <<lease, active, pending, lapsed, mem>>

ChunkTorn(c, t, n, k) ==
  /\ ChunkWithin(c, t, n)
  /\ file' = [file EXCEPT ![t] = Max({@, up[t].got + k})]
  /\ UNCHANGED <<lease, up, active, pending, lapsed, mem>>

\* handle_upload_end: the upload leaves the connection before anything is
\* checked; upload_end_request's Cleanup removes the stage file whatever comes.
EndTakes(c, t) ==
  /\ t \in active[c]
  /\ active' = [active EXCEPT ![c] = @ \ {t}]
  /\ UNCHANGED <<file, lease, up, pending, lapsed, mem>>

EndCleans(c, t) ==
  /\ Dropped(ProcOf[c], {t})
  /\ UNCHANGED <<up, active, pending, lapsed>>

\* The records of PENDING that a connection of session s may name.
\* Mutant: the session of the record is not compared.
SuspendedForAnyone(p, s, t) == t \in pending[p]
SuspendedFor(p, s, t) == t \in pending[p] /\ up[t].sess = s

\* handle_upload_abort: an upload of the connection, or take_for_abort.
Aborts(c, s, t) ==
  LET p == ProcOf[c] IN
  /\ t \in active[c] \/ SuspendedFor(p, s, t)
  /\ Dropped(p, {t})
  /\ active' = [active EXCEPT ![c] = @ \ {t}]
  /\ pending' = [pending EXCEPT ![p] = @ \ (IF t \in active[c] THEN {} ELSE {t})]
  /\ lapsed' = IF t \in active[c] THEN lapsed ELSE lapsed \ {t}
  /\ UNCHANGED up

-----------------------------------------------------------------------------
(* Suspension and resumption. *)

\* pending.retain: the lapsed records of process p and those of `gone` are
\* dropped, with their stage files.
\* Mutant: the records go without the drop of what they hold.
PurgedLeaking(p, gone) ==
  LET ts == pending[p] \cap (lapsed \cup gone) IN
  /\ pending' = [pending EXCEPT ![p] = @ \ ts]
  /\ lapsed' = lapsed \ ts
  /\ UNCHANGED <<file, lease, mem, up, active>>

Purged(p, gone) ==
  LET ts == pending[p] \cap (lapsed \cup gone) IN
  /\ Dropped(p, ts)
  /\ pending' = [pending EXCEPT ![p] = @ \ ts]
  /\ lapsed' = lapsed \ ts
  /\ UNCHANGED <<up, active>>

OfSession(s) == {t \in Transfers : up[t].sess = s}

\* take: first the lapsed records go; then the record of this session leaves
\* PENDING.  It returns to a connection if the policy still admits the upload
\* and the stage file has the length acknowledged, else it is dropped.
Found(p, s, t) == SuspendedFor(p, s, t) /\ t \notin lapsed
Resumable(p, s, t, admitted) == Found(p, s, t) /\ admitted /\ file[t] = up[t].got

Takes(c, s, t, admitted) ==
  LET p == ProcOf[c]
      back == {x \in {t} : Resumable(p, s, x, admitted)}
      out == (pending[p] \cap lapsed) \cup {x \in {t} \ back : Found(p, s, x)}
  IN /\ Dropped(p, out)
     /\ active' = [active EXCEPT ![c] = @ \cup back]
     /\ pending' = [pending EXCEPT ![p] = @ \ (out \cup back)]
     /\ lapsed' = lapsed \ out
     /\ UNCHANGED up

\* Drop of UploadCleanup, second half: the uploads in `kept` are suspended (up
\* to the cap, and after the lapsed ones went), the others are removed.
Suspends(c, kept) ==
  LET p == ProcOf[c]
      old == IF kept = {} THEN {} ELSE pending[p] \cap lapsed
      room == MaxSuspended - Cardinality(pending[p] \ old)
  IN \E in \in SUBSET kept :
       /\ Cardinality(in) = Min({Cardinality(kept), room})
       /\ Dropped(p, old \cup (active[c] \ in))
       /\ pending' = [pending EXCEPT ![p] = (@ \ old) \cup in]
       /\ lapsed' = lapsed \ old
       /\ active' = [active EXCEPT ![c] = {}]
       /\ UNCHANGED up

\* Drop of UploadCleanup, first half: what is worth keeping.
Retained(c, draining) ==
  {t \in active[c] : up[t].keep /\ up[t].got > 0 /\ ~draining}

\* The process ends: nothing is dropped, its flocks are free and its memory is
\* gone; lease and stage files stay behind.
ProcessGone(p) ==
  /\ lease' = [t \in Transfers |->
       IF lease[t].owner = p THEN [lease[t] EXCEPT !.owner = None] ELSE lease[t]]
  /\ active' = [c \in Conns |-> IF ProcOf[c] = p THEN {} ELSE active[c]]
  /\ pending' = [pending EXCEPT ![p] = {}]
  /\ lapsed' = lapsed \ pending[p]
  /\ mem' = [mem EXCEPT ![p] = NoMemory]
  /\ UNCHANGED <<file, up>>

-----------------------------------------------------------------------------
(* What the budget is for. *)

\* The stage files on disk, leftovers of crashed processes included, stay
\* within the configured bytes and number, whoever reserves when.
StagingWithinBudget ==
  LET there == {t \in Transfers : file[t] # NoFile}
  IN /\ SumFunctionOnSet(file, there) <= MaxStagingBytes
     /\ Cardinality(there) <= MaxStagingTransfers
=============================================================================
