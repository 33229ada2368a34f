------------------------------- MODULE Server -------------------------------
(***************************************************************************)
(* The web server: its session store and the leases that watch it          *)
(* (session/), the WebSocket connections and their blocking jobs (ws/),    *)
(* HTTP download streams (download/api.rs), logins (Logins), uploads       *)
(* (Staging) and the shutdown that drains them all (shutdown.rs).          *)
(*                                                                         *)
(* Every task of the runtime is a process.  A step of one ends at an       *)
(* await; the drop of a closing connection, which runs on its own thread   *)
(* next to the others, is two steps.  Clocks are events: a session, a      *)
(* suspended upload or a shutdown deadline may run out at any time.        *)
(***************************************************************************)
EXTENDS Staging, Logins

CONSTANTS
  Streams,      \* HTTP downloads
  Gate,         \* the process that the login attempts reach
  Slots,        \* permits of operation_slots (8 in the code)
  PreAuthSlots, \* permits of pre_auth_slots (64 in the code)
  MaxBoots,     \* bound of the model: starts of a process
  Workloads     \* bound of the model: who takes part in a behaviour, which
                \* frames arrive and which events happen; up to Slots permits

VARIABLES
  wl,      \* the workload of this behaviour
  phase,   \* Shutdown of each process
  cleared, \* has the expiry task run resume::clear?
  boots,   \* starts of each process
  sess,    \* the session store
  conn,    \* connections
  stream,  \* download streams
  check,   \* connections whose lease has a validation job running
  free,    \* free permits of operation_slots
  acts     \* State.active: live Activity guards

web == <<phase, cleared, boots, sess, conn, stream, check, free, acts>>
vars == <<wl, staging, logins, web>>

Kinds == {"other", "begin", "chunk", "end", "abort", "resume"}
Events == {"expire", "deny", "revoke", "drain", "crash", "leave", "torn",
           "validate", "die", "preauth", "restart"}

ASSUME ServerConstants ==
  /\ \A x \in Sessions \cup Streams : ProcOf[x] \in Procs
  /\ Gate \in Procs
  /\ Slots \in Nat \ {0} /\ PreAuthSlots \in Nat /\ MaxBoots \in Nat \ {0}
  /\ \A w \in Workloads :
       /\ w.conns \subseteq Conns /\ w.streams \subseteq Streams
       /\ w.attempts \subseteq Attempts /\ w.kinds \subseteq Kinds
       /\ w.transfers \subseteq Transfers /\ w.events \subseteq Events
       /\ w.sessions \subseteq Sessions /\ w.procs \subseteq Procs
       /\ w.totals \subseteq Totals /\ w.keeps \subseteq BOOLEAN
       /\ w.slots \in 1..Slots

NoConn == [pc |-> "none", sess |-> None, cut |-> FALSE, kind |-> "other",
           t |-> None, kept |-> {}]
NoStream == [pc |-> "none", sess |-> None, cut |-> FALSE]

TypeOK ==
  /\ StagingTypeOK /\ LoginsTypeOK
  /\ wl \in Workloads
  /\ phase \in [Procs -> {"up", "drain", "forced", "clean", "dirty", "down"}]
  /\ cleared \in [Procs -> BOOLEAN]
  /\ boots \in [Procs -> 0..MaxBoots]
  /\ sess \in [Sessions -> {"none", "live", "denied", "expired", "revoked", "gone"}]
  /\ conn \in [Conns ->
       [pc : {"none", "auth", "idle", "wait", "job", "held", "done", "close", "drop", "closed"},
        sess : Sessions \cup {None}, cut : BOOLEAN, kind : Kinds,
        t : Transfers \cup {None}, kept : SUBSET Transfers]]
  /\ stream \in [Streams ->
       [pc : {"none", "first", "probe", "ready", "wait", "read", "orphan", "end"},
        sess : Sessions \cup {None}, cut : BOOLEAN]]
  /\ check \subseteq Conns
  /\ free \in [Procs -> 0..Slots]
  /\ acts \in [Procs -> Nat]

\* The processes of the workload have started; its sessions are logged in
\* unless the workload is about logging in.
Init ==
  /\ wl \in Workloads
  /\ StagingInit /\ LoginsInit
  /\ phase = [p \in Procs |-> IF p \in wl.procs THEN "up" ELSE "down"]
  /\ cleared = [p \in Procs |-> FALSE]
  /\ boots = [p \in Procs |-> IF p \in wl.procs THEN 1 ELSE MaxBoots]
  /\ sess = [s \in Sessions |->
       IF s \in wl.sessions /\ wl.attempts = {} THEN "live" ELSE "none"]
  /\ conn = [c \in Conns |-> NoConn]
  /\ stream = [x \in Streams |-> NoStream]
  /\ check = {}
  /\ free = [p \in Procs |-> wl.slots]
  /\ acts = [p \in Procs |-> 0]

-----------------------------------------------------------------------------
(* Shutdown. *)

Draining(p) == phase[p] # "up"
Forced(p) == phase[p] \in {"forced", "dirty"}

\* enter: admission is refused once draining began.
\* Mutant: the flag is not looked at.
AdmitsAlways(p) == phase[p] # "down"
Admits(p) == phase[p] = "up"

\* Activity guards taken (n > 0) and dropped.
Guards(p, n) == acts' = [acts EXCEPT ![p] = @ + n]
Permits(p, n) == free' = [free EXCEPT ![p] = @ + n]

Signal(p) ==
  /\ "drain" \in wl.events
  /\ phase[p] = "up"
  /\ phase' = [phase EXCEPT ![p] = "drain"]
  /\ UNCHANGED <<wl, staging, logins, cleared, boots, sess, conn, stream, check, free, acts>>

\* finish: idle, or its two timeouts.
FinishIdle(p) ==
  /\ phase[p] \in {"drain", "forced"}
  /\ acts[p] = 0
  /\ phase' = [phase EXCEPT ![p] = "clean"]
  /\ UNCHANGED <<wl, staging, logins, cleared, boots, sess, conn, stream, check, free, acts>>

\* Mutant: finish waits for the last Activity without a deadline.
FinishTimeoutNever(p) == FALSE /\ UNCHANGED vars

FinishTimeout(p) ==
  /\ phase[p] \in {"drain", "forced"}
  /\ acts[p] > 0
  /\ phase' = [phase EXCEPT ![p] = IF @ = "drain" THEN "forced" ELSE "dirty"]
  /\ UNCHANGED <<wl, staging, logins, cleared, boots, sess, conn, stream, check, free, acts>>

JobRuns(p) ==
  \/ \E c \in Conns : ProcOf[c] = p /\ conn[c].pc \in {"job", "held"}
  \/ \E x \in Streams : ProcOf[x] = p /\ stream[x].pc \in {"probe", "read", "orphan"}
  \/ \E c \in check : ProcOf[c] = p
  \/ p = Gate /\ \E a \in Attempts : att[a].pc \in {"job", "verify"}

\* Every trace of process p in the tasks of the runtime.
TasksGone(p) ==
  /\ phase' = [phase EXCEPT ![p] = "down"]
  /\ sess' = [s \in Sessions |-> IF ProcOf[s] = p /\ sess[s] # "none" THEN "gone" ELSE sess[s]]
  /\ conn' = [c \in Conns |->
       IF ProcOf[c] = p /\ conn[c].pc # "none" THEN [NoConn EXCEPT !.pc = "closed"] ELSE conn[c]]
  /\ stream' = [x \in Streams |->
       IF ProcOf[x] = p /\ stream[x].pc # "none" THEN [NoStream EXCEPT !.pc = "end"] ELSE stream[x]]
  /\ check' = {c \in check : ProcOf[c] # p}
  /\ free' = [free EXCEPT ![p] = wl.slots]
  /\ acts' = [acts EXCEPT ![p] = 0]
  /\ IF p = Gate THEN LimiterLost ELSE UNCHANGED logins

\* main returns: the runtime drops its tasks, their uploads with them, and
\* waits for the blocking jobs; the static PENDING is never dropped.
Exit(p) ==
  /\ phase[p] \in {"clean", "dirty"}
  /\ ~JobRuns(p)
  /\ \A c \in Conns : ProcOf[c] = p => conn[c].pc # "drop"
  /\ LET mine == UNION {active[c] : c \in {d \in Conns : ProcOf[d] = p}} IN
     /\ file' = [t \in Transfers |-> IF t \in mine THEN NoFile ELSE file[t]]
     /\ lease' = [t \in Transfers |->
          IF t \in mine THEN NoLease
          ELSE IF lease[t].owner = p THEN [lease[t] EXCEPT !.owner = None] ELSE lease[t]]
  /\ active' = [c \in Conns |-> IF ProcOf[c] = p THEN {} ELSE active[c]]
  /\ pending' = [pending EXCEPT ![p] = {}]
  /\ lapsed' = lapsed \ pending[p]
  /\ mem' = [mem EXCEPT ![p] = NoMemory]
  /\ TasksGone(p)
  /\ UNCHANGED <<wl, up, cleared, boots>>

Crash(p) ==
  /\ "crash" \in wl.events
  /\ phase[p] # "down"
  /\ ProcessGone(p)
  /\ TasksGone(p)
  /\ UNCHANGED <<wl, cleared, boots>>

\* A new process under the same name; it knows nothing of the old one.
Restart(p) ==
  /\ "restart" \in wl.events
  /\ phase[p] = "down"
  /\ boots[p] < MaxBoots
  /\ phase' = [phase EXCEPT ![p] = "up"]
  /\ cleared' = [cleared EXCEPT ![p] = FALSE]
  /\ boots' = [boots EXCEPT ![p] = @ + 1]
  /\ UNCHANGED <<wl, staging, logins, sess, conn, stream, check, free, acts>>

-----------------------------------------------------------------------------
(* The session store, the expiry task and the leases. *)

SessionFound(s) == sess[s] \in {"live", "denied"}
Allowed(s) == sess[s] = "live"

\* classify: the idle or absolute lifetime of a session has passed.
SessionExpires(s) ==
  /\ "expire" \in wl.events
  /\ SessionFound(s)
  /\ sess' = [sess EXCEPT ![s] = "expired"]
  /\ UNCHANGED <<wl, staging, logins, phase, cleared, boots, conn, stream, check, free, acts>>

\* A reloaded configuration no longer allows the account.
PolicyDenies(s) ==
  /\ "deny" \in wl.events
  /\ sess[s] = "live"
  /\ sess' = [sess EXCEPT ![s] = "denied"]
  /\ UNCHANGED <<wl, staging, logins, phase, cleared, boots, conn, stream, check, free, acts>>

\* logout_handler, session_handler and the account endpoints revoke.
SessionRevoked(s) ==
  /\ "revoke" \in wl.events
  /\ SessionFound(s)
  /\ phase[ProcOf[s]] # "down"
  /\ sess' = [sess EXCEPT ![s] = "revoked"]
  /\ UNCHANGED <<wl, staging, logins, phase, cleared, boots, conn, stream, check, free, acts>>

\* Mutant: without a session to drop, PENDING is not looked at.
ExpiryTickSessionsOnly(p) ==
  LET out == {s \in Sessions : ProcOf[s] = p /\ sess[s] \in {"denied", "expired"}}
  IN /\ phase[p] = "up" /\ out # {}
     /\ Purged(p, UNION {OfSession(s) : s \in out})
     /\ sess' = [s \in Sessions |-> IF s \in out THEN "gone" ELSE sess[s]]
     /\ UNCHANGED <<wl, logins, phase, cleared, boots, conn, stream, check, free, acts>>

\* The expiry task, every second: lapsed uploads go, then the sessions no
\* longer allowed and the expired ones, each with its suspended uploads.
\* take_expired also drops revoked sessions, but does not return them.
ExpiryTick(p) ==
  LET out == {s \in Sessions : ProcOf[s] = p /\ sess[s] \in {"denied", "expired"}}
      dropped == {s \in Sessions : ProcOf[s] = p /\ sess[s] = "revoked"}
  IN /\ phase[p] = "up"
     /\ out \cup dropped # {} \/ pending[p] \cap lapsed # {}
     /\ Purged(p, UNION {OfSession(s) : s \in out})
     /\ sess' = [s \in Sessions |-> IF s \in out \cup dropped THEN "gone" ELSE sess[s]]
     /\ UNCHANGED <<wl, logins, phase, cleared, boots, conn, stream, check, free, acts>>

LimiterTick(p) ==
  /\ phase[p] = "up"
  /\ LimiterSwept /\ limiter' # limiter
  /\ UNCHANGED <<wl, staging, now, limits, att, guessed, web>>

\* The expiry task meets the drain.
ClearPending(p) ==
  /\ phase[p] \in {"drain", "forced", "clean", "dirty"}
  /\ ~cleared[p]
  /\ Purged(p, pending[p])
  /\ cleared' = [cleared EXCEPT ![p] = TRUE]
  /\ UNCHANGED <<wl, logins, phase, boots, sess, conn, stream, check, free, acts>>

\* expires of a suspended upload passes.
UploadLapses(p, t) ==
  /\ t \in pending[p] \ lapsed
  /\ lapsed' = lapsed \cup {t}
  /\ UNCHANGED <<wl, file, lease, up, active, pending, mem, logins, web>>

LeaseStands == {"idle", "wait", "job", "held", "done", "close"}

\* with_shutdown: the poll of a lease finds the session dead or shutdown forced.
LeasePoll(c) ==
  /\ conn[c].pc \in LeaseStands /\ ~conn[c].cut
  /\ ~SessionFound(conn[c].sess) \/ Forced(ProcOf[c])
  /\ conn' = [conn EXCEPT ![c].cut = TRUE]
  /\ UNCHANGED <<wl, staging, logins, phase, cleared, boots, sess, stream, check, free, acts>>

StreamLeasePoll(x) ==
  /\ stream[x].pc \in {"first", "probe", "ready", "wait", "read"} /\ ~stream[x].cut
  /\ ~SessionFound(stream[x].sess) \/ Forced(ProcOf[x])
  /\ stream' = [stream EXCEPT ![x].cut = TRUE]
  /\ UNCHANGED <<wl, staging, logins, phase, cleared, boots, sess, conn, check, free, acts>>

\* with_shutdown_for_session: the grant is validated again in a blocking job
\* that holds no Activity.
ValidationStarts(c) ==
  /\ "validate" \in wl.events
  /\ conn[c].pc \in LeaseStands /\ ~conn[c].cut /\ c \notin check
  /\ check' = check \cup {c}
  /\ UNCHANGED <<wl, staging, logins, phase, cleared, boots, sess, conn, stream, free, acts>>

\* Its answer; a grant refused revokes the session, if the lease still stands.
ValidationEnds(c, valid) ==
  /\ c \in check
  /\ check' = check \ {c}
  /\ IF valid \/ conn[c].pc \notin LeaseStands THEN UNCHANGED <<sess, conn>>
     ELSE /\ sess' = [sess EXCEPT ![conn[c].sess] = IF SessionFound(conn[c].sess) THEN "revoked" ELSE @]
          /\ conn' = [conn EXCEPT ![c].cut = TRUE]
  /\ UNCHANGED <<wl, staging, logins, phase, cleared, boots, stream, free, acts>>

-----------------------------------------------------------------------------
(* Connections. *)

\* Connections, streams and attempts of one process differ by name only: the
\* next one to come is any one that has not come yet.
NextOf(S) == {x \in S : x = CHOOSE y \in S : TRUE}
Unborn(p) == {c \in wl.conns : ProcOf[c] = p /\ conn[c].pc = "none"}

NotConn == <<wl, logins, phase, cleared, boots, sess, stream, check>>
To(c, pc) == conn' = [conn EXCEPT ![c].pc = pc]

\* websocket_upgrade of a session named by a cookie: shutdown_admission,
\* accept_session_bound_upgrade, then the Activity of the socket.
Upgrade(c, s) ==
  /\ c \in NextOf(Unborn(ProcOf[c]))
  /\ ProcOf[s] = ProcOf[c] /\ Admits(ProcOf[c])
  /\ Allowed(s)
  /\ conn' = [conn EXCEPT ![c].pc = "idle", ![c].sess = s]
  /\ Guards(ProcOf[c], 1)
  /\ UNCHANGED <<NotConn, staging, free>>

\* auth::upgrade: a socket without a session takes a pre-auth permit.
PreAuth(c) ==
  /\ "preauth" \in wl.events
  /\ c \in NextOf(Unborn(ProcOf[c]))
  /\ Admits(ProcOf[c])
  /\ Cardinality({d \in Conns : ProcOf[d] = ProcOf[c] /\ conn[d].pc = "auth"}) < PreAuthSlots
  /\ To(c, "auth")
  /\ Guards(ProcOf[c], 1)
  /\ UNCHANGED <<NotConn, staging, free>>

\* authenticate_socket: a session of the cookie or of a login is read back and
\* validated; the pre-auth permit goes.
Authenticated(c, s) ==
  /\ conn[c].pc = "auth"
  /\ ProcOf[s] = ProcOf[c] /\ Allowed(s)
  /\ conn' = [conn EXCEPT ![c].pc = "idle", ![c].sess = s]
  /\ UNCHANGED <<NotConn, staging, free, acts>>

\* ... or it ends: draining, the 60 s deadline, five attempts, a bad frame.
PreAuthEnds(c) ==
  /\ conn[c].pc = "auth"
  /\ To(c, "closed")
  /\ Guards(ProcOf[c], -1)
  /\ UNCHANGED <<NotConn, staging, free>>

\* handle_socket_connection, the select of the loop: draining or the lease.
LoopBreaks(c) ==
  /\ conn[c].pc = "idle"
  /\ Draining(ProcOf[c]) \/ conn[c].cut
  /\ To(c, "close")
  /\ UNCHANGED <<NotConn, staging, free, acts>>

\* ... the peer leaves, or sends a Close or a Text frame. A Ping is answered and
\* a Pong touches the session inside the loop; neither ends it, and the wait for
\* a Pong to be sent is not a state of the model.
PeerLeaves(c) ==
  /\ "leave" \in wl.events
  /\ conn[c].pc = "idle"
  /\ To(c, "close")
  /\ UNCHANGED <<NotConn, staging, free, acts>>

\* ... a frame: the session must be found and allowed, then a slot is awaited.
Receives(c, k, t) ==
  /\ conn[c].pc = "idle"
  /\ k \in wl.kinds
  /\ IF k \in {"other", "begin"} THEN t = None ELSE t \in wl.transfers /\ ~Fresh(t)
  /\ IF Allowed(conn[c].sess)
     THEN conn' = [conn EXCEPT ![c].pc = "wait", ![c].kind = k, ![c].t = t]
     ELSE To(c, "close")
  /\ UNCHANGED <<NotConn, staging, free, acts>>

\* Mutant: the lease is not watched while the permit is awaited.
WaitBreaksOnDrain(c) ==
  /\ conn[c].pc = "wait"
  /\ Draining(ProcOf[c])
  /\ To(c, "close")
  /\ UNCHANGED <<NotConn, staging, free, acts>>

\* The select for the permit.
WaitBreaks(c) ==
  /\ conn[c].pc = "wait"
  /\ Draining(ProcOf[c]) \/ conn[c].cut
  /\ To(c, "close")
  /\ UNCHANGED <<NotConn, staging, free, acts>>

\* The permit came: the job starts, owning permit and Activity, unless
\* draining has begun.
JobStarts(c) ==
  LET p == ProcOf[c] IN
  /\ conn[c].pc = "wait"
  /\ free[p] > 0
  /\ IF Admits(p) THEN To(c, "job") /\ Permits(p, -1) /\ Guards(p, 1)
     ELSE To(c, "close") /\ UNCHANGED <<free, acts>>
  /\ UNCHANGED <<NotConn, staging>>

\* The blocking closure returns: its guards go with it.
JobReturns(c) ==
  /\ conn' = [conn EXCEPT ![c].pc = "done", ![c].kind = "other", ![c].t = None]
  /\ Permits(ProcOf[c], 1)
  /\ Guards(ProcOf[c], -1)
  /\ UNCHANGED NotConn

InJob(c, k) == conn[c].pc = "job" /\ conn[c].kind = k

\* Every request that touches no upload, and every refusal.
JobOther(c) ==
  /\ conn[c].pc = "job"
  /\ conn[c].kind # "end" \/ conn[c].t \notin active[c]
  /\ JobReturns(c)
  /\ UNCHANGED staging

JobReserves(c) ==
  /\ InJob(c, "begin")
  /\ \E t \in NextOf({x \in wl.transfers : Fresh(x)}), n \in wl.totals, keep \in wl.keeps :
       /\ BeginReserves(c, conn[c].sess, t, n, keep)
       /\ conn' = [conn EXCEPT ![c].pc = "held", ![c].t = t]
  /\ UNCHANGED <<NotConn, free, acts>>

JobCreates(c) ==
  /\ conn[c].pc = "held" /\ conn[c].kind = "begin"
  /\ BeginCreates(c, conn[c].t) \/ BeginFails(c, conn[c].t)
  /\ JobReturns(c)

JobWrites(c) ==
  /\ InJob(c, "chunk")
  /\ \E n \in 1..MaxTotal :
       \/ ChunkWritten(c, conn[c].t, n)
       \/ "torn" \in wl.events /\ \E k \in 1..(n - 1) : ChunkTorn(c, conn[c].t, n, k)
  /\ JobReturns(c)

JobEnds(c) ==
  /\ InJob(c, "end")
  /\ EndTakes(c, conn[c].t)
  /\ To(c, "held")
  /\ UNCHANGED <<NotConn, free, acts>>

\* The helper published it or not (Operations), or it was not complete.
JobCommits(c) ==
  /\ conn[c].pc = "held" /\ conn[c].kind = "end"
  /\ EndCleans(c, conn[c].t)
  /\ JobReturns(c)

JobAborts(c) ==
  /\ InJob(c, "abort")
  /\ Aborts(c, conn[c].sess, conn[c].t)
  /\ JobReturns(c)

JobResumes(c) ==
  /\ InJob(c, "resume")
  /\ \E admitted \in BOOLEAN : Takes(c, conn[c].sess, conn[c].t, admitted)
  /\ JobReturns(c)

\* The answer is sent: the loop goes on, or ends when the lease was cut, the
\* send failed (always once forced) or the error was one of the protocol.
Delivers(c, pc) ==
  /\ conn[c].pc = "done"
  /\ pc = "idle" => ~conn[c].cut /\ ~Forced(ProcOf[c])
  /\ pc = "close" => conn[c].cut \/ Forced(ProcOf[c]) \/ "leave" \in wl.events
  /\ To(c, pc)
  /\ UNCHANGED <<NotConn, staging, free, acts>>

\* Drop of UploadCleanup: is_draining is read, then the uploads are suspended
\* or removed.  The Activity of the socket goes last.
CloseReads(c) ==
  /\ conn[c].pc = "close"
  /\ conn' = [conn EXCEPT ![c].pc = "drop",
                          ![c].kept = Retained(c, Draining(ProcOf[c]))]
  /\ UNCHANGED <<NotConn, staging, free, acts>>

CloseDrops(c) ==
  /\ conn[c].pc = "drop"
  /\ Suspends(c, conn[c].kept)
  /\ conn' = [conn EXCEPT ![c] = [NoConn EXCEPT !.pc = "closed", !.sess = conn[c].sess]]
  /\ Guards(ProcOf[c], -1)
  /\ UNCHANGED <<NotConn, free>>

-----------------------------------------------------------------------------
(* Download streams. *)

NotStream == <<wl, staging, logins, phase, cleared, boots, sess, conn, check>>
StreamTo(x, pc) == stream' = [stream EXCEPT ![x].pc = pc]

\* shutdown_admission takes the Activity that the body keeps to its end.
StreamOpens(x, s) ==
  /\ x \in wl.streams /\ stream[x].pc = "none"
  /\ ProcOf[s] = ProcOf[x] /\ Admits(ProcOf[x]) /\ Allowed(s)
  /\ stream' = [stream EXCEPT ![x].pc = "first", ![x].sess = s]
  /\ Guards(ProcOf[x], 1)
  /\ UNCHANGED <<NotStream, free>>

\* serve_file_http: the probe for the size needs admission of its own.
StreamProbes(x) ==
  LET p == ProcOf[x] IN
  /\ stream[x].pc = "first"
  /\ free[p] > 0
  /\ IF Admits(p) THEN StreamTo(x, "probe") /\ Permits(p, -1) /\ Guards(p, 1)
     ELSE StreamTo(x, "end") /\ Guards(p, -1) /\ UNCHANGED free
  /\ UNCHANGED NotStream

\* create_helper_stream: the next chunk asks the store first ...
StreamTouches(x) ==
  /\ stream[x].pc = "ready"
  /\ IF SessionFound(stream[x].sess)
     THEN StreamTo(x, "wait") /\ UNCHANGED acts
     ELSE StreamTo(x, "end") /\ Guards(ProcOf[x], -1)
  /\ UNCHANGED <<NotStream, free>>

\* ... and, with its permit, the lease; enter_existing asks nobody.
StreamReads(x) ==
  LET p == ProcOf[x] IN
  /\ stream[x].pc = "wait"
  /\ free[p] > 0
  /\ IF stream[x].cut THEN StreamTo(x, "end") /\ Guards(p, -1) /\ UNCHANGED free
     ELSE StreamTo(x, "read") /\ Permits(p, -1) /\ Guards(p, 1)
  /\ UNCHANGED NotStream

\* The job returns: more to read, or the last chunk or an error.
StreamJobReturns(x, pc) ==
  /\ stream[x].pc \in {"probe", "read"}
  /\ StreamTo(x, pc)
  /\ Permits(ProcOf[x], 1)
  /\ Guards(ProcOf[x], IF pc = "end" THEN -2 ELSE -1)
  /\ UNCHANGED NotStream

\* Mutant: the guard of the running job goes with the body.
BodyDroppedWithJob(x) ==
  /\ Forced(ProcOf[x]) \/ "leave" \in wl.events
  /\ stream[x].pc \in {"first", "probe", "ready", "wait", "read"}
  /\ StreamTo(x, IF stream[x].pc \in {"probe", "read"} THEN "orphan" ELSE "end")
  /\ Guards(ProcOf[x], IF stream[x].pc \in {"probe", "read"} THEN -2 ELSE -1)
  /\ UNCHANGED <<NotStream, free>>

\* The body is dropped, by the client or by forced cancellation; a job of it
\* still runs, with its own guards.
BodyDropped(x) ==
  /\ Forced(ProcOf[x]) \/ "leave" \in wl.events
  /\ stream[x].pc \in {"first", "probe", "ready", "wait", "read"}
  /\ StreamTo(x, IF stream[x].pc \in {"probe", "read"} THEN "orphan" ELSE "end")
  /\ Guards(ProcOf[x], -1)
  /\ UNCHANGED <<NotStream, free>>

OrphanReturns(x) ==
  /\ stream[x].pc = "orphan"
  /\ StreamTo(x, "end")
  /\ Permits(ProcOf[x], 1)
  /\ Guards(ProcOf[x], -1)
  /\ UNCHANGED NotStream

-----------------------------------------------------------------------------
(* Logins. *)

NotLogin == <<wl, staging, phase, cleared, boots, conn, stream, check>>

\* A request reaches login_command_handler; its Activity lasts to the answer.
LoginArrives(a, u) ==
  /\ a \in NextOf({b \in wl.attempts : att[b].pc = "none"})
  /\ Admits(Gate)
  /\ \/ Arrives(a, u) /\ Guards(Gate, 1)
     \/ "deny" \in wl.events /\ ArrivesDenied(a, u) /\ UNCHANGED acts
     \/ Refused(a, u) /\ UNCHANGED acts
  /\ UNCHANGED <<NotLogin, sess, free>>

LoginStarts(a) ==
  /\ att[a].pc = "queued"
  /\ free[Gate] > 0
  /\ IF Admits(Gate)
     THEN /\ att' = [att EXCEPT ![a].pc = "job"]
          /\ Permits(Gate, -1) /\ Guards(Gate, 1)
          /\ UNCHANGED <<now, limiter, limits, guessed>>
     ELSE Ends(a) /\ Guards(Gate, -1) /\ UNCHANGED free
  /\ UNCHANGED <<NotLogin, sess>>

LoginReserves(a) ==
  /\ Reserves(a)
  /\ UNCHANGED <<NotLogin, sess, free, acts>>

\* The helper answers RateLimited, or dies.
LoginUnanswered(a) ==
  /\ \/ att[a].pc = "job" /\ ~Open(att[a].user)
     \/ "die" \in wl.events /\ att[a].pc \in {"job", "verify"}
  /\ Ends(a)
  /\ Permits(Gate, 1) /\ Guards(Gate, -2)
  /\ UNCHANGED <<NotLogin, sess>>

LoginVerifies(a) ==
  /\ \E right \in BOOLEAN : Verifies(a, right)
  /\ Permits(Gate, 1) /\ Guards(Gate, -1)
  /\ UNCHANGED <<NotLogin, sess>>

LoginFails(a) ==
  /\ RecordsFailure(a)
  /\ Guards(Gate, -1)
  /\ UNCHANGED <<NotLogin, sess, free>>

\* The current configuration is asked again; then the session is created with
\* its grant, or the failure counts.
LoginSucceeds(a, s) ==
  /\ ProcOf[s] = Gate /\ sess[s] = "none"
  /\ RecordsSuccess(a)
  /\ sess' = [sess EXCEPT ![s] = "live"]
  /\ Guards(Gate, -1)
  /\ UNCHANGED <<NotLogin, free>>

LoginDenied(a) ==
  /\ "deny" \in wl.events
  /\ att[a].pc = "right"
  /\ FailureRecorded(att[a].user, att[a].at)
  /\ att' = [att EXCEPT ![a].pc = "done"]
  /\ Guards(Gate, -1)
  /\ UNCHANGED <<NotLogin, sess, free, now, limits, guessed>>

ClockTicks ==
  /\ wl.attempts # {}
  /\ Ticks
  /\ UNCHANGED <<wl, staging, web>>

-----------------------------------------------------------------------------
Job(c) == JobOther(c) \/ JobReserves(c) \/ JobCreates(c) \/ JobWrites(c)
          \/ JobEnds(c) \/ JobCommits(c) \/ JobAborts(c) \/ JobResumes(c)

Next ==
  \/ \E p \in Procs :
       \/ Signal(p) \/ FinishIdle(p) \/ FinishTimeout(p) \/ Exit(p)
       \/ Crash(p) \/ Restart(p)
       \/ ExpiryTick(p) \/ LimiterTick(p) \/ ClearPending(p)
       \/ \E t \in Transfers : UploadLapses(p, t)
  \/ \E s \in Sessions : SessionExpires(s) \/ PolicyDenies(s) \/ SessionRevoked(s)
  \/ \E c \in Conns :
       \/ LeasePoll(c) \/ ValidationStarts(c)
       \/ \E valid \in BOOLEAN : ValidationEnds(c, valid)
       \/ \E s \in Sessions : Upgrade(c, s) \/ Authenticated(c, s)
       \/ PreAuth(c) \/ PreAuthEnds(c)
       \/ LoopBreaks(c) \/ PeerLeaves(c) \/ WaitBreaks(c) \/ JobStarts(c)
       \/ \E k \in Kinds, t \in Transfers \cup {None} : Receives(c, k, t)
       \/ JobOther(c) \/ JobReserves(c) \/ JobCreates(c) \/ JobWrites(c)
       \/ JobEnds(c) \/ JobCommits(c) \/ JobAborts(c) \/ JobResumes(c)
       \/ \E pc \in {"idle", "close"} : Delivers(c, pc)
       \/ CloseReads(c) \/ CloseDrops(c)
  \/ \E x \in Streams :
       \/ StreamLeasePoll(x)
       \/ \E s \in Sessions : StreamOpens(x, s)
       \/ StreamProbes(x) \/ StreamTouches(x) \/ StreamReads(x)
       \/ \E pc \in {"ready", "end"} : StreamJobReturns(x, pc)
       \/ BodyDropped(x) \/ OrphanReturns(x)
  \/ \E a \in Attempts :
       \/ \E u \in Users : LoginArrives(a, u)
       \/ LoginStarts(a) \/ LoginReserves(a) \/ LoginUnanswered(a)
       \/ LoginVerifies(a) \/ LoginFails(a) \/ LoginDenied(a)
       \/ \E s \in Sessions : LoginSucceeds(a, s)
  \/ ClockTicks

Spec == Init /\ [][Next]_vars

(* Fairness: timers fire (leases, the expiry task, deadlines), the runtime    *)
(* runs what is ready, and a helper job ends by its timeout.  Nothing is      *)
(* assumed of the peer, who may leave an answer in the socket and a download  *)
(* unread for ever until cancellation is forced, nor of who gets a permit.    *)
ForcedAnswer(c) == Forced(ProcOf[c]) /\ Delivers(c, "close")
ForcedBody(x) == Forced(ProcOf[x]) /\ BodyDropped(x)

Finishing(p) == FinishIdle(p) \/ FinishTimeout(p) \/ Exit(p)
Expiry(p) == ClearPending(p) \/ ExpiryTick(p)
ConnTask(c) ==
  \/ PreAuthEnds(c) \/ LoopBreaks(c) \/ WaitBreaks(c)
  \/ Job(c) \/ ForcedAnswer(c) \/ CloseReads(c) \/ CloseDrops(c)
StreamTask(x) ==
  \/ \E pc \in {"ready", "end"} : StreamJobReturns(x, pc)
  \/ ForcedBody(x) \/ OrphanReturns(x)

Fairness ==
  /\ \A p \in Procs :
       /\ WF_vars(Finishing(p)) /\ WF_vars(Expiry(p))
       /\ WF_vars(\E t \in Transfers : UploadLapses(p, t))
  /\ \A c \in Conns :
       /\ WF_vars(ConnTask(c)) /\ WF_vars(LeasePoll(c))
       /\ WF_vars(\E valid \in BOOLEAN : ValidationEnds(c, valid))
  /\ \A x \in Streams : WF_vars(StreamTask(x)) /\ WF_vars(StreamLeasePoll(x))

FairSpec == Spec /\ Fairness

-----------------------------------------------------------------------------
(* Properties. *)

\* An upload that a live process accounts for is in one place: one connection,
\* PENDING or one job.  It has its lease, and the counter in memory is the sum
\* of what the process holds: no close, resume, abort, purge or failure leaks
\* a reservation or gives it back twice.
Holders(t) ==
  {<<"active", c>> : c \in {d \in Conns : t \in active[d]}}
  \cup {<<"pending", p>> : p \in {q \in Procs : t \in pending[q]}}
  \cup {<<"job", c>> : c \in {d \in Conns : conn[d].pc = "held" /\ conn[d].t = t}}
HeldBy(p) == {t \in Transfers : lease[t].owner = p}
StageHeldOnce ==
  /\ \A t \in Transfers : Cardinality(Holders(t)) = IF lease[t].owner = None THEN 0 ELSE 1
  /\ \A p \in Procs :
       mem[p] = [bytes |-> SumFunctionOnSet(Declared, HeldBy(p)),
                 transfers |-> Cardinality(HeldBy(p))]

\* An upload as its client sees it: held by a connection, which speaks for its
\* session; suspended; being published; or gone with its reservation.
Holds(t) == {c \in Conns : t \in active[c]}
StateOf(t) ==
  IF Fresh(t) THEN "fresh"
  ELSE IF Holds(t) # {} THEN "open"
  ELSE IF \E p \in Procs : t \in pending[p] THEN "parked"
  ELSE IF lease[t].owner = None THEN "over"
  ELSE IF file[t] = NoFile THEN "fresh" ELSE "ending"
SessionOf(t) == IF StateOf(t) = "open" THEN conn[CHOOSE c \in Holds(t) : TRUE].sess ELSE up[t].sess
SeenUpload(t) ==
  IF StateOf(t) \in {"fresh", "over"} THEN [state |-> StateOf(t), owner |-> None, acked |-> 0]
  ELSE [state |-> StateOf(t), owner |-> SessionOf(t), acked |-> up[t].got]

Promise == INSTANCE Transfer WITH MaxBytes <- MaxTotal, upload <- [t \in Transfers |-> SeenUpload(t)]

\* The server implements Transfer: through suspension, resumption by other
\* connections, purges, shutdown and crashes an upload stays with its session
\* and keeps what was acknowledged.
TransferPromise == Promise!Spec

\* A shutdown that finish reports clean has no connection open and no
\* operation, download or login job running: none slipped in after the last
\* guard was counted, orphans of dropped bodies included.
CleanMeansIdle ==
  \A p \in Procs : phase[p] = "clean" =>
    /\ \A c \in Conns : ProcOf[c] = p => conn[c].pc \in {"none", "closed"}
    /\ \A x \in Streams : ProcOf[x] = p => stream[x].pc \in {"none", "end"}
    /\ p = Gate => \A a \in Attempts : att[a].pc \in {"none", "done"}

\* The answer to an attempt for u: record_success clears its entry; a failure is
\* counted under the time at which the request came in.
AnsweredFor(a, u) ==
  /\ att[a].user = u /\ att'[a].pc = "done"
  /\ \/ att[a].pc = "right" /\ limiter'[u] = NoEntry
     \/ att[a].pc \in {"wrong", "right"} /\ limiter'[u] = [n |-> limiter[u].n + 1, at |-> att[a].at]

\* An active lockout of the limiter in memory is neither lost nor shortened by
\* failures for other names, by evictions from the full table or by the sweep.
\* Until its time is over or the process ends, only the answer to an attempt for
\* that very name touches it: a right password ends it, and a slow wrong one
\* dates it back to its own arrival (login.rs:119), so that it ends earlier.
LockoutKept ==
  [][\A u \in Users :
       Limited(limiter, u, now) /\ now' = now /\ phase'[Gate] = phase[Gate]
       => limiter'[u] = limiter[u] \/ \E a \in Attempts : AnsweredFor(a, u)]_vars

\* A connection whose session is gone is let go, whatever it waits for; only
\* an answer its peer does not read keeps it, with nothing left to do.
DeadSessionsLetGo ==
  \A c \in Conns :
    conn[c].pc \in LeaseStands /\ ~SessionFound(conn[c].sess) ~> conn[c].pc \in {"done", "closed"}

\* A shutdown ends, however connections, downloads and jobs stall.
ShutdownEnds == \A p \in Procs : phase[p] = "drain" ~> phase[p] = "down"

\* No upload stays suspended for ever, also when its session was purged before
\* its connection suspended it.
SuspendedGo == \A p \in Procs, t \in Transfers : t \in pending[p] ~> t \notin pending[p]
=============================================================================
