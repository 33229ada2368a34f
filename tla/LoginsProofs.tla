---------------------------- MODULE LoginsProofs ----------------------------
(***************************************************************************)
(* Theorems about the login limits, as Server runs them: for any number of *)
(* attempts, usernames and limits, through crashes and restarts of the     *)
(* server and of the helper.                                               *)
(***************************************************************************)
EXTENDS Server, FiniteSetTheorems, TLAPS

AttRec == [pc : {"none", "queued", "job", "verify", "wrong", "right", "done"},
           user : Keys, at : 0..MaxTime, held : [Keys -> Deadlines]]
EntryRec == [n : Nat, at : 0..MaxTime]
RowRec == [n : Nat, until : Deadlines]

\* An attempt under way names a user, and nothing is dated after now.
Dated ==
  /\ \A a \in Attempts : /\ att[a].pc \notin {"none", "done"} => att[a].user \in Users
                         /\ att[a].at <= now
  /\ \A u \in Users : limiter[u].at <= now

LoginsInv ==
  /\ LoginsTypeOK /\ Dated
  /\ phase \in [Procs -> {"up", "drain", "forced", "clean", "dirty", "down"}]

-----------------------------------------------------------------------------
(* What the steps of Server do to the logins. *)

\* An attempt starts its job.
GetsSlot(a) ==
  /\ att[a].pc = "queued"
  /\ att' = [att EXCEPT ![a].pc = "job"] /\ UNCHANGED <<now, limiter, limits, guessed>>

\* A failure is counted after the password was right: the policy changed.
DeniedLate(a) ==
  /\ att[a].pc = "right"
  /\ FailureRecorded(att[a].user, att[a].at)
  /\ att' = [att EXCEPT ![a].pc = "done"] /\ UNCHANGED <<now, limits, guessed>>

AttemptStep(a) ==
  \/ \E u \in Users : Arrives(a, u) \/ ArrivesDenied(a, u) \/ Refused(a, u)
  \/ GetsSlot(a) \/ Ends(a) \/ Reserves(a)
  \/ \E right \in BOOLEAN : Verifies(a, right)
  \/ RecordsFailure(a) \/ RecordsSuccess(a) \/ DeniedLate(a)

LoginStep ==
  \/ UNCHANGED logins
  \/ LimiterLost /\ phase'[Gate] # phase[Gate]
  \/ LimiterSwept /\ UNCHANGED <<now, limits, att, guessed>>
  \/ Ticks
  \/ \E a \in Attempts : AttemptStep(a)

\* The login part of every step of the server is one of these.
LEMMA NextLogins == ASSUME LoginsInv, [Next]_vars PROVE LoginStep
<1>0. Gate \in Procs
  BY ServerConstants
<1>1. ASSUME NEW p \in Procs,
             Signal(p) \/ FinishIdle(p) \/ FinishTimeout(p) \/ Restart(p) \/ ExpiryTick(p) \/ ClearPending(p)
             \/ \E t \in Transfers : UploadLapses(p, t)
      PROVE  LoginStep
  BY <1>1 DEF Signal, FinishIdle, FinishTimeout, Restart, ExpiryTick, ClearPending, UploadLapses, LoginStep
<1>2. ASSUME NEW p \in Procs, Exit(p) \/ Crash(p) PROVE LoginStep
  <2>1. TasksGone(p) /\ phase[p] # "down"
    BY <1>2 DEF Exit, Crash
  <2>2. CASE p = Gate
    BY <1>0, <2>1, <2>2 DEF TasksGone, LoginStep, LoginsInv
  <2>3. CASE p # Gate
    BY <2>1, <2>3 DEF TasksGone, LoginStep
  <2>4. QED
    BY <2>2, <2>3
<1>3. ASSUME NEW p \in Procs, LimiterTick(p) PROVE LoginStep
  BY <1>3 DEF LimiterTick, LoginStep
<1>4. ASSUME NEW s \in Sessions, SessionExpires(s) \/ PolicyDenies(s) \/ SessionRevoked(s) PROVE LoginStep
  BY <1>4 DEF SessionExpires, PolicyDenies, SessionRevoked, LoginStep
<1>5. ASSUME NEW c \in Conns,
         \/ LeasePoll(c) \/ ValidationStarts(c)
         \/ \E valid \in BOOLEAN : ValidationEnds(c, valid)
         \/ \E s \in Sessions : Upgrade(c, s) \/ Authenticated(c, s)
         \/ PreAuth(c) \/ PreAuthEnds(c)
         \/ LoopBreaks(c) \/ PeerLeaves(c) \/ WaitBreaks(c) \/ JobStarts(c)
         \/ \E k \in Kinds, t \in Transfers \cup {None} : Receives(c, k, t)
         \/ \E pc \in {"idle", "close"} : Delivers(c, pc)
         \/ CloseReads(c) \/ CloseDrops(c)
      PROVE  LoginStep
  BY <1>5 DEF LeasePoll, ValidationStarts, ValidationEnds, Upgrade, Authenticated, PreAuth, PreAuthEnds,
              LoopBreaks, PeerLeaves, WaitBreaks, JobStarts, Receives, Delivers, CloseReads, CloseDrops,
              NotConn, LoginStep
<1>6. ASSUME NEW c \in Conns,
             JobOther(c) \/ JobReserves(c) \/ JobCreates(c) \/ JobWrites(c)
             \/ JobEnds(c) \/ JobCommits(c) \/ JobAborts(c) \/ JobResumes(c)
      PROVE  LoginStep
  BY <1>6 DEF JobOther, JobReserves, JobCreates, JobWrites, JobEnds, JobCommits, JobAborts, JobResumes,
              JobReturns, NotConn, LoginStep
<1>7. ASSUME NEW x \in Streams,
             \/ StreamLeasePoll(x)
             \/ \E s \in Sessions : StreamOpens(x, s)
             \/ StreamProbes(x) \/ StreamTouches(x) \/ StreamReads(x)
             \/ \E pc \in {"ready", "end"} : StreamJobReturns(x, pc)
             \/ BodyDropped(x) \/ OrphanReturns(x)
      PROVE  LoginStep
  BY <1>7 DEF StreamLeasePoll, StreamOpens, StreamProbes, StreamTouches, StreamReads,
              StreamJobReturns, BodyDropped, OrphanReturns, NotStream, LoginStep
<1>8. ASSUME NEW a \in Attempts,
             \/ \E u \in Users : LoginArrives(a, u)
             \/ LoginStarts(a) \/ LoginReserves(a) \/ LoginUnanswered(a)
             \/ LoginVerifies(a) \/ LoginFails(a) \/ LoginDenied(a)
             \/ \E s \in Sessions : LoginSucceeds(a, s)
      PROVE  AttemptStep(a)
  BY <1>8 DEF LoginArrives, LoginStarts, LoginReserves, LoginUnanswered, LoginVerifies, LoginFails,
              LoginDenied, LoginSucceeds, AttemptStep, GetsSlot, DeniedLate
<1>9. CASE ClockTicks
  BY <1>9 DEF ClockTicks, LoginStep
<1>10. CASE UNCHANGED vars
  BY <1>10 DEF vars, LoginStep
<1>11. QED
  BY <1>1, <1>2, <1>3, <1>4, <1>5, <1>6, <1>7, <1>8, <1>9, <1>10 DEF Next, LoginStep

\* The processes' phases are set in five places only.
LEMMA NextPhases ==
  ASSUME LoginsInv, [Next]_vars
  PROVE  phase' \in [Procs -> {"up", "drain", "forced", "clean", "dirty", "down"}]
<1> DEFINE Phases == {"up", "drain", "forced", "clean", "dirty", "down"}
<1>1. ASSUME NEW p \in Procs, NEW x \in Phases, phase' = [phase EXCEPT ![p] = x]
      PROVE  phase' \in [Procs -> Phases]
  BY <1>1 DEF LoginsInv
<1>2. ASSUME UNCHANGED phase PROVE phase' \in [Procs -> Phases]
  BY <1>2 DEF LoginsInv
<1>3. ASSUME NEW p \in Procs,
             Signal(p) \/ FinishIdle(p) \/ FinishTimeout(p) \/ Exit(p) \/ Crash(p) \/ Restart(p)
      PROVE  phase' \in [Procs -> Phases]
  <2>1. \E x \in Phases : phase' = [phase EXCEPT ![p] = x]
    BY <1>3 DEF Signal, FinishIdle, FinishTimeout, Exit, Crash, Restart, TasksGone
  <2>2. QED
    BY <1>1, <2>1
<1>4. ASSUME NEW p \in Procs,
             ExpiryTick(p) \/ LimiterTick(p) \/ ClearPending(p) \/ \E t \in Transfers : UploadLapses(p, t)
      PROVE  UNCHANGED phase
  BY <1>4 DEF ExpiryTick, LimiterTick, ClearPending, UploadLapses, web
<1>5. ASSUME NEW s \in Sessions, SessionExpires(s) \/ PolicyDenies(s) \/ SessionRevoked(s)
      PROVE  UNCHANGED phase
  BY <1>5 DEF SessionExpires, PolicyDenies, SessionRevoked
<1>6. ASSUME NEW c \in Conns,
         \/ LeasePoll(c) \/ ValidationStarts(c)
         \/ \E valid \in BOOLEAN : ValidationEnds(c, valid)
         \/ \E s \in Sessions : Upgrade(c, s) \/ Authenticated(c, s)
         \/ PreAuth(c) \/ PreAuthEnds(c)
         \/ LoopBreaks(c) \/ PeerLeaves(c) \/ WaitBreaks(c) \/ JobStarts(c)
         \/ \E k \in Kinds, t \in Transfers \cup {None} : Receives(c, k, t)
         \/ \E pc \in {"idle", "close"} : Delivers(c, pc)
         \/ CloseReads(c) \/ CloseDrops(c)
      PROVE  UNCHANGED phase
  BY <1>6 DEF LeasePoll, ValidationStarts, ValidationEnds, Upgrade, Authenticated, PreAuth, PreAuthEnds,
              LoopBreaks, PeerLeaves, WaitBreaks, JobStarts, Receives, Delivers, CloseReads, CloseDrops,
              NotConn
<1>7. ASSUME NEW c \in Conns,
             JobOther(c) \/ JobReserves(c) \/ JobCreates(c) \/ JobWrites(c)
             \/ JobEnds(c) \/ JobCommits(c) \/ JobAborts(c) \/ JobResumes(c)
      PROVE  UNCHANGED phase
  BY <1>7 DEF JobOther, JobReserves, JobCreates, JobWrites, JobEnds, JobCommits, JobAborts, JobResumes,
              JobReturns, NotConn
<1>8. ASSUME NEW x \in Streams,
             \/ StreamLeasePoll(x)
             \/ \E s \in Sessions : StreamOpens(x, s)
             \/ StreamProbes(x) \/ StreamTouches(x) \/ StreamReads(x)
             \/ \E pc \in {"ready", "end"} : StreamJobReturns(x, pc)
             \/ BodyDropped(x) \/ OrphanReturns(x)
      PROVE  UNCHANGED phase
  BY <1>8 DEF StreamLeasePoll, StreamOpens, StreamProbes, StreamTouches, StreamReads,
              StreamJobReturns, BodyDropped, OrphanReturns, NotStream
<1>9. ASSUME NEW a \in Attempts,
             \/ \E u \in Users : LoginArrives(a, u)
             \/ LoginStarts(a) \/ LoginReserves(a) \/ LoginUnanswered(a)
             \/ LoginVerifies(a) \/ LoginFails(a) \/ LoginDenied(a)
             \/ \E s \in Sessions : LoginSucceeds(a, s)
      PROVE  UNCHANGED phase
  BY <1>9 DEF LoginArrives, LoginStarts, LoginReserves, LoginUnanswered, LoginVerifies, LoginFails,
              LoginDenied, LoginSucceeds, NotLogin
<1>10. ASSUME ClockTicks \/ UNCHANGED vars PROVE UNCHANGED phase
  BY <1>10 DEF ClockTicks, vars, web
<1> HIDE DEF Phases
<1>11. phase' \in [Procs -> Phases]
  BY <1>2, <1>3, <1>4, <1>5, <1>6, <1>7, <1>8, <1>9, <1>10 DEF Next
<1>12. QED
  BY <1>11 DEF Phases

-----------------------------------------------------------------------------
(* The limiter in memory. *)

\* A failure at a time t that has passed: the table keeps its type, nothing
\* is dated after now, and an active lockout is left alone, but that of the very
\* name, which gets one more failure and the time t.
LEMMA Recorded ==
  ASSUME LoginsInv, NEW u \in Users, NEW t \in 0..MaxTime, t <= now, FailureRecorded(u, t)
  PROVE  /\ limiter' \in [Users -> EntryRec]
         /\ \A v \in Users : limiter'[v].at <= now
         /\ \A v \in Users : Limited(limiter, v, now) =>
              limiter'[v] = IF v = u THEN [n |-> limiter[u].n + 1, at |-> t] ELSE limiter[v]
<1> DEFINE OK(l) == /\ l \in [Users -> EntryRec]
                    /\ \A v \in Users : l[v].at <= now
                    /\ \A v \in Users : Limited(limiter, v, now) => l[v] = limiter[v]
           Done(l) == /\ l \in [Users -> EntryRec]
                      /\ \A v \in Users : l[v].at <= now
                      /\ \A v \in Users : Limited(limiter, v, now) =>
                           l[v] = IF v = u THEN [n |-> limiter[u].n + 1, at |-> t] ELSE limiter[v]
<1>0. /\ MaxFailures \in Nat /\ MaxFailures > 0 /\ Lockout \in Nat /\ MaxTime \in Nat
      /\ now \in 0..MaxTime /\ limiter \in [Users -> EntryRec] /\ \A v \in Users : limiter[v].at <= now
  BY LoginsConstants DEF LoginsInv, LoginsTypeOK, Dated, EntryRec
<1>1. NoEntry \in EntryRec /\ NoEntry.at = 0 /\ NoEntry.n = 0
  BY <1>0 DEF NoEntry, EntryRec
<1>2. ASSUME NEW v \in Users
      PROVE  /\ limiter[v].n \in Nat /\ limiter[v].at \in Nat
             /\ Limited(limiter, v, now) => limiter[v].n >= MaxFailures /\ t - limiter[v].at <= Lockout
  <2>1. limiter[v].n \in Nat /\ limiter[v].at \in Nat /\ limiter[v].at <= now
    BY <1>0 DEF EntryRec
  <2>2. QED
    BY <1>0, <2>1 DEF Limited
<1>3. OK(limiter)
  BY <1>0
<1>4. OK(Swept(limiter, t))
  <2>1. Swept(limiter, t) \in [Users -> EntryRec]
    BY <1>0, <1>1 DEF Swept
  <2>2. \A v \in Users : Swept(limiter, t)[v] = IF t - limiter[v].at <= Lockout THEN limiter[v] ELSE NoEntry
    BY DEF Swept
  <2>3. QED
    BY <1>0, <1>1, <1>2, <2>1, <2>2
<1>5. ASSUME NEW l, OK(l) PROVE Done(Counted(l, u, t))
  <2> DEFINE e == IF l[u].n = 0 \/ (t >= l[u].at /\ t - l[u].at > Lockout)
                  THEN [n |-> 1, at |-> t] ELSE [n |-> l[u].n + 1, at |-> t]
  <2>1. Counted(l, u, t) = [l EXCEPT ![u] = e]
    BY DEF Counted
  <2>2. e \in EntryRec /\ e.at = t
    <3>1. l[u].n \in Nat
      BY <1>5 DEF EntryRec
    <3>2. QED
      BY <3>1 DEF EntryRec
  <2>3. Limited(limiter, u, now) => e = [n |-> limiter[u].n + 1, at |-> t]
    BY <1>0, <1>2, <1>5
  <2> HIDE DEF e
  <2>4. Counted(l, u, t)[u] = e /\ \A v \in Users : v # u => Counted(l, u, t)[v] = l[v]
    BY <1>5, <2>1
  <2>5. Counted(l, u, t) \in [Users -> EntryRec]
    BY <1>5, <2>1, <2>2
  <2>6. QED
    BY <1>5, <2>2, <2>3, <2>4, <2>5
<1>6. ASSUME NEW l, OK(l), NEW v \in Evictable(l) PROVE OK([l EXCEPT ![v] = NoEntry])
  <2>1. v \in Users /\ l[v].n < MaxFailures
    BY DEF Evictable, Entries
  <2>2. ~Limited(limiter, v, now)
    BY <1>0, <1>2, <1>6, <2>1
  <2>3. [l EXCEPT ![v] = NoEntry] \in [Users -> EntryRec]
    BY <1>1, <1>6
  <2>4. /\ [l EXCEPT ![v] = NoEntry][v] = NoEntry
        /\ \A w \in Users : w # v => [l EXCEPT ![v] = NoEntry][w] = l[w]
    BY <1>6, <2>1
  <2>5. QED
    BY <1>0, <1>1, <1>6, <2>2, <2>3, <2>4
<1>7. ASSUME NEW l, OK(l), l[u].n = 0 PROVE Done(l)
  BY <1>0, <1>2, <1>7
<1>8. PICK l : /\ l \in {limiter, Swept(limiter, t)}
               /\ \/ limiter' = Counted(l, u, t)
                  \/ limiter' = l /\ l[u].n = 0
                  \/ \E v \in Evictable(l) : limiter' = Counted([l EXCEPT ![v] = NoEntry], u, t)
  BY DEF FailureRecorded, Oldest
<1>9. OK(l)
  BY <1>3, <1>4, <1>8
<1> HIDE DEF OK, Done
<1>10. Done(limiter')
  BY <1>5, <1>6, <1>7, <1>8, <1>9
<1>11. QED
  BY <1>10 DEF Done

-----------------------------------------------------------------------------
(* The type invariant of the logins. *)

\* An attempt that goes on, for a user, at a time that has passed.
LEMMA AttemptTyped ==
  ASSUME LoginsInv, NEW a \in Attempts, NEW r \in AttRec, att' = [att EXCEPT ![a] = r],
         r.pc \notin {"none", "done"} => r.user \in Users, r.at <= now, now' = now
  PROVE  /\ att' \in [Attempts -> AttRec]
         /\ \A b \in Attempts : /\ att'[b].pc \notin {"none", "done"} => att'[b].user \in Users
                                /\ att'[b].at <= now'
<1>1. att \in [Attempts -> AttRec]
  BY DEF LoginsInv, LoginsTypeOK, AttRec
<1>2. att'[a] = r /\ \A b \in Attempts : b # a => att'[b] = att[b]
  BY <1>1
<1>3. QED
  BY <1>1, <1>2 DEF LoginsInv, Dated

\* So does one that only changes its state.
LEMMA AttemptGoesOn ==
  ASSUME LoginsInv, NEW a \in Attempts, NEW x \in {"job", "wrong", "right", "done"},
         x = "done" \/ att[a].pc \notin {"none", "done"}, att' = [att EXCEPT ![a].pc = x], now' = now
  PROVE  /\ att' \in [Attempts -> AttRec]
         /\ \A b \in Attempts : /\ att'[b].pc \notin {"none", "done"} => att'[b].user \in Users
                                /\ att'[b].at <= now'
<1> DEFINE r == [att[a] EXCEPT !.pc = x]
<1>1. att \in [Attempts -> AttRec]
  BY DEF LoginsInv, LoginsTypeOK, AttRec
<1>2. r \in AttRec /\ r.pc = x /\ r.user = att[a].user /\ r.at = att[a].at
  BY <1>1 DEF AttRec
<1>3. att' = [att EXCEPT ![a] = r]
  BY <1>1
<1>4. r.at <= now /\ (x # "done" => r.user \in Users)
  BY <1>2 DEF LoginsInv, Dated
<1> HIDE DEF r
<1>5. QED
  BY <1>2, <1>3, <1>4, AttemptTyped

\* What is left to show when the clock stands.
LEMMA LoginsKept ==
  ASSUME LoginsInv, now' = now,
         phase' \in [Procs -> {"up", "drain", "forced", "clean", "dirty", "down"}],
         limiter' \in [Users -> EntryRec], \A u \in Users : limiter'[u].at <= now,
         limits' \in [Keys -> RowRec], guessed' \in [Users -> [Deadlines -> Nat]],
         att' \in [Attempts -> AttRec],
         \A b \in Attempts : /\ att'[b].pc \notin {"none", "done"} => att'[b].user \in Users
                             /\ att'[b].at <= now'
  PROVE  LoginsInv'
<1>1. Keys' = Keys /\ Deadlines' = Deadlines /\ Users' = Users
  BY DEF Keys, Deadlines
<1>2. QED
  BY <1>1 DEF LoginsInv, LoginsTypeOK, Dated, EntryRec, RowRec, AttRec

\* The rows after a reservation and after a refund, and the deadlines.
LEMMA Rows ==
  ASSUME LoginsInv
  PROVE  /\ \A k \in Keys : LiveRow(k) \in RowRec /\ Deadline(k) \in Deadlines
         /\ \A u : ReservedRows(u) \in [Keys -> RowRec]
         /\ \A a \in Attempts : Refunded(a) \in [Keys -> RowRec]
<1>0. /\ Lockout \in Nat /\ MaxTime \in Nat /\ now \in 0..MaxTime /\ limits \in [Keys -> RowRec]
  BY LoginsConstants DEF LoginsInv, LoginsTypeOK, RowRec
<1>1. NoRow \in RowRec
  BY <1>0 DEF NoRow, RowRec, Deadlines
<1>2. ASSUME NEW k \in Keys PROVE LiveRow(k) \in RowRec /\ Deadline(k) \in Deadlines
  <2>1. limits[k] \in RowRec /\ limits[k].until \in Deadlines
    BY <1>0 DEF RowRec
  <2>2. now + Lockout \in Deadlines
    BY <1>0 DEF Deadlines
  <2>3. QED
    BY <1>1, <2>1, <2>2 DEF LiveRow, Deadline
<1>3. ASSUME NEW u PROVE ReservedRows(u) \in [Keys -> RowRec]
  <2>1. ASSUME NEW k \in Keys PROVE [n |-> LiveRow(k).n + 1, until |-> Deadline(k)] \in RowRec
    BY <1>2 DEF RowRec
  <2>2. QED
    BY <1>2, <2>1 DEF ReservedRows
<1>4. ASSUME NEW a \in Attempts PROVE Refunded(a) \in [Keys -> RowRec]
  <2>1. ASSUME NEW k \in Keys PROVE [limits[k] EXCEPT !.n = Max({0, limits[k].n - 1})] \in RowRec
    <3>1. limits[k] \in RowRec /\ limits[k].n \in Nat
      BY <1>0 DEF RowRec
    <3>2. Max({0, limits[k].n - 1}) \in Nat
      <4>1. \E m \in {0, limits[k].n - 1} : \A i \in {0, limits[k].n - 1} : m >= i
        BY <3>1
      <4>2. QED
        BY <3>1, <4>1 DEF Max
    <3>3. QED
      BY <3>1, <3>2 DEF RowRec
  <2>2. QED
    BY <1>0, <2>1 DEF Refunded
<1>5. QED
  BY <1>2, <1>3, <1>4

\* Every step keeps the types and the dates.
LEMMA LoginsNext == ASSUME LoginsInv, [Next]_vars PROVE LoginsInv'
<1>0. /\ limiter \in [Users -> EntryRec] /\ limits \in [Keys -> RowRec]
      /\ guessed \in [Users -> [Deadlines -> Nat]] /\ att \in [Attempts -> AttRec]
      /\ now \in 0..MaxTime /\ MaxTime \in Nat
      /\ \A u \in Users : limiter[u].at <= now
      /\ \A a \in Attempts : /\ att[a].pc \notin {"none", "done"} => att[a].user \in Users
                             /\ att[a].at <= now
  BY LoginsConstants DEF LoginsInv, LoginsTypeOK, Dated, EntryRec, RowRec, AttRec
<1>1. phase' \in [Procs -> {"up", "drain", "forced", "clean", "dirty", "down"}]
  BY NextPhases
<1>2. NoEntry \in EntryRec /\ NoEntry.at <= now
  BY <1>0 DEF NoEntry, EntryRec
<1>3. CASE UNCHANGED logins
  BY <1>0, <1>1, <1>3, LoginsKept DEF logins
<1>4. CASE LimiterLost
  <2>1. limiter' \in [Users -> EntryRec] /\ \A u \in Users : limiter'[u].at <= now
    BY <1>2, <1>4 DEF LimiterLost
  <2>2. \A r \in AttRec : /\ [r EXCEPT !.pc = "done"] \in AttRec /\ [r EXCEPT !.pc = "done"].pc = "done"
                          /\ [r EXCEPT !.pc = "done"].at = r.at
    BY DEF AttRec
  <2>3. att' = [a \in Attempts |-> IF att[a].pc = "none" THEN att[a] ELSE [att[a] EXCEPT !.pc = "done"]]
    BY <1>4 DEF LimiterLost
  <2> HIDE DEF AttRec
  <2>4. att' \in [Attempts -> AttRec]
    BY <1>0, <2>2, <2>3
  <2>5. \A b \in Attempts : att'[b].pc \in {"none", "done"} /\ att'[b].at <= now
    BY <1>0, <2>2, <2>3
  <2>6. QED
    BY <1>0, <1>1, <1>4, <2>1, <2>4, <2>5, LoginsKept DEF LimiterLost
<1>5. CASE LimiterSwept /\ UNCHANGED <<now, limits, att, guessed>>
  <2>1. limiter' \in [Users -> EntryRec] /\ \A u \in Users : limiter'[u].at <= now
    BY <1>0, <1>2, <1>5 DEF LimiterSwept, Swept
  <2>2. QED
    BY <1>0, <1>1, <1>5, <2>1, LoginsKept
<1>6. CASE Ticks
  <2>1. now' \in 0..MaxTime /\ now' = now + 1 /\ UNCHANGED <<limiter, limits, att, guessed>>
    BY <1>0, <1>6 DEF Ticks
  <2>2. LoginsTypeOK'
    BY <2>1 DEF LoginsInv, LoginsTypeOK
  <2>3. ASSUME NEW u \in Users PROVE limiter'[u].at <= now'
    BY <1>0, <2>1 DEF EntryRec
  <2>4. ASSUME NEW a \in Attempts PROVE att'[a].at <= now'
    BY <1>0, <2>1 DEF AttRec
  <2>5. QED
    BY <1>0, <1>1, <2>1, <2>2, <2>3, <2>4 DEF LoginsInv, Dated
<1>7. ASSUME NEW a \in Attempts, AttemptStep(a) PROVE LoginsInv'
  <2>0. now' = now /\ att[a] \in AttRec
    BY <1>0, <1>7 DEF AttemptStep, Arrives, ArrivesDenied, Refused, GetsSlot, Ends, Reserves, Verifies,
                      RecordsFailure, RecordsSuccess, DeniedLate
  <2>1. ASSUME NEW u \in Users, Arrives(a, u) PROVE LoginsInv'
    <3> DEFINE r == [att[a] EXCEPT !.pc = "queued", !.user = u, !.at = now]
    <3>1. r \in AttRec /\ r.pc = "queued" /\ r.user = u /\ r.at = now
      BY <1>0, <2>0 DEF AttRec, Keys
    <3>2. att' = [att EXCEPT ![a] = r]
      BY <2>1 DEF Arrives
    <3> HIDE DEF r
    <3>3. /\ att' \in [Attempts -> AttRec]
          /\ \A b \in Attempts : /\ att'[b].pc \notin {"none", "done"} => att'[b].user \in Users
                                 /\ att'[b].at <= now'
      BY <1>0, <2>0, <3>1, <3>2, AttemptTyped
    <3>4. QED
      BY <1>0, <1>1, <2>0, <2>1, <3>3, LoginsKept DEF Arrives
  <2>2. ASSUME NEW x \in {"job", "wrong", "right", "done"},
               x = "done" \/ att[a].pc \notin {"none", "done"}, att' = [att EXCEPT ![a].pc = x],
               limiter' \in [Users -> EntryRec], \A u \in Users : limiter'[u].at <= now,
               limits' \in [Keys -> RowRec], guessed' \in [Users -> [Deadlines -> Nat]]
        PROVE  LoginsInv'
    <3>1. /\ att' \in [Attempts -> AttRec]
          /\ \A b \in Attempts : /\ att'[b].pc \notin {"none", "done"} => att'[b].user \in Users
                                 /\ att'[b].at <= now'
      BY <2>0, <2>2, AttemptGoesOn
    <3>2. QED
      BY <1>1, <2>0, <2>2, <3>1, LoginsKept
  <2>3. ASSUME NEW u \in Users, ArrivesDenied(a, u) PROVE LoginsInv'
    <3>1. FailureRecorded(u, now) /\ att' = [att EXCEPT ![a].pc = "done"] /\ UNCHANGED <<limits, guessed>>
      BY <2>3 DEF ArrivesDenied
    <3>2. limiter' \in [Users -> EntryRec] /\ \A v \in Users : limiter'[v].at <= now
      <4>1. now \in 0..MaxTime /\ now <= now
        BY <1>0
      <4>2. QED
        BY <3>1, <4>1, Recorded
    <3>3. QED
      BY <1>0, <2>2, <3>1, <3>2
  <2>4. ASSUME NEW u \in Users, Refused(a, u) PROVE LoginsInv'
    BY <1>0, <2>2, <2>4 DEF Refused
  <2>5. CASE GetsSlot(a)
    BY <1>0, <2>2, <2>5 DEF GetsSlot
  <2>6. CASE Ends(a)
    BY <1>0, <2>2, <2>6 DEF Ends
  <2>7. CASE Reserves(a)
    <3>1. PICK u : u = att[a].user
      OBVIOUS
    <3> DEFINE h == [k \in Keys |-> IF k \in Scopes(u) THEN Deadline(k) ELSE 0]
               r == [att[a] EXCEPT !.pc = "verify", !.held = h]
    <3>2. h \in [Keys -> Deadlines]
      BY <1>0, Rows, LoginsConstants DEF Deadlines
    <3>3. att' = [att EXCEPT ![a] = r]
      BY <1>0, <2>7, <3>1 DEF Reserves
    <3> HIDE DEF h
    <3>4. r \in AttRec /\ r.pc = "verify" /\ r.user = att[a].user /\ r.at = att[a].at
      BY <2>0, <3>2 DEF AttRec
    <3> HIDE DEF r
    <3>5. /\ att' \in [Attempts -> AttRec]
          /\ \A b \in Attempts : /\ att'[b].pc \notin {"none", "done"} => att'[b].user \in Users
                                 /\ att'[b].at <= now'
      BY <1>0, <2>0, <2>7, <3>3, <3>4, AttemptTyped DEF Reserves
    <3>6. limits' \in [Keys -> RowRec]
      BY <2>7, Rows DEF Reserves
    <3>7. QED
      BY <1>0, <1>1, <2>0, <2>7, <3>5, <3>6, LoginsKept DEF Reserves
  <2>8. ASSUME NEW right \in BOOLEAN, Verifies(a, right) PROVE LoginsInv'
    <3>1. limits' \in [Keys -> RowRec]
      BY <1>0, <2>8, Rows DEF Verifies
    <3>2. PICK x \in {"wrong", "right"} : att' = [att EXCEPT ![a].pc = x]
      BY <2>8 DEF Verifies
    <3>3. guessed' \in [Users -> [Deadlines -> Nat]]
      <4>1. CASE guessed' = guessed
        BY <1>0, <4>1
      <4>2. CASE guessed' # guessed
        <5>1. PICK u \in Users, d \in Deadlines : u = att[a].user /\ d = att[a].held[u]
          BY <1>0, <2>0, <2>8 DEF Verifies, AttRec, Keys
        <5>2. guessed' = [guessed EXCEPT ![u][d] = guessed[u][d] + 1]
          BY <2>8, <4>2, <5>1 DEF Verifies
        <5>3. guessed[u] \in [Deadlines -> Nat] /\ guessed[u][d] \in Nat
          BY <1>0
        <5>4. QED
          BY <1>0, <5>2, <5>3
      <4>3. QED
        BY <4>1, <4>2
    <3>4. QED
      BY <1>0, <2>2, <2>8, <3>1, <3>2, <3>3 DEF Verifies
  <2>9. CASE RecordsFailure(a) \/ DeniedLate(a)
    <3>1. att[a].user \in Users /\ att[a].at \in 0..MaxTime /\ att[a].at <= now
      BY <1>0, <2>0, <2>9 DEF RecordsFailure, DeniedLate, AttRec
    <3>2. FailureRecorded(att[a].user, att[a].at)
      BY <2>9 DEF RecordsFailure, DeniedLate
    <3>3. limiter' \in [Users -> EntryRec] /\ \A u \in Users : limiter'[u].at <= now
      BY <3>1, <3>2, Recorded
    <3>4. QED
      BY <1>0, <2>2, <2>9, <3>3 DEF RecordsFailure, DeniedLate
  <2>10. CASE RecordsSuccess(a)
    <3>1. limiter' \in [Users -> EntryRec] /\ \A u \in Users : limiter'[u].at <= now
      BY <1>0, <1>2, <2>10 DEF RecordsSuccess
    <3>2. QED
      BY <1>0, <2>2, <2>10, <3>1 DEF RecordsSuccess
  <2>11. QED
    BY <1>7, <2>1, <2>3, <2>4, <2>5, <2>6, <2>7, <2>8, <2>9, <2>10 DEF AttemptStep
<1>8. QED
  BY <1>3, <1>4, <1>5, <1>6, <1>7, NextLogins DEF LoginStep

\* At the start nothing has failed.
LEMMA LoginsStart == Init => LoginsInv
<1> SUFFICES ASSUME Init PROVE LoginsInv
  OBVIOUS
<1>1. LoginsInit /\ phase \in [Procs -> {"up", "drain", "forced", "clean", "dirty", "down"}]
  BY DEF Init
<1>2. 0 \in 0..MaxTime /\ 0 \in Deadlines
  BY LoginsConstants DEF Deadlines
<1>3. [k \in Keys |-> 0] \in [Keys -> Deadlines] /\ "all" \in Keys
  BY <1>2 DEF Keys
<1>4. NoEntry \in EntryRec /\ NoEntry.at = 0 /\ NoRow \in RowRec
  BY <1>2 DEF NoEntry, EntryRec, NoRow, RowRec
<1>5. NoAttempt \in AttRec /\ NoAttempt.pc = "none" /\ NoAttempt.at = 0
  BY <1>2, <1>3 DEF NoAttempt, AttRec
<1> HIDE DEF NoEntry, NoRow, NoAttempt
<1>6. LoginsTypeOK
  BY <1>1, <1>2, <1>4, <1>5 DEF LoginsInit, LoginsTypeOK, EntryRec, RowRec, AttRec
<1>7. Dated
  BY <1>1, <1>4, <1>5 DEF LoginsInit, Dated
<1>8. QED
  BY <1>1, <1>6, <1>7 DEF LoginsInv

\* The logins keep their types and their dates.
THEOREM LoginsTyped == Spec => []LoginsInv
  BY LoginsStart, LoginsNext, PTL DEF Spec

\* A step that leaves the clock and the server process alone changes an active
\* lockout only with the answer to an attempt for that name.
LEMMA LockoutStands ==
  ASSUME LoginsInv, [Next]_vars, NEW u \in Users, Limited(limiter, u, now), now' = now,
         phase'[Gate] = phase[Gate]
  PROVE  limiter'[u] = limiter[u] \/ \E a \in Attempts : AnsweredFor(a, u)
<1>0. /\ limiter \in [Users -> EntryRec] /\ att \in [Attempts -> AttRec]
      /\ now \in 0..MaxTime /\ MaxTime \in Nat /\ Lockout \in Nat /\ MaxFailures \in Nat
      /\ \A v \in Users : limiter[v].at <= now
      /\ \A a \in Attempts : /\ att[a].pc \notin {"none", "done"} => att[a].user \in Users
                             /\ att[a].at <= now
  BY LoginsConstants DEF LoginsInv, LoginsTypeOK, Dated, EntryRec, AttRec
<1>1. now - limiter[u].at <= Lockout
  BY <1>0 DEF EntryRec, Limited
<1>2. CASE LimiterSwept
  BY <1>1, <1>2 DEF LimiterSwept, Swept
<1>3. ASSUME NEW a \in Attempts, RecordsFailure(a) \/ DeniedLate(a)
      PROVE  limiter'[u] = limiter[u] \/ AnsweredFor(a, u)
  <2>1. att[a].user \in Users /\ att[a].at \in 0..MaxTime /\ att[a].at <= now
    BY <1>0, <1>3 DEF RecordsFailure, DeniedLate, AttRec
  <2>2. limiter'[u] = IF u = att[a].user THEN [n |-> limiter[u].n + 1, at |-> att[a].at] ELSE limiter[u]
    <3>1. FailureRecorded(att[a].user, att[a].at)
      BY <1>3 DEF RecordsFailure, DeniedLate
    <3>2. QED
      BY <2>1, <3>1, Recorded
  <2>3. att[a].pc \in {"wrong", "right"} /\ att'[a].pc = "done"
    BY <1>0, <1>3 DEF RecordsFailure, DeniedLate, AttRec
  <2>4. QED
    BY <2>2, <2>3 DEF AnsweredFor
<1>4. ASSUME NEW a \in Attempts, RecordsSuccess(a)
      PROVE  limiter'[u] = limiter[u] \/ AnsweredFor(a, u)
  <2>1. att[a].pc = "right" /\ att'[a].pc = "done"
    BY <1>0, <1>4 DEF RecordsSuccess, AttRec
  <2>2. limiter'[u] = IF att[a].user = u THEN NoEntry ELSE limiter[u]
    BY <1>0, <1>4 DEF RecordsSuccess
  <2>3. QED
    BY <2>1, <2>2 DEF AnsweredFor
<1>5. ASSUME NEW a \in Attempts, NEW v \in Users, ArrivesDenied(a, v) PROVE limiter'[u] = limiter[u]
  <2>1. u # v
    BY <1>5 DEF ArrivesDenied
  <2>2. QED
    <3>1. FailureRecorded(v, now) /\ now \in 0..MaxTime /\ now <= now
      BY <1>0, <1>5 DEF ArrivesDenied
    <3>2. QED
      BY <2>1, <3>1, Recorded
<1>6. ASSUME NEW a \in Attempts, AttemptStep(a)
      PROVE  limiter'[u] = limiter[u] \/ AnsweredFor(a, u)
  <2>1. CASE \/ \E v \in Users : Arrives(a, v) \/ Refused(a, v)
             \/ GetsSlot(a) \/ Ends(a) \/ Reserves(a)
             \/ \E right \in BOOLEAN : Verifies(a, right)
    BY <2>1 DEF Arrives, Refused, GetsSlot, Ends, Reserves, Verifies
  <2>2. QED
    BY <1>3, <1>4, <1>5, <1>6, <2>1 DEF AttemptStep
<1>7. LoginStep
  BY NextLogins
<1>8. QED
  BY <1>2, <1>6, <1>7 DEF LoginStep, logins, Ticks

\* An active lockout of the limiter in memory is neither lost nor shortened by
\* failures for other names, however full the table is, by evictions or by the
\* sweep; the answer to an attempt for that very name clears it or dates it anew.
THEOREM LockoutsHold == Spec => LockoutKept
<1>1. LoginsInv /\ [Next]_vars =>
      [\A u \in Users :
         Limited(limiter, u, now) /\ now' = now /\ phase'[Gate] = phase[Gate]
         => limiter'[u] = limiter[u] \/ \E a \in Attempts : AnsweredFor(a, u)]_vars
  BY LockoutStands
<1>2. QED
  BY LoginsTyped, <1>1, PTL DEF Spec, LockoutKept

-----------------------------------------------------------------------------
(* The durable rows. *)

\* The passwords being checked for user u under deadline d, and what the row
\* of that deadline has paid for.
Checking(u, d) == {a \in Attempts : att[a].pc = "verify" /\ att[a].user = u /\ att[a].held[u] = d}
Paid(u, d) == IF limits[u].until = d THEN limits[u].n ELSE MaxFailures

\* Every password checked or being checked was paid for; a deadline that was
\* used is not given out again.
GuessesPaid(u, d) ==
  /\ IsFiniteSet(Checking(u, d))
  /\ guessed[u][d] + Cardinality(Checking(u, d)) <= Paid(u, d)
  /\ guessed[u][d] > 0 \/ Checking(u, d) # {} => d > 0 /\ (d <= limits[u].until \/ d <= now)
GuessInv ==
  \A u \in Users : limits[u].n <= MaxFailures /\ \A d \in Deadlines : GuessesPaid(u, d)

\* The numbers involved.
LEMMA GuessNumbers ==
  ASSUME LoginsInv, GuessInv, NEW u \in Users, NEW d \in Deadlines
  PROVE  /\ guessed[u][d] \in Nat /\ limits[u].n \in Nat /\ limits[u].until \in Nat /\ d \in Nat
         /\ now \in Nat /\ Lockout \in Nat /\ Lockout > 0 /\ MaxFailures \in Nat /\ MaxFailures > 0
         /\ limits[u].n <= MaxFailures /\ u \in Keys /\ u # "all"
         /\ IsFiniteSet(Checking(u, d)) /\ Cardinality(Checking(u, d)) \in Nat
         /\ Paid(u, d) \in Nat /\ Paid(u, d) <= MaxFailures
         /\ guessed[u][d] + Cardinality(Checking(u, d)) <= Paid(u, d)
         /\ (Checking(u, d) = {} => Cardinality(Checking(u, d)) = 0)
<1>1. u \in Keys /\ u # "all"
  BY LoginsConstants DEF Keys
<1>2. /\ MaxTime \in Nat /\ Lockout \in Nat /\ Lockout > 0 /\ MaxFailures \in Nat /\ MaxFailures > 0
  BY LoginsConstants
<1>3. limits[u].n \in Nat /\ limits[u].until \in Nat /\ d \in Nat /\ now \in Nat /\ guessed[u][d] \in Nat
  BY <1>1, <1>2 DEF LoginsInv, LoginsTypeOK, Deadlines
<1>4. IsFiniteSet(Checking(u, d)) /\ limits[u].n <= MaxFailures
      /\ guessed[u][d] + Cardinality(Checking(u, d)) <= Paid(u, d)
  BY DEF GuessInv, GuessesPaid
<1>5. Cardinality(Checking(u, d)) \in Nat /\ (Checking(u, d) = {} => Cardinality(Checking(u, d)) = 0)
  BY <1>4, FS_CardinalityType, FS_EmptySet
<1>6. Paid(u, d) \in Nat /\ Paid(u, d) <= MaxFailures
  BY <1>2, <1>3, <1>4 DEF Paid
<1>7. QED
  BY <1>1, <1>2, <1>3, <1>4, <1>5, <1>6

\* Fewer checks, under rows that pay no less and forget no deadline.
LEMMA StillPaid ==
  ASSUME LoginsInv, LoginsInv', GuessInv, NEW u \in Users, NEW d \in Deadlines,
         Checking(u, d)' \subseteq Checking(u, d), guessed'[u][d] = guessed[u][d], now <= now',
         Paid(u, d)' >= Paid(u, d) \/ (Checking(u, d) = {} /\ guessed[u][d] = 0),
         Paid(u, d)' \in Nat, d <= limits[u].until => d <= limits'[u].until \/ d <= now'
  PROVE  GuessesPaid(u, d)'
<1>0. /\ guessed[u][d] \in Nat /\ d \in Nat /\ now \in Nat /\ now' \in Nat
      /\ IsFiniteSet(Checking(u, d)) /\ Cardinality(Checking(u, d)) \in Nat /\ Paid(u, d) \in Nat
      /\ guessed[u][d] + Cardinality(Checking(u, d)) <= Paid(u, d)
  BY GuessNumbers DEF LoginsInv, LoginsTypeOK
<1>1. /\ IsFiniteSet(Checking(u, d)') /\ Cardinality(Checking(u, d)') \in Nat
      /\ Cardinality(Checking(u, d)') <= Cardinality(Checking(u, d))
  BY <1>0, FS_Subset, FS_CardinalityType
<1>2. Checking(u, d) = {} => Cardinality(Checking(u, d)') = 0
  BY FS_EmptySet
<1>3. guessed'[u][d] + Cardinality(Checking(u, d)') <= Paid(u, d)'
  BY <1>0, <1>1, <1>2
<1>4. guessed[u][d] > 0 \/ Checking(u, d) # {} => d > 0 /\ (d <= limits[u].until \/ d <= now)
  BY DEF GuessInv, GuessesPaid
<1>5. guessed'[u][d] > 0 \/ Checking(u, d)' # {} => d > 0 /\ (d <= limits'[u].until \/ d <= now')
  BY <1>0, <1>4
<1>6. QED
  BY <1>1, <1>3, <1>5 DEF GuessesPaid

\* Steps that touch neither the rows nor the history, and start no check.
LEMMA RowsAlone ==
  ASSUME LoginsInv, LoginsInv', GuessInv, UNCHANGED <<limits, guessed>>, now <= now',
         \A a \in Attempts : att'[a].pc = "verify" => att'[a] = att[a]
  PROVE  GuessInv'
<1> SUFFICES ASSUME NEW u \in Users, NEW d \in Deadlines
             PROVE  limits'[u].n <= MaxFailures /\ GuessesPaid(u, d)'
  BY DEF GuessInv, Deadlines
<1>1. Checking(u, d)' \subseteq Checking(u, d)
  BY DEF Checking
<1>2. Paid(u, d)' = Paid(u, d) /\ Paid(u, d) \in Nat /\ limits[u].n <= MaxFailures
  BY GuessNumbers DEF Paid
<1>3. QED
  BY <1>1, <1>2, StillPaid

\* A reservation pays for its check, in a row that lives or in a new one.
LEMMA ReservesPaid ==
  ASSUME LoginsInv, LoginsInv', GuessInv, NEW a \in Attempts, Reserves(a) PROVE GuessInv'
<1>1. PICK w \in Users : w = att[a].user
  BY DEF Reserves, LoginsInv, Dated
<1>2. /\ att[a].pc = "job" /\ Open(w) /\ limits' = ReservedRows(w) /\ now' = now /\ guessed' = guessed
      /\ att' = [att EXCEPT ![a].pc = "verify",
                            ![a].held = [k \in Keys |-> IF k \in Scopes(w) THEN Deadline(k) ELSE 0]]
  BY <1>1 DEF Reserves
<1>3. att \in [Attempts -> AttRec]
  BY DEF LoginsInv, LoginsTypeOK, AttRec
<1>4. w \in Keys /\ w # "all"
  BY LoginsConstants DEF Keys
<1>5. /\ att'[a].pc = "verify" /\ att'[a].user = w /\ att'[a].held[w] = Deadline(w)
      /\ \A b \in Attempts : b # a => att'[b] = att[b]
  BY <1>1, <1>2, <1>3, <1>4 DEF AttRec, Scopes
<1>6. LiveRow(w).n < MaxFailures
  BY <1>2, <1>4 DEF Open, Scopes, Cap
<1>7. ASSUME NEW u \in Users, NEW d \in Deadlines
      PROVE  limits'[u].n <= MaxFailures /\ GuessesPaid(u, d)'
  <2>1. /\ guessed[u][d] \in Nat /\ limits[u].n \in Nat /\ limits[u].until \in Nat /\ d \in Nat
        /\ now \in Nat /\ Lockout \in Nat /\ Lockout > 0 /\ MaxFailures \in Nat /\ MaxFailures > 0
        /\ limits[u].n <= MaxFailures /\ u \in Keys /\ u # "all"
        /\ IsFiniteSet(Checking(u, d)) /\ Cardinality(Checking(u, d)) \in Nat
        /\ Paid(u, d) \in Nat /\ Paid(u, d) <= MaxFailures
        /\ guessed[u][d] + Cardinality(Checking(u, d)) <= Paid(u, d)
        /\ (Checking(u, d) = {} => Cardinality(Checking(u, d)) = 0)
    BY GuessNumbers
  <2>2. guessed[u][d] > 0 \/ Checking(u, d) # {} => d > 0 /\ (d <= limits[u].until \/ d <= now)
    BY DEF GuessInv, GuessesPaid
  <2>3. CASE u # w
    <3>1. limits'[u] = LiveRow(u)
      BY <1>2, <2>1, <2>3 DEF ReservedRows, Scopes
    <3>2. Checking(u, d)' = Checking(u, d)
      BY <1>1, <1>2, <1>5, <2>3 DEF Checking
    <3>3. CASE limits[u].until > now
      <4>1. limits'[u] = limits[u]
        BY <2>1, <3>1, <3>3 DEF LiveRow
      <4>2. Paid(u, d)' = Paid(u, d)
        BY <4>1 DEF Paid
      <4>3. QED
        BY <1>2, <2>1, <3>2, <4>1, <4>2, StillPaid
    <3>4. CASE limits[u].until <= now
      <4>1. limits'[u].n = 0 /\ limits'[u].until = 0
        BY <3>1, <3>4 DEF LiveRow, NoRow
      <4>2. Paid(u, d)' = IF d = 0 THEN 0 ELSE MaxFailures
        BY <4>1 DEF Paid
      <4>3. d = 0 => Checking(u, d) = {} /\ guessed[u][d] = 0
        BY <2>1, <2>2
      <4>4. d <= limits[u].until => d <= now'
        BY <1>2, <2>1, <3>4
      <4>5. Paid(u, d)' \in Nat /\ (Paid(u, d)' >= Paid(u, d) \/ (Checking(u, d) = {} /\ guessed[u][d] = 0))
        BY <2>1, <4>2, <4>3
      <4>6. now <= now'
        BY <1>2, <2>1
      <4>7. GuessesPaid(u, d)'
        BY <1>2, <3>2, <4>4, <4>5, <4>6, StillPaid
      <4>8. QED
        BY <2>1, <4>1, <4>7
    <3>5. QED
      BY <2>1, <3>3, <3>4
  <2>4. CASE u = w
    <3>1. limits'[u].n = LiveRow(u).n + 1 /\ limits'[u].until = Deadline(u)
      BY <1>2, <2>1, <2>4 DEF ReservedRows, Scopes
    <3>2. /\ limits[u].until > now => LiveRow(u) = limits[u] /\ Deadline(u) = limits[u].until
          /\ limits[u].until <= now => LiveRow(u).n = 0 /\ Deadline(u) = now + Lockout
      BY <2>1 DEF LiveRow, Deadline, NoRow
    <3>3. LiveRow(u).n \in Nat /\ limits'[u].n <= MaxFailures
      BY <1>6, <2>1, <2>4, <3>1, <3>2
    <3>4. CASE d = Deadline(u)
      <4>1. Checking(u, d)' = Checking(u, d) \cup {a} /\ a \notin Checking(u, d)
        BY <1>1, <1>2, <1>5, <2>4, <3>4 DEF Checking
      <4>2. /\ IsFiniteSet(Checking(u, d)')
            /\ Cardinality(Checking(u, d)') = Cardinality(Checking(u, d)) + 1
        BY <2>1, <4>1, FS_AddElement
      <4>3. Paid(u, d)' = LiveRow(u).n + 1
        BY <3>1, <3>4 DEF Paid
      <4>4. guessed[u][d] + Cardinality(Checking(u, d)) <= LiveRow(u).n
        <5>1. CASE limits[u].until > now
          BY <2>1, <3>2, <3>4, <5>1 DEF Paid
        <5>2. CASE limits[u].until <= now
          <6>1. d > now /\ d > limits[u].until
            BY <2>1, <3>2, <3>4, <5>2
          <6>2. guessed[u][d] = 0 /\ Checking(u, d) = {}
            BY <2>1, <2>2, <6>1
          <6>3. QED
            BY <2>1, <3>2, <5>2, <6>2
        <5>3. QED
          BY <2>1, <5>1, <5>2
      <4>5. guessed'[u][d] + Cardinality(Checking(u, d)') <= Paid(u, d)'
        BY <1>2, <2>1, <3>3, <4>2, <4>3, <4>4
      <4>6. d > 0 /\ d <= limits'[u].until
        BY <2>1, <3>1, <3>2, <3>4
      <4>7. QED
        BY <3>3, <4>2, <4>5, <4>6 DEF GuessesPaid
    <3>5. CASE d # Deadline(u)
      <4>1. Checking(u, d)' \subseteq Checking(u, d)
        BY <1>5, <2>4, <3>5 DEF Checking
      <4>2. Paid(u, d)' = MaxFailures
        BY <3>1, <3>5 DEF Paid
      <4>3. d <= limits[u].until => d <= limits'[u].until \/ d <= now'
        BY <1>2, <2>1, <3>1, <3>2
      <4>4. now <= now' /\ Paid(u, d)' \in Nat /\ Paid(u, d)' >= Paid(u, d)
        BY <1>2, <2>1, <4>2
      <4>5. GuessesPaid(u, d)'
        BY <1>2, <4>1, <4>3, <4>4, StillPaid
      <4>6. QED
        BY <3>3, <4>5
    <3>6. QED
      BY <3>4, <3>5
  <2>5. QED
    BY <2>3, <2>4
<1>8. 0 \in Deadlines /\ Deadlines' = Deadlines
  BY LoginsConstants DEF Deadlines
<1>9. QED
  BY <1>7, <1>8 DEF GuessInv

\* A check that ends becomes a guess, or is refunded where it was paid.
LEMMA VerifiesPaid ==
  ASSUME LoginsInv, LoginsInv', GuessInv, NEW a \in Attempts, NEW right \in BOOLEAN, Verifies(a, right)
  PROVE  GuessInv'
<1>1. PICK w \in Users : w = att[a].user
  BY DEF Verifies, LoginsInv, Dated
<1>2. PICK e \in Deadlines : e = att[a].held[w]
  BY <1>1 DEF LoginsInv, LoginsTypeOK, Keys
<1>3. /\ att[a].pc = "verify" /\ now' = now
      /\ IF right THEN limits' = Refunded(a) /\ guessed' = guessed
         ELSE guessed' = [guessed EXCEPT ![w][e] = guessed[w][e] + 1] /\ limits' = limits
      /\ att' = [att EXCEPT ![a].pc = IF right THEN "right" ELSE "wrong"]
  BY <1>1, <1>2 DEF Verifies
<1>4. att \in [Attempts -> AttRec] /\ guessed \in [Users -> [Deadlines -> Nat]]
  BY DEF LoginsInv, LoginsTypeOK, AttRec
<1>5. att'[a].pc # "verify" /\ \A b \in Attempts : b # a => att'[b] = att[b]
  BY <1>3, <1>4 DEF AttRec
<1>6. ASSUME NEW u \in Users, NEW d \in Deadlines
      PROVE  limits'[u].n <= MaxFailures /\ GuessesPaid(u, d)'
  <2>1. /\ guessed[u][d] \in Nat /\ limits[u].n \in Nat /\ limits[u].until \in Nat /\ d \in Nat
        /\ now \in Nat /\ Lockout \in Nat /\ Lockout > 0 /\ MaxFailures \in Nat /\ MaxFailures > 0
        /\ limits[u].n <= MaxFailures /\ u \in Keys /\ u # "all"
        /\ IsFiniteSet(Checking(u, d)) /\ Cardinality(Checking(u, d)) \in Nat
        /\ Paid(u, d) \in Nat /\ Paid(u, d) <= MaxFailures
        /\ guessed[u][d] + Cardinality(Checking(u, d)) <= Paid(u, d)
    BY GuessNumbers
  <2>2. guessed[u][d] > 0 \/ Checking(u, d) # {} => d > 0 /\ (d <= limits[u].until \/ d <= now)
    BY DEF GuessInv, GuessesPaid
  <2>3. CASE u = w /\ d = e
    <3>1. Checking(u, d)' = Checking(u, d) \ {a} /\ a \in Checking(u, d)
      BY <1>1, <1>2, <1>3, <1>5, <2>3 DEF Checking
    <3>2. /\ IsFiniteSet(Checking(u, d)') /\ Cardinality(Checking(u, d)') \in Nat
          /\ Cardinality(Checking(u, d)') = Cardinality(Checking(u, d)) - 1
      BY <2>1, <3>1, FS_RemoveElement, FS_CardinalityType
    <3>3. CASE ~right
      <4>1. guessed'[u][d] = guessed[u][d] + 1 /\ limits' = limits
        BY <1>3, <1>4, <2>3, <3>3
      <4>2. Paid(u, d)' = Paid(u, d)
        BY <4>1 DEF Paid
      <4>3. guessed'[u][d] + Cardinality(Checking(u, d)') <= Paid(u, d)'
        BY <2>1, <3>2, <4>1, <4>2
      <4>4. QED
        BY <1>3, <2>1, <2>2, <3>1, <3>2, <4>1, <4>3 DEF GuessesPaid
    <3>4. CASE right
      <4>1. limits'[u] = IF limits[u].until = d THEN [limits[u] EXCEPT !.n = Max({0, limits[u].n - 1})]
                         ELSE limits[u]
        <5>1. limits' = Refunded(a) /\ u \in Scopes(att[a].user) /\ att[a].held[u] = d
          BY <1>1, <1>2, <1>3, <2>3, <3>4 DEF Scopes
        <5>2. QED
          BY <2>1, <5>1 DEF Refunded
      <4>2. guessed' = guessed
        BY <1>3, <3>4
      <4>3. CASE limits[u].until = d
        <5>1. limits[u].n >= 1
          BY <2>1, <3>2, <4>3 DEF Paid
        <5>2. Max({0, limits[u].n - 1}) = limits[u].n - 1
          <6>1. \E m \in {0, limits[u].n - 1} : \A i \in {0, limits[u].n - 1} : m >= i
            BY <2>1, <5>1
          <6>2. QED
            BY <2>1, <5>1, <6>1 DEF Max
        <5>3. limits'[u].n = limits[u].n - 1 /\ limits'[u].until = d
          BY <4>1, <4>3, <5>2 DEF LoginsInv, LoginsTypeOK, Keys
        <5>4. Paid(u, d)' = limits[u].n - 1 /\ Paid(u, d) = limits[u].n
          BY <4>3, <5>3 DEF Paid
        <5>5. guessed'[u][d] + Cardinality(Checking(u, d)') <= Paid(u, d)'
          BY <2>1, <3>2, <4>2, <5>4
        <5>6. limits'[u].n <= MaxFailures /\ d > 0 /\ d <= limits'[u].until
          BY <2>1, <2>2, <3>1, <5>3
        <5>7. QED
          BY <3>2, <5>5, <5>6 DEF GuessesPaid
      <4>4. CASE limits[u].until # d
        <5>1. limits'[u] = limits[u]
          BY <4>1, <4>4
        <5>2. Paid(u, d)' = Paid(u, d)
          BY <5>1 DEF Paid
        <5>3. now <= now' /\ Paid(u, d)' >= Paid(u, d)
          BY <1>3, <2>1, <5>2
        <5>4. QED
          BY <2>1, <3>1, <4>2, <5>1, <5>2, <5>3, StillPaid
      <4>5. QED
        BY <4>3, <4>4
    <3>5. QED
      BY <3>3, <3>4
  <2>4. CASE ~(u = w /\ d = e)
    <3>1. Checking(u, d)' = Checking(u, d)
      BY <1>1, <1>2, <1>3, <1>5, <2>4 DEF Checking
    <3>2. guessed'[u][d] = guessed[u][d]
      BY <1>3, <1>4, <2>4
    <3>3. limits'[u].until = limits[u].until /\ limits'[u].n <= MaxFailures /\ limits'[u].n \in Nat
          /\ (limits[u].until = d => limits'[u] = limits[u])
      <4>1. CASE limits'[u] = limits[u]
        BY <2>1, <4>1
      <4>2. CASE limits'[u] # limits[u]
        <5>1. right /\ u = w /\ limits[u].until = e
          BY <1>1, <1>2, <1>3, <2>1, <4>2 DEF Refunded, Scopes
        <5>2. limits'[u] = [limits[u] EXCEPT !.n = Max({0, limits[u].n - 1})]
          <6>1. limits' = Refunded(a) /\ u \in Scopes(att[a].user) /\ limits[u].until = att[a].held[u]
            BY <1>1, <1>2, <1>3, <5>1 DEF Scopes
          <6>2. QED
            BY <2>1, <6>1 DEF Refunded
        <5>3. \E m \in {0, limits[u].n - 1} : \A i \in {0, limits[u].n - 1} : m >= i
          BY <2>1
        <5>4. Max({0, limits[u].n - 1}) \in Nat /\ Max({0, limits[u].n - 1}) <= MaxFailures
          BY <2>1, <5>3 DEF Max
        <5>5. limits'[u].n = Max({0, limits[u].n - 1}) /\ limits'[u].until = limits[u].until
          BY <2>1, <5>2 DEF LoginsInv, LoginsTypeOK
        <5>6. QED
          BY <2>4, <5>1, <5>4, <5>5
      <4>3. QED
        BY <4>1, <4>2
    <3>4. Paid(u, d)' = Paid(u, d)
      BY <3>3 DEF Paid
    <3>5. now <= now' /\ Paid(u, d)' >= Paid(u, d)
      BY <1>3, <2>1, <3>4
    <3>6. GuessesPaid(u, d)'
      BY <2>1, <3>1, <3>2, <3>3, <3>4, <3>5, StillPaid
    <3>7. QED
      BY <3>3, <3>6
  <2>5. QED
    BY <2>3, <2>4
<1>7. 0 \in Deadlines /\ Deadlines' = Deadlines
  BY LoginsConstants DEF Deadlines
<1>8. QED
  BY <1>6, <1>7 DEF GuessInv

\* Every step pays for its guesses.
LEMMA GuessNext == ASSUME LoginsInv, LoginsInv', GuessInv, [Next]_vars PROVE GuessInv'
<1>0. now \in Nat /\ att \in [Attempts -> AttRec]
  BY DEF LoginsInv, LoginsTypeOK, AttRec
<1>1. CASE UNCHANGED logins
  BY <1>0, <1>1, RowsAlone DEF logins
<1>2. CASE LimiterLost
  <2>1. \A a \in Attempts : att'[a].pc # "verify"
    <3>1. \A a \in Attempts : [att[a] EXCEPT !.pc = "done"].pc = "done"
      BY <1>0 DEF AttRec
    <3>2. QED
      BY <1>2, <3>1 DEF LimiterLost
  <2>2. QED
    BY <1>0, <1>2, <2>1, RowsAlone DEF LimiterLost
<1>3. CASE LimiterSwept /\ UNCHANGED <<now, limits, att, guessed>>
  BY <1>0, <1>3, RowsAlone
<1>4. CASE Ticks
  BY <1>0, <1>4, RowsAlone DEF Ticks
<1>5. ASSUME NEW a \in Attempts, AttemptStep(a) PROVE GuessInv'
  <2>1. ASSUME NEW x \in {"queued", "job", "done"}, NEW r \in AttRec, r.pc = x,
               att' = [att EXCEPT ![a] = r], UNCHANGED <<now, limits, guessed>>
        PROVE  GuessInv'
    <3>1. \A b \in Attempts : att'[b].pc = "verify" => att'[b] = att[b]
      BY <1>0, <2>1
    <3>2. QED
      BY <1>0, <2>1, <3>1, RowsAlone
  <2>2. ASSUME NEW u \in Users, Arrives(a, u) PROVE GuessInv'
    <3> DEFINE r == [att[a] EXCEPT !.pc = "queued", !.user = u, !.at = now]
    <3>1. r \in AttRec /\ r.pc = "queued"
      BY <1>0 DEF AttRec, Keys, LoginsInv, LoginsTypeOK
    <3>2. att' = [att EXCEPT ![a] = r] /\ UNCHANGED <<now, limits, guessed>>
      BY <2>2 DEF Arrives
    <3> HIDE DEF r
    <3>3. QED
      BY <2>1, <3>1, <3>2
  <2>3. ASSUME NEW x \in {"job", "done"}, att' = [att EXCEPT ![a].pc = x],
               UNCHANGED <<now, limits, guessed>>
        PROVE  GuessInv'
    <3> DEFINE r == [att[a] EXCEPT !.pc = x]
    <3>1. r \in AttRec /\ r.pc = x /\ att' = [att EXCEPT ![a] = r]
      BY <1>0, <2>3 DEF AttRec
    <3> HIDE DEF r
    <3>2. QED
      BY <2>1, <2>3, <3>1
  <2>4. CASE \/ \E u \in Users : ArrivesDenied(a, u) \/ Refused(a, u)
             \/ GetsSlot(a) \/ Ends(a) \/ RecordsFailure(a) \/ RecordsSuccess(a) \/ DeniedLate(a)
    <3>1. \E x \in {"job", "done"} : att' = [att EXCEPT ![a].pc = x] /\ UNCHANGED <<now, limits, guessed>>
      BY <2>4 DEF ArrivesDenied, Refused, GetsSlot, Ends, RecordsFailure, RecordsSuccess, DeniedLate
    <3>2. QED
      BY <2>3, <3>1
  <2>5. QED
    BY <1>5, <2>2, <2>4, ReservesPaid, VerifiesPaid DEF AttemptStep
<1>6. QED
  BY <1>1, <1>2, <1>3, <1>4, <1>5, NextLogins DEF LoginStep

\* At the start nothing was guessed and nobody guesses.
LEMMA GuessStart == Init => GuessInv
<1> SUFFICES ASSUME Init, NEW u \in Users
             PROVE  limits[u].n <= MaxFailures /\ \A d \in Deadlines : GuessesPaid(u, d)
  BY DEF GuessInv
<1>1. /\ limits = [k \in Keys |-> NoRow] /\ att = [a \in Attempts |-> NoAttempt]
      /\ guessed = [v \in Users |-> [d \in Deadlines |-> 0]] /\ MaxFailures \in Nat /\ u \in Keys
  BY LoginsConstants DEF Init, LoginsInit, Keys
<1>2. limits[u].n = 0 /\ limits[u].until = 0
  BY <1>1 DEF NoRow
<1>3. ASSUME NEW d \in Deadlines PROVE GuessesPaid(u, d)
  <2>1. Checking(u, d) = {}
    BY <1>1 DEF Checking, NoAttempt
  <2>2. IsFiniteSet(Checking(u, d)) /\ Cardinality(Checking(u, d)) = 0
    BY <2>1, FS_EmptySet
  <2>3. guessed[u][d] = 0 /\ Paid(u, d) \in Nat
    BY <1>1, <1>2 DEF Paid
  <2>4. QED
    BY <2>1, <2>2, <2>3 DEF GuessesPaid
<1>4. QED
  BY <1>1, <1>2, <1>3

\* At most max_login_failures wrong passwords are checked for an account under
\* one durable deadline, however many attempts run at once, whichever of them
\* lose their helper or their server, and whatever is refunded late.
THEOREM GuessesLimited == Spec => []GuessesBounded
<1>1. GuessInv /\ LoginsInv => GuessesBounded
  <2> SUFFICES ASSUME GuessInv, LoginsInv, NEW u \in Users, NEW d \in Deadlines
               PROVE  guessed[u][d] <= MaxFailures
    BY DEF GuessesBounded
  <2>1. QED
    BY GuessNumbers
<1>2. LoginsInv /\ LoginsInv' /\ GuessInv /\ [Next]_vars => GuessInv'
  BY GuessNext
<1>3. QED
  BY LoginsTyped, GuessStart, <1>1, <1>2, PTL DEF Spec
=============================================================================
