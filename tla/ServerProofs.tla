---------------------------- MODULE ServerProofs ----------------------------
(***************************************************************************)
(* Theorems about Server, for every number of processes, connections,      *)
(* sessions, transfers, downloads and login attempts and every workload.   *)
(***************************************************************************)
EXTENDS LoginsProofs, Sums

\* A job of connection c holds transfer t; nobody lists it.
HeldJob(c, t) == conn[c].pc = "held" /\ conn[c].t = t
Nowhere(t) == /\ \A c \in Conns : t \notin active[c]
              /\ \A p \in Procs : t \notin pending[p]

\* What the uploads in a connection, in PENDING and in a job have to be.
InActive(t) ==
  \A c \in Conns : t \in active[c] =>
    /\ lease[t].owner = ProcOf[c] /\ file[t] # NoFile
    /\ up[t].sess = conn[c].sess
    /\ conn[c].pc \notin {"none", "auth", "closed"}
    /\ \A d \in Conns : (t \in active[d] => d = c) /\ ~HeldJob(d, t)
    /\ \A p \in Procs : t \notin pending[p]
InPending(t) ==
  \A p \in Procs : t \in pending[p] =>
    /\ lease[t].owner = p /\ file[t] # NoFile
    /\ \A d \in Conns : ~HeldJob(d, t)
InHeld(t) ==
  \A c \in Conns : HeldJob(c, t) =>
    /\ lease[t].owner = ProcOf[c]
    /\ \A d \in Conns : HeldJob(d, t) => d = c
    /\ \/ conn[c].kind = "begin" /\ file[t] = NoFile /\ up[t].got = 0 /\ up[t].sess = conn[c].sess
       \/ conn[c].kind = "end" /\ file[t] # NoFile

\* What a closing connection decided to keep is still its own, and has bytes.
InKept(t) ==
  \A c \in Conns : conn[c].pc = "drop" /\ t \in conn[c].kept =>
    t \in active[c] /\ up[t].got > 0

UpOK(t) ==
  /\ Fresh(t) => lease[t].owner = None /\ file[t] = NoFile
  /\ ~Fresh(t) => up[t].sess \in Sessions
  /\ up[t].got <= up[t].total

\* No reservation is forgotten: somebody holds what is charged to a process.
IsHeld(t) ==
  lease[t].owner # None =>
    \/ \E c \in Conns : t \in active[c] \/ HeldJob(c, t)
    \/ \E p \in Procs : t \in pending[p]

TransferInv(t) == InActive(t) /\ InPending(t) /\ InHeld(t) /\ InKept(t) /\ UpOK(t) /\ IsHeld(t)

ConnInv ==
  \A c \in Conns :
    /\ conn[c].pc \notin {"none", "auth", "closed"} => conn[c].sess \in Sessions
    /\ conn[c].pc = "held" => conn[c].t \in Transfers

\* The types of what an upload touches.
LeaseRec == [there : BOOLEAN, owner : Procs \cup {None}, bytes : 0..MaxTotal]
UploadRec == [sess : Sessions \cup {None}, total : 0..MaxTotal, got : 0..MaxTotal, keep : BOOLEAN]
ConnRec == [pc : {"none", "auth", "idle", "wait", "job", "held", "done", "close", "drop", "closed"},
            sess : Sessions \cup {None}, cut : BOOLEAN, kind : Kinds,
            t : Transfers \cup {None}, kept : SUBSET Transfers]
UploadTypes ==
  /\ wl \in Workloads
  /\ file \in [Transfers -> NoFile..MaxTotal]
  /\ lease \in [Transfers -> LeaseRec]
  /\ up \in [Transfers -> UploadRec]
  /\ active \in [Conns -> SUBSET Transfers]
  /\ pending \in [Procs -> SUBSET Transfers]
  /\ lapsed \subseteq Transfers
  /\ conn \in [Conns -> ConnRec]

UploadInv == UploadTypes /\ ConnInv /\ \A t \in Transfers : TransferInv(t)

-----------------------------------------------------------------------------
(* Numbers. *)

\* The largest size a client declares bounds them all.
LEMMA TotalBound == MaxTotal \in Nat /\ \A n \in Totals : n \in Nat /\ n <= MaxTotal
<1>1. CASE Totals = {}
  BY <1>1 DEF MaxTotal
<1>2. CASE Totals # {}
  <2>1. \E m \in Totals : \A n \in Totals : m >= n
    BY <1>2, StagingConstants
  <2>2. Max(Totals) \in Totals /\ \A n \in Totals : Max(Totals) >= n
    BY <2>1 DEF Max
  <2>3. QED
    BY <1>2, <2>2, StagingConstants DEF MaxTotal
<1>3. QED
  BY <1>1, <1>2

\* The larger of two numbers.
LEMMA MaxOfTwo ==
  ASSUME NEW a \in Int, NEW b \in Int
  PROVE  Max({a, b}) \in {a, b} /\ Max({a, b}) >= a /\ Max({a, b}) >= b
<1>1. \E m \in {a, b} : \A n \in {a, b} : m >= n
  <2>1. CASE a >= b
    BY <2>1
  <2>2. CASE b >= a
    BY <2>2
  <2>3. QED
    BY <2>1, <2>2
<1>2. QED
  BY <1>1 DEF Max

-----------------------------------------------------------------------------
(* How the client sees an upload, and which of its steps Transfer allows.  *)

Seen(state, t) == [state |-> state, owner |-> up[t].sess, acked |-> up[t].got]

\* What SeenUpload is, by the place of the upload.
SeenFacts ==
  \A t \in Transfers :
    /\ Fresh(t) => SeenUpload(t) = Promise!Fresh
    /\ \A c \in Conns : t \in active[c] => SeenUpload(t) = Seen("open", t)
    /\ \A p \in Procs : t \in pending[p] => SeenUpload(t) = Seen("parked", t)
    /\ Nowhere(t) /\ ~Fresh(t) /\ lease[t].owner = None => SeenUpload(t) = Promise!Over
    /\ Nowhere(t) /\ lease[t].owner # None /\ file[t] = NoFile => SeenUpload(t) = Promise!Fresh
    /\ Nowhere(t) /\ lease[t].owner # None /\ file[t] # NoFile => SeenUpload(t) = Seen("ending", t)

\* An upload with a holder is no fresh one.
LEMMA HeldNotFresh ==
  ASSUME UploadInv, NEW t \in Transfers, lease[t].owner # None
  PROVE  ~Fresh(t)
  BY DEF UploadInv, TransferInv, UpOK

\* The place of an upload decides what its client sees; the session of the
\* connection that holds it is the upload's.
LEMMA SeenHold == UploadInv => SeenFacts
<1> SUFFICES ASSUME UploadInv, NEW t \in Transfers
             PROVE
    /\ Fresh(t) => SeenUpload(t) = Promise!Fresh
    /\ \A c \in Conns : t \in active[c] => SeenUpload(t) = Seen("open", t)
    /\ \A p \in Procs : t \in pending[p] => SeenUpload(t) = Seen("parked", t)
    /\ Nowhere(t) /\ ~Fresh(t) /\ lease[t].owner = None => SeenUpload(t) = Promise!Over
    /\ Nowhere(t) /\ lease[t].owner # None /\ file[t] = NoFile => SeenUpload(t) = Promise!Fresh
    /\ Nowhere(t) /\ lease[t].owner # None /\ file[t] # NoFile => SeenUpload(t) = Seen("ending", t)
  BY DEF SeenFacts
<1>0. \A p \in Procs : p # None
  BY StagingConstants
<1>1. \A c \in Conns : t \in active[c] => lease[t].owner # None /\ \A p \in Procs : t \notin pending[p]
  BY StagingConstants DEF UploadInv, TransferInv, InActive
<1>2. \A p \in Procs : t \in pending[p] => lease[t].owner # None
  BY <1>0 DEF UploadInv, TransferInv, InPending
<1>3. Fresh(t) => SeenUpload(t) = Promise!Fresh
  BY DEF SeenUpload, StateOf, Promise!Fresh
<1>4. ASSUME NEW c \in Conns, t \in active[c] PROVE SeenUpload(t) = Seen("open", t)
  <2>1. ~Fresh(t) /\ Holds(t) # {}
    BY <1>1, <1>4, HeldNotFresh DEF Holds
  <2>2. StateOf(t) = "open"
    BY <2>1 DEF StateOf
  <2> DEFINE d == CHOOSE e \in Holds(t) : TRUE
  <2>3. d \in Conns /\ t \in active[d]
    BY <2>1 DEF Holds
  <2>4. conn[d].sess = up[t].sess
    BY <2>3 DEF UploadInv, TransferInv, InActive
  <2>5. SessionOf(t) = up[t].sess
    BY <2>2, <2>4 DEF SessionOf
  <2>6. QED
    BY <2>2, <2>5 DEF SeenUpload, Seen
<1>5. ASSUME NEW p \in Procs, t \in pending[p] PROVE SeenUpload(t) = Seen("parked", t)
  <2>1. ~Fresh(t) /\ Holds(t) = {}
    BY <1>1, <1>2, <1>5, HeldNotFresh DEF Holds
  <2>2. StateOf(t) = "parked"
    BY <1>5, <2>1 DEF StateOf
  <2>3. QED
    BY <2>2 DEF SeenUpload, Seen, SessionOf
<1>6. ASSUME Nowhere(t) PROVE Holds(t) = {} /\ ~\E p \in Procs : t \in pending[p]
  BY <1>6 DEF Nowhere, Holds
<1>7. ASSUME Nowhere(t), ~Fresh(t), lease[t].owner = None PROVE SeenUpload(t) = Promise!Over
  <2>1. StateOf(t) = "over"
    BY <1>6, <1>7 DEF StateOf
  <2>2. QED
    BY <2>1 DEF SeenUpload, Promise!Over
<1>8. ASSUME Nowhere(t), lease[t].owner # None, file[t] = NoFile PROVE SeenUpload(t) = Promise!Fresh
  <2>1. StateOf(t) = "fresh"
    BY <1>6, <1>8, HeldNotFresh DEF StateOf
  <2>2. QED
    BY <2>1 DEF SeenUpload, Promise!Fresh
<1>9. ASSUME Nowhere(t), lease[t].owner # None, file[t] # NoFile PROVE SeenUpload(t) = Seen("ending", t)
  <2>1. StateOf(t) = "ending"
    BY <1>6, <1>9, HeldNotFresh DEF StateOf
  <2>2. QED
    BY <2>1 DEF SeenUpload, Seen, SessionOf
<1>10. QED
  BY <1>3, <1>4, <1>5, <1>7, <1>8, <1>9

\* The steps of Transfer, on records of this shape.
Rec(state, s, n) == [state |-> state, owner |-> s, acked |-> n]

\* Doing nothing, ending, and the five things an upload may do.
LEMMA AllowedSteps ==
  /\ \A u : Promise!Step(u, u) /\ Promise!Step(u, Promise!Over)
  /\ \A s \in Sessions : Promise!Step(Promise!Fresh, Rec("open", s, 0))
  /\ \A s, m, n : m < n /\ n <= MaxTotal => Promise!Step(Rec("open", s, m), Rec("open", s, n))
  /\ \A s, n : n > 0 => Promise!Step(Rec("open", s, n), Rec("parked", s, n))
  /\ \A s, n : Promise!Step(Rec("parked", s, n), Rec("open", s, n))
  /\ \A s, n : Promise!Step(Rec("open", s, n), Rec("ending", s, n))
<1>1. \A u : Promise!Step(u, u) /\ Promise!Step(u, Promise!Over)
  BY DEF Promise!Step
<1>2. \A s \in Sessions : Promise!Step(Promise!Fresh, Rec("open", s, 0))
  BY DEF Promise!Step, Promise!Begins, Promise!Fresh, Rec
<1>3. \A s, m, n : m < n /\ n <= MaxTotal => Promise!Step(Rec("open", s, m), Rec("open", s, n))
  BY DEF Promise!Step, Promise!Acknowledges, Rec
<1>4. \A s, n : n > 0 => Promise!Step(Rec("open", s, n), Rec("parked", s, n))
  BY DEF Promise!Step, Promise!Parks, Rec
<1>5. \A s, n : Promise!Step(Rec("parked", s, n), Rec("open", s, n))
  BY DEF Promise!Step, Promise!Resumes, Rec
<1>6. \A s, n : Promise!Step(Rec("open", s, n), Rec("ending", s, n))
  BY DEF Promise!Step, Promise!Finishes, Rec
<1>7. QED
  BY <1>1, <1>2, <1>3, <1>4, <1>5, <1>6

-----------------------------------------------------------------------------
(* What a step does to one upload. *)

\* It stays where it is, with what it is.
Stays(t) ==
  /\ up'[t] = up[t] /\ lease'[t].owner = lease[t].owner
  /\ file'[t] = NoFile <=> file[t] = NoFile
  /\ \A c \in Conns : t \in active'[c] <=> t \in active[c]
  /\ \A p \in Procs : t \in pending'[p] <=> t \in pending[p]

\* It is let go for good.
LetGo(t) ==
  /\ up'[t] = up[t] /\ ~Fresh(t) /\ lease'[t].owner = None
  /\ \A c \in Conns : t \notin active'[c]
  /\ \A p \in Procs : t \notin pending'[p]

\* It is one of the steps of a transfer.
MoveOf(t) ==
  \/ Stays(t)
  \/ LetGo(t)
  \/ Fresh(t) /\ Nowhere(t)' /\ lease'[t].owner # None /\ file'[t] = NoFile
  \/ /\ Nowhere(t) /\ lease[t].owner # None /\ file[t] = NoFile /\ up[t].got = 0
     /\ up'[t] = up[t] /\ \E c \in Conns : t \in active'[c]
  \/ /\ \E c \in Conns : t \in active[c]
     /\ \/ /\ \E c \in Conns : t \in active'[c]
           /\ up'[t].sess = up[t].sess /\ up[t].got < up'[t].got /\ up'[t].got <= MaxTotal
        \/ up'[t] = up[t] /\ Nowhere(t)' /\ lease'[t].owner # None /\ file'[t] # NoFile
        \/ up'[t] = up[t] /\ up[t].got > 0 /\ \E p \in Procs : t \in pending'[p]
  \/ up'[t] = up[t] /\ (\E p \in Procs : t \in pending[p]) /\ \E c \in Conns : t \in active'[c]

\* A step of the server keeps the invariant and moves uploads in these ways.
Moves == UploadInv' /\ \A t \in Transfers : MoveOf(t)

\* Each of them is one that the client was promised.
LEMMA MoveAllowed ==
  ASSUME UploadInv, SeenFacts, UploadInv', SeenFacts', NEW t \in Transfers, MoveOf(t)
  PROVE  Promise!Step(SeenUpload(t), SeenUpload(t)')
<1> DEFINE u == SeenUpload(t)
           v == SeenUpload(t)'
<1>0. /\ \A state : Seen(state, t) = Rec(state, up[t].sess, up[t].got)
      /\ \A state : Seen(state, t)' = Rec(state, up'[t].sess, up'[t].got)
  BY DEF Seen, Rec
<1>1. /\ Fresh(t) => u = Promise!Fresh
      /\ \A c \in Conns : t \in active[c] => u = Seen("open", t)
      /\ \A p \in Procs : t \in pending[p] => u = Seen("parked", t)
      /\ Nowhere(t) /\ ~Fresh(t) /\ lease[t].owner = None => u = Promise!Over
      /\ Nowhere(t) /\ lease[t].owner # None /\ file[t] = NoFile => u = Promise!Fresh
      /\ Nowhere(t) /\ lease[t].owner # None /\ file[t] # NoFile => u = Seen("ending", t)
  BY DEF SeenFacts
<1>2. /\ Fresh(t)' => v = Promise!Fresh
      /\ \A c \in Conns : t \in active'[c] => v = Seen("open", t)'
      /\ \A p \in Procs : t \in pending'[p] => v = Seen("parked", t)'
      /\ Nowhere(t)' /\ ~Fresh(t)' /\ lease'[t].owner = None => v = Promise!Over
      /\ Nowhere(t)' /\ lease'[t].owner # None /\ file'[t] = NoFile => v = Promise!Fresh
      /\ Nowhere(t)' /\ lease'[t].owner # None /\ file'[t] # NoFile => v = Seen("ending", t)'
  BY DEF SeenFacts
<1>3. (up'[t] = up[t] => (Fresh(t)' <=> Fresh(t))) /\ (~Fresh(t) => up[t].sess \in Sessions)
  BY DEF Fresh, UploadInv, TransferInv, UpOK
<1> HIDE DEF u, v
<1>4. CASE Stays(t)
  <2>1. Nowhere(t)' <=> Nowhere(t)
    BY <1>4 DEF Stays, Nowhere
  <2>2. v = u
    <3>1. CASE Nowhere(t)
      BY <1>0, <1>1, <1>2, <1>3, <1>4, <2>1, <3>1 DEF Stays
    <3>2. CASE ~Nowhere(t)
      BY <1>0, <1>1, <1>2, <1>4, <3>2 DEF Stays, Nowhere
    <3>3. QED
      BY <3>1, <3>2
  <2>3. QED
    BY <2>2, AllowedSteps DEF u, v
<1>5. CASE LetGo(t)
  <2>1. v = Promise!Over
    BY <1>2, <1>3, <1>5 DEF LetGo, Nowhere
  <2>2. QED
    BY <2>1, AllowedSteps DEF u, v
<1>6. CASE Fresh(t) /\ Nowhere(t)' /\ lease'[t].owner # None /\ file'[t] = NoFile
  <2>1. u = v
    BY <1>1, <1>2, <1>6
  <2>2. QED
    BY <2>1, AllowedSteps DEF u, v
<1>7. CASE /\ Nowhere(t) /\ lease[t].owner # None /\ file[t] = NoFile /\ up[t].got = 0
           /\ up'[t] = up[t] /\ \E c \in Conns : t \in active'[c]
  <2>1. u = Promise!Fresh /\ v = Rec("open", up[t].sess, 0)
    BY <1>0, <1>1, <1>2, <1>7
  <2>2. up[t].sess \in Sessions
    BY <1>3, <1>7, HeldNotFresh
  <2>3. QED
    BY <2>1, <2>2, AllowedSteps DEF u, v
<1>8. CASE \E c \in Conns : t \in active[c]
  <2>1. u = Rec("open", up[t].sess, up[t].got)
    BY <1>0, <1>1, <1>8
  <2>2. CASE /\ \E c \in Conns : t \in active'[c]
             /\ up'[t].sess = up[t].sess /\ up[t].got < up'[t].got /\ up'[t].got <= MaxTotal
    <3>1. v = Rec("open", up[t].sess, up'[t].got)
      BY <1>0, <1>2, <2>2
    <3>2. QED
      BY <2>1, <2>2, <3>1, AllowedSteps DEF u, v
  <2>3. CASE up'[t] = up[t] /\ Nowhere(t)' /\ lease'[t].owner # None /\ file'[t] # NoFile
    <3>1. v = Rec("ending", up[t].sess, up[t].got)
      BY <1>0, <1>2, <2>3
    <3>2. QED
      BY <2>1, <3>1, AllowedSteps DEF u, v
  <2>4. CASE up'[t] = up[t] /\ up[t].got > 0 /\ \E p \in Procs : t \in pending'[p]
    <3>1. v = Rec("parked", up[t].sess, up[t].got)
      BY <1>0, <1>2, <2>4
    <3>2. QED
      BY <2>1, <2>4, <3>1, AllowedSteps DEF u, v
  <2>5. CASE up'[t] = up[t] /\ (\E p \in Procs : t \in pending[p]) /\ \E c \in Conns : t \in active'[c]
    <3>1. v = u
      BY <1>0, <1>2, <2>1, <2>5
    <3>2. QED
      BY <3>1, AllowedSteps DEF u, v
  <2>6. QED
    BY <1>4, <1>5, <1>6, <1>7, <2>2, <2>3, <2>4, <2>5 DEF MoveOf
<1>9. CASE up'[t] = up[t] /\ (\E p \in Procs : t \in pending[p]) /\ \E c \in Conns : t \in active'[c]
  <2>1. u = Rec("parked", up[t].sess, up[t].got) /\ v = Rec("open", up[t].sess, up[t].got)
    BY <1>0, <1>1, <1>2, <1>9
  <2>2. QED
    BY <2>1, AllowedSteps DEF u, v
<1>10. QED
  BY <1>4, <1>5, <1>6, <1>7, <1>8, <1>9 DEF MoveOf

\* Neither a job nor a closing connection finds itself with t anew, and no job
\* loses it.
GainsNothing(c, t) ==
  /\ HeldJob(c, t)' =>
       HeldJob(c, t) /\ conn'[c].kind = conn[c].kind /\ conn'[c].sess = conn[c].sess
  /\ HeldJob(c, t) => HeldJob(c, t)'
  /\ conn'[c].pc = "drop" /\ t \in conn'[c].kept => t \in active[c] /\ up[t].got > 0
  /\ t \in active[c] => conn'[c].sess = conn[c].sess /\ conn'[c].pc \notin {"none", "auth", "closed"}
NoNewHolder(t) == \A c \in Conns : GainsNothing(c, t)

\* An upload that stays keeps its part of the invariant.
LEMMA StaysInv ==
  ASSUME NEW t \in Transfers, TransferInv(t), Stays(t), NoNewHolder(t)
  PROVE  TransferInv(t)'
<1>1. InActive(t)'
  BY DEF TransferInv, InActive, Stays, NoNewHolder, GainsNothing
<1>2. InPending(t)'
  BY DEF TransferInv, InPending, Stays, NoNewHolder, GainsNothing
<1>3. InHeld(t)'
  BY DEF TransferInv, InHeld, Stays, NoNewHolder, GainsNothing
<1>4. InKept(t)'
  BY DEF TransferInv, InKept, Stays, NoNewHolder, GainsNothing
<1>5. UpOK(t)'
  BY DEF TransferInv, UpOK, Stays, Fresh
<1>6. IsHeld(t)'
  BY DEF TransferInv, IsHeld, Stays, NoNewHolder, GainsNothing
<1>7. QED
  BY <1>1, <1>2, <1>3, <1>4, <1>5, <1>6 DEF TransferInv

\* So does one that is let go, if nobody holds on to it.
LEMMA LetGoInv ==
  ASSUME NEW t \in Transfers, TransferInv(t), LetGo(t),
         \A c \in Conns : ~HeldJob(c, t)' /\ ~(conn'[c].pc = "drop" /\ t \in conn'[c].kept)
  PROVE  TransferInv(t)'
<1>1. InActive(t)' /\ InPending(t)'
  BY DEF InActive, InPending, LetGo
<1>2. InHeld(t)' /\ InKept(t)'
  BY DEF InHeld, InKept
<1>3. UpOK(t)' /\ IsHeld(t)'
  BY DEF TransferInv, UpOK, IsHeld, LetGo, Fresh
<1>4. QED
  BY <1>1, <1>2, <1>3 DEF TransferInv

\* Steps of downloads, logins and of the processes' own clocks.
LEMMA Quiet == ASSUME UploadInv, UNCHANGED <<wl, staging, conn>> PROVE Moves
<1>1. UNCHANGED <<file, lease, up, active, pending, lapsed>>
  BY DEF staging
<1>2. UploadTypes' /\ ConnInv'
  BY <1>1 DEF UploadInv, UploadTypes, ConnInv
<1>3. \A t \in Transfers : Stays(t)
  BY <1>1 DEF Stays
<1>4. ASSUME NEW t \in Transfers PROVE NoNewHolder(t)
  BY DEF NoNewHolder, GainsNothing, HeldJob, UploadInv, TransferInv, InActive, InKept
<1>5. QED
  BY <1>2, <1>3, <1>4, StaysInv DEF Moves, UploadInv, MoveOf

Ended == {"none", "auth", "closed"}

\* What connection c may become, while the uploads stay.
ConnGoesOn(c, r) ==
  /\ r \in ConnRec
  /\ r.pc = "held" <=> conn[c].pc = "held"
  /\ r.pc = "held" => r.t = conn[c].t /\ r.kind = conn[c].kind
  /\ r.pc \notin Ended => r.sess \in Sessions
  /\ conn[c].pc \notin Ended => r.sess = conn[c].sess /\ r.pc \notin Ended
  /\ r.pc = "drop" => \A t \in r.kept : t \in active[c] /\ up[t].got > 0

\* A step of one connection that touches no upload.
LEMMA ConnMoves ==
  ASSUME UploadInv, NEW c \in Conns, NEW r, ConnGoesOn(c, r),
         conn' = [conn EXCEPT ![c] = r], UNCHANGED <<wl, staging>>
  PROVE  Moves
<1>1. UNCHANGED <<file, lease, up, active, pending, lapsed>>
  BY DEF staging
<1>2. conn'[c] = r /\ \A d \in Conns : d # c => conn'[d] = conn[d]
  BY DEF UploadInv, UploadTypes
<1>3. UploadTypes'
  BY <1>1 DEF UploadInv, UploadTypes, ConnGoesOn
<1>4. ConnInv'
  BY <1>2 DEF UploadInv, ConnInv, ConnGoesOn, Ended
<1>5. \A t \in Transfers : Stays(t)
  BY <1>1 DEF Stays
<1>6. ASSUME NEW t \in Transfers PROVE NoNewHolder(t)
  <2> SUFFICES ASSUME NEW d \in Conns
               PROVE  GainsNothing(d, t)
    BY DEF NoNewHolder
  <2>1. InActive(t) /\ InKept(t)
    BY DEF UploadInv, TransferInv
  <2>2. CASE d = c
    BY <1>2, <2>1, <2>2 DEF GainsNothing, HeldJob, ConnGoesOn, Ended, InActive
  <2>3. CASE d # c
    BY <1>2, <2>1, <2>3 DEF GainsNothing, HeldJob, InActive, InKept
  <2>4. QED
    BY <2>2, <2>3
<1>7. QED
  BY <1>3, <1>4, <1>5, <1>6, StaysInv DEF Moves, UploadInv, MoveOf

\* A connection with a session that only changes where it stands.
LEMMA PcMoves ==
  ASSUME UploadInv, NEW c \in Conns, NEW x \in {"idle", "wait", "job", "done", "close"},
         conn[c].pc \notin Ended \cup {"held"}, To(c, x), UNCHANGED <<wl, staging>>
  PROVE  Moves
<1> DEFINE r == [conn[c] EXCEPT !.pc = x]
<1>1. conn[c] \in ConnRec
  BY DEF UploadInv, UploadTypes
<1>2. r \in ConnRec /\ r.pc = x /\ r.sess = conn[c].sess
  BY <1>1 DEF ConnRec
<1>3. conn' = [conn EXCEPT ![c] = r]
  BY DEF To, UploadInv, UploadTypes
<1>4. conn[c].sess \in Sessions
  BY DEF UploadInv, ConnInv, Ended
<1> HIDE DEF r
<1>5. ConnGoesOn(c, r)
  BY <1>2, <1>4 DEF ConnGoesOn, Ended
<1>6. QED
  BY <1>3, <1>5, ConnMoves

\* A new session for a connection that has none, and an end without one.
LEMMA NewSession ==
  ASSUME UploadInv, NEW c \in Conns, NEW s \in Sessions, conn[c].pc \in Ended,
         conn' = [conn EXCEPT ![c].pc = "idle", ![c].sess = s], UNCHANGED <<wl, staging>>
  PROVE  Moves
<1> DEFINE r == [conn[c] EXCEPT !.pc = "idle", !.sess = s]
<1>1. conn[c] \in ConnRec
  BY DEF UploadInv, UploadTypes
<1>2. r \in ConnRec /\ r.pc = "idle" /\ r.sess = s
  BY <1>1 DEF ConnRec
<1>3. conn' = [conn EXCEPT ![c] = r]
  BY DEF UploadInv, UploadTypes
<1> HIDE DEF r
<1>4. ConnGoesOn(c, r)
  BY <1>2 DEF ConnGoesOn, Ended
<1>5. QED
  BY <1>3, <1>4, ConnMoves

\* A socket that waits for its login, or gives up.
LEMMA WithoutSession ==
  ASSUME UploadInv, NEW c \in Conns, NEW x \in Ended, conn[c].pc \in Ended,
         To(c, x), UNCHANGED <<wl, staging>>
  PROVE  Moves
<1> DEFINE r == [conn[c] EXCEPT !.pc = x]
<1>1. conn[c] \in ConnRec
  BY DEF UploadInv, UploadTypes
<1>2. r \in ConnRec /\ r.pc = x
  BY <1>1 DEF ConnRec, Ended
<1>3. conn' = [conn EXCEPT ![c] = r]
  BY DEF To, UploadInv, UploadTypes
<1> HIDE DEF r
<1>4. ConnGoesOn(c, r)
  BY <1>2 DEF ConnGoesOn, Ended
<1>5. QED
  BY <1>3, <1>4, ConnMoves

\* The lease of a connection is cut.
LEMMA CutMoves ==
  ASSUME UploadInv, NEW c \in Conns, conn[c].pc \in LeaseStands,
         conn' = [conn EXCEPT ![c].cut = TRUE], UNCHANGED <<wl, staging>>
  PROVE  Moves
<1> DEFINE r == [conn[c] EXCEPT !.cut = TRUE]
<1>1. conn[c] \in ConnRec
  BY DEF UploadInv, UploadTypes
<1>2. /\ r \in ConnRec /\ r.pc = conn[c].pc /\ r.sess = conn[c].sess /\ r.t = conn[c].t
      /\ r.kind = conn[c].kind
  BY <1>1 DEF ConnRec
<1>3. conn' = [conn EXCEPT ![c] = r]
  BY DEF UploadInv, UploadTypes
<1>4. conn[c].sess \in Sessions
  BY DEF UploadInv, ConnInv, LeaseStands
<1> HIDE DEF r
<1>5. ConnGoesOn(c, r)
  BY <1>2, <1>4 DEF ConnGoesOn, Ended, LeaseStands
<1>6. QED
  BY <1>3, <1>5, ConnMoves

\* The steps of a connection that touch no upload.
LEMMA ConnSteps ==
  ASSUME UploadInv, NEW c \in Conns,
         \/ LeasePoll(c) \/ ValidationStarts(c)
         \/ \E valid \in BOOLEAN : ValidationEnds(c, valid)
         \/ \E s \in Sessions : Upgrade(c, s) \/ Authenticated(c, s)
         \/ PreAuth(c) \/ PreAuthEnds(c)
         \/ LoopBreaks(c) \/ PeerLeaves(c) \/ WaitBreaks(c) \/ JobStarts(c)
         \/ \E k \in Kinds, t \in Transfers \cup {None} : Receives(c, k, t)
         \/ JobOther(c)
         \/ \E pc \in {"idle", "close"} : Delivers(c, pc)
         \/ CloseReads(c)
  PROVE  Moves
<1>0. conn[c] \in ConnRec
  BY DEF UploadInv, UploadTypes
<1>1. CASE LeasePoll(c)
  BY <1>1, CutMoves DEF LeasePoll
<1>2. CASE ValidationStarts(c)
  BY <1>2, Quiet DEF ValidationStarts
<1>3. ASSUME NEW valid \in BOOLEAN, ValidationEnds(c, valid) PROVE Moves
  <2>1. CASE UNCHANGED conn
    BY <1>3, <2>1, Quiet DEF ValidationEnds
  <2>2. CASE conn' = [conn EXCEPT ![c].cut = TRUE] /\ conn[c].pc \in LeaseStands
    BY <1>3, <2>2, CutMoves DEF ValidationEnds
  <2>3. QED
    BY <1>3, <2>1, <2>2 DEF ValidationEnds
<1>4. ASSUME NEW s \in Sessions, Upgrade(c, s) PROVE Moves
  <2>1. conn[c].pc = "none"
    BY <1>4 DEF Upgrade, NextOf, Unborn
  <2>2. QED
    BY <1>4, <2>1, NewSession DEF Upgrade, NotConn, Ended
<1>5. ASSUME NEW s \in Sessions, Authenticated(c, s) PROVE Moves
  BY <1>5, NewSession DEF Authenticated, NotConn, Ended
<1>6. CASE PreAuth(c)
  <2>1. conn[c].pc = "none"
    BY <1>6 DEF PreAuth, NextOf, Unborn
  <2>2. QED
    BY <1>6, <2>1, WithoutSession DEF PreAuth, NotConn, Ended
<1>7. CASE PreAuthEnds(c)
  BY <1>7, WithoutSession DEF PreAuthEnds, NotConn, Ended
<1>8. CASE LoopBreaks(c) \/ PeerLeaves(c) \/ WaitBreaks(c)
  BY <1>8, PcMoves DEF LoopBreaks, PeerLeaves, WaitBreaks, NotConn, Ended
<1>9. CASE JobStarts(c)
  BY <1>9, PcMoves DEF JobStarts, NotConn, Ended
<1>10. ASSUME NEW k \in Kinds, NEW t \in Transfers \cup {None}, Receives(c, k, t) PROVE Moves
  <2>1. CASE To(c, "close")
    BY <1>10, <2>1, PcMoves DEF Receives, NotConn, Ended
  <2>2. CASE conn' = [conn EXCEPT ![c].pc = "wait", ![c].kind = k, ![c].t = t]
    <3> DEFINE r == [conn[c] EXCEPT !.pc = "wait", !.kind = k, !.t = t]
    <3>1. r \in ConnRec /\ r.pc = "wait" /\ r.sess = conn[c].sess
      BY <1>0 DEF ConnRec
    <3>2. conn' = [conn EXCEPT ![c] = r]
      BY <2>2 DEF UploadInv, UploadTypes
    <3>3. conn[c].sess \in Sessions
      BY <1>10 DEF Receives, UploadInv, ConnInv
    <3> HIDE DEF r
    <3>4. ConnGoesOn(c, r)
      BY <1>10, <3>1, <3>3 DEF ConnGoesOn, Ended, Receives
    <3>5. QED
      BY <1>10, <3>2, <3>4, ConnMoves DEF Receives, NotConn
  <2>3. QED
    BY <1>10, <2>1, <2>2 DEF Receives
<1>11. CASE JobOther(c)
  <2> DEFINE r == [conn[c] EXCEPT !.pc = "done", !.kind = "other", !.t = None]
  <2>1. r \in ConnRec /\ r.pc = "done" /\ r.sess = conn[c].sess
    BY <1>0 DEF ConnRec, Kinds
  <2>2. conn' = [conn EXCEPT ![c] = r]
    BY <1>11 DEF JobOther, JobReturns, UploadInv, UploadTypes
  <2>3. conn[c].sess \in Sessions
    BY <1>11 DEF JobOther, UploadInv, ConnInv
  <2> HIDE DEF r
  <2>4. ConnGoesOn(c, r)
    BY <1>11, <2>1, <2>3 DEF ConnGoesOn, Ended, JobOther, InJob
  <2>5. QED
    BY <1>11, <2>2, <2>4, ConnMoves DEF JobOther, JobReturns, NotConn
<1>12. ASSUME NEW pc \in {"idle", "close"}, Delivers(c, pc) PROVE Moves
  BY <1>12, PcMoves DEF Delivers, NotConn, Ended
<1>13. CASE CloseReads(c)
  <2> DEFINE k == Retained(c, Draining(ProcOf[c]))
             r == [conn[c] EXCEPT !.pc = "drop", !.kept = k]
  <2>1. k \subseteq active[c] /\ \A t \in k : up[t].got > 0
    BY DEF Retained
  <2>2. k \in SUBSET Transfers
    BY <2>1 DEF UploadInv, UploadTypes
  <2> HIDE DEF k
  <2>3. r \in ConnRec /\ r.pc = "drop" /\ r.sess = conn[c].sess /\ r.kept = k
    BY <1>0, <2>2 DEF ConnRec
  <2>4. conn' = [conn EXCEPT ![c] = r]
    BY <1>13 DEF CloseReads, UploadInv, UploadTypes, k
  <2>5. conn[c].sess \in Sessions
    BY <1>13 DEF CloseReads, UploadInv, ConnInv
  <2> HIDE DEF r
  <2>6. ConnGoesOn(c, r)
    BY <1>13, <2>1, <2>3, <2>5 DEF ConnGoesOn, Ended, CloseReads
  <2>7. QED
    BY <1>13, <2>4, <2>6, ConnMoves DEF CloseReads, NotConn
<1>14. QED
  BY <1>1, <1>2, <1>3, <1>4, <1>5, <1>6, <1>7, <1>8, <1>9, <1>10, <1>11, <1>12, <1>13

-----------------------------------------------------------------------------
(* Steps that touch uploads: the ones in T move, the others stay.          *)

\* What is left to show when the uploads outside T stay.
LEMMA Assembled ==
  ASSUME UploadInv, UploadTypes', ConnInv', NEW T,
         \A x \in Transfers : x \notin T => Stays(x) /\ NoNewHolder(x),
         \A x \in Transfers : x \in T => TransferInv(x)' /\ MoveOf(x)
  PROVE  Moves
<1>1. \A x \in Transfers : x \notin T => TransferInv(x)' /\ MoveOf(x)
  BY StaysInv DEF UploadInv, MoveOf
<1>2. QED
  BY <1>1 DEF Moves, UploadInv

\* A step of connection c gives no other upload a holder.
LEMMA OtherHolders ==
  ASSUME UploadInv, NEW c \in Conns, NEW r, conn' = [conn EXCEPT ![c] = r],
         NEW x \in Transfers, r.pc # "held" \/ r.t # x, r.pc # "drop", ~HeldJob(c, x),
         x \in active[c] => r.sess = conn[c].sess /\ r.pc \notin Ended
  PROVE  NoNewHolder(x)
<1>1. conn'[c] = r /\ \A d \in Conns : d # c => conn'[d] = conn[d]
  BY DEF UploadInv, UploadTypes
<1>2. InActive(x) /\ InKept(x)
  BY DEF UploadInv, TransferInv
<1> SUFFICES ASSUME NEW d \in Conns
             PROVE  GainsNothing(d, x)
  BY DEF NoNewHolder
<1>3. CASE d = c
  BY <1>1, <1>2, <1>3 DEF GainsNothing, HeldJob, Ended
<1>4. CASE d # c
  BY <1>1, <1>2, <1>4 DEF GainsNothing, HeldJob, InActive, InKept
<1>5. QED
  BY <1>3, <1>4

\* Nor does it make another connection's session.
LEMMA ConnInvKept ==
  ASSUME UploadInv, NEW c \in Conns, NEW r, conn' = [conn EXCEPT ![c] = r],
         r.pc \notin Ended => r.sess \in Sessions, r.pc = "held" => r.t \in Transfers
  PROVE  ConnInv'
<1>1. conn'[c] = r /\ \A d \in Conns : d # c => conn'[d] = conn[d]
  BY DEF UploadInv, UploadTypes
<1>2. QED
  BY <1>1 DEF UploadInv, ConnInv, Ended

\* The record of a connection whose job returns, or holds upload t.
LEMMA JobRecords ==
  ASSUME UploadInv, NEW c \in Conns, conn[c].pc \in {"job", "held"}
  PROVE  /\ conn[c].sess \in Sessions
         /\ LET r == [conn[c] EXCEPT !.pc = "done", !.kind = "other", !.t = None]
            IN r \in ConnRec /\ r.pc = "done" /\ r.sess = conn[c].sess
         /\ \A t \in Transfers : LET r == [conn[c] EXCEPT !.pc = "held", !.t = t]
            IN r \in ConnRec /\ r.pc = "held" /\ r.sess = conn[c].sess /\ r.t = t /\ r.kind = conn[c].kind
<1>1. conn[c] \in ConnRec
  BY DEF UploadInv, UploadTypes
<1>2. conn[c].sess \in Sessions
  BY DEF UploadInv, ConnInv
<1>3. QED
  BY <1>1, <1>2 DEF ConnRec, Kinds

\* remove_file and the drop of the reservations.
LEMMA DroppedFacts ==
  ASSUME UploadInv, NEW p, NEW ts, Dropped(p, ts)
  PROVE  /\ file' \in [Transfers -> NoFile..MaxTotal]
         /\ lease' \in [Transfers -> LeaseRec]
         /\ \A x \in Transfers : x \in ts => lease'[x].owner = None
         /\ \A x \in Transfers : x \notin ts => file'[x] = file[x] /\ lease'[x] = lease[x]
<1>1. NoFile \in NoFile..MaxTotal /\ NoLease \in LeaseRec /\ NoLease.owner = None
  BY TotalBound DEF NoFile, NoLease, LeaseRec
<1>2. /\ file' = [t \in Transfers |-> IF t \in ts THEN NoFile ELSE file[t]]
      /\ lease' = [t \in Transfers |-> IF t \in ts THEN NoLease ELSE lease[t]]
  BY DEF Dropped
<1>3. file \in [Transfers -> NoFile..MaxTotal] /\ lease \in [Transfers -> LeaseRec]
  BY DEF UploadInv, UploadTypes
<1> HIDE DEF NoFile, NoLease, LeaseRec
<1>4. QED
  BY <1>1, <1>2, <1>3

\* An upload that loses its lease and its holders is let go.
LEMMA Released ==
  ASSUME UploadInv, NEW t \in Transfers, lease[t].owner # None,
         up' = up, lease'[t].owner = None,
         \A d \in Conns : /\ t \notin active'[d] /\ ~HeldJob(d, t)'
                          /\ ~(conn'[d].pc = "drop" /\ t \in conn'[d].kept),
         \A p \in Procs : t \notin pending'[p]
  PROVE  TransferInv(t)' /\ MoveOf(t)
<1>1. LetGo(t)
  BY HeldNotFresh DEF LetGo
<1>2. TransferInv(t)
  BY DEF UploadInv
<1>3. QED
  BY <1>1, <1>2, LetGoInv DEF MoveOf

\* Who holds an upload, holds it alone.
LEMMA Alone ==
  ASSUME UploadInv, NEW t \in Transfers
  PROVE  /\ \A c \in Conns : t \in active[c] =>
              /\ lease[t].owner # None /\ lease[t].owner = ProcOf[c]
              /\ \A d \in Conns : (t \in active[d] => d = c) /\ ~HeldJob(d, t)
              /\ \A p \in Procs : t \notin pending[p]
         /\ \A p \in Procs : t \in pending[p] =>
              /\ lease[t].owner # None /\ lease[t].owner = p
              /\ \A d \in Conns : t \notin active[d] /\ ~HeldJob(d, t)
         /\ \A c \in Conns : HeldJob(c, t) =>
              /\ lease[t].owner # None /\ lease[t].owner = ProcOf[c]
              /\ \A d \in Conns : t \notin active[d] /\ (HeldJob(d, t) => d = c)
              /\ \A p \in Procs : t \notin pending[p]
         /\ \A c \in Conns : conn[c].pc = "drop" /\ t \in conn[c].kept => t \in active[c]
<1>1. InActive(t) /\ InPending(t) /\ InHeld(t) /\ InKept(t)
  BY DEF UploadInv, TransferInv
<1>2. None \notin Procs /\ \A c \in Conns : ProcOf[c] \in Procs
  BY StagingConstants
<1>3. \A c \in Conns : t \in active[c] =>
              /\ lease[t].owner # None /\ lease[t].owner = ProcOf[c]
              /\ \A d \in Conns : (t \in active[d] => d = c) /\ ~HeldJob(d, t)
              /\ \A p \in Procs : t \notin pending[p]
  BY <1>1, <1>2 DEF InActive
<1>4. \A p \in Procs : t \in pending[p] =>
              /\ lease[t].owner # None /\ lease[t].owner = p
              /\ \A d \in Conns : t \notin active[d] /\ ~HeldJob(d, t)
  BY <1>1, <1>2, <1>3 DEF InPending
<1>5. \A c \in Conns : HeldJob(c, t) =>
              /\ lease[t].owner # None /\ lease[t].owner = ProcOf[c]
              /\ \A d \in Conns : t \notin active[d] /\ (HeldJob(d, t) => d = c)
              /\ \A p \in Procs : t \notin pending[p]
  BY <1>1, <1>2, <1>3, <1>4 DEF InHeld
<1>6. QED
  BY <1>1, <1>3, <1>4, <1>5 DEF InKept

\* upload_begin_request takes its reservation: the transfer id is new.
LEMMA ReservesMoves == ASSUME UploadInv, NEW c \in Conns, JobReserves(c) PROVE Moves
<1>1. PICK t \in NextOf({x \in wl.transfers : Fresh(x)}), n \in wl.totals, keep \in wl.keeps :
        /\ BeginReserves(c, conn[c].sess, t, n, keep)
        /\ conn' = [conn EXCEPT ![c].pc = "held", ![c].t = t]
  BY DEF JobReserves
<1>2. /\ conn[c].pc = "job" /\ conn[c].kind = "begin" /\ wl' = wl
      /\ wl.transfers \subseteq Transfers /\ wl.totals \subseteq Totals /\ wl.keeps \subseteq BOOLEAN
  BY ServerConstants DEF JobReserves, InJob, NotConn, UploadInv, UploadTypes
<1>3. t \in Transfers /\ Fresh(t) /\ n \in 0..MaxTotal /\ keep \in BOOLEAN
  BY <1>1, <1>2, TotalBound DEF NextOf
<1> DEFINE r == [conn[c] EXCEPT !.pc = "held", !.t = t]
           s == conn[c].sess
           p == ProcOf[c]
<1>4. conn' = [conn EXCEPT ![c] = r]
  BY <1>1 DEF UploadInv, UploadTypes
<1>5. s \in Sessions /\ r \in ConnRec /\ r.pc = "held" /\ r.sess = s /\ r.t = t /\ r.kind = "begin"
  <2>1. conn[c].pc \in {"job", "held"} /\ t \in Transfers
    BY <1>2, <1>3
  <2>2. s \in Sessions /\ r \in ConnRec /\ r.pc = "held" /\ r.sess = s /\ r.t = t /\ r.kind = conn[c].kind
    BY <2>1, JobRecords, Zenon
  <2>3. QED
    BY <1>2, <2>2, Zenon
<1>6. p \in Procs /\ p # None
  BY StagingConstants
<1> DEFINE L == [there |-> TRUE, owner |-> p, bytes |-> n]
           U == [sess |-> s, total |-> n, got |-> 0, keep |-> keep]
<1>7. /\ lease' = [x \in Transfers |-> IF x = t THEN L ELSE IF x \in Charged THEN lease[x] ELSE NoLease]
      /\ up' = [up EXCEPT ![t] = U]
      /\ UNCHANGED <<file, active, pending, lapsed>>
  BY <1>1 DEF BeginReserves, Reserve
<1>8. L \in LeaseRec /\ L.owner = p /\ NoLease \in LeaseRec /\ NoLease.owner = None
  BY <1>3, <1>6, TotalBound DEF LeaseRec, NoLease
<1>9. U \in UploadRec /\ U.sess = s /\ U.got = 0 /\ U.total = n /\ U # NoUpload
  BY <1>3, <1>5, TotalBound, StagingConstants DEF UploadRec, NoUpload
<1>10. file[t] = NoFile /\ lease[t].owner = None
  BY <1>3 DEF UploadInv, TransferInv, UpOK
<1> HIDE DEF r, L, U
<1>11. UploadTypes'
  <2>1. up' \in [Transfers -> UploadRec] /\ conn' \in [Conns -> ConnRec]
    BY <1>4, <1>5, <1>7, <1>9 DEF UploadInv, UploadTypes
  <2>2. lease' \in [Transfers -> LeaseRec]
    BY <1>7, <1>8 DEF UploadInv, UploadTypes
  <2>3. QED
    BY <1>2, <1>7, <2>1, <2>2 DEF UploadInv, UploadTypes
<1>12. ConnInv'
  BY <1>3, <1>4, <1>5, ConnInvKept
<1>13. ASSUME NEW x \in Transfers, x \notin {t} PROVE Stays(x) /\ NoNewHolder(x)
  <2>1. up'[x] = up[x]
    BY <1>7, <1>13 DEF UploadInv, UploadTypes
  <2>2. lease'[x].owner = lease[x].owner
    BY <1>7, <1>8, <1>13 DEF Charged
  <2>3. NoNewHolder(x)
    BY <1>2, <1>4, <1>5, <1>13, OtherHolders DEF Ended, HeldJob
  <2>4. QED
    BY <1>7, <2>1, <2>2, <2>3 DEF Stays
<1>14. TransferInv(t)' /\ MoveOf(t)
  <2>1. up'[t] = U /\ lease'[t].owner = p /\ file'[t] = NoFile
    BY <1>3, <1>7, <1>8, <1>10 DEF UploadInv, UploadTypes
  <2>2. /\ \A d \in Conns : t \notin active[d] /\ ~HeldJob(d, t)
                            /\ ~(conn[d].pc = "drop" /\ t \in conn[d].kept)
        /\ \A q \in Procs : t \notin pending[q]
    BY <1>3, <1>10, Alone
  <2>3. conn'[c] = r /\ \A d \in Conns : d # c => conn'[d] = conn[d]
    BY <1>4 DEF UploadInv, UploadTypes
  <2>4. Nowhere(t)' /\ \A d \in Conns : HeldJob(d, t)' => d = c
    BY <1>7, <2>2, <2>3 DEF Nowhere, HeldJob
  <2>5. InActive(t)' /\ InPending(t)'
    BY <2>4 DEF InActive, InPending, Nowhere
  <2>6. InHeld(t)'
    BY <1>5, <1>9, <2>1, <2>3, <2>4 DEF InHeld
  <2>7. InKept(t)'
    BY <1>5, <2>2, <2>3 DEF InKept
  <2>8. UpOK(t)'
    BY <1>3, <1>5, <1>9, <2>1 DEF UpOK, Fresh
  <2>9. IsHeld(t)'
    BY <1>5, <2>3 DEF IsHeld, HeldJob
  <2>10. QED
    BY <1>3, <1>6, <2>1, <2>4, <2>5, <2>6, <2>7, <2>8, <2>9 DEF TransferInv, MoveOf
<1>15. \A x \in Transfers : x \in {t} => TransferInv(x)' /\ MoveOf(x)
  BY <1>14
<1>16. QED
  BY <1>11, <1>12, <1>13, <1>15, Assembled

\* The stage file is created, and the connection lists the upload.
LEMMA CreatesMoves ==
  ASSUME UploadInv, NEW c \in Conns, conn[c].pc = "held", conn[c].kind = "begin",
         BeginCreates(c, conn[c].t), JobReturns(c)
  PROVE  Moves
<1> DEFINE r == [conn[c] EXCEPT !.pc = "done", !.kind = "other", !.t = None]
<1>0. PICK t \in Transfers : t = conn[c].t /\ HeldJob(c, t)
  BY DEF UploadInv, ConnInv, HeldJob
<1>1. conn' = [conn EXCEPT ![c] = r] /\ wl' = wl
  BY DEF JobReturns, NotConn, UploadInv, UploadTypes
<1>2. conn[c].sess \in Sessions /\ r \in ConnRec /\ r.pc = "done" /\ r.sess = conn[c].sess
  BY JobRecords
<1>3. /\ file' = [file EXCEPT ![t] = 0]
      /\ active' = [active EXCEPT ![c] = active[c] \cup {t}]
      /\ UNCHANGED <<lease, up, pending, lapsed>>
  BY <1>0 DEF BeginCreates
<1>4. /\ lease[t].owner = ProcOf[c] /\ lease[t].owner # None /\ file[t] = NoFile /\ up[t].got = 0
      /\ up[t].sess = conn[c].sess
  BY <1>0, Alone DEF UploadInv, TransferInv, InHeld
<1> HIDE DEF r
<1>5. UploadTypes'
  <2>1. 0 \in NoFile..MaxTotal
    BY TotalBound DEF NoFile
  <2>2. file' \in [Transfers -> NoFile..MaxTotal] /\ active' \in [Conns -> SUBSET Transfers]
    BY <1>0, <1>3, <2>1 DEF UploadInv, UploadTypes
  <2>3. QED
    BY <1>1, <1>2, <1>3, <2>2 DEF UploadInv, UploadTypes
<1>6. ConnInv'
  BY <1>1, <1>2, ConnInvKept

<1>7. conn'[c] = r /\ \A d \in Conns : d # c => conn'[d] = conn[d]
  BY <1>1 DEF UploadInv, UploadTypes
<1>8. active'[c] = active[c] \cup {t} /\ \A d \in Conns : d # c => active'[d] = active[d]
  BY <1>3 DEF UploadInv, UploadTypes
<1>9. ASSUME NEW x \in Transfers, x \notin {t} PROVE Stays(x) /\ NoNewHolder(x)
  <2>1. file'[x] = file[x]
    BY <1>3, <1>9 DEF UploadInv, UploadTypes
  <2>2. \A d \in Conns : x \in active'[d] <=> x \in active[d]
    BY <1>8, <1>9
  <2>3. NoNewHolder(x)
    BY <1>0, <1>1, <1>2, <1>9, OtherHolders DEF Ended, HeldJob
  <2>4. QED
    BY <1>3, <2>1, <2>2, <2>3 DEF Stays
<1>10. TransferInv(t)' /\ MoveOf(t)
  <2>1. /\ \A d \in Conns : t \notin active[d] /\ (HeldJob(d, t) => d = c)
        /\ \A p \in Procs : t \notin pending[p]
    BY <1>0, Alone
  <2>2. file'[t] = 0
    BY <1>0, <1>3 DEF UploadInv, UploadTypes
  <2>3. \A d \in Conns : ~HeldJob(d, t)' /\ (t \in active'[d] => d = c)
    BY <1>2, <1>7, <1>8, <2>1 DEF HeldJob
  <2>4. InActive(t)'
    BY <1>2, <1>3, <1>4, <1>7, <2>1, <2>2, <2>3 DEF InActive, NoFile
  <2>5. InPending(t)' /\ InHeld(t)'
    BY <1>3, <2>1, <2>3 DEF InPending, InHeld
  <2>6. InKept(t)'
    BY <1>0, <1>2, <1>7, <2>1, Alone DEF InKept
  <2>7. UpOK(t)'
    BY <1>0, <1>3, <1>4, HeldNotFresh DEF UpOK, Fresh, UploadInv, TransferInv
  <2>8. IsHeld(t)'
    BY <1>8 DEF IsHeld
  <2>9. QED
    BY <1>3, <1>4, <1>8, <2>1, <2>4, <2>5, <2>6, <2>7, <2>8 DEF TransferInv, MoveOf, Nowhere
<1>11. \A x \in Transfers : x \in {t} => TransferInv(x)' /\ MoveOf(x)
  BY <1>10
<1>12. QED
  BY <1>5, <1>6, <1>9, <1>11, Assembled

\* A job gives its upload up: the disk is full, or the publication is over.
LEMMA GivesUpMoves ==
  ASSUME UploadInv, NEW c \in Conns, conn[c].pc = "held",
         Dropped(ProcOf[c], {conn[c].t}), UNCHANGED <<up, active, pending, lapsed>>, JobReturns(c)
  PROVE  Moves
<1> DEFINE r == [conn[c] EXCEPT !.pc = "done", !.kind = "other", !.t = None]
<1>0. PICK t \in Transfers : t = conn[c].t /\ HeldJob(c, t)
  BY DEF UploadInv, ConnInv, HeldJob
<1>1. conn' = [conn EXCEPT ![c] = r] /\ wl' = wl
  BY DEF JobReturns, NotConn, UploadInv, UploadTypes
<1>2. conn[c].sess \in Sessions /\ r \in ConnRec /\ r.pc = "done" /\ r.sess = conn[c].sess
  BY JobRecords
<1>3. /\ file' \in [Transfers -> NoFile..MaxTotal]
      /\ lease' \in [Transfers -> LeaseRec]
      /\ lease'[t].owner = None
      /\ \A x \in Transfers : x # t => file'[x] = file[x] /\ lease'[x] = lease[x]
  BY <1>0, DroppedFacts
<1> HIDE DEF r
<1>4. UploadTypes'
  BY <1>1, <1>2, <1>3 DEF UploadInv, UploadTypes
<1>5. ConnInv'
  BY <1>1, <1>2, ConnInvKept
<1>6. conn'[c] = r /\ \A d \in Conns : d # c => conn'[d] = conn[d]
  BY <1>1 DEF UploadInv, UploadTypes
<1>7. ASSUME NEW x \in Transfers, x \notin {t} PROVE Stays(x) /\ NoNewHolder(x)
  <2>1. NoNewHolder(x)
    BY <1>0, <1>1, <1>2, <1>7, OtherHolders DEF Ended, HeldJob
  <2>2. QED
    BY <1>3, <1>7, <2>1 DEF Stays
<1>8. TransferInv(t)' /\ MoveOf(t)
  <2>1. /\ lease[t].owner # None
        /\ \A d \in Conns : /\ t \notin active[d] /\ (HeldJob(d, t) => d = c)
                            /\ ~(conn[d].pc = "drop" /\ t \in conn[d].kept)
        /\ \A p \in Procs : t \notin pending[p]
    BY <1>0, Alone
  <2>2. \A d \in Conns : ~HeldJob(d, t)' /\ ~(conn'[d].pc = "drop" /\ t \in conn'[d].kept)
    BY <1>2, <1>6, <2>1 DEF HeldJob
  <2>3. QED
    BY <1>0, <1>3, <2>1, <2>2, Released
<1>9. \A x \in Transfers : x \in {t} => TransferInv(x)' /\ MoveOf(x)
  BY <1>8
<1>10. QED
  BY <1>4, <1>5, <1>7, <1>9, Assembled

\* A chunk is written, wholly or torn: only a whole one is acknowledged.
LEMMA WritesMoves == ASSUME UploadInv, NEW c \in Conns, JobWrites(c) PROVE Moves
<1>1. PICK n \in 1..MaxTotal :
        \/ ChunkWritten(c, conn[c].t, n)
        \/ \E k \in 1..(n - 1) : ChunkTorn(c, conn[c].t, n, k)
  BY DEF JobWrites
<1>2. PICK t : t = conn[c].t
  OBVIOUS
<1> DEFINE r == [conn[c] EXCEPT !.pc = "done", !.kind = "other", !.t = None]
<1>3. conn' = [conn EXCEPT ![c] = r] /\ wl' = wl /\ conn[c].pc = "job"
  BY DEF JobWrites, InJob, JobReturns, NotConn, UploadInv, UploadTypes
<1>4. conn[c].sess \in Sessions /\ r \in ConnRec /\ r.pc = "done" /\ r.sess = conn[c].sess
  BY <1>3, JobRecords
<1> HIDE DEF r
<1>5. /\ t \in active[c] /\ t \in Transfers /\ up[t].got + n <= up[t].total /\ file[t] # NoFile
      /\ UNCHANGED <<lease, active, pending, lapsed>>
  BY <1>1, <1>2 DEF ChunkWritten, ChunkTorn, ChunkWithin, UploadInv, UploadTypes
<1>6. /\ up[t] \in UploadRec /\ up[t].got \in Nat /\ up[t].total \in Nat /\ up[t].total <= MaxTotal
      /\ file[t] \in NoFile..MaxTotal /\ n \in Nat /\ n > 0 /\ MaxTotal \in Nat
  BY <1>5, TotalBound DEF UploadInv, UploadTypes, UploadRec
<1>7. PICK f \in 0..MaxTotal, g \in 0..MaxTotal :
        /\ file' = [file EXCEPT ![t] = f]
        /\ up' = [up EXCEPT ![t] = [up[t] EXCEPT !.got = g]]
        /\ g = up[t].got \/ (up[t].got < g /\ g <= up[t].total)
  <2>1. ASSUME NEW k \in 1..n PROVE Max({file[t], up[t].got + k}) \in 0..MaxTotal
    <3>1. up[t].got + k \in 0..MaxTotal /\ file[t] \in Int /\ file[t] <= MaxTotal
      BY <1>5, <1>6 DEF NoFile
    <3> DEFINE a == file[t]
               b == up[t].got + k
    <3>2. a \in Int /\ b \in Int /\ 0 <= b /\ b <= MaxTotal /\ a <= MaxTotal
      BY <1>6, <3>1
    <3> HIDE DEF a, b
    <3>3. Max({a, b}) \in {a, b} /\ Max({a, b}) >= b
      BY <3>2, MaxOfTwo
    <3>4. Max({a, b}) \in 0..MaxTotal
      BY <1>6, <3>2, <3>3
    <3>5. QED
      BY <3>4 DEF a, b
  <2>2. CASE ChunkWritten(c, t, n)
    <3>1. /\ file' = [file EXCEPT ![t] = Max({file[t], up[t].got + n})]
          /\ up' = [up EXCEPT ![t] = [up[t] EXCEPT !.got = up[t].got + n]]
      BY <2>2 DEF ChunkWritten, UploadInv, UploadTypes
    <3>2. up[t].got + n \in 0..MaxTotal /\ up[t].got < up[t].got + n /\ n \in 1..n
      BY <1>5, <1>6
    <3>3. QED
      BY <1>5, <2>1, <3>1, <3>2
  <2>3. ASSUME NEW k \in 1..(n - 1), ChunkTorn(c, t, n, k)
        PROVE  \E f \in 0..MaxTotal, g \in 0..MaxTotal :
                 /\ file' = [file EXCEPT ![t] = f]
                 /\ up' = [up EXCEPT ![t] = [up[t] EXCEPT !.got = g]]
                 /\ g = up[t].got \/ (up[t].got < g /\ g <= up[t].total)
    <3>1. file' = [file EXCEPT ![t] = Max({file[t], up[t].got + k})] /\ up' = up
      BY <2>3 DEF ChunkTorn
    <3>2. up' = [up EXCEPT ![t] = [up[t] EXCEPT !.got = up[t].got]]
      BY <1>6, <3>1 DEF UploadInv, UploadTypes, UploadRec
    <3>3. k \in 1..n /\ up[t].got \in 0..MaxTotal
      BY <1>5, <1>6
    <3>4. QED
      BY <2>1, <3>1, <3>2, <3>3
  <2>4. QED
    BY <1>1, <1>2, <2>2, <2>3
<1> DEFINE U == [up[t] EXCEPT !.got = g]
<1>8. /\ U \in UploadRec /\ U.got = g /\ U.sess = up[t].sess /\ U.total = up[t].total
      /\ (g = up[t].got => U = up[t])
  BY <1>6 DEF UploadRec
<1> HIDE DEF U
<1>9. /\ file'[t] = f /\ up'[t] = U
      /\ \A x \in Transfers : x # t => file'[x] = file[x] /\ up'[x] = up[x]
  BY <1>5, <1>7 DEF UploadInv, UploadTypes, U
<1>10. UploadTypes'
  <2>1. f \in NoFile..MaxTotal
    BY <1>6 DEF NoFile
  <2>2. file' \in [Transfers -> NoFile..MaxTotal] /\ up' \in [Transfers -> UploadRec]
    BY <1>7, <1>8, <2>1 DEF UploadInv, UploadTypes, U
  <2>3. QED
    BY <1>3, <1>4, <1>5, <2>2 DEF UploadInv, UploadTypes
<1>11. ConnInv'
  BY <1>3, <1>4, ConnInvKept
<1>12. ASSUME NEW x \in Transfers PROVE NoNewHolder(x)
  BY <1>3, <1>4, OtherHolders DEF Ended, HeldJob
<1>13. f # NoFile
  BY DEF NoFile
<1>14. ASSUME NEW x \in Transfers, x \notin {t} PROVE Stays(x) /\ NoNewHolder(x)
  BY <1>5, <1>9, <1>12, <1>14 DEF Stays
<1>15. TransferInv(t)' /\ MoveOf(t)
  <2>1. CASE g = up[t].got
    <3>1. Stays(t)
      BY <1>5, <1>8, <1>9, <1>13, <2>1 DEF Stays
    <3>2. QED
      BY <1>5, <1>12, <3>1, StaysInv DEF UploadInv, MoveOf
  <2>2. CASE up[t].got < g /\ g <= up[t].total
    <3>1. TransferInv(t) /\ NoNewHolder(t)
      BY <1>5, <1>12 DEF UploadInv
    <3>2. InActive(t)'
      BY <1>5, <1>8, <1>9, <1>13, <3>1 DEF TransferInv, InActive, NoNewHolder, GainsNothing
    <3>3. InPending(t)'
      BY <1>5, <1>9, <1>13, <3>1 DEF TransferInv, InPending, NoNewHolder, GainsNothing
    <3>4. InHeld(t)'
      BY <1>5, Alone, <3>1 DEF InHeld, NoNewHolder, GainsNothing
    <3>5. g > 0
      BY <1>6, <2>2
    <3>6. InKept(t)'
      BY <1>5, <1>8, <1>9, <3>1, <3>5 DEF InKept, NoNewHolder, GainsNothing
    <3>7. U # NoUpload /\ up[t].sess \in Sessions
      BY <1>5, <1>8, <3>1, <3>5, Alone, HeldNotFresh DEF NoUpload, TransferInv, UpOK
    <3>8. UpOK(t)'
      BY <1>8, <1>9, <2>2, <3>7 DEF UpOK, Fresh
    <3>9. g <= MaxTotal
      OBVIOUS
    <3>10. MoveOf(t)
      BY <1>5, <1>8, <1>9, <2>2, <3>9 DEF MoveOf
    <3>11. IsHeld(t)'
      BY <1>5 DEF IsHeld
    <3>12. QED
      BY <3>2, <3>3, <3>4, <3>6, <3>8, <3>10, <3>11 DEF TransferInv
  <2>3. QED
    BY <1>7, <2>1, <2>2
<1>16. \A x \in Transfers : x \in {t} => TransferInv(x)' /\ MoveOf(x)
  BY <1>15
<1>17. QED
  BY <1>10, <1>11, <1>14, <1>16, Assembled

\* The end of an upload takes it out of its connection.
LEMMA EndsMoves == ASSUME UploadInv, NEW c \in Conns, JobEnds(c) PROVE Moves
<1>1. PICK t : t = conn[c].t
  OBVIOUS
<1> DEFINE r == [conn[c] EXCEPT !.pc = "held"]
<1>2. /\ conn[c].pc = "job" /\ conn[c].kind = "end" /\ wl' = wl
      /\ conn' = [conn EXCEPT ![c] = r]
  BY DEF JobEnds, InJob, To, NotConn, UploadInv, UploadTypes
<1>3. /\ t \in active[c] /\ t \in Transfers
      /\ active' = [active EXCEPT ![c] = active[c] \ {t}]
      /\ UNCHANGED <<file, lease, up, pending, lapsed>>
  BY <1>1 DEF JobEnds, EndTakes, UploadInv, UploadTypes
<1>4. conn[c].sess \in Sessions /\ conn[c] \in ConnRec
  BY <1>2, JobRecords DEF UploadInv, UploadTypes
<1>5. r \in ConnRec /\ r.pc = "held" /\ r.sess = conn[c].sess /\ r.t = t /\ r.kind = "end"
  BY <1>1, <1>2, <1>4 DEF ConnRec
<1> HIDE DEF r
<1>6. UploadTypes'
  <2>1. active' \in [Conns -> SUBSET Transfers]
    BY <1>3 DEF UploadInv, UploadTypes
  <2>2. QED
    BY <1>2, <1>3, <1>5, <2>1 DEF UploadInv, UploadTypes
<1>7. ConnInv'
  BY <1>2, <1>3, <1>4, <1>5, ConnInvKept
<1>8. active'[c] = active[c] \ {t} /\ \A d \in Conns : d # c => active'[d] = active[d]
  BY <1>3 DEF UploadInv, UploadTypes
<1>9. conn'[c] = r /\ \A d \in Conns : d # c => conn'[d] = conn[d]
  BY <1>2 DEF UploadInv, UploadTypes
<1>10. ASSUME NEW x \in Transfers, x \notin {t} PROVE Stays(x) /\ NoNewHolder(x)
  <2>1. NoNewHolder(x)
    BY <1>2, <1>5, <1>10, OtherHolders DEF Ended, HeldJob
  <2>2. QED
    BY <1>3, <1>8, <1>10, <2>1 DEF Stays
<1>11. TransferInv(t)' /\ MoveOf(t)
  <2>1. /\ lease[t].owner = ProcOf[c] /\ lease[t].owner # None
        /\ \A d \in Conns : /\ (t \in active[d] => d = c) /\ ~HeldJob(d, t)
                            /\ (conn[d].pc = "drop" /\ t \in conn[d].kept => d = c)
        /\ \A p \in Procs : t \notin pending[p]
    BY <1>3, Alone
  <2>2. Nowhere(t)' /\ \A d \in Conns : HeldJob(d, t)' => d = c
    BY <1>3, <1>8, <1>9, <2>1 DEF Nowhere, HeldJob
  <2>3. file[t] # NoFile
    BY <1>3 DEF UploadInv, TransferInv, InActive
  <2>4. InActive(t)' /\ InPending(t)'
    BY <2>2 DEF InActive, InPending, Nowhere
  <2>5. InHeld(t)'
    BY <1>3, <1>5, <1>9, <2>1, <2>2, <2>3 DEF InHeld
  <2>6. InKept(t)'
    BY <1>5, <1>9, <2>1 DEF InKept
  <2>7. UpOK(t)'
    BY <1>3 DEF UpOK, Fresh, UploadInv, TransferInv
  <2>8. IsHeld(t)'
    BY <1>5, <1>9 DEF IsHeld, HeldJob
  <2>9. QED
    BY <1>3, <2>1, <2>2, <2>3, <2>4, <2>5, <2>6, <2>7, <2>8 DEF TransferInv, MoveOf
<1>12. \A x \in Transfers : x \in {t} => TransferInv(x)' /\ MoveOf(x)
  BY <1>11
<1>13. QED
  BY <1>6, <1>7, <1>10, <1>12, Assembled

\* The client aborts an upload of its connection, or a suspended one of its session.
LEMMA AbortsMoves == ASSUME UploadInv, NEW c \in Conns, JobAborts(c) PROVE Moves
<1>1. PICK t : t = conn[c].t
  OBVIOUS
<1> DEFINE r == [conn[c] EXCEPT !.pc = "done", !.kind = "other", !.t = None]
<1>2. conn' = [conn EXCEPT ![c] = r] /\ wl' = wl /\ conn[c].pc = "job"
  BY DEF JobAborts, InJob, JobReturns, NotConn, UploadInv, UploadTypes
<1>3. conn[c].sess \in Sessions /\ r \in ConnRec /\ r.pc = "done" /\ r.sess = conn[c].sess
  BY <1>2, JobRecords
<1> HIDE DEF r
<1>4. PICK p \in Procs : p = ProcOf[c]
  BY StagingConstants
<1>5. /\ t \in active[c] \/ t \in pending[p]
      /\ t \in Transfers /\ Dropped(p, {t}) /\ up' = up
      /\ active' = [active EXCEPT ![c] = active[c] \ {t}]
      /\ pending' = [pending EXCEPT ![p] = pending[p] \ (IF t \in active[c] THEN {} ELSE {t})]
      /\ lapsed' \subseteq lapsed
  BY <1>1, <1>4 DEF JobAborts, Aborts, SuspendedFor, UploadInv, UploadTypes
<1>6. /\ file' \in [Transfers -> NoFile..MaxTotal]
      /\ lease' \in [Transfers -> LeaseRec]
      /\ lease'[t].owner = None
      /\ \A x \in Transfers : x # t => file'[x] = file[x] /\ lease'[x] = lease[x]
  BY <1>5, DroppedFacts
<1>7. UploadTypes'
  <2>1. active' \in [Conns -> SUBSET Transfers] /\ pending' \in [Procs -> SUBSET Transfers]
    BY <1>5 DEF UploadInv, UploadTypes
  <2>2. QED
    BY <1>2, <1>3, <1>5, <1>6, <2>1 DEF UploadInv, UploadTypes
<1>8. ConnInv'
  BY <1>2, <1>3, ConnInvKept
<1>9. /\ conn'[c] = r /\ \A d \in Conns : d # c => conn'[d] = conn[d]
      /\ active'[c] = active[c] \ {t} /\ \A d \in Conns : d # c => active'[d] = active[d]
      /\ pending'[p] = pending[p] \ (IF t \in active[c] THEN {} ELSE {t})
      /\ \A q \in Procs : q # p => pending'[q] = pending[q]
  BY <1>2, <1>5 DEF UploadInv, UploadTypes
<1>10. ASSUME NEW x \in Transfers, x \notin {t} PROVE Stays(x) /\ NoNewHolder(x)
  <2>1. NoNewHolder(x)
    BY <1>2, <1>3, OtherHolders DEF Ended, HeldJob
  <2>2. \A q \in Procs : x \in pending'[q] <=> x \in pending[q]
    BY <1>9, <1>10
  <2>3. \A d \in Conns : x \in active'[d] <=> x \in active[d]
    BY <1>9, <1>10
  <2>4. QED
    BY <1>5, <1>6, <1>10, <2>1, <2>2, <2>3 DEF Stays
<1>11. TransferInv(t)' /\ MoveOf(t)
  <2>1. /\ lease[t].owner # None
        /\ \A d \in Conns : /\ (t \in active[d] => d = c) /\ ~HeldJob(d, t)
                            /\ (conn[d].pc = "drop" /\ t \in conn[d].kept => d = c)
        /\ \A q \in Procs : t \in pending[q] => q = p /\ t \notin active[c]
    BY <1>5, Alone
  <2>2. \A d \in Conns : /\ t \notin active'[d] /\ ~HeldJob(d, t)'
                         /\ ~(conn'[d].pc = "drop" /\ t \in conn'[d].kept)
    BY <1>3, <1>9, <2>1 DEF HeldJob
  <2>3. \A q \in Procs : t \notin pending'[q]
    BY <1>5, <1>9, <2>1
  <2>4. QED
    BY <1>5, <1>6, <2>1, <2>2, <2>3, Released
<1>12. \A x \in Transfers : x \in {t} => TransferInv(x)' /\ MoveOf(x)
  BY <1>11
<1>13. QED
  BY <1>7, <1>8, <1>10, <1>12, Assembled

\* A suspended upload returns to a connection of its session, or is dropped;
\* the lapsed ones of the process go first.
LEMMA ResumesMoves == ASSUME UploadInv, NEW c \in Conns, JobResumes(c) PROVE Moves
<1>1. PICK t : t = conn[c].t
  OBVIOUS
<1>2. PICK admitted \in BOOLEAN : Takes(c, conn[c].sess, t, admitted)
  BY <1>1 DEF JobResumes
<1> DEFINE r == [conn[c] EXCEPT !.pc = "done", !.kind = "other", !.t = None]
<1>3. conn' = [conn EXCEPT ![c] = r] /\ wl' = wl /\ conn[c].pc = "job"
  BY DEF JobResumes, InJob, JobReturns, NotConn, UploadInv, UploadTypes
<1>4. conn[c].sess \in Sessions /\ r \in ConnRec /\ r.pc = "done" /\ r.sess = conn[c].sess
  BY <1>3, JobRecords
<1> HIDE DEF r
<1>5. PICK p \in Procs : p = ProcOf[c]
  BY StagingConstants
<1>6. PICK out, back :
        /\ back = {x \in {t} : Resumable(p, conn[c].sess, x, admitted)}
        /\ out = (pending[p] \cap lapsed) \cup {x \in {t} \ back : Found(p, conn[c].sess, x)}
        /\ Dropped(p, out) /\ up' = up
        /\ active' = [active EXCEPT ![c] = active[c] \cup back]
        /\ pending' = [pending EXCEPT ![p] = pending[p] \ (out \cup back)]
        /\ lapsed' = lapsed \ out
  BY <1>2, <1>5 DEF Takes
<1>7. /\ out \subseteq pending[p] /\ back \subseteq pending[p] /\ out \cap back = {}
      /\ \A x \in back : up[x].sess = conn[c].sess
  BY <1>6 DEF Resumable, Found, SuspendedFor
<1>8. pending[p] \subseteq Transfers
  BY DEF UploadInv, UploadTypes
<1>9. /\ file' \in [Transfers -> NoFile..MaxTotal]
      /\ lease' \in [Transfers -> LeaseRec]
      /\ \A x \in Transfers : x \in out => lease'[x].owner = None
      /\ \A x \in Transfers : x \notin out => file'[x] = file[x] /\ lease'[x] = lease[x]
  BY <1>6, DroppedFacts
<1>10. UploadTypes'
  <2>1. active' \in [Conns -> SUBSET Transfers] /\ pending' \in [Procs -> SUBSET Transfers]
    BY <1>6, <1>7, <1>8 DEF UploadInv, UploadTypes
  <2>2. QED
    BY <1>3, <1>4, <1>6, <1>9, <2>1 DEF UploadInv, UploadTypes
<1>11. ConnInv'
  BY <1>3, <1>4, ConnInvKept
<1>12. /\ conn'[c] = r /\ \A d \in Conns : d # c => conn'[d] = conn[d]
       /\ active'[c] = active[c] \cup back /\ \A d \in Conns : d # c => active'[d] = active[d]
       /\ pending'[p] = pending[p] \ (out \cup back)
       /\ \A q \in Procs : q # p => pending'[q] = pending[q]
  BY <1>3, <1>6 DEF UploadInv, UploadTypes
<1>13. ASSUME NEW x \in Transfers PROVE NoNewHolder(x)
  BY <1>3, <1>4, OtherHolders DEF Ended, HeldJob
<1>14. ASSUME NEW x \in Transfers, x \notin out \cup back PROVE Stays(x)
  <2>1. \A q \in Procs : x \in pending'[q] <=> x \in pending[q]
    BY <1>12, <1>14
  <2>2. \A d \in Conns : x \in active'[d] <=> x \in active[d]
    BY <1>12, <1>14
  <2>3. QED
    BY <1>6, <1>9, <1>14, <2>1, <2>2 DEF Stays
<1>15. ASSUME NEW x \in Transfers, x \in pending[p]
       PROVE  /\ lease[x].owner = p /\ lease[x].owner # None
              /\ \A d \in Conns : /\ x \notin active[d] /\ ~HeldJob(d, x)
                                  /\ ~(conn[d].pc = "drop" /\ x \in conn[d].kept)
              /\ \A q \in Procs : x \in pending[q] => q = p
  BY <1>15, Alone
<1>16. ASSUME NEW x \in Transfers, x \in out PROVE TransferInv(x)' /\ MoveOf(x)
  <2>1. x \in pending[p] /\ x \notin back
    BY <1>7, <1>16
  <2>2. \A d \in Conns : /\ x \notin active'[d] /\ ~HeldJob(d, x)'
                         /\ ~(conn'[d].pc = "drop" /\ x \in conn'[d].kept)
    BY <1>4, <1>12, <1>15, <2>1 DEF HeldJob
  <2>3. \A q \in Procs : x \notin pending'[q]
    BY <1>12, <1>15, <1>16, <2>1
  <2>4. QED
    BY <1>6, <1>9, <1>15, <1>16, <2>1, <2>2, <2>3, Released
<1>17. ASSUME NEW x \in Transfers, x \in back PROVE TransferInv(x)' /\ MoveOf(x)
  <2>1. x \in pending[p] /\ x \notin out /\ up[x].sess = conn[c].sess
    BY <1>7, <1>17
  <2>2. lease'[x] = lease[x] /\ file'[x] = file[x] /\ file[x] # NoFile
    BY <1>9, <2>1 DEF UploadInv, TransferInv, InPending
  <2>3. \A d \in Conns : ~HeldJob(d, x)' /\ (x \in active'[d] => d = c)
    BY <1>4, <1>12, <1>15, <2>1 DEF HeldJob
  <2>4. \A q \in Procs : x \notin pending'[q]
    BY <1>12, <1>15, <1>17, <2>1
  <2>5. InActive(x)'
    BY <1>4, <1>5, <1>6, <1>12, <1>15, <2>1, <2>2, <2>3, <2>4 DEF InActive
  <2>6. InPending(x)' /\ InHeld(x)'
    BY <2>3, <2>4 DEF InPending, InHeld
  <2>7. InKept(x)'
    BY <1>4, <1>12, <1>15, <2>1 DEF InKept
  <2>8. UpOK(x)'
    BY <1>6, <2>2 DEF UpOK, Fresh, UploadInv, TransferInv
  <2>9. IsHeld(x)'
    BY <1>12, <1>17 DEF IsHeld
  <2>10. QED
    BY <1>6, <1>12, <1>17, <2>1, <2>5, <2>6, <2>7, <2>8, <2>9 DEF TransferInv, MoveOf
<1>18. \A x \in Transfers : x \in out \cup back => TransferInv(x)' /\ MoveOf(x)
  BY <1>16, <1>17
<1>19. QED
  BY <1>10, <1>11, <1>13, <1>14, <1>18, Assembled

\* A closing connection suspends what it kept, as far as there is room, and
\* drops the rest.
LEMMA DropsMoves == ASSUME UploadInv, NEW c \in Conns, CloseDrops(c) PROVE Moves
<1> DEFINE r == [NoConn EXCEPT !.pc = "closed", !.sess = conn[c].sess]
<1>1. conn' = [conn EXCEPT ![c] = r] /\ wl' = wl /\ conn[c].pc = "drop"
  BY DEF CloseDrops, NotConn
<1>2. conn[c] \in ConnRec
  BY DEF UploadInv, UploadTypes
<1>3. r \in ConnRec /\ r.pc = "closed"
  BY <1>2 DEF ConnRec, NoConn, Kinds
<1> HIDE DEF r
<1>4. PICK p \in Procs : p = ProcOf[c]
  BY StagingConstants
<1>5. PICK old, in :
        /\ old \subseteq pending[p] /\ in \subseteq conn[c].kept
        /\ Dropped(p, old \cup (active[c] \ in))
        /\ pending' = [pending EXCEPT ![p] = (pending[p] \ old) \cup in]
        /\ lapsed' = lapsed \ old
        /\ active' = [active EXCEPT ![c] = {}]
        /\ up' = up
  <2> DEFINE o == IF conn[c].kept = {} THEN {} ELSE pending[p] \cap lapsed
  <2>1. PICK in \in SUBSET conn[c].kept :
          /\ Dropped(p, o \cup (active[c] \ in))
          /\ pending' = [pending EXCEPT ![p] = (pending[p] \ o) \cup in]
          /\ lapsed' = lapsed \ o
          /\ active' = [active EXCEPT ![c] = {}]
          /\ up' = up
    BY <1>4 DEF CloseDrops, Suspends
  <2>2. o \subseteq pending[p]
    OBVIOUS
  <2> HIDE DEF o
  <2>3. QED
    BY <2>1, <2>2
<1>6. /\ in \subseteq active[c] /\ \A x \in in : up[x].got > 0
      /\ active[c] \subseteq Transfers /\ pending[p] \subseteq Transfers
  <2>1. active[c] \subseteq Transfers /\ pending[p] \subseteq Transfers /\ conn[c].kept \subseteq Transfers
    BY <1>2 DEF UploadInv, UploadTypes, ConnRec
  <2>2. \A x \in conn[c].kept : x \in active[c] /\ up[x].got > 0
    BY <1>1, <2>1 DEF UploadInv, TransferInv, InKept
  <2>3. QED
    BY <1>5, <2>1, <2>2
<1>7. /\ file' \in [Transfers -> NoFile..MaxTotal]
      /\ lease' \in [Transfers -> LeaseRec]
      /\ \A x \in Transfers : x \in old \cup (active[c] \ in) => lease'[x].owner = None
      /\ \A x \in Transfers : x \notin old \cup (active[c] \ in) => file'[x] = file[x] /\ lease'[x] = lease[x]
  BY <1>5, DroppedFacts
<1>8. UploadTypes'
  <2>1. active' \in [Conns -> SUBSET Transfers] /\ pending' \in [Procs -> SUBSET Transfers]
    BY <1>5, <1>6 DEF UploadInv, UploadTypes
  <2>2. QED
    BY <1>1, <1>3, <1>5, <1>7, <2>1 DEF UploadInv, UploadTypes
<1>9. ConnInv'
  BY <1>1, <1>3, ConnInvKept DEF Ended
<1>10. /\ conn'[c] = r /\ \A d \in Conns : d # c => conn'[d] = conn[d]
       /\ active'[c] = {} /\ \A d \in Conns : d # c => active'[d] = active[d]
       /\ pending'[p] = (pending[p] \ old) \cup in
       /\ \A q \in Procs : q # p => pending'[q] = pending[q]
  BY <1>1, <1>5 DEF UploadInv, UploadTypes
<1>11. ASSUME NEW x \in Transfers, x \in active[c]
       PROVE  /\ lease[x].owner = p /\ lease[x].owner # None
              /\ \A d \in Conns : /\ (x \in active[d] => d = c) /\ ~HeldJob(d, x)
                                  /\ (conn[d].pc = "drop" /\ x \in conn[d].kept => d = c)
              /\ \A q \in Procs : x \notin pending[q]
  BY <1>4, <1>11, Alone
<1>12. ASSUME NEW x \in Transfers, x \in pending[p]
       PROVE  /\ lease[x].owner = p /\ lease[x].owner # None
              /\ \A d \in Conns : /\ x \notin active[d] /\ ~HeldJob(d, x)
                                  /\ ~(conn[d].pc = "drop" /\ x \in conn[d].kept)
              /\ \A q \in Procs : x \in pending[q] => q = p
  BY <1>12, Alone
<1>13. ASSUME NEW x \in Transfers, x \notin old \cup active[c] PROVE Stays(x) /\ NoNewHolder(x)
  <2>1. NoNewHolder(x)
    BY <1>1, <1>3, <1>13, OtherHolders DEF HeldJob
  <2>2. \A q \in Procs : x \in pending'[q] <=> x \in pending[q]
    BY <1>6, <1>10, <1>13
  <2>3. \A d \in Conns : x \in active'[d] <=> x \in active[d]
    BY <1>10, <1>13
  <2>4. QED
    BY <1>5, <1>7, <1>13, <2>1, <2>2, <2>3 DEF Stays
<1>14. ASSUME NEW x \in Transfers, x \in old \cup (active[c] \ in) PROVE TransferInv(x)' /\ MoveOf(x)
  <2>1. x \in pending[p] \/ x \in active[c]
    BY <1>5, <1>14
  <2>2. lease[x].owner # None
    BY <1>11, <1>12, <2>1
  <2>3. \A d \in Conns : /\ x \notin active'[d] /\ ~HeldJob(d, x)'
                         /\ ~(conn'[d].pc = "drop" /\ x \in conn'[d].kept)
    BY <1>3, <1>10, <1>11, <1>12, <2>1 DEF HeldJob
  <2>4. \A q \in Procs : x \notin pending'[q]
    BY <1>5, <1>6, <1>10, <1>11, <1>12, <1>14
  <2>5. QED
    BY <1>5, <1>7, <1>14, <2>2, <2>3, <2>4, Released
<1>15. ASSUME NEW x \in Transfers, x \in in PROVE TransferInv(x)' /\ MoveOf(x)
  <2>1. x \in active[c] /\ x \notin old /\ up[x].got > 0
    BY <1>5, <1>6, <1>11, <1>15
  <2>2. lease'[x] = lease[x] /\ file'[x] = file[x] /\ file[x] # NoFile
    BY <1>7, <1>15, <2>1 DEF UploadInv, TransferInv, InActive
  <2>3. \A d \in Conns : x \notin active'[d] /\ ~HeldJob(d, x)'
    BY <1>3, <1>10, <1>11, <2>1 DEF HeldJob
  <2>4. InActive(x)' /\ InHeld(x)'
    BY <2>3 DEF InActive, InHeld
  <2>5. \A q \in Procs : x \in pending'[q] => q = p
    BY <1>10, <1>11, <2>1
  <2>6. InPending(x)'
    BY <1>11, <2>1, <2>2, <2>3, <2>5 DEF InPending
  <2>7. InKept(x)'
    BY <1>3, <1>10, <1>11, <2>1 DEF InKept
  <2>8. UpOK(x)'
    BY <1>5, <2>2 DEF UpOK, Fresh, UploadInv, TransferInv
  <2>9. x \in pending'[p]
    BY <1>10, <1>15
  <2>10. IsHeld(x)'
    BY <2>9 DEF IsHeld
  <2>11. QED
    BY <1>5, <2>1, <2>4, <2>6, <2>7, <2>8, <2>9, <2>10 DEF TransferInv, MoveOf
<1>16. \A x \in Transfers : x \in old \cup active[c] => TransferInv(x)' /\ MoveOf(x)
  BY <1>14, <1>15
<1>17. QED
  BY <1>8, <1>9, <1>13, <1>16, Assembled

\* Suspended uploads go by time, with their session, or when the process drains.
LEMMA PurgedMoves ==
  ASSUME UploadInv, NEW p \in Procs, NEW gone, Purged(p, gone), UNCHANGED <<wl, conn>>
  PROVE  Moves
<1>1. PICK ts : /\ ts \subseteq pending[p] /\ Dropped(p, ts)
                /\ pending' = [pending EXCEPT ![p] = pending[p] \ ts]
                /\ lapsed' = lapsed \ ts /\ up' = up /\ active' = active
  <2> DEFINE o == pending[p] \cap (lapsed \cup gone)
  <2>1. /\ Dropped(p, o) /\ pending' = [pending EXCEPT ![p] = pending[p] \ o]
        /\ lapsed' = lapsed \ o /\ up' = up /\ active' = active /\ o \subseteq pending[p]
    BY DEF Purged
  <2> HIDE DEF o
  <2>2. QED
    BY <2>1
<1>2. /\ file' \in [Transfers -> NoFile..MaxTotal]
      /\ lease' \in [Transfers -> LeaseRec]
      /\ \A x \in Transfers : x \in ts => lease'[x].owner = None
      /\ \A x \in Transfers : x \notin ts => file'[x] = file[x] /\ lease'[x] = lease[x]
  BY <1>1, DroppedFacts
<1>3. UploadTypes' /\ ConnInv'
  <2>1. pending' \in [Procs -> SUBSET Transfers]
    BY <1>1 DEF UploadInv, UploadTypes
  <2>2. QED
    BY <1>1, <1>2, <2>1 DEF UploadInv, UploadTypes, ConnInv
<1>4. pending'[p] = pending[p] \ ts /\ \A q \in Procs : q # p => pending'[q] = pending[q]
  BY <1>1 DEF UploadInv, UploadTypes
<1>5. ASSUME NEW x \in Transfers, x \notin ts PROVE Stays(x) /\ NoNewHolder(x)
  <2>1. NoNewHolder(x)
    BY DEF NoNewHolder, GainsNothing, HeldJob, UploadInv, TransferInv, InActive, InKept
  <2>2. \A q \in Procs : x \in pending'[q] <=> x \in pending[q]
    BY <1>4, <1>5
  <2>3. QED
    BY <1>1, <1>2, <1>5, <2>1, <2>2 DEF Stays
<1>6. ASSUME NEW x \in Transfers, x \in ts PROVE TransferInv(x)' /\ MoveOf(x)
  <2>1. /\ lease[x].owner # None
        /\ \A d \in Conns : /\ x \notin active[d] /\ ~HeldJob(d, x)
                            /\ ~(conn[d].pc = "drop" /\ x \in conn[d].kept)
        /\ \A q \in Procs : x \in pending[q] => q = p
    BY <1>1, <1>6, Alone
  <2>2. \A d \in Conns : /\ x \notin active'[d] /\ ~HeldJob(d, x)'
                         /\ ~(conn'[d].pc = "drop" /\ x \in conn'[d].kept)
    BY <1>1, <2>1 DEF HeldJob
  <2>3. \A q \in Procs : x \notin pending'[q]
    BY <1>4, <1>6, <2>1
  <2>4. QED
    BY <1>1, <1>2, <1>6, <2>1, <2>2, <2>3, Released
<1>7. QED
  BY <1>3, <1>5, <1>6, Assembled

\* A process ends: whatever it held is let go.
LEMMA GoneMoves ==
  ASSUME UploadInv, NEW p \in Procs, TasksGone(p), UNCHANGED <<wl, up>>,
         file' \in [Transfers -> NoFile..MaxTotal], lease' \in [Transfers -> LeaseRec],
         \A x \in Transfers : lease[x].owner = p => lease'[x].owner = None,
         \A x \in Transfers : lease[x].owner # p => lease'[x] = lease[x] /\ file'[x] = file[x],
         active' = [c \in Conns |-> IF ProcOf[c] = p THEN {} ELSE active[c]],
         pending' = [pending EXCEPT ![p] = {}],
         lapsed' = lapsed \ pending[p]
  PROVE  Moves
<1> DEFINE z == [NoConn EXCEPT !.pc = "closed"]
<1>1. z \in ConnRec /\ z.pc = "closed"
  BY DEF NoConn, ConnRec, Kinds
<1>2. conn' = [c \in Conns |-> IF ProcOf[c] = p /\ conn[c].pc # "none" THEN z ELSE conn[c]]
  BY DEF TasksGone
<1> HIDE DEF z
<1>3. \A c \in Conns : \/ conn'[c] = z /\ ProcOf[c] = p
                       \/ conn'[c] = conn[c] /\ (ProcOf[c] = p => conn[c].pc = "none")
  BY <1>2
<1>4. UploadTypes'
  <2>1. conn' \in [Conns -> ConnRec]
    BY <1>1, <1>2 DEF UploadInv, UploadTypes
  <2>2. active' \in [Conns -> SUBSET Transfers] /\ pending' \in [Procs -> SUBSET Transfers]
    BY DEF UploadInv, UploadTypes
  <2>3. QED
    BY <2>1, <2>2 DEF UploadInv, UploadTypes
<1>5. ConnInv'
  BY <1>1, <1>3 DEF UploadInv, ConnInv
<1>6. /\ \A c \in Conns : active'[c] = IF ProcOf[c] = p THEN {} ELSE active[c]
      /\ pending'[p] = {} /\ \A q \in Procs : q # p => pending'[q] = pending[q]
  BY DEF UploadInv, UploadTypes
<1> DEFINE T == {x \in Transfers : lease[x].owner = p}
<1>7. ASSUME NEW x \in Transfers, x \notin T PROVE Stays(x) /\ NoNewHolder(x)
  <2>1. /\ \A c \in Conns : x \in active[c] => ProcOf[c] # p
        /\ \A q \in Procs : x \in pending[q] => q # p
    BY <1>7, Alone
  <2>2. Stays(x)
    BY <1>6, <1>7, <2>1 DEF Stays
  <2>3. InActive(x) /\ InKept(x)
    BY DEF UploadInv, TransferInv
  <2>4. \A d \in Conns : HeldJob(d, x) => ProcOf[d] # p
    BY <1>7, Alone
  <2>5. ASSUME NEW d \in Conns PROVE GainsNothing(d, x)
    BY <1>1, <1>3, <2>1, <2>3, <2>4 DEF GainsNothing, HeldJob, InActive, InKept
  <2>6. QED
    BY <2>2, <2>5 DEF NoNewHolder
<1>8. ASSUME NEW x \in Transfers, x \in T PROVE TransferInv(x)' /\ MoveOf(x)
  <2>0. lease[x].owner = p /\ lease[x].owner # None
    BY <1>8, StagingConstants
  <2>1. /\ \A d \in Conns : /\ (x \in active[d] => ProcOf[d] = p) /\ (HeldJob(d, x) => ProcOf[d] = p)
                            /\ (conn[d].pc = "drop" /\ x \in conn[d].kept => ProcOf[d] = p)
        /\ \A q \in Procs : x \in pending[q] => q = p
    BY <2>0, Alone
  <2>2. \A d \in Conns : /\ x \notin active'[d] /\ ~HeldJob(d, x)'
                         /\ ~(conn'[d].pc = "drop" /\ x \in conn'[d].kept)
    BY <1>1, <1>3, <1>6, <2>1 DEF HeldJob
  <2>3. \A q \in Procs : x \notin pending'[q]
    BY <1>6, <2>1
  <2>4. QED
    BY <2>0, <2>2, <2>3, Released
<1> HIDE DEF T
<1>9. QED
  BY <1>4, <1>5, <1>7, <1>8, Assembled

\* main returns with its tasks dropped, or the process crashes.
LEMMA EndMoves == ASSUME UploadInv, NEW p \in Procs, Exit(p) \/ Crash(p) PROVE Moves
<1>0. NoFile \in NoFile..MaxTotal /\ NoLease \in LeaseRec /\ NoLease.owner = None
  BY TotalBound DEF NoFile, NoLease, LeaseRec
<1>1. /\ file \in [Transfers -> NoFile..MaxTotal] /\ lease \in [Transfers -> LeaseRec]
      /\ \A l \in LeaseRec : [l EXCEPT !.owner = None] \in LeaseRec /\ [l EXCEPT !.owner = None].owner = None
  BY DEF UploadInv, UploadTypes, LeaseRec
<1>2. CASE Exit(p)
  <2> DEFINE mine == UNION {active[c] : c \in {d \in Conns : ProcOf[d] = p}}
  <2>1. \A x \in Transfers : x \in mine => lease[x].owner = p
    BY Alone
  <2>2. /\ file' = [t \in Transfers |-> IF t \in mine THEN NoFile ELSE file[t]]
        /\ lease' = [t \in Transfers |->
             IF t \in mine THEN NoLease
             ELSE IF lease[t].owner = p THEN [lease[t] EXCEPT !.owner = None] ELSE lease[t]]
    BY <1>2 DEF Exit
  <2> HIDE DEF mine, NoFile, NoLease, LeaseRec
  <2>3. file' \in [Transfers -> NoFile..MaxTotal] /\ lease' \in [Transfers -> LeaseRec]
    BY <1>0, <1>1, <2>2
  <2>4. /\ \A x \in Transfers : lease[x].owner = p => lease'[x].owner = None
        /\ \A x \in Transfers : lease[x].owner # p => lease'[x] = lease[x] /\ file'[x] = file[x]
    BY <1>0, <1>1, <2>1, <2>2
  <2>5. /\ TasksGone(p) /\ wl' = wl /\ up' = up
        /\ active' = [c \in Conns |-> IF ProcOf[c] = p THEN {} ELSE active[c]]
        /\ pending' = [pending EXCEPT ![p] = {}]
        /\ lapsed' = lapsed \ pending[p]
    BY <1>2 DEF Exit
  <2>6. QED
    BY <2>3, <2>4, <2>5, GoneMoves
<1>3. CASE Crash(p)
  <2>1. /\ lease' = [t \in Transfers |->
             IF lease[t].owner = p THEN [lease[t] EXCEPT !.owner = None] ELSE lease[t]]
        /\ TasksGone(p) /\ wl' = wl /\ up' = up /\ file' = file
        /\ active' = [c \in Conns |-> IF ProcOf[c] = p THEN {} ELSE active[c]]
        /\ pending' = [pending EXCEPT ![p] = {}]
        /\ lapsed' = lapsed \ pending[p]
    BY <1>3 DEF Crash, ProcessGone
  <2> HIDE DEF LeaseRec
  <2>2. lease' \in [Transfers -> LeaseRec]
    BY <1>1, <2>1
  <2>3. /\ \A x \in Transfers : lease[x].owner = p => lease'[x].owner = None
        /\ \A x \in Transfers : lease[x].owner # p => lease'[x] = lease[x] /\ file'[x] = file[x]
    BY <1>1, <2>1
  <2>4. QED
    BY <1>1, <2>1, <2>2, <2>3, GoneMoves
<1>4. QED
  BY <1>2, <1>3

\* The time of a suspended upload runs out; it stays until somebody looks.
LEMMA LapsesMoves ==
  ASSUME UploadInv, NEW p \in Procs, NEW t \in Transfers, UploadLapses(p, t) PROVE Moves
<1>1. UNCHANGED <<wl, file, lease, up, active, pending, conn>> /\ lapsed' = lapsed \cup {t}
  BY DEF UploadLapses, web
<1>2. UploadTypes' /\ ConnInv'
  BY <1>1 DEF UploadInv, UploadTypes, ConnInv
<1>3. \A x \in Transfers : Stays(x)
  BY <1>1 DEF Stays
<1>4. ASSUME NEW x \in Transfers PROVE NoNewHolder(x)
  BY <1>1 DEF NoNewHolder, GainsNothing, HeldJob, UploadInv, TransferInv, InActive, InKept
<1>5. QED
  BY <1>2, <1>3, <1>4, StaysInv DEF Moves, UploadInv, MoveOf

\* Every step keeps the invariant and moves each upload as Transfer allows.
LEMMA NextMoves == ASSUME UploadInv, [Next]_vars PROVE Moves
<1>1. ASSUME NEW p \in Procs,
             Signal(p) \/ FinishIdle(p) \/ FinishTimeout(p) \/ Restart(p) \/ LimiterTick(p)
      PROVE  Moves
  BY <1>1, Quiet DEF Signal, FinishIdle, FinishTimeout, Restart, LimiterTick, web
<1>2. ASSUME NEW p \in Procs, Exit(p) \/ Crash(p) PROVE Moves
  BY <1>2, EndMoves
<1>3. ASSUME NEW p \in Procs, ExpiryTick(p) PROVE Moves
  <2>1. PICK gone : Purged(p, gone)
    BY <1>3 DEF ExpiryTick
  <2>2. UNCHANGED <<wl, conn>>
    BY <1>3 DEF ExpiryTick
  <2>3. QED
    BY <2>1, <2>2, PurgedMoves
<1>4. ASSUME NEW p \in Procs, ClearPending(p) PROVE Moves
  BY <1>4, PurgedMoves DEF ClearPending
<1>5. ASSUME NEW p \in Procs, NEW t \in Transfers, UploadLapses(p, t) PROVE Moves
  BY <1>5, LapsesMoves
<1>6. ASSUME NEW s \in Sessions, SessionExpires(s) \/ PolicyDenies(s) \/ SessionRevoked(s) PROVE Moves
  BY <1>6, Quiet DEF SessionExpires, PolicyDenies, SessionRevoked
<1>7. ASSUME NEW c \in Conns, JobCreates(c) PROVE Moves
  <2>1. conn[c].pc = "held" /\ conn[c].kind = "begin" /\ JobReturns(c)
    BY <1>7 DEF JobCreates
  <2>2. CASE BeginCreates(c, conn[c].t)
    BY <2>1, <2>2, CreatesMoves
  <2>3. CASE BeginFails(c, conn[c].t)
    BY <2>1, <2>3, GivesUpMoves DEF BeginFails
  <2>4. QED
    BY <1>7, <2>2, <2>3 DEF JobCreates
<1>8. ASSUME NEW c \in Conns, JobCommits(c) PROVE Moves
  BY <1>8, GivesUpMoves DEF JobCommits, EndCleans
<1>9. ASSUME NEW x \in Streams,
             \/ StreamLeasePoll(x)
             \/ \E s \in Sessions : StreamOpens(x, s)
             \/ StreamProbes(x) \/ StreamTouches(x) \/ StreamReads(x)
             \/ \E pc \in {"ready", "end"} : StreamJobReturns(x, pc)
             \/ BodyDropped(x) \/ OrphanReturns(x)
      PROVE  Moves
  <2>1. UNCHANGED <<wl, staging, conn>>
    BY <1>9 DEF StreamLeasePoll, StreamOpens, StreamProbes, StreamTouches, StreamReads,
                StreamJobReturns, BodyDropped, OrphanReturns, NotStream
  <2>2. QED
    BY <2>1, Quiet
<1>10. ASSUME NEW a \in Attempts,
              \/ \E u \in Users : LoginArrives(a, u)
              \/ LoginStarts(a) \/ LoginReserves(a) \/ LoginUnanswered(a)
              \/ LoginVerifies(a) \/ LoginFails(a) \/ LoginDenied(a)
              \/ \E s \in Sessions : LoginSucceeds(a, s)
       PROVE  Moves
  <2>1. UNCHANGED <<wl, staging, conn>>
    BY <1>10 DEF LoginArrives, LoginStarts, LoginReserves, LoginUnanswered, LoginVerifies,
                 LoginFails, LoginDenied, LoginSucceeds, NotLogin
  <2>2. QED
    BY <2>1, Quiet
<1>11. CASE ClockTicks
  BY <1>11, Quiet DEF ClockTicks, web
<1>12. CASE UNCHANGED vars
  BY <1>12, Quiet DEF vars, web
<1>13. ASSUME NEW c \in Conns,
         \/ LeasePoll(c) \/ ValidationStarts(c)
         \/ \E valid \in BOOLEAN : ValidationEnds(c, valid)
         \/ \E s \in Sessions : Upgrade(c, s) \/ Authenticated(c, s)
         \/ PreAuth(c) \/ PreAuthEnds(c)
         \/ LoopBreaks(c) \/ PeerLeaves(c) \/ WaitBreaks(c) \/ JobStarts(c)
         \/ \E k \in Kinds, t \in Transfers \cup {None} : Receives(c, k, t)
         \/ JobOther(c)
         \/ \E pc \in {"idle", "close"} : Delivers(c, pc)
         \/ CloseReads(c)
       PROVE  Moves
  BY <1>13, ConnSteps
<1>14. ASSUME NEW c \in Conns,
              JobReserves(c) \/ JobWrites(c) \/ JobEnds(c) \/ JobAborts(c) \/ JobResumes(c) \/ CloseDrops(c)
       PROVE  Moves
  BY <1>14, ReservesMoves, WritesMoves, EndsMoves, AbortsMoves, ResumesMoves, DropsMoves
<1>15. QED
  BY <1>1, <1>2, <1>3, <1>4, <1>5, <1>6, <1>7, <1>8, <1>9, <1>10, <1>11, <1>12, <1>13, <1>14 DEF Next

\* At the start there are no uploads.
LEMMA InitUploads == Init => UploadInv /\ Promise!Init
<1> SUFFICES ASSUME Init PROVE UploadInv /\ Promise!Init
  OBVIOUS
<1>1. /\ file = [t \in Transfers |-> NoFile] /\ lease = [t \in Transfers |-> NoLease]
      /\ up = [t \in Transfers |-> NoUpload] /\ active = [c \in Conns |-> {}]
      /\ pending = [p \in Procs |-> {}] /\ lapsed = {}
      /\ conn = [c \in Conns |-> NoConn] /\ wl \in Workloads
  BY DEF Init, StagingInit
<1>2. NoFile \in NoFile..MaxTotal /\ NoLease \in LeaseRec /\ NoLease.owner = None
  BY TotalBound DEF NoFile, NoLease, LeaseRec
<1>3. NoUpload \in UploadRec /\ NoUpload.got = 0 /\ NoUpload.total = 0
  BY TotalBound DEF NoUpload, UploadRec
<1>4. NoConn \in ConnRec /\ NoConn.pc = "none"
  BY DEF NoConn, ConnRec, Kinds
<1> HIDE DEF NoFile, NoLease, LeaseRec, NoConn, ConnRec
<1>5. UploadTypes
  BY <1>1, <1>2, <1>3, <1>4 DEF UploadTypes
<1>6. ConnInv
  BY <1>1, <1>4 DEF ConnInv
<1>7. ASSUME NEW t \in Transfers PROVE TransferInv(t)
  <2>1. InActive(t) /\ InPending(t)
    BY <1>1 DEF InActive, InPending
  <2>2. InHeld(t) /\ InKept(t)
    BY <1>1, <1>4 DEF InHeld, InKept, HeldJob
  <2>3. UpOK(t)
    BY <1>1, <1>2, <1>3 DEF UpOK, Fresh
  <2>4. IsHeld(t)
    BY <1>1, <1>2 DEF IsHeld
  <2>5. QED
    BY <2>1, <2>2, <2>3, <2>4 DEF TransferInv
<1>8. UploadInv
  BY <1>5, <1>6, <1>7 DEF UploadInv
<1>9. \A t \in Transfers : SeenUpload(t) = Promise!Fresh
  <2>1. SeenFacts
    BY <1>8, SeenHold
  <2>2. \A t \in Transfers : Fresh(t)
    BY <1>1 DEF Fresh
  <2>3. QED
    BY <2>1, <2>2 DEF SeenFacts
<1>10. QED
  BY <1>8, <1>9 DEF Promise!Init

\* Uploads are held once and by the right process and session: the invariant
\* that the promise to the client rests on.
THEOREM UploadsConsistent == Spec => []UploadInv
<1>1. UploadInv /\ [Next]_vars => UploadInv'
  BY NextMoves DEF Moves
<1>2. QED
  BY InitUploads, <1>1, PTL DEF Spec

\* The server implements Transfer, for any number of processes, connections,
\* sessions and uploads: whatever is suspended, resumed, purged, drained or
\* crashed, an upload stays with the session that began it, keeps what was
\* acknowledged, and never comes back once it is over.
THEOREM UploadsKeepPromise == Spec => TransferPromise
<1>1. UploadInv /\ UploadInv' /\ SeenFacts /\ SeenFacts' /\ [Next]_vars
      => [Promise!Next]_([t \in Transfers |-> SeenUpload(t)])
  <2> SUFFICES ASSUME UploadInv, UploadInv', SeenFacts, SeenFacts', [Next]_vars
               PROVE  Promise!Next
    OBVIOUS
  <2>1. \A t \in Transfers : MoveOf(t)
    BY NextMoves DEF Moves
  <2>2. \A t \in Transfers : Promise!Step(SeenUpload(t), SeenUpload(t)')
    BY <2>1, MoveAllowed
  <2>3. QED
    BY <2>2 DEF Promise!Next
<1>2. UploadInv => SeenFacts
  BY SeenHold
<1>3. QED
  BY UploadsConsistent, InitUploads, <1>1, <1>2, PTL DEF Spec, TransferPromise, Promise!Spec

-----------------------------------------------------------------------------
(* The accounts of the staging budget. *)

\* The counter of a process is what it holds.
Books(p) ==
  /\ IsFiniteSet(HeldBy(p))
  /\ mem[p] = [bytes |-> SumFunctionOnSet(Declared, HeldBy(p)),
               transfers |-> Cardinality(HeldBy(p))]

\* What somebody holds has its lease, for as much as it may grow to.
Backed(t) ==
  lease[t].owner # None =>
    lease[t].there /\ lease[t].bytes = up[t].total /\ file[t] <= up[t].total

\* All that was ever charged and is still there fits.
Charges == [t \in Transfers |-> Charge(t)]
BudgetInv ==
  /\ IsFiniteSet(Charged)
  /\ SumFunctionOnSet(Charges, Charged) <= MaxStagingBytes
  /\ Cardinality(Charged) <= MaxStagingTransfers

StockInv ==
  /\ mem \in [Procs -> [bytes : Nat, transfers : Nat]]
  /\ \A p \in Procs : Books(p)
  /\ \A t \in Transfers : Backed(t)
  /\ BudgetInv

\* What a lease and a stage file are charged with.
LEMMA ChargeFacts ==
  ASSUME NEW l \in LeaseRec, NEW f \in NoFile..MaxTotal
  PROVE  LET ch == IF l.there /\ l.owner # None THEN Max({l.bytes, f}) ELSE Max({0, f})
         IN /\ ch \in Nat /\ f <= ch
            /\ l.owner = None /\ f # NoFile => ch = f
            /\ l.owner # None /\ l.there /\ f <= l.bytes => ch = l.bytes
<1>1. MaxTotal \in Nat /\ l.bytes \in Nat /\ f \in Int /\ f >= -1 /\ (f # NoFile => f >= 0)
  BY TotalBound DEF LeaseRec, NoFile
<1>2. \A a, b \in Int : Max({a, b}) \in {a, b} /\ Max({a, b}) >= a /\ Max({a, b}) >= b
  BY MaxOfTwo
<1> DEFINE m == Max({l.bytes, f})
           z == Max({0, f})
<1>3. m \in {l.bytes, f} /\ m >= l.bytes /\ m >= f /\ z \in {0, f} /\ z >= 0 /\ z >= f
  <2>1. l.bytes \in Int /\ 0 \in Int /\ f \in Int
    BY <1>1
  <2>2. QED
    BY <1>2, <2>1, Zenon
<1> HIDE DEF m, z
<1>4. m \in Nat /\ z \in Nat /\ f <= m /\ f <= z /\ (f # NoFile => z = f) /\ (f <= l.bytes => m = l.bytes)
  BY <1>1, <1>3
<1>5. QED
  BY <1>4 DEF m, z

\* What an upload is charged with.
LEMMA ChargeOf ==
  ASSUME UploadInv, NEW t \in Transfers, Backed(t)
  PROVE  /\ Charge(t) \in Nat /\ file[t] <= Charge(t) /\ Charges[t] = Charge(t)
         /\ lease[t].owner = None /\ file[t] # NoFile => Charge(t) = file[t]
         /\ lease[t].owner # None => Charge(t) = up[t].total
<1>1. lease[t] \in LeaseRec /\ file[t] \in NoFile..MaxTotal
  BY DEF UploadInv, UploadTypes
<1>2. Charges[t] = Charge(t)
  BY DEF Charges
<1>3. QED
  BY <1>1, <1>2, ChargeFacts DEF Charge, Backed

\* The same after a step.
LEMMA ChargeAfter ==
  ASSUME UploadInv', NEW t \in Transfers, Backed(t)'
  PROVE  /\ Charge(t)' \in Nat /\ Charges'[t] = Charge(t)'
         /\ lease'[t].owner = None /\ file'[t] # NoFile => Charge(t)' = file'[t]
         /\ lease'[t].owner # None => Charge(t)' = up'[t].total
<1>1. lease'[t] \in LeaseRec /\ file'[t] \in NoFile..MaxTotal
  BY DEF UploadInv, UploadTypes
<1>2. Charges'[t] = Charge(t)'
  BY DEF Charges
<1>3. QED
  BY <1>1, <1>2, ChargeFacts DEF Charge, Backed

\* Fewer uploads with smaller charges fit where the others did.
LEMMA BudgetShrinks ==
  ASSUME UploadInv, UploadInv', BudgetInv, \A t \in Transfers : Backed(t), \A t \in Transfers : Backed(t)',
         \A t \in Transfers : t \in Charged' => t \in Charged /\ Charge(t)' <= Charge(t)
  PROVE  BudgetInv'
<1> DEFINE A == Charged
           B == Charged'
           f == Charges
           g == Charges'
<1>1. B \subseteq A /\ A \subseteq Transfers
  BY DEF Charged
<1>2. \A t \in A : f[t] \in Nat
  BY <1>1, ChargeOf
<1>3. \A t \in B : g[t] \in Nat /\ f[t] \in Nat /\ g[t] <= f[t]
  BY <1>1, ChargeOf, ChargeAfter
<1>4. IsFiniteSet(A) /\ Cardinality(A) <= MaxStagingTransfers /\ SumFunctionOnSet(f, A) <= MaxStagingBytes
  BY DEF BudgetInv
<1> HIDE DEF A, B, f, g
<1>5. IsFiniteSet(B) /\ Cardinality(B) <= Cardinality(A) /\ Cardinality(B) \in Nat /\ Cardinality(A) \in Nat
  BY <1>1, <1>4, FS_Subset, FS_CardinalityType
<1>6. SumFunctionOnSet(g, B) <= SumFunctionOnSet(f, B)
  BY <1>3, <1>5, SumLeq
<1>7. /\ SumFunctionOnSet(f, B) \in Nat /\ SumFunctionOnSet(f, A \ B) \in Nat
      /\ SumFunctionOnSet(f, A) = SumFunctionOnSet(f, B) + SumFunctionOnSet(f, A \ B)
  BY <1>1, <1>2, <1>4, SumPart
<1>8. SumFunctionOnSet(g, B) \in Nat
  BY <1>3, <1>5, SumType
<1>9. SumFunctionOnSet(g, B) <= MaxStagingBytes /\ Cardinality(B) <= MaxStagingTransfers
  BY <1>4, <1>5, <1>6, <1>7, <1>8, StagingConstants
<1>10. QED
  BY <1>5, <1>9 DEF BudgetInv, B, g

\* Nothing is reserved or given back; a stage file may grow to what was declared.
LEMMA SameStock ==
  ASSUME UploadInv, UploadInv', StockInv, UNCHANGED <<lease, mem>>,
         \A t \in Transfers : up'[t].total = up[t].total,
         \A t \in Transfers : \/ file'[t] = file[t]
                              \/ lease[t].owner # None /\ file'[t] <= up[t].total
  PROVE  StockInv'
<1>1. \A t \in Transfers : Backed(t) /\ Backed(t)'
  BY DEF StockInv, Backed
<1>2. ASSUME NEW p \in Procs PROVE Books(p)'
  <2>1. HeldBy(p)' = HeldBy(p) /\ Declared' = Declared
    BY DEF HeldBy, Declared
  <2>2. QED
    BY <2>1 DEF StockInv, Books
<1>3. ASSUME NEW t \in Transfers, t \in Charged' PROVE t \in Charged /\ Charge(t)' <= Charge(t)
  <2>1. t \in Charged
    BY <1>3 DEF Charged
  <2>2. CASE lease[t].owner # None
    <3>1. Charge(t) = up[t].total /\ Charge(t)' = up[t].total /\ Charge(t) \in Nat
      BY <1>1, <2>2, ChargeOf, ChargeAfter
    <3>2. QED
      BY <2>1, <3>1
  <2>3. CASE lease[t].owner = None
    <3>1. Charge(t)' = Charge(t) /\ Charge(t) \in Nat
      BY <1>1, <2>3, ChargeOf DEF Charge
    <3>2. QED
      BY <2>1, <3>1
  <2>4. QED
    BY <2>2, <2>3
<1>4. BudgetInv'
  BY <1>1, <1>3, BudgetShrinks DEF StockInv
<1>5. QED
  BY <1>1, <1>2, <1>4 DEF StockInv

\* The drop of uploads of process p.
LEMMA DropsStock ==
  ASSUME UploadInv, UploadInv', StockInv, NEW p \in Procs, NEW ts,
         ts \subseteq HeldBy(p), Dropped(p, ts), up' = up
  PROVE  StockInv'
<1>0. ts \subseteq Transfers /\ \A t \in ts : lease[t].owner = p /\ lease[t].owner # None
  BY StagingConstants DEF HeldBy
<1>1. /\ file' = [t \in Transfers |-> IF t \in ts THEN NoFile ELSE file[t]]
      /\ lease' = [t \in Transfers |-> IF t \in ts THEN NoLease ELSE lease[t]]
  BY DEF Dropped
<1>2. \A t \in ts : lease'[t].owner = None /\ file'[t] = NoFile
  BY <1>0, <1>1 DEF NoLease
<1>3. \A t \in Transfers : t \notin ts => lease'[t] = lease[t] /\ file'[t] = file[t]
  BY <1>1
<1>4. \A t \in Transfers : Backed(t) /\ Backed(t)'
  BY <1>2, <1>3 DEF StockInv, Backed
<1> DEFINE S == HeldBy(p)
           f == Declared
           gone == SumFunctionOnSet(f, ts)
<1>5. Declared' = f
  BY DEF Declared
<1>6. /\ IsFiniteSet(S) /\ mem[p].bytes = SumFunctionOnSet(f, S) /\ mem[p].transfers = Cardinality(S)
      /\ ts \subseteq S /\ \A t \in S : f[t] \in Nat
  <2>1. IsFiniteSet(S) /\ mem[p].bytes = SumFunctionOnSet(f, S) /\ mem[p].transfers = Cardinality(S)
    BY DEF StockInv, Books
  <2>2. \A t \in Transfers : up[t].total \in Nat
    BY TotalBound DEF UploadInv, UploadTypes, UploadRec
  <2>3. \A t \in S : f[t] \in Nat
    BY <2>2 DEF Declared, HeldBy
  <2>4. QED
    BY <2>1, <2>3
<1>7. HeldBy(p)' = S \ ts /\ \A q \in Procs : q # p => HeldBy(q)' = HeldBy(q)
  <2>1. HeldBy(p)' = S \ ts
    BY <1>2, <1>3, StagingConstants DEF HeldBy
  <2>2. ASSUME NEW q \in Procs, q # p PROVE HeldBy(q)' = HeldBy(q)
    BY <1>0, <1>2, <1>3, <2>2, StagingConstants DEF HeldBy
  <2>3. QED
    BY <2>1, <2>2
<1>8. mem' = [mem EXCEPT ![p] = [bytes |-> mem[p].bytes - gone, transfers |-> mem[p].transfers - Cardinality(ts)]]
  BY DEF Dropped
<1> HIDE DEF S, f, gone
<1>9. /\ SumFunctionOnSet(f, S) - gone = SumFunctionOnSet(f, S \ ts) /\ SumFunctionOnSet(f, S \ ts) \in Nat
  <2>1. /\ gone \in Nat /\ SumFunctionOnSet(f, S \ ts) \in Nat
        /\ SumFunctionOnSet(f, S) = gone + SumFunctionOnSet(f, S \ ts)
    BY <1>6, SumPart DEF gone
  <2>2. QED
    BY <2>1
<1>10. IsFiniteSet(S \ ts) /\ Cardinality(S) - Cardinality(ts) = Cardinality(S \ ts) /\ Cardinality(S \ ts) \in Nat
  <2>1. IsFiniteSet(ts) /\ IsFiniteSet(S \ ts) /\ S \cap ts = ts
    BY <1>6, FS_Subset, FS_Difference
  <2>2. Cardinality(S \ ts) = Cardinality(S) - Cardinality(S \cap ts)
    BY <1>6, <2>1, FS_Difference
  <2>3. QED
    BY <2>1, <2>2, FS_CardinalityType
<1>11. mem'[p] = [bytes |-> SumFunctionOnSet(f, S \ ts), transfers |-> Cardinality(S \ ts)]
  BY <1>6, <1>8, <1>9, <1>10 DEF StockInv
<1>12. ASSUME NEW q \in Procs PROVE Books(q)'
  <2>1. CASE q = p
    BY <1>5, <1>7, <1>10, <1>11, <2>1 DEF Books
  <2>2. CASE q # p
    BY <1>5, <1>7, <1>8, <2>2 DEF Books, StockInv, f
  <2>3. QED
    BY <2>1, <2>2
<1>13. mem' \in [Procs -> [bytes : Nat, transfers : Nat]]
  BY <1>6, <1>8, <1>9, <1>10 DEF StockInv
<1>14. ASSUME NEW t \in Transfers, t \in Charged' PROVE t \in Charged /\ Charge(t)' <= Charge(t)
  <2>1. t \notin ts
    BY <1>2, <1>14 DEF Charged
  <2>2. t \in Charged /\ Charge(t)' = Charge(t)
    BY <1>3, <1>14, <2>1 DEF Charged, Charge
  <2>3. QED
    BY <1>4, <2>2, ChargeOf
<1>15. BudgetInv'
  BY <1>4, <1>14, BudgetShrinks DEF StockInv
<1>16. QED
  BY <1>4, <1>12, <1>13, <1>15 DEF StockInv

\* The end of process p: it holds nothing, and its leftovers are charged with
\* what is really there.
LEMMA GoneStock ==
  ASSUME UploadInv, UploadInv', StockInv, NEW p \in Procs, up' = up,
         mem' = [mem EXCEPT ![p] = NoMemory],
         \A t \in Transfers : lease[t].owner = p => lease'[t].owner = None /\ file'[t] \in {file[t], NoFile},
         \A t \in Transfers : lease[t].owner # p => lease'[t] = lease[t] /\ file'[t] = file[t]
  PROVE  StockInv'
<1>1. \A t \in Transfers : Backed(t) /\ Backed(t)'
  BY DEF StockInv, Backed
<1>2. HeldBy(p)' = {} /\ \A q \in Procs : q # p => HeldBy(q)' = HeldBy(q)
  <2>1. p # None /\ \A q \in Procs : q # None
    BY StagingConstants
  <2>2. QED
    BY <2>1 DEF HeldBy
<1>3. Declared' = Declared
  BY DEF Declared
<1>4. IsFiniteSet({}) /\ Cardinality({}) = 0 /\ SumFunctionOnSet(Declared, {}) = 0
  BY FS_EmptySet, SumUnfold
<1>5. mem'[p] = NoMemory /\ \A q \in Procs : q # p => mem'[q] = mem[q]
  BY DEF StockInv
<1>6. ASSUME NEW q \in Procs PROVE Books(q)'
  <2>1. CASE q = p
    BY <1>2, <1>3, <1>4, <1>5, <2>1 DEF Books, NoMemory
  <2>2. CASE q # p
    BY <1>2, <1>3, <1>5, <2>2 DEF Books, StockInv
  <2>3. QED
    BY <2>1, <2>2
<1>7. mem' \in [Procs -> [bytes : Nat, transfers : Nat]]
  BY DEF StockInv, NoMemory
<1>8. ASSUME NEW t \in Transfers, t \in Charged' PROVE t \in Charged /\ Charge(t)' <= Charge(t)
  <2>1. CASE lease[t].owner = p
    <3>1. lease'[t].owner = None /\ file'[t] # NoFile /\ file'[t] = file[t] /\ lease[t].owner # None
      BY <1>8, <2>1, StagingConstants DEF Charged
    <3>2. Charge(t)' = file[t] /\ file[t] <= Charge(t)
      BY <1>1, <3>1, ChargeOf, ChargeAfter
    <3>3. QED
      BY <3>1, <3>2 DEF Charged
  <2>2. CASE lease[t].owner # p
    <3>1. t \in Charged /\ Charge(t)' = Charge(t)
      BY <1>8, <2>2 DEF Charged, Charge
    <3>2. QED
      BY <1>1, <3>1, ChargeOf
  <2>3. QED
    BY <2>1, <2>2
<1>9. BudgetInv'
  BY <1>1, <1>8, BudgetShrinks DEF StockInv
<1>10. QED
  BY <1>1, <1>6, <1>7, <1>9 DEF StockInv

\* A reservation: the uploads charged so far, with the new one, still fit.
LEMMA ReservesStock ==
  ASSUME UploadInv, UploadInv', StockInv, NEW c \in Conns, NEW s, NEW t \in Transfers,
         NEW n \in 0..MaxTotal, NEW keep, BeginReserves(c, s, t, n, keep)
  PROVE  StockInv'
<1> DEFINE p == ProcOf[c]
           L == [there |-> TRUE, owner |-> p, bytes |-> n]
           U == [sess |-> s, total |-> n, got |-> 0, keep |-> keep]
<1>0. p \in Procs /\ None \notin Procs /\ n \in Nat /\ MaxTotal \in Nat
  BY StagingConstants, TotalBound
<1>1. /\ lease' = [x \in Transfers |-> IF x = t THEN L ELSE IF x \in Charged THEN lease[x] ELSE NoLease]
      /\ up' = [up EXCEPT ![t] = U] /\ file' = file
      /\ mem' = [mem EXCEPT ![p] = [bytes |-> mem[p].bytes + n, transfers |-> mem[p].transfers + 1]]
  BY DEF BeginReserves, Reserve
<1>2. file[t] = NoFile /\ lease[t].owner = None
  BY DEF BeginReserves, UploadInv, TransferInv, UpOK
<1>3. lease'[t] = L /\ up'[t] = U /\ L.owner = p /\ L.there /\ L.bytes = n /\ U.total = n
  BY <1>1 DEF UploadInv, UploadTypes
<1>4. ASSUME NEW x \in Transfers, x # t
      PROVE  /\ up'[x] = up[x] /\ (x \in Charged => lease'[x] = lease[x])
             /\ (x \notin Charged => lease'[x].owner = None /\ lease[x].owner = None)
  BY <1>1, <1>4 DEF UploadInv, UploadTypes, Charged, NoLease
<1> HIDE DEF L, U, p
<1>5. ASSUME NEW x \in Transfers PROVE Backed(x) /\ Backed(x)'
  <2>0. Backed(x)
    BY DEF StockInv
  <2>1. CASE x = t
    BY <1>0, <1>1, <1>2, <1>3, <2>0, <2>1 DEF Backed, NoFile
  <2>2. CASE x # t
    BY <1>1, <1>4, <2>0, <2>2 DEF Backed
  <2>3. QED
    BY <2>1, <2>2
<1>6. t \notin HeldBy(p) /\ HeldBy(p)' = HeldBy(p) \cup {t} /\ \A q \in Procs : q # p => HeldBy(q)' = HeldBy(q)
  <2>1. \A x \in Transfers : x # t => lease'[x].owner = lease[x].owner
    BY <1>4
  <2>2. QED
    BY <1>0, <1>2, <1>3, <2>1 DEF HeldBy
<1>7. \A x \in Transfers : up[x].total \in Nat /\ up'[x].total \in Nat
  BY TotalBound DEF UploadInv, UploadTypes, UploadRec
<1>8. ASSUME NEW q \in Procs
      PROVE  /\ IsFiniteSet(HeldBy(q)) /\ t \notin HeldBy(q)
             /\ SumFunctionOnSet(Declared', HeldBy(q)) = SumFunctionOnSet(Declared, HeldBy(q))
             /\ \A x \in HeldBy(q) : Declared'[x] \in Nat
  <2>1. IsFiniteSet(HeldBy(q)) /\ t \notin HeldBy(q)
    BY <1>0, <1>2 DEF StockInv, Books, HeldBy
  <2>2. \A x \in HeldBy(q) : Declared[x] = Declared'[x] /\ Declared'[x] \in Nat
    BY <1>4, <1>7, <2>1 DEF HeldBy, Declared
  <2> DEFINE S == HeldBy(q)
             f == Declared
             g == Declared'
  <2> HIDE DEF S, f, g
  <2>3. SumFunctionOnSet(f, S) = SumFunctionOnSet(g, S)
    BY <2>1, <2>2, SumSame DEF S, f, g
  <2>4. QED
    BY <2>1, <2>2, <2>3 DEF S, f, g
<1>9. ASSUME NEW q \in Procs PROVE Books(q)'
  <2>1. CASE q = p
    <3> DEFINE S == HeldBy(p)
               g == Declared'
    <3>1. IsFiniteSet(S) /\ t \notin S /\ (\A x \in S \cup {t} : g[x] \in Nat) /\ g[t] = n
      BY <1>0, <1>3, <1>7, <1>8 DEF Declared
    <3>2. mem[p].bytes = SumFunctionOnSet(g, S) /\ mem[p].transfers = Cardinality(S)
      BY <1>0, <1>8 DEF StockInv, Books
    <3> HIDE DEF S, g
    <3>3. SumFunctionOnSet(g, S \cup {t}) = n + SumFunctionOnSet(g, S) /\ SumFunctionOnSet(g, S) \in Nat
      BY <3>1, SumAdd, SumType
    <3>4. IsFiniteSet(S \cup {t}) /\ Cardinality(S \cup {t}) = Cardinality(S) + 1
      BY <3>1, FS_AddElement
    <3>5. mem'[p] = [bytes |-> SumFunctionOnSet(g, S \cup {t}), transfers |-> Cardinality(S \cup {t})]
      BY <1>0, <1>1, <3>2, <3>3, <3>4 DEF StockInv
    <3>6. QED
      BY <1>6, <2>1, <3>4, <3>5 DEF Books, S, g
  <2>2. CASE q # p
    BY <1>1, <1>6, <1>8, <2>2 DEF Books, StockInv
  <2>3. QED
    BY <2>1, <2>2
<1>10. mem' \in [Procs -> [bytes : Nat, transfers : Nat]]
  BY <1>0, <1>1 DEF StockInv
<1>11. BudgetInv'
  <2> DEFINE A == Charged
             f == Charges
             g == Charges'
  <2>1. t \notin A /\ Charged' = A \cup {t}
    <3>1. \A x \in Transfers : x # t => (x \in Charged' <=> x \in A)
      BY <1>1, <1>4 DEF Charged
    <3>2. t \in Charged'
      BY <1>0, <1>3 DEF Charged
    <3>3. Charged' \subseteq Transfers /\ A \subseteq Transfers /\ t \notin A
      BY <1>2 DEF Charged
    <3>4. QED
      BY <3>1, <3>2, <3>3
  <2>2. \A x \in A : g[x] = f[x]
    <3>1. \A x \in A : x \in Transfers /\ x # t
      BY <2>1 DEF Charged
    <3>2. QED
      BY <1>1, <1>4, <3>1 DEF Charges, Charge
  <2>3. g[t] = n
    BY <1>0, <1>3, <1>5, ChargeAfter
  <2>4. \A x \in A : f[x] \in Nat
    BY <1>5, ChargeOf DEF Charged
  <2>5. /\ IsFiniteSet(A) /\ SumFunctionOnSet(f, A) + n <= MaxStagingBytes
        /\ Cardinality(A) < MaxStagingTransfers
    BY DEF BeginReserves, FitsDisk, StockInv, BudgetInv, Charges
  <2> HIDE DEF A, f, g
  <2>6. SumFunctionOnSet(g, A) = SumFunctionOnSet(f, A) /\ SumFunctionOnSet(f, A) \in Nat
    BY <2>2, <2>4, <2>5, SumSame, SumType
  <2>7. SumFunctionOnSet(g, A \cup {t}) = n + SumFunctionOnSet(g, A)
    <3>1. \A x \in A \cup {t} : g[x] \in Nat
      BY <1>0, <2>2, <2>3, <2>4
    <3>2. QED
      BY <2>1, <2>3, <2>5, <3>1, SumAdd
  <2>8. IsFiniteSet(A \cup {t}) /\ Cardinality(A \cup {t}) = Cardinality(A) + 1 /\ Cardinality(A) \in Nat
    BY <2>1, <2>5, FS_AddElement, FS_CardinalityType
  <2>9. SumFunctionOnSet(g, A \cup {t}) <= MaxStagingBytes /\ Cardinality(A \cup {t}) <= MaxStagingTransfers
    BY <1>0, <2>5, <2>6, <2>7, <2>8, StagingConstants
  <2>10. QED
    BY <2>1, <2>8, <2>9 DEF BudgetInv, g
<1>12. QED
  BY <1>5, <1>9, <1>10, <1>11 DEF StockInv

\* Every step keeps the accounts.
LEMMA NextStock == ASSUME UploadInv, StockInv, [Next]_vars PROVE StockInv'
<1>0. UploadInv'
  BY NextMoves DEF Moves
<1>q. ASSUME UNCHANGED <<file, lease, up, mem>> PROVE StockInv'
  BY <1>0, <1>q, SameStock
<1>s. ASSUME UNCHANGED staging PROVE StockInv'
  BY <1>q, <1>s DEF staging
<1>1. ASSUME NEW p \in Procs,
             Signal(p) \/ FinishIdle(p) \/ FinishTimeout(p) \/ Restart(p) \/ LimiterTick(p)
      PROVE  StockInv'
  BY <1>1, <1>s DEF Signal, FinishIdle, FinishTimeout, Restart, LimiterTick
<1>2. ASSUME NEW p \in Procs, Exit(p) PROVE StockInv'
  <2> DEFINE mine == UNION {active[c] : c \in {d \in Conns : ProcOf[d] = p}}
  <2>1. \A x \in Transfers : x \in mine => lease[x].owner = p
    BY Alone
  <2>2. /\ file' = [t \in Transfers |-> IF t \in mine THEN NoFile ELSE file[t]]
        /\ lease' = [t \in Transfers |->
             IF t \in mine THEN NoLease
             ELSE IF lease[t].owner = p THEN [lease[t] EXCEPT !.owner = None] ELSE lease[t]]
        /\ up' = up /\ mem' = [mem EXCEPT ![p] = NoMemory]
    BY <1>2 DEF Exit
  <2>3. \A l \in LeaseRec : [l EXCEPT !.owner = None].owner = None
    BY DEF LeaseRec
  <2>4. NoLease.owner = None /\ \A x \in Transfers : lease[x] \in LeaseRec
    BY DEF NoLease, UploadInv, UploadTypes
  <2> HIDE DEF mine, NoLease, LeaseRec, NoMemory
  <2>5. \A x \in Transfers : lease[x].owner = p => lease'[x].owner = None /\ file'[x] \in {file[x], NoFile}
    BY <2>2, <2>3, <2>4
  <2>6. \A x \in Transfers : lease[x].owner # p => lease'[x] = lease[x] /\ file'[x] = file[x]
    BY <2>1, <2>2
  <2>7. QED
    BY <1>0, <2>2, <2>5, <2>6, GoneStock
<1>3. ASSUME NEW p \in Procs, Crash(p) PROVE StockInv'
  <2>1. /\ lease' = [t \in Transfers |->
             IF lease[t].owner = p THEN [lease[t] EXCEPT !.owner = None] ELSE lease[t]]
        /\ up' = up /\ file' = file /\ mem' = [mem EXCEPT ![p] = NoMemory]
    BY <1>3 DEF Crash, ProcessGone
  <2>2. \A x \in Transfers : [lease[x] EXCEPT !.owner = None].owner = None
    BY DEF UploadInv, UploadTypes, LeaseRec
  <2>3. QED
    BY <1>0, <2>1, <2>2, GoneStock
<1>4. ASSUME NEW p \in Procs, NEW gone, Purged(p, gone) PROVE StockInv'
  <2>1. PICK ts : ts = pending[p] \cap (lapsed \cup gone)
    OBVIOUS
  <2>2. Dropped(p, ts) /\ up' = up
    BY <1>4, <2>1 DEF Purged
  <2>3. ts \subseteq HeldBy(p)
    <3>1. pending[p] \subseteq Transfers
      BY DEF UploadInv, UploadTypes
    <3>2. QED
      BY <2>1, <3>1, Alone DEF HeldBy
  <2>4. QED
    BY <1>0, <2>2, <2>3, DropsStock
<1>5. ASSUME NEW p \in Procs, ExpiryTick(p) \/ ClearPending(p) PROVE StockInv'
  <2>1. PICK gone : Purged(p, gone)
    BY <1>5 DEF ExpiryTick, ClearPending
  <2>2. QED
    BY <1>4, <2>1
<1>6. ASSUME NEW p \in Procs, NEW t \in Transfers, UploadLapses(p, t) PROVE StockInv'
  BY <1>6, <1>q DEF UploadLapses
<1>7. ASSUME NEW s \in Sessions, SessionExpires(s) \/ PolicyDenies(s) \/ SessionRevoked(s) PROVE StockInv'
  BY <1>7, <1>s DEF SessionExpires, PolicyDenies, SessionRevoked
<1>8. ASSUME NEW c \in Conns,
         \/ LeasePoll(c) \/ ValidationStarts(c)
         \/ \E valid \in BOOLEAN : ValidationEnds(c, valid)
         \/ \E s \in Sessions : Upgrade(c, s) \/ Authenticated(c, s)
         \/ PreAuth(c) \/ PreAuthEnds(c)
         \/ LoopBreaks(c) \/ PeerLeaves(c) \/ WaitBreaks(c) \/ JobStarts(c)
         \/ \E k \in Kinds, t \in Transfers \cup {None} : Receives(c, k, t)
         \/ JobOther(c)
         \/ \E pc \in {"idle", "close"} : Delivers(c, pc)
         \/ CloseReads(c)
       PROVE  StockInv'
  <2>1. UNCHANGED staging
    BY <1>8 DEF LeasePoll, ValidationStarts, ValidationEnds, Upgrade, Authenticated, PreAuth, PreAuthEnds,
                LoopBreaks, PeerLeaves, WaitBreaks, JobStarts, Receives, JobOther, Delivers, CloseReads
  <2>2. QED
    BY <1>s, <2>1
<1>9. ASSUME NEW c \in Conns, JobReserves(c) PROVE StockInv'
  <2>1. PICK t \in NextOf({x \in wl.transfers : Fresh(x)}), n \in wl.totals, keep \in wl.keeps :
          BeginReserves(c, conn[c].sess, t, n, keep)
    BY <1>9 DEF JobReserves
  <2>2. wl.transfers \subseteq Transfers /\ wl.totals \subseteq Totals
    BY ServerConstants DEF UploadInv, UploadTypes
  <2>3. t \in Transfers /\ n \in 0..MaxTotal
    BY <2>1, <2>2, TotalBound DEF NextOf
  <2>4. QED
    BY <1>0, <2>1, <2>3, ReservesStock
<1>10. ASSUME NEW c \in Conns, NEW t \in Transfers, lease[t].owner = ProcOf[c],
              Dropped(ProcOf[c], {t}), up' = up
       PROVE  StockInv'
  <2>1. ProcOf[c] \in Procs /\ {t} \subseteq HeldBy(ProcOf[c])
    BY <1>10, StagingConstants DEF HeldBy
  <2>2. QED
    BY <1>0, <1>10, <2>1, DropsStock
<1>11. ASSUME NEW c \in Conns, JobCreates(c) \/ JobCommits(c) PROVE StockInv'
  <2>1. PICK t \in Transfers : t = conn[c].t /\ HeldJob(c, t)
    BY <1>11 DEF JobCreates, JobCommits, UploadInv, ConnInv, HeldJob
  <2>2. lease[t].owner = ProcOf[c] /\ lease[t].owner # None
    BY <2>1, Alone
  <2>3. CASE BeginCreates(c, t)
    <3>1. file' = [file EXCEPT ![t] = 0] /\ UNCHANGED <<lease, up, mem>>
      BY <2>3 DEF BeginCreates
    <3>2. file'[t] = 0 /\ up[t].total >= 0 /\ \A x \in Transfers : x # t => file'[x] = file[x]
      BY <3>1, TotalBound DEF UploadInv, UploadTypes, UploadRec
    <3>3. QED
      BY <1>0, <2>2, <3>1, <3>2, SameStock
  <2>4. CASE Dropped(ProcOf[c], {t}) /\ up' = up
    BY <1>10, <2>2, <2>4
  <2>5. QED
    BY <1>11, <2>1, <2>3, <2>4 DEF JobCreates, JobCommits, BeginFails, EndCleans
<1>12. ASSUME NEW c \in Conns, JobWrites(c) PROVE StockInv'
  <2>1. PICK n \in 1..MaxTotal :
          \/ ChunkWritten(c, conn[c].t, n)
          \/ \E k \in 1..(n - 1) : ChunkTorn(c, conn[c].t, n, k)
    BY <1>12 DEF JobWrites
  <2>2. PICK t \in Transfers : t = conn[c].t /\ t \in active[c]
    BY <2>1 DEF ChunkWritten, ChunkTorn, ChunkWithin, UploadInv, UploadTypes
  <2>3. PICK k \in 1..n : /\ file' = [file EXCEPT ![t] = Max({file[t], up[t].got + k})]
                          /\ up[t].got + n <= up[t].total /\ UNCHANGED <<lease, mem>>
                          /\ \A x \in Transfers : up'[x].total = up[x].total
    <3>1. CASE ChunkWritten(c, t, n)
      <4>1. up' = [up EXCEPT ![t] = [up[t] EXCEPT !.got = up[t].got + n]] /\ up[t] \in UploadRec
        BY <3>1 DEF ChunkWritten, UploadInv, UploadTypes
      <4>2. \A x \in Transfers : up'[x].total = up[x].total
        BY <4>1 DEF UploadInv, UploadTypes, UploadRec
      <4>3. n \in 1..n
        BY TotalBound
      <4>4. QED
        BY <3>1, <4>2, <4>3 DEF ChunkWritten, ChunkWithin
    <3>2. ASSUME NEW k \in 1..(n - 1), ChunkTorn(c, t, n, k)
          PROVE  /\ k \in 1..n /\ file' = [file EXCEPT ![t] = Max({file[t], up[t].got + k})]
                 /\ up[t].got + n <= up[t].total /\ UNCHANGED <<lease, mem>>
                 /\ \A x \in Transfers : up'[x].total = up[x].total
      BY <3>2, TotalBound DEF ChunkTorn, ChunkWithin
    <3>3. QED
      BY <2>1, <2>2, <3>1, <3>2
  <2>4. lease[t].owner # None /\ Backed(t)
    BY <2>2, Alone DEF StockInv
  <2>5. /\ up[t].got \in Int /\ up[t].total \in Int /\ file[t] \in Int /\ n \in Int /\ k \in Int /\ k <= n
        /\ file[t] <= up[t].total /\ up[t].got + k <= up[t].total /\ up[t].got + k \in Int
    BY <2>3, <2>4, TotalBound DEF UploadInv, UploadTypes, UploadRec, Backed, NoFile
  <2>6. Max({file[t], up[t].got + k}) \in {file[t], up[t].got + k}
    BY <2>5, MaxOfTwo
  <2>7. file'[t] <= up[t].total /\ \A x \in Transfers : x # t => file'[x] = file[x]
    BY <2>3, <2>5, <2>6 DEF UploadInv, UploadTypes
  <2>8. QED
    BY <1>0, <2>3, <2>4, <2>7, SameStock
<1>13. ASSUME NEW c \in Conns, JobEnds(c) PROVE StockInv'
  BY <1>13, <1>q DEF JobEnds, EndTakes
<1>14. ASSUME NEW c \in Conns, JobAborts(c) PROVE StockInv'
  <2>1. PICK t : t = conn[c].t
    OBVIOUS
  <2>2. /\ t \in active[c] \/ t \in pending[ProcOf[c]]
        /\ Dropped(ProcOf[c], {t}) /\ up' = up
    BY <1>14, <2>1 DEF JobAborts, Aborts, SuspendedFor
  <2>3. t \in Transfers
    BY <2>2, StagingConstants DEF UploadInv, UploadTypes
  <2>4. lease[t].owner = ProcOf[c]
    BY <2>2, <2>3, Alone, StagingConstants
  <2>5. QED
    BY <1>10, <2>2, <2>3, <2>4
<1>15. ASSUME NEW c \in Conns, JobResumes(c) PROVE StockInv'
  <2>1. PICK p \in Procs : p = ProcOf[c]
    BY StagingConstants
  <2>2. PICK admitted \in BOOLEAN : Takes(c, conn[c].sess, conn[c].t, admitted)
    BY <1>15 DEF JobResumes
  <2>3. PICK ts : ts \subseteq pending[p] /\ Dropped(p, ts) /\ up' = up
    <3> DEFINE back == {x \in {conn[c].t} : Resumable(p, conn[c].sess, x, admitted)}
               out == (pending[p] \cap lapsed) \cup {x \in {conn[c].t} \ back : Found(p, conn[c].sess, x)}
    <3>1. Dropped(p, out) /\ up' = up
      BY <2>1, <2>2 DEF Takes
    <3>2. out \subseteq pending[p]
      BY DEF Found, SuspendedFor
    <3> HIDE DEF out
    <3>3. QED
      BY <3>1, <3>2
  <2>4. ts \subseteq HeldBy(p)
    <3>1. pending[p] \subseteq Transfers
      BY DEF UploadInv, UploadTypes
    <3>2. QED
      BY <2>3, <3>1, Alone DEF HeldBy
  <2>5. QED
    BY <1>0, <2>3, <2>4, DropsStock
<1>16. ASSUME NEW c \in Conns, CloseDrops(c) PROVE StockInv'
  <2>1. PICK p \in Procs : p = ProcOf[c]
    BY StagingConstants
  <2>2. PICK ts : ts \subseteq pending[p] \cup active[c] /\ Dropped(p, ts) /\ up' = up
    <3> DEFINE old == IF conn[c].kept = {} THEN {} ELSE pending[p] \cap lapsed
    <3>1. PICK in \in SUBSET conn[c].kept : Dropped(p, old \cup (active[c] \ in)) /\ up' = up
      BY <1>16, <2>1 DEF CloseDrops, Suspends
    <3>2. old \cup (active[c] \ in) \subseteq pending[p] \cup active[c]
      OBVIOUS
    <3> HIDE DEF old
    <3>3. QED
      BY <3>1, <3>2
  <2>3. ts \subseteq HeldBy(p)
    <3>1. pending[p] \subseteq Transfers /\ active[c] \subseteq Transfers
      BY DEF UploadInv, UploadTypes
    <3>2. QED
      BY <2>1, <2>2, <3>1, Alone DEF HeldBy
  <2>4. QED
    BY <1>0, <2>2, <2>3, DropsStock
<1>17. ASSUME NEW x \in Streams,
             \/ StreamLeasePoll(x)
             \/ \E s \in Sessions : StreamOpens(x, s)
             \/ StreamProbes(x) \/ StreamTouches(x) \/ StreamReads(x)
             \/ \E pc \in {"ready", "end"} : StreamJobReturns(x, pc)
             \/ BodyDropped(x) \/ OrphanReturns(x)
      PROVE  StockInv'
  BY <1>17, <1>s DEF StreamLeasePoll, StreamOpens, StreamProbes, StreamTouches, StreamReads,
                StreamJobReturns, BodyDropped, OrphanReturns, NotStream
<1>18. ASSUME NEW a \in Attempts,
              \/ \E u \in Users : LoginArrives(a, u)
              \/ LoginStarts(a) \/ LoginReserves(a) \/ LoginUnanswered(a)
              \/ LoginVerifies(a) \/ LoginFails(a) \/ LoginDenied(a)
              \/ \E s \in Sessions : LoginSucceeds(a, s)
       PROVE  StockInv'
  BY <1>18, <1>s DEF LoginArrives, LoginStarts, LoginReserves, LoginUnanswered, LoginVerifies,
                 LoginFails, LoginDenied, LoginSucceeds, NotLogin
<1>19. CASE ClockTicks \/ UNCHANGED vars
  BY <1>19, <1>s DEF ClockTicks, vars
<1>20. QED
  BY <1>1, <1>2, <1>3, <1>5, <1>6, <1>7, <1>8, <1>9, <1>11, <1>12, <1>13, <1>14, <1>15, <1>16, <1>17,
     <1>18, <1>19 DEF Next

\* Nothing is charged at the start.
LEMMA InitStock == Init => StockInv
<1> SUFFICES ASSUME Init PROVE StockInv
  OBVIOUS
<1>1. /\ file = [t \in Transfers |-> NoFile] /\ lease = [t \in Transfers |-> NoLease]
      /\ mem = [p \in Procs |-> NoMemory]
  BY DEF Init, StagingInit
<1>2. /\ (\A t \in Transfers : lease[t].owner = None /\ file[t] = NoFile) /\ None \notin Procs
  BY <1>1, StagingConstants DEF NoLease
<1>3. Charged = {} /\ \A p \in Procs : HeldBy(p) = {}
  BY <1>2 DEF Charged, HeldBy
<1>4. IsFiniteSet({}) /\ Cardinality({}) = 0 /\ \A f : SumFunctionOnSet(f, {}) = 0
  BY FS_EmptySet, SumUnfold
<1>5. BudgetInv
  BY <1>3, <1>4, StagingConstants DEF BudgetInv
<1>6. \A p \in Procs : Books(p)
  BY <1>1, <1>3, <1>4 DEF Books, NoMemory
<1>7. QED
  BY <1>1, <1>2, <1>5, <1>6 DEF StockInv, Backed, NoMemory

\* The accounts are always right.
THEOREM AccountsRight == Spec => []StockInv
<1>1. UploadInv /\ StockInv /\ [Next]_vars => StockInv'
  BY NextStock
<1>2. QED
  BY UploadsConsistent, InitStock, <1>1, PTL DEF Spec

\* The stage files stay within the budget, whatever number of processes share
\* the directory, and whichever of them crash: a reservation counts the
\* leftovers before it is granted, and a file never outgrows its own.
THEOREM BudgetKept == Spec => []StagingWithinBudget
<1>1. UploadInv /\ StockInv => StagingWithinBudget
  <2> SUFFICES ASSUME UploadInv, StockInv PROVE StagingWithinBudget
    OBVIOUS
  <2> DEFINE A == Charged
             B == {t \in Transfers : file[t] # NoFile}
             f == Charges
             g == file
  <2>1. B \subseteq A /\ A \subseteq Transfers
    BY DEF Charged
  <2>2. \A t \in A : f[t] \in Nat
    BY <2>1, ChargeOf DEF StockInv
  <2>3. \A t \in B : g[t] \in Nat /\ f[t] \in Nat /\ g[t] <= f[t]
    <3>1. \A t \in B : g[t] \in Nat
      BY TotalBound DEF UploadInv, UploadTypes, NoFile
    <3>2. QED
      BY <3>1, ChargeOf DEF StockInv
  <2>4. IsFiniteSet(A) /\ Cardinality(A) <= MaxStagingTransfers /\ SumFunctionOnSet(f, A) <= MaxStagingBytes
    BY DEF StockInv, BudgetInv
  <2> HIDE DEF A, B, f, g
  <2>5. IsFiniteSet(B) /\ Cardinality(B) <= Cardinality(A) /\ Cardinality(B) \in Nat /\ Cardinality(A) \in Nat
    BY <2>1, <2>4, FS_Subset, FS_CardinalityType
  <2>6. SumFunctionOnSet(g, B) <= SumFunctionOnSet(f, B)
    BY <2>3, <2>5, SumLeq
  <2>7. /\ SumFunctionOnSet(f, B) \in Nat /\ SumFunctionOnSet(f, A \ B) \in Nat
        /\ SumFunctionOnSet(f, A) = SumFunctionOnSet(f, B) + SumFunctionOnSet(f, A \ B)
    BY <2>1, <2>2, <2>4, SumPart
  <2>8. SumFunctionOnSet(g, B) \in Nat
    BY <2>3, <2>5, SumType
  <2>9. SumFunctionOnSet(g, B) <= MaxStagingBytes /\ Cardinality(B) <= MaxStagingTransfers
    BY <2>4, <2>5, <2>6, <2>7, <2>8, StagingConstants
  <2>10. QED
    BY <2>9 DEF StagingWithinBudget, B, g
<1>2. QED
  BY UploadsConsistent, AccountsRight, <1>1, PTL

\* A reservation is in one place as long as it lasts, and the counter in
\* memory is the sum of those: no close, resume, abort, purge, failure or end
\* of a process leaks one or gives it back twice.
THEOREM ReservationsHeldOnce == Spec => []StageHeldOnce
<1>1. UploadInv /\ StockInv => StageHeldOnce
  <2> SUFFICES ASSUME UploadInv, StockInv PROVE StageHeldOnce
    OBVIOUS
  <2>1. ASSUME NEW t \in Transfers
        PROVE  Cardinality(Holders(t)) = IF lease[t].owner = None THEN 0 ELSE 1
    <3> DEFINE hc == {<<"active", c>> : c \in {d \in Conns : t \in active[d]}}
               hp == {<<"pending", p>> : p \in {q \in Procs : t \in pending[q]}}
               hj == {<<"job", c>> : c \in {d \in Conns : conn[d].pc = "held" /\ conn[d].t = t}}
    <3>0. Holders(t) = hc \cup hp \cup hj
      BY DEF Holders
    <3>1. \A c \in Conns : HeldJob(c, t) <=> conn[c].pc = "held" /\ conn[c].t = t
      BY DEF HeldJob
    <3>2. CASE lease[t].owner = None
      <4>1. hc = {} /\ hp = {} /\ hj = {}
        BY <3>1, <3>2, Alone
      <4>2. QED
        BY <3>0, <3>2, <4>1, FS_EmptySet
    <3>3. CASE \E c \in Conns : t \in active[c]
      <4>1. PICK c \in Conns : t \in active[c]
        BY <3>3
      <4>2. hc = {<<"active", c>>} /\ hp = {} /\ hj = {} /\ lease[t].owner # None
        BY <3>1, <4>1, Alone
      <4>3. Holders(t) = {<<"active", c>>}
        BY <3>0, <4>2
      <4>4. QED
        BY <4>2, <4>3, FS_Singleton
    <3>4. CASE \E p \in Procs : t \in pending[p]
      <4>1. PICK p \in Procs : t \in pending[p]
        BY <3>4
      <4>2. hp = {<<"pending", p>>} /\ hc = {} /\ hj = {} /\ lease[t].owner # None
        BY <3>1, <4>1, Alone
      <4>3. Holders(t) = {<<"pending", p>>}
        BY <3>0, <4>2
      <4>4. QED
        BY <4>2, <4>3, FS_Singleton
    <3>5. CASE \E c \in Conns : HeldJob(c, t)
      <4>1. PICK c \in Conns : HeldJob(c, t)
        BY <3>5
      <4>2. hj = {<<"job", c>>} /\ hc = {} /\ hp = {} /\ lease[t].owner # None
        BY <3>1, <4>1, Alone
      <4>3. Holders(t) = {<<"job", c>>}
        BY <3>0, <4>2
      <4>4. QED
        BY <4>2, <4>3, FS_Singleton
    <3>6. QED
      BY <3>2, <3>3, <3>4, <3>5 DEF UploadInv, TransferInv, IsHeld
  <2>2. QED
    BY <2>1 DEF StageHeldOnce, StockInv, Books
<1>2. QED
  BY UploadsConsistent, AccountsRight, <1>1, PTL

-----------------------------------------------------------------------------
(* Activity guards and permits. *)

\* Who has a guard, and whose job has another one and a permit.
SocketOpen(pc) == pc \notin {"none", "closed"}
SocketJob(pc) == pc \in {"job", "held"}
BodyOpen(pc) == pc \in {"first", "probe", "ready", "wait", "read"}
BodyJob(pc) == pc \in {"probe", "read", "orphan"}
LoginOpen(pc) == pc \notin {"none", "done"}
LoginJob(pc) == pc \in {"job", "verify"}

Sockets(p) == {c \in Conns : ProcOf[c] = p /\ SocketOpen(conn[c].pc)}
SocketJobs(p) == {c \in Conns : ProcOf[c] = p /\ SocketJob(conn[c].pc)}
Bodies(p) == {x \in Streams : ProcOf[x] = p /\ BodyOpen(stream[x].pc)}
BodyJobs(p) == {x \in Streams : ProcOf[x] = p /\ BodyJob(stream[x].pc)}
LoginsOf(p) == {a \in Attempts : p = Gate /\ LoginOpen(att[a].pc)}
LoginJobs(p) == {a \in Attempts : p = Gate /\ LoginJob(att[a].pc)}

\* Counters a and f for six sets, w permits in all.
TallyOf(a, f, w, A1, A2, B1, B2, C1, C2) ==
  /\ a \in Int /\ f \in Int /\ w \in Int
  /\ IsFiniteSet(A1) /\ IsFiniteSet(A2) /\ IsFiniteSet(B1) /\ IsFiniteSet(B2)
  /\ IsFiniteSet(C1) /\ IsFiniteSet(C2)
  /\ a = Cardinality(A1) + Cardinality(A2) + Cardinality(B1) + Cardinality(B2)
         + Cardinality(C1) + Cardinality(C2)
  /\ w = f + Cardinality(A2) + Cardinality(B2) + Cardinality(C2)

\* The counters of process p are right, and a clean shutdown found nobody.
Tallied(p) ==
  /\ TallyOf(acts[p], free[p], wl.slots, Sockets(p), SocketJobs(p), Bodies(p), BodyJobs(p),
             LoginsOf(p), LoginJobs(p))
  /\ free[p] >= 0
  /\ phase[p] = "clean" => acts[p] = 0

StreamRec == [pc : {"none", "first", "probe", "ready", "wait", "read", "orphan", "end"},
              sess : Sessions \cup {None}, cut : BOOLEAN]
TallyInv ==
  /\ acts \in [Procs -> Int] /\ free \in [Procs -> Int] /\ wl.slots \in Nat
  /\ stream \in [Streams -> StreamRec]
  /\ \A p \in Procs : Tallied(p)

One(b) == IF b THEN 1 ELSE 0

\* A set that differs from a finite one in one element.
LEMMA Flip ==
  ASSUME NEW S, IsFiniteSet(S), NEW x, NEW T, T \ {x} = S \ {x}
  PROVE  /\ IsFiniteSet(T) /\ Cardinality(T) \in Nat /\ Cardinality(S) \in Nat
         /\ Cardinality(T) = Cardinality(S) + One(x \in T) - One(x \in S)
<1> DEFINE R == S \ {x}
<1>1. IsFiniteSet(R) /\ Cardinality(R) \in Nat /\ x \notin R
  BY FS_Subset, FS_CardinalityType
<1>2. IsFiniteSet(R \cup {x}) /\ Cardinality(R \cup {x}) = Cardinality(R) + 1
  BY <1>1, FS_AddElement
<1>3. /\ (x \in T => T = R \cup {x}) /\ (x \notin T => T = R)
      /\ (x \in S => S = R \cup {x}) /\ (x \notin S => S = R)
  OBVIOUS
<1> HIDE DEF R
<1>4. IsFiniteSet(T) /\ Cardinality(T) = Cardinality(R) + One(x \in T)
  <2>1. CASE x \in T
    BY <1>2, <1>3, <2>1 DEF One
  <2>2. CASE x \notin T
    BY <1>1, <1>3, <2>2 DEF One
  <2>3. QED
    BY <2>1, <2>2
<1>5. Cardinality(S) = Cardinality(R) + One(x \in S)
  <2>1. CASE x \in S
    BY <1>2, <1>3, <2>1 DEF One
  <2>2. CASE x \notin S
    BY <1>1, <1>3, <2>2 DEF One
  <2>3. QED
    BY <2>1, <2>2
<1>6. One(x \in S) \in {0, 1} /\ One(x \in T) \in {0, 1}
  BY DEF One
<1>7. QED
  BY <1>1, <1>4, <1>5, <1>6

\* Entry p of a counter changes by n.
Changes(f, g, p, n) ==
  g \in [Procs -> Int] /\ g[p] = f[p] + n /\ \A q \in Procs : q # p => g[q] = f[q]

\* Set S is A but for x, which makes a difference of n.
Flips(S, A, x, n) == S \ {x} = A \ {x} /\ n = One(x \in S) - One(x \in A)

\* Two of them change in one element x.
LEMMA Tally ==
  ASSUME NEW a, NEW f, NEW w, NEW A1, NEW A2, NEW B1, NEW B2, NEW C1, NEW C2,
         TallyOf(a, f, w, A1, A2, B1, B2, C1, C2),
         NEW S1, NEW S2, NEW x, NEW n, NEW m, Flips(S1, A1, x, n), Flips(S2, A2, x, m)
  PROVE  /\ TallyOf(a + (n + m), f + (0 - m), w, S1, S2, B1, B2, C1, C2)
         /\ a = 0 => A1 = {} /\ A2 = {}
<1> USE DEF TallyOf, Flips
<1>1. /\ IsFiniteSet(S1) /\ Cardinality(S1) \in Nat /\ Cardinality(A1) \in Nat
      /\ Cardinality(S1) = Cardinality(A1) + One(x \in S1) - One(x \in A1)
  BY Flip
<1>2. /\ IsFiniteSet(S2) /\ Cardinality(S2) \in Nat /\ Cardinality(A2) \in Nat
      /\ Cardinality(S2) = Cardinality(A2) + One(x \in S2) - One(x \in A2)
  BY Flip
<1>3. /\ Cardinality(B1) \in Nat /\ Cardinality(B2) \in Nat /\ Cardinality(C1) \in Nat /\ Cardinality(C2) \in Nat
  BY FS_CardinalityType
<1>4. \A b : One(b) \in Int
  BY DEF One
<1>5. a = 0 => A1 = {} /\ A2 = {}
  <2> DEFINE a1 == Cardinality(A1)
             a2 == Cardinality(A2)
             rest == Cardinality(B1) + Cardinality(B2) + Cardinality(C1) + Cardinality(C2)
  <2>1. a1 \in Nat /\ a2 \in Nat /\ rest \in Nat /\ a = a1 + a2 + rest
    BY <1>1, <1>2, <1>3
  <2>2. (a1 = 0 => A1 = {}) /\ (a2 = 0 => A2 = {})
    BY FS_EmptySet
  <2> HIDE DEF a1, a2, rest
  <2>3. a = 0 => a1 = 0 /\ a2 = 0
    BY <2>1
  <2>4. QED
    BY <2>2, <2>3
<1>6. QED
  BY <1>1, <1>2, <1>3, <1>4, <1>5

\* The order of the pairs does not matter.
LEMMA TallySwap ==
  ASSUME NEW a, NEW f, NEW w, NEW A1, NEW A2, NEW B1, NEW B2, NEW C1, NEW C2,
         TallyOf(a, f, w, A1, A2, B1, B2, C1, C2)
  PROVE  /\ TallyOf(a, f, w, B1, B2, A1, A2, C1, C2)
         /\ TallyOf(a, f, w, C1, C2, B1, B2, A1, A2)
<1>1. /\ Cardinality(A1) \in Nat /\ Cardinality(A2) \in Nat /\ Cardinality(B1) \in Nat
      /\ Cardinality(B2) \in Nat /\ Cardinality(C1) \in Nat /\ Cardinality(C2) \in Nat
  BY FS_CardinalityType DEF TallyOf
<1>2. QED
  BY <1>1 DEF TallyOf

\* A step of connection c: what it and its job hold, changes by n and m.
LEMMA ConnTally ==
  ASSUME TallyInv, NEW c \in Conns, UNCHANGED <<wl, phase, stream, att>>,
         \A d \in Conns : d # c => conn'[d] = conn[d],
         NEW n \in Int, NEW m \in Int,
         n = One(SocketOpen(conn'[c].pc)) - One(SocketOpen(conn[c].pc)),
         m = One(SocketJob(conn'[c].pc)) - One(SocketJob(conn[c].pc)),
         Changes(acts, acts', ProcOf[c], n + m), Changes(free, free', ProcOf[c], 0 - m),
         m > 0 => free[ProcOf[c]] > 0,
         SocketOpen(conn[c].pc) \/ SocketJob(conn[c].pc) \/ phase[ProcOf[c]] = "up"
  PROVE  TallyInv'
<1> DEFINE p == ProcOf[c]
<1>0. p \in Procs /\ p = ProcOf[c]
  BY StagingConstants
<1>1. ASSUME NEW q \in Procs
      PROVE  /\ Bodies(q)' = Bodies(q) /\ BodyJobs(q)' = BodyJobs(q)
             /\ LoginsOf(q)' = LoginsOf(q) /\ LoginJobs(q)' = LoginJobs(q)
             /\ q # p => Sockets(q)' = Sockets(q) /\ SocketJobs(q)' = SocketJobs(q)
  BY DEF Bodies, BodyJobs, LoginsOf, LoginJobs, Sockets, SocketJobs
<1>2. /\ Sockets(p)' \ {c} = Sockets(p) \ {c} /\ SocketJobs(p)' \ {c} = SocketJobs(p) \ {c}
      /\ (c \in Sockets(p)' <=> SocketOpen(conn'[c].pc)) /\ (c \in Sockets(p) <=> SocketOpen(conn[c].pc))
      /\ (c \in SocketJobs(p)' <=> SocketJob(conn'[c].pc)) /\ (c \in SocketJobs(p) <=> SocketJob(conn[c].pc))
  BY DEF Sockets, SocketJobs
<1>3. Flips(Sockets(p)', Sockets(p), c, n) /\ Flips(SocketJobs(p)', SocketJobs(p), c, m)
  BY <1>2 DEF One, Flips
<1> HIDE DEF p
<1>4. Tallied(p) /\ acts[p] \in Int /\ free[p] \in Int /\ wl.slots \in Int
  BY <1>0 DEF TallyInv
<1>5. TallyOf(acts[p], free[p], wl.slots, Sockets(p), SocketJobs(p), Bodies(p), BodyJobs(p), LoginsOf(p), LoginJobs(p))
  BY <1>4 DEF Tallied
<1>6. /\ TallyOf(acts[p] + (n + m), free[p] + (0 - m), wl.slots, Sockets(p)', SocketJobs(p)',
                 Bodies(p), BodyJobs(p), LoginsOf(p), LoginJobs(p))
      /\ acts[p] = 0 => Sockets(p) = {} /\ SocketJobs(p) = {}
  BY <1>3, <1>5, Tally
<1>7. /\ acts'[p] = acts[p] + (n + m) /\ free'[p] = free[p] + (0 - m)
      /\ acts' \in [Procs -> Int] /\ free' \in [Procs -> Int]
      /\ \A q \in Procs : q # p => acts'[q] = acts[q] /\ free'[q] = free[q]
  BY <1>0 DEF Changes
<1>8. Tallied(p)'
  <2>1. free'[p] >= 0
    <3>1. m \in {-1, 0, 1}
      BY DEF One
    <3>2. QED
      BY <1>0, <1>4, <1>7, <3>1 DEF Tallied
  <2>2. phase'[p] = "clean" => acts'[p] = 0
    BY <1>0, <1>2, <1>4, <1>6 DEF Tallied
  <2>3. TallyOf(acts'[p], free'[p], wl.slots, Sockets(p)', SocketJobs(p)',
                 Bodies(p), BodyJobs(p), LoginsOf(p), LoginJobs(p))
    BY <1>6, <1>7
  <2>4. QED
    BY <1>0, <1>1, <2>1, <2>2, <2>3 DEF Tallied
<1>9. ASSUME NEW q \in Procs, q # p PROVE Tallied(q)'
  BY <1>1, <1>7, <1>9 DEF TallyInv, Tallied, p
<1>10. QED
  BY <1>7, <1>8, <1>9 DEF TallyInv

\* The same for a step of download x.
LEMMA StreamTally ==
  ASSUME TallyInv, NEW x \in Streams, UNCHANGED <<wl, phase, conn, att>>, stream' \in [Streams -> StreamRec],
         \A d \in Streams : d # x => stream'[d] = stream[d],
         NEW n \in Int, NEW m \in Int,
         n = One(BodyOpen(stream'[x].pc)) - One(BodyOpen(stream[x].pc)),
         m = One(BodyJob(stream'[x].pc)) - One(BodyJob(stream[x].pc)),
         Changes(acts, acts', ProcOf[x], n + m), Changes(free, free', ProcOf[x], 0 - m),
         m > 0 => free[ProcOf[x]] > 0,
         BodyOpen(stream[x].pc) \/ BodyJob(stream[x].pc) \/ phase[ProcOf[x]] = "up"
  PROVE  TallyInv'
<1> DEFINE p == ProcOf[x]
<1>0. p \in Procs /\ p = ProcOf[x]
  BY ServerConstants
<1>1. ASSUME NEW q \in Procs
      PROVE  /\ Sockets(q)' = Sockets(q) /\ SocketJobs(q)' = SocketJobs(q)
             /\ LoginsOf(q)' = LoginsOf(q) /\ LoginJobs(q)' = LoginJobs(q)
             /\ q # p => Bodies(q)' = Bodies(q) /\ BodyJobs(q)' = BodyJobs(q)
  BY DEF Sockets, SocketJobs, LoginsOf, LoginJobs, Bodies, BodyJobs
<1>2. /\ Bodies(p)' \ {x} = Bodies(p) \ {x} /\ BodyJobs(p)' \ {x} = BodyJobs(p) \ {x}
      /\ (x \in Bodies(p)' <=> BodyOpen(stream'[x].pc)) /\ (x \in Bodies(p) <=> BodyOpen(stream[x].pc))
      /\ (x \in BodyJobs(p)' <=> BodyJob(stream'[x].pc)) /\ (x \in BodyJobs(p) <=> BodyJob(stream[x].pc))
  BY DEF Bodies, BodyJobs
<1>3. Flips(Bodies(p)', Bodies(p), x, n) /\ Flips(BodyJobs(p)', BodyJobs(p), x, m)
  BY <1>2 DEF One, Flips
<1> HIDE DEF p
<1>4. Tallied(p) /\ acts[p] \in Int /\ free[p] \in Int /\ wl.slots \in Int
  BY <1>0 DEF TallyInv
<1>5. TallyOf(acts[p], free[p], wl.slots, Bodies(p), BodyJobs(p), Sockets(p), SocketJobs(p), LoginsOf(p), LoginJobs(p))
  BY <1>4, TallySwap DEF Tallied
<1>6. /\ TallyOf(acts[p] + (n + m), free[p] + (0 - m), wl.slots, Bodies(p)', BodyJobs(p)',
                 Sockets(p), SocketJobs(p), LoginsOf(p), LoginJobs(p))
      /\ acts[p] = 0 => Bodies(p) = {} /\ BodyJobs(p) = {}
  <2> DEFINE A1 == Bodies(p)
             A2 == BodyJobs(p)
             B1 == Sockets(p)
             B2 == SocketJobs(p)
             C1 == LoginsOf(p)
             C2 == LoginJobs(p)
             S1 == Bodies(p)'
             S2 == BodyJobs(p)'
             u == acts[p]
             f == free[p]
             w == wl.slots
  <2>1. TallyOf(u, f, w, A1, A2, B1, B2, C1, C2) /\ Flips(S1, A1, x, n) /\ Flips(S2, A2, x, m)
    BY <1>3, <1>5
  <2> HIDE DEF A1, A2, B1, B2, C1, C2, S1, S2, u, f, w
  <2>2. TallyOf(u + (n + m), f + (0 - m), w, S1, S2, B1, B2, C1, C2) /\ (u = 0 => A1 = {} /\ A2 = {})
    BY <2>1, Tally
  <2>3. QED
    BY <2>2 DEF A1, A2, B1, B2, C1, C2, S1, S2, u, f, w
<1>7. /\ acts'[p] = acts[p] + (n + m) /\ free'[p] = free[p] + (0 - m)
      /\ acts' \in [Procs -> Int] /\ free' \in [Procs -> Int]
      /\ \A q \in Procs : q # p => acts'[q] = acts[q] /\ free'[q] = free[q]
  BY <1>0 DEF Changes
<1>8. Tallied(p)'
  <2>1. free'[p] >= 0
    <3>1. m \in {-1, 0, 1}
      BY DEF One
    <3>2. QED
      BY <1>0, <1>4, <1>7, <3>1 DEF Tallied
  <2>2. phase'[p] = "clean" => acts'[p] = 0
    BY <1>0, <1>2, <1>4, <1>6 DEF Tallied
  <2>3. TallyOf(acts'[p], free'[p], wl.slots, Bodies(p)', BodyJobs(p)',
                 Sockets(p), SocketJobs(p), LoginsOf(p), LoginJobs(p))
    BY <1>6, <1>7
  <2>4. TallyOf(acts'[p], free'[p], wl.slots, Sockets(p)', SocketJobs(p)', Bodies(p)', BodyJobs(p)',
                LoginsOf(p)', LoginJobs(p)')
    BY <1>0, <1>1, <2>3, TallySwap
  <2>5. QED
    BY <2>1, <2>2, <2>4 DEF Tallied
<1>9. ASSUME NEW q \in Procs, q # p PROVE Tallied(q)'
  BY <1>1, <1>7, <1>9 DEF TallyInv, Tallied, p
<1>10. QED
  BY <1>7, <1>8, <1>9 DEF TallyInv

\* The same for a step of login attempt a.
LEMMA LoginTally ==
  ASSUME TallyInv, NEW a \in Attempts, UNCHANGED <<wl, phase, conn, stream>>,
         \A d \in Attempts : d # a => att'[d] = att[d],
         NEW n \in Int, NEW m \in Int,
         n = One(LoginOpen(att'[a].pc)) - One(LoginOpen(att[a].pc)),
         m = One(LoginJob(att'[a].pc)) - One(LoginJob(att[a].pc)),
         Changes(acts, acts', Gate, n + m), Changes(free, free', Gate, 0 - m),
         m > 0 => free[Gate] > 0,
         LoginOpen(att[a].pc) \/ LoginJob(att[a].pc) \/ phase[Gate] = "up"
  PROVE  TallyInv'
<1> DEFINE p == Gate
<1>0. p \in Procs /\ p = Gate
  BY ServerConstants
<1>1. ASSUME NEW q \in Procs
      PROVE  /\ Bodies(q)' = Bodies(q) /\ BodyJobs(q)' = BodyJobs(q)
             /\ Sockets(q)' = Sockets(q) /\ SocketJobs(q)' = SocketJobs(q)
             /\ q # p => LoginsOf(q)' = LoginsOf(q) /\ LoginJobs(q)' = LoginJobs(q)
  BY DEF Bodies, BodyJobs, Sockets, SocketJobs, LoginsOf, LoginJobs
<1>2. /\ LoginsOf(p)' \ {a} = LoginsOf(p) \ {a} /\ LoginJobs(p)' \ {a} = LoginJobs(p) \ {a}
      /\ (a \in LoginsOf(p)' <=> LoginOpen(att'[a].pc)) /\ (a \in LoginsOf(p) <=> LoginOpen(att[a].pc))
      /\ (a \in LoginJobs(p)' <=> LoginJob(att'[a].pc)) /\ (a \in LoginJobs(p) <=> LoginJob(att[a].pc))
  BY DEF LoginsOf, LoginJobs
<1>3. Flips(LoginsOf(p)', LoginsOf(p), a, n) /\ Flips(LoginJobs(p)', LoginJobs(p), a, m)
  BY <1>2 DEF One, Flips
<1> HIDE DEF p
<1>4. Tallied(p) /\ acts[p] \in Int /\ free[p] \in Int /\ wl.slots \in Int
  BY <1>0 DEF TallyInv
<1>5. TallyOf(acts[p], free[p], wl.slots, LoginsOf(p), LoginJobs(p), Bodies(p), BodyJobs(p), Sockets(p), SocketJobs(p))
  BY <1>4, TallySwap DEF Tallied
<1>6. /\ TallyOf(acts[p] + (n + m), free[p] + (0 - m), wl.slots, LoginsOf(p)', LoginJobs(p)',
                 Bodies(p), BodyJobs(p), Sockets(p), SocketJobs(p))
      /\ acts[p] = 0 => LoginsOf(p) = {} /\ LoginJobs(p) = {}
  <2> DEFINE A1 == LoginsOf(p)
             A2 == LoginJobs(p)
             B1 == Bodies(p)
             B2 == BodyJobs(p)
             C1 == Sockets(p)
             C2 == SocketJobs(p)
             S1 == LoginsOf(p)'
             S2 == LoginJobs(p)'
             u == acts[p]
             f == free[p]
             w == wl.slots
  <2>1. TallyOf(u, f, w, A1, A2, B1, B2, C1, C2) /\ Flips(S1, A1, a, n) /\ Flips(S2, A2, a, m)
    BY <1>3, <1>5
  <2> HIDE DEF A1, A2, B1, B2, C1, C2, S1, S2, u, f, w
  <2>2. TallyOf(u + (n + m), f + (0 - m), w, S1, S2, B1, B2, C1, C2) /\ (u = 0 => A1 = {} /\ A2 = {})
    BY <2>1, Tally
  <2>3. QED
    BY <2>2 DEF A1, A2, B1, B2, C1, C2, S1, S2, u, f, w
<1>7. /\ acts'[p] = acts[p] + (n + m) /\ free'[p] = free[p] + (0 - m)
      /\ acts' \in [Procs -> Int] /\ free' \in [Procs -> Int]
      /\ \A q \in Procs : q # p => acts'[q] = acts[q] /\ free'[q] = free[q]
  BY <1>0 DEF Changes
<1>8. Tallied(p)'
  <2>1. free'[p] >= 0
    <3>1. m \in {-1, 0, 1}
      BY DEF One
    <3>2. QED
      BY <1>0, <1>4, <1>7, <3>1 DEF Tallied
  <2>2. phase'[p] = "clean" => acts'[p] = 0
    BY <1>0, <1>2, <1>4, <1>6 DEF Tallied
  <2>3. TallyOf(acts'[p], free'[p], wl.slots, LoginsOf(p)', LoginJobs(p)',
                 Bodies(p), BodyJobs(p), Sockets(p), SocketJobs(p))
    BY <1>6, <1>7
  <2>4. TallyOf(acts'[p], free'[p], wl.slots, Sockets(p)', SocketJobs(p)', Bodies(p)', BodyJobs(p)',
                LoginsOf(p)', LoginJobs(p)')
    BY <1>0, <1>1, <2>3, TallySwap
  <2>5. QED
    BY <2>1, <2>2, <2>4 DEF Tallied
<1>9. ASSUME NEW q \in Procs, q # p PROVE Tallied(q)'
  BY <1>1, <1>7, <1>9 DEF TallyInv, Tallied, p
<1>10. QED
  BY <1>7, <1>8, <1>9 DEF TallyInv

\* Who stands where is the same, and so are the counters.
LEMMA SameTally ==
  ASSUME TallyInv, UNCHANGED <<wl, acts, free, conn, att>>, stream' \in [Streams -> StreamRec],
         \A x \in Streams : stream'[x].pc = stream[x].pc,
         \A p \in Procs : phase'[p] = "clean" => phase[p] = "clean" \/ acts[p] = 0
  PROVE  TallyInv'
<1>1. ASSUME NEW p \in Procs PROVE Tallied(p)'
  <2>1. /\ Sockets(p)' = Sockets(p) /\ SocketJobs(p)' = SocketJobs(p) /\ Bodies(p)' = Bodies(p)
        /\ BodyJobs(p)' = BodyJobs(p) /\ LoginsOf(p)' = LoginsOf(p) /\ LoginJobs(p)' = LoginJobs(p)
    BY DEF Sockets, SocketJobs, Bodies, BodyJobs, LoginsOf, LoginJobs
  <2>2. QED
    BY <2>1 DEF TallyInv, Tallied
<1>2. QED
  BY <1>1 DEF TallyInv

\* The end of a process.
LEMMA GoneTally ==
  ASSUME TallyInv, LoginsInv, NEW p \in Procs, TasksGone(p), wl' = wl PROVE TallyInv'
<1>0. /\ NoConn.pc = "none" /\ [NoConn EXCEPT !.pc = "closed"].pc = "closed"
      /\ [NoStream EXCEPT !.pc = "end"] \in StreamRec /\ [NoStream EXCEPT !.pc = "end"].pc = "end"
  BY DEF NoConn, NoStream, StreamRec
<1>1. /\ phase'[p] = "down" /\ \A q \in Procs : q # p => phase'[q] = phase[q]
      /\ \A c \in Conns : /\ ProcOf[c] # p => conn'[c] = conn[c]
                          /\ ProcOf[c] = p => conn'[c].pc \in {"none", "closed"}
      /\ \A x \in Streams : /\ ProcOf[x] # p => stream'[x] = stream[x]
                            /\ ProcOf[x] = p => stream'[x].pc \in {"none", "end"}
      /\ stream' \in [Streams -> StreamRec]
  BY <1>0 DEF TasksGone, LoginsInv, TallyInv
<1>2. /\ acts' = [acts EXCEPT ![p] = 0] /\ free' = [free EXCEPT ![p] = wl.slots]
  BY DEF TasksGone
<1>3. /\ p = Gate => \A a \in Attempts : att'[a].pc \in {"none", "done"}
      /\ p # Gate => att' = att
  <2>1. \A a \in Attempts : [att[a] EXCEPT !.pc = "done"].pc = "done"
    BY DEF LoginsInv, LoginsTypeOK
  <2>2. QED
    BY <2>1 DEF TasksGone, LimiterLost, logins
<1>4. Tallied(p)'
  <2>1. /\ Sockets(p)' = {} /\ SocketJobs(p)' = {} /\ Bodies(p)' = {}
        /\ BodyJobs(p)' = {} /\ LoginsOf(p)' = {} /\ LoginJobs(p)' = {}
    BY <1>1, <1>3 DEF Sockets, SocketJobs, Bodies, BodyJobs, LoginsOf, LoginJobs,
                      SocketOpen, SocketJob, BodyOpen, BodyJob, LoginOpen, LoginJob
  <2>2. acts'[p] = 0 /\ free'[p] = wl.slots /\ wl.slots \in Nat
    BY <1>2 DEF TallyInv
  <2>3. IsFiniteSet({}) /\ Cardinality({}) = 0
    BY FS_EmptySet
  <2>4. TallyOf(0, wl.slots, wl.slots, {}, {}, {}, {}, {}, {})
    BY <2>2, <2>3 DEF TallyOf
  <2>5. QED
    BY <2>1, <2>2, <2>4 DEF Tallied
<1>5. ASSUME NEW q \in Procs, q # p PROVE Tallied(q)'
  <2>1. /\ Sockets(q)' = Sockets(q) /\ SocketJobs(q)' = SocketJobs(q) /\ Bodies(q)' = Bodies(q)
        /\ BodyJobs(q)' = BodyJobs(q)
    BY <1>1, <1>5 DEF Sockets, SocketJobs, Bodies, BodyJobs
  <2>2. LoginsOf(q)' = LoginsOf(q) /\ LoginJobs(q)' = LoginJobs(q)
    BY <1>3, <1>5 DEF LoginsOf, LoginJobs
  <2>3. acts'[q] = acts[q] /\ free'[q] = free[q]
    BY <1>2, <1>5 DEF TallyInv
  <2>4. QED
    BY <1>1, <1>5, <2>1, <2>2, <2>3 DEF TallyInv, Tallied
<1>6. acts' \in [Procs -> Int] /\ free' \in [Procs -> Int]
  BY <1>2 DEF TallyInv
<1>7. QED
  BY <1>1, <1>4, <1>5, <1>6 DEF TallyInv

\* What a connection does to the counters.
LEMMA ConnsTally ==
  ASSUME TallyInv, UploadInv, NEW c \in Conns, UNCHANGED <<wl, phase, stream, att>>,
         \A d \in Conns : d # c => conn'[d] = conn[d],
         LET p == ProcOf[c]
             a == conn[c].pc
             b == conn'[c].pc
         IN \/ /\ SocketOpen(a) /\ SocketOpen(b) /\ (SocketJob(a) <=> SocketJob(b))
               /\ UNCHANGED <<acts, free>>
            \/ /\ a = "none" /\ SocketOpen(b) /\ ~SocketJob(b) /\ phase[p] = "up"
               /\ Guards(p, 1) /\ free' = free
            \/ /\ SocketOpen(a) /\ ~SocketJob(a) /\ b = "closed"
               /\ Guards(p, -1) /\ free' = free
            \/ /\ a = "wait" /\ b = "job" /\ free[p] > 0
               /\ Guards(p, 1) /\ Permits(p, -1)
            \/ /\ SocketJob(a) /\ b = "done"
               /\ Guards(p, -1) /\ Permits(p, 1)
  PROVE  TallyInv'
<1> DEFINE p == ProcOf[c]
           a == conn[c].pc
           b == conn'[c].pc
<1>0. p \in Procs /\ acts \in [Procs -> Int] /\ free \in [Procs -> Int]
  BY StagingConstants DEF TallyInv
<1>1. /\ Changes(acts, acts, p, 0) /\ Changes(free, free, p, 0)
      /\ Guards(p, 1) => Changes(acts, acts', p, 1)
      /\ Guards(p, -1) => Changes(acts, acts', p, -1)
      /\ Permits(p, 1) => Changes(free, free', p, 1)
      /\ Permits(p, -1) => Changes(free, free', p, -1)
  BY <1>0 DEF Changes, Guards, Permits
<1>2. ASSUME NEW k \in {-1, 0, 1}, NEW l \in {-1, 0, 1}, Changes(acts, acts', p, k), Changes(free, free', p, l),
             One(SocketOpen(b)) - One(SocketOpen(a)) = k + l, One(SocketJob(b)) - One(SocketJob(a)) = 0 - l,
             l < 0 => free[p] > 0, SocketOpen(a) \/ SocketJob(a) \/ phase[p] = "up"
      PROVE  TallyInv'
  <2> DEFINE n == k + l
             m == 0 - l
  <2>1. n \in Int /\ m \in Int /\ n + m = k /\ 0 - m = l /\ (m > 0 => free[p] > 0)
    BY <1>2
  <2>2. /\ n = One(SocketOpen(b)) - One(SocketOpen(a)) /\ m = One(SocketJob(b)) - One(SocketJob(a))
        /\ Changes(acts, acts', p, n + m) /\ Changes(free, free', p, 0 - m)
    BY <1>2, <2>1
  <2> HIDE DEF n, m
  <2>3. QED
    BY <1>2, <2>1, <2>2, ConnTally
<1> HIDE DEF p
<1>3. CASE /\ SocketOpen(a) /\ SocketOpen(b) /\ (SocketJob(a) <=> SocketJob(b)) /\ UNCHANGED <<acts, free>>
  <2>1. One(SocketOpen(b)) - One(SocketOpen(a)) = 0 /\ One(SocketJob(b)) - One(SocketJob(a)) = 0
    BY <1>3 DEF One
  <2>2. Changes(acts, acts', p, 0) /\ Changes(free, free', p, 0)
    BY <1>1, <1>3
  <2>3. QED
    BY <1>2, <1>3, <2>1, <2>2
<1>4. CASE a = "none" /\ SocketOpen(b) /\ ~SocketJob(b) /\ phase[p] = "up" /\ Guards(p, 1) /\ free' = free
  <2>1. One(SocketOpen(b)) - One(SocketOpen(a)) = 1 /\ One(SocketJob(b)) - One(SocketJob(a)) = 0
    BY <1>4 DEF One, SocketOpen, SocketJob
  <2>2. Changes(acts, acts', p, 1) /\ Changes(free, free', p, 0)
    BY <1>1, <1>4
  <2>3. One(SocketOpen(b)) - One(SocketOpen(a)) = 1 + 0 /\ One(SocketJob(b)) - One(SocketJob(a)) = 0 - 0
    BY <2>1
  <2>4. SocketOpen(a) \/ SocketJob(a) \/ phase[p] = "up"
    BY <1>4
  <2>5. QED
    BY <1>2, <2>2, <2>3, <2>4
<1>5. CASE SocketOpen(a) /\ ~SocketJob(a) /\ b = "closed" /\ Guards(p, -1) /\ free' = free
  <2>1. One(SocketOpen(b)) - One(SocketOpen(a)) = -1 /\ One(SocketJob(b)) - One(SocketJob(a)) = 0
    BY <1>5 DEF One, SocketOpen, SocketJob
  <2>2. Changes(acts, acts', p, -1) /\ Changes(free, free', p, 0)
    BY <1>1, <1>5
  <2>3. One(SocketOpen(b)) - One(SocketOpen(a)) = -1 + 0 /\ One(SocketJob(b)) - One(SocketJob(a)) = 0 - 0
    BY <2>1
  <2>4. SocketOpen(a) \/ SocketJob(a) \/ phase[p] = "up"
    BY <1>5
  <2>5. QED
    BY <1>2, <2>2, <2>3, <2>4
<1>6. CASE a = "wait" /\ b = "job" /\ free[p] > 0 /\ Guards(p, 1) /\ Permits(p, -1)
  <2>1. One(SocketOpen(b)) - One(SocketOpen(a)) = 0 /\ One(SocketJob(b)) - One(SocketJob(a)) = 1 /\ SocketOpen(a)
    BY <1>6 DEF One, SocketOpen, SocketJob
  <2>2. Changes(acts, acts', p, 1) /\ Changes(free, free', p, -1)
    BY <1>1, <1>6
  <2>3. QED
    BY <1>2, <1>6, <2>1, <2>2
<1>7. CASE SocketJob(a) /\ b = "done" /\ Guards(p, -1) /\ Permits(p, 1)
  <2>1. One(SocketOpen(b)) - One(SocketOpen(a)) = 0 /\ One(SocketJob(b)) - One(SocketJob(a)) = -1
    BY <1>7 DEF One, SocketOpen, SocketJob
  <2>2. Changes(acts, acts', p, -1) /\ Changes(free, free', p, 1)
    BY <1>1, <1>7
  <2>3. QED
    BY <1>2, <1>7, <2>1, <2>2
<1>8. QED
  BY <1>3, <1>4, <1>5, <1>6, <1>7 DEF p

\* What a download does to them.
LEMMA StreamsTally ==
  ASSUME TallyInv, NEW x \in Streams, UNCHANGED <<wl, phase, conn, att>>,
         stream' \in [Streams -> StreamRec],
         \A d \in Streams : d # x => stream'[d] = stream[d],
         LET p == ProcOf[x]
             r == stream[x].pc
             s == stream'[x].pc
         IN \/ r = "none" /\ s = "first" /\ phase[p] = "up" /\ Guards(p, 1) /\ free' = free
            \/ BodyOpen(r) /\ ~BodyJob(r) /\ s = "end" /\ Guards(p, -1) /\ free' = free
            \/ r = "ready" /\ s = "wait" /\ UNCHANGED <<acts, free>>
            \/ r \in {"first", "wait"} /\ s \in {"probe", "read"} /\ free[p] > 0 /\ Guards(p, 1) /\ Permits(p, -1)
            \/ r \in {"probe", "read"} /\ s = "ready" /\ Guards(p, -1) /\ Permits(p, 1)
            \/ r \in {"probe", "read"} /\ s = "end" /\ Guards(p, -2) /\ Permits(p, 1)
            \/ r \in {"probe", "read"} /\ s = "orphan" /\ Guards(p, -1) /\ free' = free
            \/ r = "orphan" /\ s = "end" /\ Guards(p, -1) /\ Permits(p, 1)
  PROVE  TallyInv'
<1> DEFINE p == ProcOf[x]
           r == stream[x].pc
           s == stream'[x].pc
<1>0. p \in Procs /\ acts \in [Procs -> Int] /\ free \in [Procs -> Int]
  BY ServerConstants DEF TallyInv
<1>1. /\ Changes(acts, acts, p, 0) /\ Changes(free, free, p, 0)
      /\ Guards(p, 1) => Changes(acts, acts', p, 1)
      /\ Guards(p, -1) => Changes(acts, acts', p, -1)
      /\ Guards(p, -2) => Changes(acts, acts', p, -2)
      /\ Permits(p, 1) => Changes(free, free', p, 1)
      /\ Permits(p, -1) => Changes(free, free', p, -1)
  BY <1>0 DEF Changes, Guards, Permits
<1>2. ASSUME NEW k \in {-2, -1, 0, 1}, NEW l \in {-1, 0, 1}, Changes(acts, acts', p, k), Changes(free, free', p, l),
             One(BodyOpen(s)) - One(BodyOpen(r)) = k + l, One(BodyJob(s)) - One(BodyJob(r)) = 0 - l,
             l < 0 => free[p] > 0, BodyOpen(r) \/ BodyJob(r) \/ phase[p] = "up"
      PROVE  TallyInv'
  <2> DEFINE n == k + l
             m == 0 - l
  <2>1. n \in Int /\ m \in Int /\ n + m = k /\ 0 - m = l /\ (m > 0 => free[p] > 0)
    BY <1>2
  <2>2. /\ n = One(BodyOpen(s)) - One(BodyOpen(r)) /\ m = One(BodyJob(s)) - One(BodyJob(r))
        /\ Changes(acts, acts', p, n + m) /\ Changes(free, free', p, 0 - m)
    BY <1>2, <2>1
  <2> HIDE DEF n, m
  <2>3. QED
    BY <1>2, <2>1, <2>2, StreamTally
<1> HIDE DEF p
<1>3. CASE r = "none" /\ s = "first" /\ phase[p] = "up" /\ Guards(p, 1) /\ free' = free
  <2>1. One(BodyOpen(s)) - One(BodyOpen(r)) = 1 + 0 /\ One(BodyJob(s)) - One(BodyJob(r)) = 0 - 0
    BY <1>3 DEF One, BodyOpen, BodyJob
  <2>2. Changes(acts, acts', p, 1) /\ Changes(free, free', p, 0)
    BY <1>1, <1>3
  <2>3. (BodyOpen(r) \/ BodyJob(r) \/ phase[p] = "up") /\ (0 < 0 => free[p] > 0)
    BY <1>3 DEF BodyOpen, BodyJob
  <2>4. QED
    BY <1>2, <2>1, <2>2, <2>3
<1>4. CASE BodyOpen(r) /\ ~BodyJob(r) /\ s = "end" /\ Guards(p, -1) /\ free' = free
  <2>1. One(BodyOpen(s)) - One(BodyOpen(r)) = -1 + 0 /\ One(BodyJob(s)) - One(BodyJob(r)) = 0 - 0
    BY <1>4 DEF One, BodyOpen, BodyJob
  <2>2. Changes(acts, acts', p, -1) /\ Changes(free, free', p, 0)
    BY <1>1, <1>4
  <2>3. (BodyOpen(r) \/ BodyJob(r) \/ phase[p] = "up") /\ (0 < 0 => free[p] > 0)
    BY <1>4 DEF BodyOpen, BodyJob
  <2>4. QED
    BY <1>2, <2>1, <2>2, <2>3
<1>5. CASE r = "ready" /\ s = "wait" /\ UNCHANGED <<acts, free>>
  <2>1. One(BodyOpen(s)) - One(BodyOpen(r)) = 0 + 0 /\ One(BodyJob(s)) - One(BodyJob(r)) = 0 - 0
    BY <1>5 DEF One, BodyOpen, BodyJob
  <2>2. Changes(acts, acts', p, 0) /\ Changes(free, free', p, 0)
    BY <1>1, <1>5
  <2>3. (BodyOpen(r) \/ BodyJob(r) \/ phase[p] = "up") /\ (0 < 0 => free[p] > 0)
    BY <1>5 DEF BodyOpen, BodyJob
  <2>4. QED
    BY <1>2, <2>1, <2>2, <2>3
<1>6. CASE r \in {"first", "wait"} /\ s \in {"probe", "read"} /\ free[p] > 0 /\ Guards(p, 1) /\ Permits(p, -1)
  <2>1. One(BodyOpen(s)) - One(BodyOpen(r)) = 1 + -1 /\ One(BodyJob(s)) - One(BodyJob(r)) = 0 - (-1)
    BY <1>6 DEF One, BodyOpen, BodyJob
  <2>2. Changes(acts, acts', p, 1) /\ Changes(free, free', p, -1)
    BY <1>1, <1>6
  <2>3. (BodyOpen(r) \/ BodyJob(r) \/ phase[p] = "up") /\ (-1 < 0 => free[p] > 0)
    BY <1>6 DEF BodyOpen, BodyJob
  <2>4. QED
    BY <1>2, <2>1, <2>2, <2>3
<1>7. CASE r \in {"probe", "read"} /\ s = "ready" /\ Guards(p, -1) /\ Permits(p, 1)
  <2>1. One(BodyOpen(s)) - One(BodyOpen(r)) = -1 + 1 /\ One(BodyJob(s)) - One(BodyJob(r)) = 0 - 1
    BY <1>7 DEF One, BodyOpen, BodyJob
  <2>2. Changes(acts, acts', p, -1) /\ Changes(free, free', p, 1)
    BY <1>1, <1>7
  <2>3. (BodyOpen(r) \/ BodyJob(r) \/ phase[p] = "up") /\ (1 < 0 => free[p] > 0)
    BY <1>7 DEF BodyOpen, BodyJob
  <2>4. QED
    BY <1>2, <2>1, <2>2, <2>3
<1>8. CASE r \in {"probe", "read"} /\ s = "end" /\ Guards(p, -2) /\ Permits(p, 1)
  <2>1. One(BodyOpen(s)) - One(BodyOpen(r)) = -2 + 1 /\ One(BodyJob(s)) - One(BodyJob(r)) = 0 - 1
    BY <1>8 DEF One, BodyOpen, BodyJob
  <2>2. Changes(acts, acts', p, -2) /\ Changes(free, free', p, 1)
    BY <1>1, <1>8
  <2>3. (BodyOpen(r) \/ BodyJob(r) \/ phase[p] = "up") /\ (1 < 0 => free[p] > 0)
    BY <1>8 DEF BodyOpen, BodyJob
  <2>4. QED
    BY <1>2, <2>1, <2>2, <2>3
<1>9. CASE r \in {"probe", "read"} /\ s = "orphan" /\ Guards(p, -1) /\ free' = free
  <2>1. One(BodyOpen(s)) - One(BodyOpen(r)) = -1 + 0 /\ One(BodyJob(s)) - One(BodyJob(r)) = 0 - 0
    BY <1>9 DEF One, BodyOpen, BodyJob
  <2>2. Changes(acts, acts', p, -1) /\ Changes(free, free', p, 0)
    BY <1>1, <1>9
  <2>3. (BodyOpen(r) \/ BodyJob(r) \/ phase[p] = "up") /\ (0 < 0 => free[p] > 0)
    BY <1>9 DEF BodyOpen, BodyJob
  <2>4. QED
    BY <1>2, <2>1, <2>2, <2>3
<1>10. CASE r = "orphan" /\ s = "end" /\ Guards(p, -1) /\ Permits(p, 1)
  <2>1. One(BodyOpen(s)) - One(BodyOpen(r)) = -1 + 1 /\ One(BodyJob(s)) - One(BodyJob(r)) = 0 - 1
    BY <1>10 DEF One, BodyOpen, BodyJob
  <2>2. Changes(acts, acts', p, -1) /\ Changes(free, free', p, 1)
    BY <1>1, <1>10
  <2>3. (BodyOpen(r) \/ BodyJob(r) \/ phase[p] = "up") /\ (1 < 0 => free[p] > 0)
    BY <1>10 DEF BodyOpen, BodyJob
  <2>4. QED
    BY <1>2, <2>1, <2>2, <2>3
<1>11. QED
  BY <1>3, <1>4, <1>5, <1>6, <1>7, <1>8, <1>9, <1>10 DEF p

\* What a login attempt does to them.
LEMMA AttemptsTally ==
  ASSUME TallyInv, NEW a \in Attempts, UNCHANGED <<wl, phase, conn, stream>>,
         \A d \in Attempts : d # a => att'[d] = att[d],
         LET p == Gate
             r == att[a].pc
             s == att'[a].pc
         IN \/ r = "none" /\ s = "queued" /\ phase[p] = "up" /\ Guards(p, 1) /\ free' = free
            \/ r = "none" /\ s = "done" /\ phase[p] = "up" /\ UNCHANGED <<acts, free>>
            \/ r = "queued" /\ s = "job" /\ free[p] > 0 /\ Guards(p, 1) /\ Permits(p, -1)
            \/ r \in {"queued", "wrong", "right"} /\ s = "done" /\ Guards(p, -1) /\ free' = free
            \/ r = "job" /\ s = "verify" /\ UNCHANGED <<acts, free>>
            \/ r \in {"job", "verify"} /\ s = "done" /\ Guards(p, -2) /\ Permits(p, 1)
            \/ r = "verify" /\ s \in {"right", "wrong"} /\ Guards(p, -1) /\ Permits(p, 1)
  PROVE  TallyInv'
<1> DEFINE p == Gate
           r == att[a].pc
           s == att'[a].pc
<1>0. p \in Procs /\ acts \in [Procs -> Int] /\ free \in [Procs -> Int]
  BY ServerConstants DEF TallyInv
<1>1. /\ Changes(acts, acts, p, 0) /\ Changes(free, free, p, 0)
      /\ Guards(p, 1) => Changes(acts, acts', p, 1)
      /\ Guards(p, -1) => Changes(acts, acts', p, -1)
      /\ Guards(p, -2) => Changes(acts, acts', p, -2)
      /\ Permits(p, 1) => Changes(free, free', p, 1)
      /\ Permits(p, -1) => Changes(free, free', p, -1)
  BY <1>0 DEF Changes, Guards, Permits
<1>2. ASSUME NEW k \in {-2, -1, 0, 1}, NEW l \in {-1, 0, 1}, Changes(acts, acts', p, k), Changes(free, free', p, l),
             One(LoginOpen(s)) - One(LoginOpen(r)) = k + l, One(LoginJob(s)) - One(LoginJob(r)) = 0 - l,
             l < 0 => free[p] > 0, LoginOpen(r) \/ LoginJob(r) \/ phase[p] = "up"
      PROVE  TallyInv'
  <2> DEFINE n == k + l
             m == 0 - l
  <2>1. n \in Int /\ m \in Int /\ n + m = k /\ 0 - m = l /\ (m > 0 => free[p] > 0)
    BY <1>2
  <2>2. /\ n = One(LoginOpen(s)) - One(LoginOpen(r)) /\ m = One(LoginJob(s)) - One(LoginJob(r))
        /\ Changes(acts, acts', p, n + m) /\ Changes(free, free', p, 0 - m)
    BY <1>2, <2>1
  <2> HIDE DEF n, m
  <2>3. QED
    BY <1>2, <2>1, <2>2, LoginTally
<1> HIDE DEF p
<1>3. CASE r = "none" /\ s = "queued" /\ phase[p] = "up" /\ Guards(p, 1) /\ free' = free
  <2>1. One(LoginOpen(s)) - One(LoginOpen(r)) = 1 + 0 /\ One(LoginJob(s)) - One(LoginJob(r)) = 0 - 0
    BY <1>3 DEF One, LoginOpen, LoginJob
  <2>2. Changes(acts, acts', p, 1) /\ Changes(free, free', p, 0)
    BY <1>1, <1>3
  <2>3. (LoginOpen(r) \/ LoginJob(r) \/ phase[p] = "up") /\ (0 < 0 => free[p] > 0)
    BY <1>3 DEF LoginOpen, LoginJob
  <2>4. QED
    BY <1>2, <2>1, <2>2, <2>3
<1>4. CASE r = "none" /\ s = "done" /\ phase[p] = "up" /\ UNCHANGED <<acts, free>>
  <2>1. One(LoginOpen(s)) - One(LoginOpen(r)) = 0 + 0 /\ One(LoginJob(s)) - One(LoginJob(r)) = 0 - 0
    BY <1>4 DEF One, LoginOpen, LoginJob
  <2>2. Changes(acts, acts', p, 0) /\ Changes(free, free', p, 0)
    BY <1>1, <1>4
  <2>3. (LoginOpen(r) \/ LoginJob(r) \/ phase[p] = "up") /\ (0 < 0 => free[p] > 0)
    BY <1>4 DEF LoginOpen, LoginJob
  <2>4. QED
    BY <1>2, <2>1, <2>2, <2>3
<1>5. CASE r = "queued" /\ s = "job" /\ free[p] > 0 /\ Guards(p, 1) /\ Permits(p, -1)
  <2>1. One(LoginOpen(s)) - One(LoginOpen(r)) = 1 + -1 /\ One(LoginJob(s)) - One(LoginJob(r)) = 0 - (-1)
    BY <1>5 DEF One, LoginOpen, LoginJob
  <2>2. Changes(acts, acts', p, 1) /\ Changes(free, free', p, -1)
    BY <1>1, <1>5
  <2>3. (LoginOpen(r) \/ LoginJob(r) \/ phase[p] = "up") /\ (-1 < 0 => free[p] > 0)
    BY <1>5 DEF LoginOpen, LoginJob
  <2>4. QED
    BY <1>2, <2>1, <2>2, <2>3
<1>6. CASE r \in {"queued", "wrong", "right"} /\ s = "done" /\ Guards(p, -1) /\ free' = free
  <2>1. One(LoginOpen(s)) - One(LoginOpen(r)) = -1 + 0 /\ One(LoginJob(s)) - One(LoginJob(r)) = 0 - 0
    BY <1>6 DEF One, LoginOpen, LoginJob
  <2>2. Changes(acts, acts', p, -1) /\ Changes(free, free', p, 0)
    BY <1>1, <1>6
  <2>3. (LoginOpen(r) \/ LoginJob(r) \/ phase[p] = "up") /\ (0 < 0 => free[p] > 0)
    BY <1>6 DEF LoginOpen, LoginJob
  <2>4. QED
    BY <1>2, <2>1, <2>2, <2>3
<1>7. CASE r = "job" /\ s = "verify" /\ UNCHANGED <<acts, free>>
  <2>1. One(LoginOpen(s)) - One(LoginOpen(r)) = 0 + 0 /\ One(LoginJob(s)) - One(LoginJob(r)) = 0 - 0
    BY <1>7 DEF One, LoginOpen, LoginJob
  <2>2. Changes(acts, acts', p, 0) /\ Changes(free, free', p, 0)
    BY <1>1, <1>7
  <2>3. (LoginOpen(r) \/ LoginJob(r) \/ phase[p] = "up") /\ (0 < 0 => free[p] > 0)
    BY <1>7 DEF LoginOpen, LoginJob
  <2>4. QED
    BY <1>2, <2>1, <2>2, <2>3
<1>8. CASE r \in {"job", "verify"} /\ s = "done" /\ Guards(p, -2) /\ Permits(p, 1)
  <2>1. One(LoginOpen(s)) - One(LoginOpen(r)) = -2 + 1 /\ One(LoginJob(s)) - One(LoginJob(r)) = 0 - 1
    BY <1>8 DEF One, LoginOpen, LoginJob
  <2>2. Changes(acts, acts', p, -2) /\ Changes(free, free', p, 1)
    BY <1>1, <1>8
  <2>3. (LoginOpen(r) \/ LoginJob(r) \/ phase[p] = "up") /\ (1 < 0 => free[p] > 0)
    BY <1>8 DEF LoginOpen, LoginJob
  <2>4. QED
    BY <1>2, <2>1, <2>2, <2>3
<1>9. CASE r = "verify" /\ s \in {"right", "wrong"} /\ Guards(p, -1) /\ Permits(p, 1)
  <2>1. One(LoginOpen(s)) - One(LoginOpen(r)) = -1 + 1 /\ One(LoginJob(s)) - One(LoginJob(r)) = 0 - 1
    BY <1>9 DEF One, LoginOpen, LoginJob
  <2>2. Changes(acts, acts', p, -1) /\ Changes(free, free', p, 1)
    BY <1>1, <1>9
  <2>3. (LoginOpen(r) \/ LoginJob(r) \/ phase[p] = "up") /\ (1 < 0 => free[p] > 0)
    BY <1>9 DEF LoginOpen, LoginJob
  <2>4. QED
    BY <1>2, <2>1, <2>2, <2>3
<1>10. QED
  BY <1>3, <1>4, <1>5, <1>6, <1>7, <1>8, <1>9 DEF p

\* The connections' steps, one by one.
LEMMA ConnActionsTally ==
  ASSUME UploadInv, TallyInv, NEW c \in Conns,
         \/ LeasePoll(c) \/ ValidationStarts(c)
         \/ \E valid \in BOOLEAN : ValidationEnds(c, valid)
         \/ \E s \in Sessions : Upgrade(c, s) \/ Authenticated(c, s)
         \/ PreAuth(c) \/ PreAuthEnds(c)
         \/ LoopBreaks(c) \/ PeerLeaves(c) \/ WaitBreaks(c) \/ JobStarts(c)
         \/ \E k \in Kinds, t \in Transfers \cup {None} : Receives(c, k, t)
         \/ JobOther(c) \/ JobReserves(c) \/ JobCreates(c) \/ JobWrites(c)
         \/ JobEnds(c) \/ JobCommits(c) \/ JobAborts(c) \/ JobResumes(c)
         \/ \E pc \in {"idle", "close"} : Delivers(c, pc)
         \/ CloseReads(c) \/ CloseDrops(c)
  PROVE  TallyInv'
<1> DEFINE p == ProcOf[c]
           a == conn[c].pc
           b == conn'[c].pc
<1>0. conn \in [Conns -> ConnRec]
  BY DEF UploadInv, UploadTypes
<1>1. ASSUME NEW r, conn' = [conn EXCEPT ![c] = r]
      PROVE  b = r.pc /\ \A d \in Conns : d # c => conn'[d] = conn[d]
  BY <1>0, <1>1
<1>2. ASSUME NEW x, To(c, x) PROVE b = x /\ \A d \in Conns : d # c => conn'[d] = conn[d]
  BY <1>0, <1>2 DEF To, ConnRec
<1>3. ASSUME UNCHANGED <<wl, phase, stream, att, acts, free>>, conn' = [conn EXCEPT ![c].cut = TRUE], SocketOpen(a)
      PROVE  TallyInv'
  <2>1. b = a /\ \A d \in Conns : d # c => conn'[d] = conn[d]
    BY <1>0, <1>3 DEF ConnRec
  <2>2. QED
    BY <1>3, <2>1, ConnsTally
<1>4. ASSUME UNCHANGED <<wl, phase, stream, att, acts, free, conn>> PROVE TallyInv'
  BY <1>4, SameTally DEF TallyInv
<1>5. CASE LeasePoll(c)
  BY <1>3, <1>5 DEF LeasePoll, LeaseStands, SocketOpen, logins
<1>6. CASE ValidationStarts(c)
  BY <1>4, <1>6 DEF ValidationStarts, logins
<1>7. ASSUME NEW valid \in BOOLEAN, ValidationEnds(c, valid) PROVE TallyInv'
  BY <1>3, <1>4, <1>7 DEF ValidationEnds, LeaseStands, SocketOpen, logins
<1>8. ASSUME NEW s \in Sessions, Upgrade(c, s) PROVE TallyInv'
  <2>1. a = "none" /\ b = "idle" /\ \A d \in Conns : d # c => conn'[d] = conn[d]
    BY <1>0, <1>8 DEF Upgrade, NextOf, Unborn, ConnRec
  <2>2. QED
    BY <1>8, <2>1, ConnsTally DEF Upgrade, Admits, NotConn, logins, SocketOpen, SocketJob
<1>9. ASSUME NEW s \in Sessions, Authenticated(c, s) PROVE TallyInv'
  <2>1. a = "auth" /\ b = "idle" /\ \A d \in Conns : d # c => conn'[d] = conn[d]
    BY <1>0, <1>9 DEF Authenticated, ConnRec
  <2>2. QED
    BY <1>9, <2>1, ConnsTally DEF Authenticated, NotConn, logins, SocketOpen, SocketJob
<1>10. CASE PreAuth(c)
  <2>1. a = "none" /\ b = "auth" /\ \A d \in Conns : d # c => conn'[d] = conn[d]
    BY <1>2, <1>10 DEF PreAuth, NextOf, Unborn
  <2>2. QED
    BY <1>10, <2>1, ConnsTally DEF PreAuth, Admits, NotConn, logins, SocketOpen, SocketJob
<1>11. CASE PreAuthEnds(c)
  <2>1. a = "auth" /\ b = "closed" /\ \A d \in Conns : d # c => conn'[d] = conn[d]
    BY <1>2, <1>11 DEF PreAuthEnds
  <2>2. QED
    BY <1>11, <2>1, ConnsTally DEF PreAuthEnds, NotConn, logins, SocketOpen, SocketJob
<1>12. ASSUME NEW x \in {"idle", "close"}, a \in {"idle", "wait", "done"}, To(c, x),
              UNCHANGED <<wl, phase, stream, att, acts, free>>
       PROVE  TallyInv'
  BY <1>2, <1>12, ConnsTally DEF SocketOpen, SocketJob
<1>13. CASE LoopBreaks(c) \/ PeerLeaves(c) \/ WaitBreaks(c)
  BY <1>12, <1>13 DEF LoopBreaks, PeerLeaves, WaitBreaks, NotConn, logins
<1>14. CASE JobStarts(c)
  <2>1. CASE To(c, "close") /\ UNCHANGED <<free, acts>>
    BY <1>12, <1>14, <2>1 DEF JobStarts, NotConn, logins
  <2>2. CASE To(c, "job") /\ Permits(p, -1) /\ Guards(p, 1)
    BY <1>2, <1>14, <2>2, ConnsTally DEF JobStarts, NotConn, logins
  <2>3. QED
    BY <1>14, <2>1, <2>2 DEF JobStarts
<1>15. ASSUME NEW k \in Kinds, NEW t \in Transfers \cup {None}, Receives(c, k, t) PROVE TallyInv'
  <2>1. CASE To(c, "close")
    BY <1>12, <1>15, <2>1 DEF Receives, NotConn, logins
  <2>2. CASE conn' = [conn EXCEPT ![c].pc = "wait", ![c].kind = k, ![c].t = t]
    <3>1. b = "wait" /\ \A d \in Conns : d # c => conn'[d] = conn[d]
      BY <1>0, <2>2 DEF ConnRec
    <3>2. QED
      BY <1>15, <3>1, ConnsTally DEF Receives, NotConn, logins, SocketOpen, SocketJob
  <2>3. QED
    BY <1>15, <2>1, <2>2 DEF Receives
<1>16. ASSUME JobReturns(c), a \in {"job", "held"} PROVE TallyInv'
  <2>1. b = "done" /\ \A d \in Conns : d # c => conn'[d] = conn[d]
    BY <1>0, <1>16 DEF JobReturns, ConnRec
  <2>2. QED
    BY <1>16, <2>1, ConnsTally DEF JobReturns, NotConn, logins, SocketJob
<1>17. CASE JobOther(c) \/ JobCreates(c) \/ JobWrites(c) \/ JobCommits(c) \/ JobAborts(c) \/ JobResumes(c)
  BY <1>16, <1>17 DEF JobOther, JobCreates, JobWrites, JobCommits, JobAborts, JobResumes, InJob
<1>18. CASE JobReserves(c)
  <2>1. PICK t : conn' = [conn EXCEPT ![c].pc = "held", ![c].t = t]
    BY <1>18 DEF JobReserves
  <2>2. b = "held" /\ \A d \in Conns : d # c => conn'[d] = conn[d]
    BY <1>0, <2>1 DEF ConnRec
  <2>3. QED
    BY <1>18, <2>2, ConnsTally DEF JobReserves, InJob, NotConn, logins, SocketOpen, SocketJob
<1>19. CASE JobEnds(c)
  BY <1>2, <1>19, ConnsTally DEF JobEnds, InJob, NotConn, logins, SocketOpen, SocketJob
<1>20. ASSUME NEW pc \in {"idle", "close"}, Delivers(c, pc) PROVE TallyInv'
  BY <1>12, <1>20 DEF Delivers, NotConn, logins
<1>21. CASE CloseReads(c)
  <2>1. b = "drop" /\ \A d \in Conns : d # c => conn'[d] = conn[d]
    BY <1>0, <1>21 DEF CloseReads, ConnRec
  <2>2. QED
    BY <1>21, <2>1, ConnsTally DEF CloseReads, NotConn, logins, SocketOpen, SocketJob
<1>22. CASE CloseDrops(c)
  <2>1. b = "closed" /\ \A d \in Conns : d # c => conn'[d] = conn[d]
    BY <1>0, <1>22 DEF CloseDrops, NoConn
  <2>2. QED
    BY <1>22, <2>1, ConnsTally DEF CloseDrops, NotConn, logins, SocketOpen, SocketJob
<1>23. QED
  BY <1>5, <1>6, <1>7, <1>8, <1>9, <1>10, <1>11, <1>13, <1>14, <1>15, <1>17, <1>18, <1>19, <1>20,
     <1>21, <1>22

\* The downloads' steps.
LEMMA StreamActionsTally ==
  ASSUME TallyInv, NEW x \in Streams,
         \/ StreamLeasePoll(x)
         \/ \E s \in Sessions : StreamOpens(x, s)
         \/ StreamProbes(x) \/ StreamTouches(x) \/ StreamReads(x)
         \/ \E pc \in {"ready", "end"} : StreamJobReturns(x, pc)
         \/ BodyDropped(x) \/ OrphanReturns(x)
  PROVE  TallyInv'
<1> DEFINE p == ProcOf[x]
           r == stream[x].pc
           s == stream'[x].pc
           Single == stream' \in [Streams -> StreamRec] /\ \A y \in Streams : y # x => stream'[y] = stream[y]
<1>0. stream \in [Streams -> StreamRec]
  BY DEF TallyInv
<1>1. ASSUME NEW y \in StreamRec, stream' = [stream EXCEPT ![x] = y] PROVE s = y.pc /\ Single
  BY <1>0, <1>1
<1>2. ASSUME NEW k \in {"probe", "ready", "wait", "read", "orphan", "end"}, StreamTo(x, k) PROVE s = k /\ Single
  <2>1. [stream[x] EXCEPT !.pc = k] \in StreamRec /\ [stream[x] EXCEPT !.pc = k].pc = k
    BY <1>0 DEF StreamRec
  <2>2. stream' = [stream EXCEPT ![x] = [stream[x] EXCEPT !.pc = k]]
    BY <1>2 DEF StreamTo
  <2>3. QED
    BY <1>1, <2>1, <2>2
<1>3. CASE StreamLeasePoll(x)
  <2>1. [stream[x] EXCEPT !.cut = TRUE] \in StreamRec /\ [stream[x] EXCEPT !.cut = TRUE].pc = r
    BY <1>0 DEF StreamRec
  <2>2. stream' = [stream EXCEPT ![x] = [stream[x] EXCEPT !.cut = TRUE]]
    BY <1>3 DEF StreamLeasePoll
  <2>3. s = r /\ Single
    BY <1>1, <2>1, <2>2
  <2>4. QED
    BY <1>3, <2>3, SameTally DEF StreamLeasePoll, logins
<1>4. ASSUME NEW z \in Sessions, StreamOpens(x, z) PROVE TallyInv'
  <2> DEFINE y == [stream[x] EXCEPT !.pc = "first", !.sess = z]
  <2>1. y \in StreamRec /\ y.pc = "first"
    BY <1>0 DEF StreamRec
  <2>2. stream' = [stream EXCEPT ![x] = y]
    BY <1>0, <1>4 DEF StreamOpens, StreamRec
  <2>3. s = "first" /\ Single
    BY <1>1, <2>1, <2>2
  <2>4. QED
    BY <1>4, <2>3, StreamsTally DEF StreamOpens, Admits, NotStream, logins
<1>5. CASE StreamProbes(x)
  <2>1. UNCHANGED <<wl, phase, conn, att>> /\ r = "first" /\ free[p] > 0
    BY <1>5 DEF StreamProbes, NotStream, logins
  <2>2. CASE StreamTo(x, "probe") /\ Permits(p, -1) /\ Guards(p, 1)
    BY <1>2, <2>1, <2>2, StreamsTally
  <2>3. CASE StreamTo(x, "end") /\ Guards(p, -1) /\ UNCHANGED free
    BY <1>2, <2>1, <2>3, StreamsTally DEF BodyOpen, BodyJob
  <2>4. QED
    BY <1>5, <2>2, <2>3 DEF StreamProbes
<1>6. CASE StreamTouches(x)
  <2>1. UNCHANGED <<wl, phase, conn, att>> /\ r = "ready" /\ free' = free
    BY <1>6 DEF StreamTouches, NotStream, logins
  <2>2. CASE StreamTo(x, "wait") /\ UNCHANGED acts
    BY <1>2, <2>1, <2>2, StreamsTally
  <2>3. CASE StreamTo(x, "end") /\ Guards(p, -1)
    BY <1>2, <2>1, <2>3, StreamsTally DEF BodyOpen, BodyJob
  <2>4. QED
    BY <1>6, <2>2, <2>3 DEF StreamTouches
<1>7. CASE StreamReads(x)
  <2>1. UNCHANGED <<wl, phase, conn, att>> /\ r = "wait" /\ free[p] > 0
    BY <1>7 DEF StreamReads, NotStream, logins
  <2>2. CASE StreamTo(x, "read") /\ Permits(p, -1) /\ Guards(p, 1)
    BY <1>2, <2>1, <2>2, StreamsTally
  <2>3. CASE StreamTo(x, "end") /\ Guards(p, -1) /\ UNCHANGED free
    BY <1>2, <2>1, <2>3, StreamsTally DEF BodyOpen, BodyJob
  <2>4. QED
    BY <1>7, <2>2, <2>3 DEF StreamReads
<1>8. ASSUME NEW k \in {"ready", "end"}, StreamJobReturns(x, k) PROVE TallyInv'
  <2>1. UNCHANGED <<wl, phase, conn, att>> /\ r \in {"probe", "read"} /\ Permits(p, 1) /\ StreamTo(x, k)
    BY <1>8 DEF StreamJobReturns, NotStream, logins
  <2>2. CASE k = "ready" /\ Guards(p, -1)
    BY <1>2, <2>1, <2>2, StreamsTally
  <2>3. CASE k = "end" /\ Guards(p, -2)
    BY <1>2, <2>1, <2>3, StreamsTally
  <2>4. QED
    BY <1>8, <2>2, <2>3 DEF StreamJobReturns
<1>9. CASE BodyDropped(x)
  <2>1. UNCHANGED <<wl, phase, conn, att>> /\ BodyOpen(r) /\ Guards(p, -1) /\ free' = free
    BY <1>9 DEF BodyDropped, NotStream, logins, BodyOpen
  <2>2. CASE r \in {"probe", "read"} /\ StreamTo(x, "orphan")
    BY <1>2, <2>1, <2>2, StreamsTally
  <2>3. CASE r \notin {"probe", "read"} /\ StreamTo(x, "end")
    <3>1. ~BodyJob(r)
      BY <2>1, <2>3 DEF BodyOpen, BodyJob
    <3>2. QED
      BY <1>2, <2>1, <2>3, <3>1, StreamsTally
  <2>4. QED
    BY <1>9, <2>2, <2>3 DEF BodyDropped
<1>10. CASE OrphanReturns(x)
  BY <1>2, <1>10, StreamsTally DEF OrphanReturns, NotStream, logins
<1>11. QED
  BY <1>3, <1>4, <1>5, <1>6, <1>7, <1>8, <1>9, <1>10

\* The steps of login attempts.
LEMMA LoginActionsTally ==
  ASSUME TallyInv, LoginsInv, NEW a \in Attempts,
         \/ \E u \in Users : LoginArrives(a, u)
         \/ LoginStarts(a) \/ LoginReserves(a) \/ LoginUnanswered(a)
         \/ LoginVerifies(a) \/ LoginFails(a) \/ LoginDenied(a)
         \/ \E s \in Sessions : LoginSucceeds(a, s)
  PROVE  TallyInv'
<1> DEFINE r == att[a].pc
           s == att'[a].pc
           Single == \A b \in Attempts : b # a => att'[b] = att[b]
<1>0. att \in [Attempts -> AttRec]
  BY DEF LoginsInv, LoginsTypeOK, AttRec
<1>1. ASSUME NEW k, att' = [att EXCEPT ![a].pc = k] PROVE s = k /\ Single
  BY <1>0, <1>1 DEF AttRec
<1>2. ASSUME NEW u \in Users, LoginArrives(a, u) PROVE TallyInv'
  <2>1. UNCHANGED <<wl, phase, conn, stream, free>> /\ phase[Gate] = "up"
    BY <1>2 DEF LoginArrives, NotLogin, Admits
  <2>2. CASE Arrives(a, u) /\ Guards(Gate, 1)
    <3>1. r = "none" /\ s = "queued" /\ Single
      BY <1>0, <2>2 DEF Arrives, AttRec
    <3>2. QED
      BY <2>1, <2>2, <3>1, AttemptsTally
  <2>3. CASE (ArrivesDenied(a, u) \/ Refused(a, u)) /\ UNCHANGED acts
    <3>1. r = "none" /\ s = "done" /\ Single
      BY <1>1, <2>3 DEF ArrivesDenied, Refused
    <3>2. QED
      BY <2>1, <2>3, <3>1, AttemptsTally
  <2>4. QED
    BY <1>2, <2>2, <2>3 DEF LoginArrives
<1>3. CASE LoginStarts(a)
  <2>1. UNCHANGED <<wl, phase, conn, stream>> /\ r = "queued" /\ free[Gate] > 0
    BY <1>3 DEF LoginStarts, NotLogin
  <2>2. CASE att' = [att EXCEPT ![a].pc = "job"] /\ Permits(Gate, -1) /\ Guards(Gate, 1)
    BY <1>1, <2>1, <2>2, AttemptsTally
  <2>3. CASE Ends(a) /\ Guards(Gate, -1) /\ UNCHANGED free
    BY <1>1, <2>1, <2>3, AttemptsTally DEF Ends
  <2>4. QED
    BY <1>3, <2>2, <2>3 DEF LoginStarts
<1>4. CASE LoginReserves(a)
  <2>1. UNCHANGED <<wl, phase, conn, stream, acts, free>> /\ r = "job"
    BY <1>4 DEF LoginReserves, NotLogin, Reserves
  <2>2. s = "verify" /\ Single
    BY <1>0, <1>4 DEF LoginReserves, Reserves, AttRec
  <2>3. QED
    BY <2>1, <2>2, AttemptsTally
<1>5. CASE LoginUnanswered(a)
  <2>1. UNCHANGED <<wl, phase, conn, stream>> /\ r \in {"job", "verify"} /\ Permits(Gate, 1) /\ Guards(Gate, -2)
    BY <1>5 DEF LoginUnanswered, NotLogin
  <2>2. QED
    BY <1>1, <1>5, <2>1, AttemptsTally DEF LoginUnanswered, Ends
<1>6. CASE LoginVerifies(a)
  <2>1. UNCHANGED <<wl, phase, conn, stream>> /\ r = "verify" /\ Permits(Gate, 1) /\ Guards(Gate, -1)
    BY <1>6 DEF LoginVerifies, NotLogin, Verifies
  <2>2. PICK k \in {"right", "wrong"} : att' = [att EXCEPT ![a].pc = k]
    BY <1>6 DEF LoginVerifies, Verifies
  <2>3. QED
    BY <1>1, <2>1, <2>2, AttemptsTally
<1>7. CASE LoginFails(a) \/ LoginDenied(a) \/ \E z \in Sessions : LoginSucceeds(a, z)
  <2>1. /\ UNCHANGED <<wl, phase, conn, stream, free>> /\ r \in {"wrong", "right"} /\ Guards(Gate, -1)
        /\ att' = [att EXCEPT ![a].pc = "done"]
    BY <1>7 DEF LoginFails, LoginDenied, LoginSucceeds, NotLogin, RecordsFailure, RecordsSuccess
  <2>2. QED
    BY <1>1, <2>1, AttemptsTally
<1>8. QED
  BY <1>2, <1>3, <1>4, <1>5, <1>6, <1>7

\* Every step keeps the counters right.
LEMMA NextTally == ASSUME UploadInv, LoginsInv, TallyInv, [Next]_vars PROVE TallyInv'
<1>0. stream \in [Streams -> StreamRec] /\ phase \in [Procs -> {"up", "drain", "forced", "clean", "dirty", "down"}]
  BY DEF TallyInv, LoginsInv
<1>1. ASSUME UNCHANGED <<wl, acts, free, conn, att, stream, phase>> PROVE TallyInv'
  BY <1>0, <1>1, SameTally
<1>2. ASSUME NEW p \in Procs, NEW k, phase' = [phase EXCEPT ![p] = k], k = "clean" => acts[p] = 0,
             UNCHANGED <<wl, acts, free, conn, att, stream>>
      PROVE  TallyInv'
  <2>1. \A q \in Procs : phase'[q] = "clean" => phase[q] = "clean" \/ acts[q] = 0
    BY <1>0, <1>2
  <2>2. QED
    BY <1>0, <1>2, <2>1, SameTally
<1>3. ASSUME NEW p \in Procs, Signal(p) \/ FinishIdle(p) \/ FinishTimeout(p) \/ Restart(p) PROVE TallyInv'
  <2>1. UNCHANGED <<wl, acts, free, conn, att, stream>>
    BY <1>3 DEF Signal, FinishIdle, FinishTimeout, Restart, logins
  <2>2. CASE FinishIdle(p)
    BY <1>2, <2>1, <2>2 DEF FinishIdle
  <2>3. ASSUME NEW k \in {"drain", "up", "forced", "dirty"}, phase' = [phase EXCEPT ![p] = k] PROVE TallyInv'
    BY <1>2, <2>1, <2>3
  <2>4. CASE FinishTimeout(p)
    <3>1. phase' = [phase EXCEPT ![p] = "forced"] \/ phase' = [phase EXCEPT ![p] = "dirty"]
      BY <2>4 DEF FinishTimeout
    <3>2. QED
      BY <2>3, <3>1
  <2>5. QED
    BY <1>3, <2>2, <2>3, <2>4 DEF Signal, Restart
<1>4. ASSUME NEW p \in Procs, Exit(p) \/ Crash(p) PROVE TallyInv'
  BY <1>4, GoneTally DEF Exit, Crash
<1>5. ASSUME NEW p \in Procs,
             ExpiryTick(p) \/ LimiterTick(p) \/ ClearPending(p) \/ \E t \in Transfers : UploadLapses(p, t)
      PROVE  TallyInv'
  BY <1>1, <1>5 DEF ExpiryTick, LimiterTick, ClearPending, UploadLapses, logins, web
<1>6. ASSUME NEW s \in Sessions, SessionExpires(s) \/ PolicyDenies(s) \/ SessionRevoked(s) PROVE TallyInv'
  BY <1>1, <1>6 DEF SessionExpires, PolicyDenies, SessionRevoked, logins
<1>7. CASE ClockTicks \/ UNCHANGED vars
  BY <1>1, <1>7 DEF ClockTicks, Ticks, vars, web, logins
<1>8. QED
  BY <1>3, <1>4, <1>5, <1>6, <1>7, ConnActionsTally, StreamActionsTally, LoginActionsTally DEF Next

\* They start right.
LEMMA InitTally == Init => TallyInv
<1> SUFFICES ASSUME Init PROVE TallyInv
  OBVIOUS
<1>1. wl.slots \in Nat
  BY ServerConstants DEF Init
<1>2. /\ acts = [p \in Procs |-> 0] /\ free = [p \in Procs |-> wl.slots]
      /\ conn = [c \in Conns |-> NoConn] /\ stream = [x \in Streams |-> NoStream]
      /\ att = [a \in Attempts |-> NoAttempt]
      /\ \A p \in Procs : phase[p] # "clean"
  BY DEF Init, LoginsInit
<1>3. NoConn.pc = "none" /\ NoStream.pc = "none" /\ NoStream \in StreamRec /\ NoAttempt.pc = "none"
  BY DEF NoConn, NoStream, NoAttempt, StreamRec
<1>4. ASSUME NEW p \in Procs PROVE Tallied(p)
  <2>1. /\ Sockets(p) = {} /\ SocketJobs(p) = {} /\ Bodies(p) = {}
        /\ BodyJobs(p) = {} /\ LoginsOf(p) = {} /\ LoginJobs(p) = {}
    BY <1>2, <1>3 DEF Sockets, SocketJobs, Bodies, BodyJobs, LoginsOf, LoginJobs,
                      SocketOpen, SocketJob, BodyOpen, BodyJob, LoginOpen, LoginJob
  <2>2. IsFiniteSet({}) /\ Cardinality({}) = 0
    BY FS_EmptySet
  <2>3. TallyOf(0, wl.slots, wl.slots, {}, {}, {}, {}, {}, {})
    BY <1>1, <2>2 DEF TallyOf
  <2>4. QED
    BY <1>1, <1>2, <2>1, <2>3 DEF Tallied
<1>5. QED
  BY <1>1, <1>2, <1>3, <1>4 DEF TallyInv

\* At every moment Activity counts one guard for each open socket, body and
\* login and one for each of their jobs, those of dropped bodies included, and
\* every permit of operation_slots is free or with one of these jobs.
THEOREM GuardsCounted == Spec => []TallyInv
<1>1. UploadInv /\ LoginsInv /\ TallyInv /\ [Next]_vars => TallyInv'
  BY NextTally
<1>2. QED
  BY UploadsConsistent, LoginsTyped, InitTally, <1>1, PTL DEF Spec

\* A shutdown that finish reports clean leaves no connection, download or
\* login, and no job of one.  The validation jobs of leases hold no Activity and
\* are not waited for.
THEOREM CleanShutdown == Spec => []CleanMeansIdle
<1>1. UploadInv /\ LoginsInv /\ TallyInv => CleanMeansIdle
  <2> SUFFICES ASSUME UploadInv, LoginsInv, TallyInv, NEW p \in Procs, phase[p] = "clean"
               PROVE  /\ \A c \in Conns : ProcOf[c] = p => conn[c].pc \in {"none", "closed"}
                      /\ \A x \in Streams : ProcOf[x] = p => stream[x].pc \in {"none", "end"}
                      /\ p = Gate => \A a \in Attempts : att[a].pc \in {"none", "done"}
    BY DEF CleanMeansIdle
  <2>1. acts[p] = 0 /\ TallyOf(0, free[p], wl.slots, Sockets(p), SocketJobs(p), Bodies(p), BodyJobs(p),
                               LoginsOf(p), LoginJobs(p))
    BY DEF TallyInv, Tallied
  <2>2. Sockets(p) = {} /\ Bodies(p) = {} /\ BodyJobs(p) = {} /\ LoginsOf(p) = {}
    <3>1. ASSUME NEW S, IsFiniteSet(S) PROVE Cardinality(S) \in Nat /\ (Cardinality(S) = 0 => S = {})
      BY <3>1, FS_CardinalityType, FS_EmptySet
    <3>2. QED
      BY <2>1, <3>1 DEF TallyOf
  <2>3. \A x \in Streams : stream[x].pc \in {"none", "first", "probe", "ready", "wait", "read", "orphan", "end"}
    BY DEF TallyInv, StreamRec
  <2>4. QED
    BY <2>2, <2>3 DEF Sockets, Bodies, BodyJobs, LoginsOf, SocketOpen, BodyOpen, BodyJob, LoginOpen
<1>2. QED
  BY UploadsConsistent, LoginsTyped, GuardsCounted, <1>1, PTL

-----------------------------------------------------------------------------
(* The types of all that is left. *)

SessionStates == {"none", "live", "denied", "expired", "revoked", "gone"}
WebTypes ==
  /\ cleared \in [Procs -> BOOLEAN] /\ boots \in [Procs -> 0..MaxBoots]
  /\ sess \in [Sessions -> SessionStates] /\ check \subseteq Conns

\* Every step keeps the types of the session store and of the processes.
LEMMA NextWeb == ASSUME WebTypes, [Next]_vars PROVE WebTypes'
<1> USE DEF WebTypes
<1>0. "live" \in SessionStates /\ "denied" \in SessionStates /\ "expired" \in SessionStates
      /\ "revoked" \in SessionStates /\ "gone" \in SessionStates
  BY DEF SessionStates
<1>1. ASSUME UNCHANGED <<cleared, boots, sess, check>> PROVE WebTypes'
  BY <1>1
<1>2. ASSUME NEW s, NEW k \in SessionStates, sess' = [sess EXCEPT ![s] = k], UNCHANGED <<cleared, boots, check>>
      PROVE  WebTypes'
  BY <1>2
<1>3. ASSUME NEW p \in Procs, Signal(p) \/ FinishIdle(p) \/ FinishTimeout(p) \/ LimiterTick(p)
                              \/ \E t \in Transfers : UploadLapses(p, t)
      PROVE  WebTypes'
  BY <1>1, <1>3 DEF Signal, FinishIdle, FinishTimeout, LimiterTick, UploadLapses, web
<1>4. ASSUME NEW p \in Procs, Exit(p) \/ Crash(p) PROVE WebTypes'
  BY <1>0, <1>4 DEF Exit, Crash, TasksGone
<1>5. ASSUME NEW p \in Procs, Restart(p) PROVE WebTypes'
  <2>1. boots[p] \in Nat /\ boots[p] + 1 \in 0..MaxBoots
    BY <1>5, ServerConstants DEF Restart
  <2>2. QED
    BY <1>5, <2>1 DEF Restart
<1>6. ASSUME NEW p \in Procs, ExpiryTick(p) PROVE WebTypes'
  BY <1>0, <1>6 DEF ExpiryTick
<1>7. ASSUME NEW p \in Procs, ClearPending(p) PROVE WebTypes'
  BY <1>7 DEF ClearPending
<1>8. ASSUME NEW s \in Sessions, SessionExpires(s) \/ PolicyDenies(s) \/ SessionRevoked(s) PROVE WebTypes'
  BY <1>0, <1>2, <1>8 DEF SessionExpires, PolicyDenies, SessionRevoked
<1>9. ASSUME NEW c \in Conns, ValidationStarts(c) PROVE WebTypes'
  BY <1>9 DEF ValidationStarts
<1>10. ASSUME NEW c \in Conns, NEW valid \in BOOLEAN, ValidationEnds(c, valid) PROVE WebTypes'
  BY <1>0, <1>10 DEF ValidationEnds
<1>11. ASSUME NEW c \in Conns,
              \/ LeasePoll(c)
              \/ \E s \in Sessions : Upgrade(c, s) \/ Authenticated(c, s)
              \/ PreAuth(c) \/ PreAuthEnds(c)
              \/ LoopBreaks(c) \/ PeerLeaves(c) \/ WaitBreaks(c) \/ JobStarts(c)
              \/ \E k \in Kinds, t \in Transfers \cup {None} : Receives(c, k, t)
              \/ \E pc \in {"idle", "close"} : Delivers(c, pc)
              \/ CloseReads(c) \/ CloseDrops(c)
       PROVE  WebTypes'
  BY <1>1, <1>11 DEF LeasePoll, Upgrade, Authenticated, PreAuth, PreAuthEnds, LoopBreaks, PeerLeaves,
     WaitBreaks, JobStarts, Receives, Delivers, CloseReads, CloseDrops, NotConn
<1>12. ASSUME NEW c \in Conns,
              \/ JobOther(c) \/ JobReserves(c) \/ JobCreates(c) \/ JobWrites(c)
              \/ JobEnds(c) \/ JobCommits(c) \/ JobAborts(c) \/ JobResumes(c)
       PROVE  WebTypes'
  BY <1>1, <1>12 DEF JobOther, JobReserves, JobCreates, JobWrites, JobEnds, JobCommits, JobAborts,
     JobResumes, JobReturns, NotConn
<1>13. ASSUME NEW x \in Streams,
              \/ StreamLeasePoll(x)
              \/ \E s \in Sessions : StreamOpens(x, s)
              \/ StreamProbes(x) \/ StreamTouches(x) \/ StreamReads(x)
              \/ \E pc \in {"ready", "end"} : StreamJobReturns(x, pc)
              \/ BodyDropped(x) \/ OrphanReturns(x)
       PROVE  WebTypes'
  BY <1>1, <1>13 DEF StreamLeasePoll, StreamOpens, StreamProbes, StreamTouches, StreamReads,
     StreamJobReturns, BodyDropped, OrphanReturns, NotStream
<1>14. ASSUME NEW a \in Attempts,
              \/ \E u \in Users : LoginArrives(a, u)
              \/ LoginStarts(a) \/ LoginReserves(a) \/ LoginUnanswered(a)
              \/ LoginVerifies(a) \/ LoginFails(a) \/ LoginDenied(a)
       PROVE  WebTypes'
  BY <1>1, <1>14 DEF LoginArrives, LoginStarts, LoginReserves, LoginUnanswered, LoginVerifies,
     LoginFails, LoginDenied, NotLogin
<1>15. ASSUME NEW a \in Attempts, NEW s \in Sessions, LoginSucceeds(a, s) PROVE WebTypes'
  BY <1>0, <1>2, <1>15 DEF LoginSucceeds, NotLogin
<1>16. CASE ClockTicks \/ UNCHANGED vars
  BY <1>1, <1>16 DEF ClockTicks, vars, web
<1>17. QED
  BY <1>3, <1>4, <1>5, <1>6, <1>7, <1>8, <1>9, <1>10, <1>11, <1>12, <1>13, <1>14, <1>15, <1>16 DEF Next

\* Types hold: no guard or permit is given back twice, no counter of the
\* staging budget goes below zero and there are never more permits than slots.
THEOREM ServerTyped == Spec => []TypeOK
<1>1. Init => WebTypes
  BY ServerConstants DEF Init, WebTypes, SessionStates
<1>2. WebTypes /\ [Next]_vars => WebTypes'
  BY NextWeb
<1>3. UploadInv /\ StockInv /\ LoginsInv /\ TallyInv /\ WebTypes => TypeOK
  <2> SUFFICES ASSUME UploadInv, StockInv, LoginsInv, TallyInv, WebTypes PROVE TypeOK
    OBVIOUS
  <2>1. StagingTypeOK
    BY DEF UploadInv, UploadTypes, StockInv, StagingTypeOK, LeaseRec, UploadRec
  <2>2. ASSUME NEW p \in Procs PROVE acts[p] \in Nat /\ free[p] \in 0..Slots
    <3>1. /\ TallyOf(acts[p], free[p], wl.slots, Sockets(p), SocketJobs(p), Bodies(p), BodyJobs(p),
                     LoginsOf(p), LoginJobs(p))
          /\ free[p] >= 0
      BY DEF TallyInv, Tallied
    <3>2. wl.slots \in 1..Slots /\ Slots \in Nat
      BY ServerConstants DEF UploadInv, UploadTypes
    <3>3. ASSUME NEW S, IsFiniteSet(S) PROVE Cardinality(S) \in Nat
      BY <3>3, FS_CardinalityType
    <3>4. QED
      BY <3>1, <3>2, <3>3 DEF TallyOf
  <2>3. acts \in [Procs -> Nat] /\ free \in [Procs -> 0..Slots]
    BY <2>2 DEF TallyInv
  <2>4. QED
    BY <2>1, <2>3 DEF TypeOK, LoginsInv, TallyInv, StreamRec, UploadInv, UploadTypes, ConnRec, WebTypes,
       SessionStates
<1>4. QED
  BY UploadsConsistent, AccountsRight, LoginsTyped, GuardsCounted, <1>1, <1>2, <1>3, PTL DEF Spec
=============================================================================
