------------------------------- MODULE Logins -------------------------------
(***************************************************************************)
(* Login attempts and the two limits they meet: the limiter a server keeps *)
(* in memory (rate_limit/login.rs), and the rows of login_limits that the  *)
(* account helper reserves before it checks a password and refunds after a *)
(* right one (accounts/limits.rs).  login_command_handler of auth/api.rs   *)
(* runs the attempt; the helper is a process that may die in between.      *)
(*                                                                         *)
(* Time is counted in steps of the second the code reads.  All attempts    *)
(* come from one address, so a username stands for the limiter's key; the  *)
(* "ip" rows of login_limits behave like the "global" one.                 *)
(***************************************************************************)
EXTENDS Integers, FiniteSets, FiniteSetsExt

CONSTANTS
  Attempts,      \* login requests
  Users,         \* usernames they name
  MaxFailures,   \* rate_limit.max_login_failures
  Lockout,       \* rate_limit.lockout_duration_seconds
  GlobalFactor,  \* login_limits' "global" row allows this multiple (40)
  MaxEntries,    \* MAX_RATE_LIMIT_ENTRIES (10,000 in the code)
  MaxTime        \* bound of the model: seconds explored

ASSUME LoginsConstants ==
  /\ MaxFailures \in Nat \ {0} /\ Lockout \in Nat \ {0}
  /\ GlobalFactor \in Nat \ {0}
  /\ MaxEntries \in Nat \ {0} /\ MaxTime \in Nat
  /\ "all" \notin Users

VARIABLES
  now,      \* the clock
  limiter,  \* InMemoryLoginRateLimiter.failures: count and last failure
  limits,   \* login_limits rows: failures and lock_until
  att,      \* the attempts
  guessed   \* history: wrong passwords checked per user and reserved deadline

logins == <<now, limiter, limits, att, guessed>>

Keys == Users \cup {"all"}
Deadlines == 0..(MaxTime + Lockout)
NoEntry == [n |-> 0, at |-> 0]
NoRow == [n |-> 0, until |-> 0]
NoAttempt == [pc |-> "none", user |-> "all", at |-> 0,
              held |-> [k \in Keys |-> 0]]

LoginsTypeOK ==
  /\ now \in 0..MaxTime
  /\ limiter \in [Users -> [n : Nat, at : 0..MaxTime]]
  /\ limits \in [Keys -> [n : Nat, until : Deadlines]]
  /\ att \in [Attempts ->
       [pc : {"none", "queued", "job", "verify", "wrong", "right", "done"},
        user : Keys, at : 0..MaxTime,
        held : [Keys -> Deadlines]]]
  /\ guessed \in [Users -> [Deadlines -> Nat]]

LoginsInit ==
  /\ now = 0
  /\ limiter = [u \in Users |-> NoEntry]
  /\ limits = [k \in Keys |-> NoRow]
  /\ att = [a \in Attempts |-> NoAttempt]
  /\ guessed = [u \in Users |-> [d \in Deadlines |-> 0]]

-----------------------------------------------------------------------------
(* The limiter in memory. *)

\* check_at
Limited(l, u, t) ==
  /\ l[u].n >= MaxFailures
  /\ ~(t >= l[u].at /\ t - l[u].at > Lockout)

\* cleanup
Swept(l, t) == [u \in Users |-> IF t - l[u].at <= Lockout THEN l[u] ELSE NoEntry]
Entries(l) == {u \in Users : l[u].n > 0}

\* Mutant: the oldest entry goes, locked or not.
EvictableAny(l) == Entries(l)

\* record_failure_at: a full table loses its oldest entry that is no lockout;
\* if there is none, the failure of a new key is not recorded.
Evictable(l) == {u \in Entries(l) : l[u].n < MaxFailures}

Oldest(l, us) == {u \in us : \A v \in us : l[u].at <= l[v].at}

Counted(l, u, t) ==
  [l EXCEPT ![u] = IF @.n = 0 \/ (t >= @.at /\ t - @.at > Lockout)
                   THEN [n |-> 1, at |-> t] ELSE [n |-> @.n + 1, at |-> t]]

FailureRecorded(u, t) ==
  LET full == Cardinality(Entries(limiter)) >= MaxEntries
      l == IF full THEN Swept(limiter, t) ELSE limiter
      crowded == full /\ Cardinality(Entries(l)) >= MaxEntries /\ l[u].n = 0
  IN \/ ~crowded /\ limiter' = Counted(l, u, t)
     \/ crowded /\ Evictable(l) = {} /\ limiter' = l
     \/ /\ crowded
        /\ \E v \in Oldest(l, Evictable(l)) :
             limiter' = Counted([l EXCEPT ![v] = NoEntry], u, t)

-----------------------------------------------------------------------------
(* The durable rows. *)

Cap(k) == IF k = "all" THEN MaxFailures * GlobalFactor ELSE MaxFailures

\* reserve_login: the lapsed rows go, then every scope of the attempt takes a
\* failure, or none does.
LiveRow(k) == IF limits[k].until <= now THEN NoRow ELSE limits[k]
Scopes(u) == {u, "all"}
Open(u) == \A k \in Scopes(u) : LiveRow(k).n < Cap(k)
Deadline(k) == IF LiveRow(k) = NoRow THEN now + Lockout ELSE limits[k].until

\* Mutant: the attempt is only counted once it has failed.
ReservedNothing(u) == [k \in Keys |-> LiveRow(k)]

ReservedRows(u) ==
  [k \in Keys |-> IF k \in Scopes(u)
                  THEN [n |-> LiveRow(k).n + 1, until |-> Deadline(k)]
                  ELSE LiveRow(k)]

\* finish_login: the refund reaches the row of the attempt's own deadline only.
Refunded(a) ==
  [k \in Keys |-> IF k \in Scopes(att[a].user) /\ limits[k].until = att[a].held[k]
                  THEN [limits[k] EXCEPT !.n = Max({0, @ - 1})] ELSE limits[k]]

-----------------------------------------------------------------------------
(* The steps of an attempt; Server adds the slot and the session. *)

\* login_command_handler up to the slot: the limiter refuses, the policy
\* refuses (and the failure counts), or the attempt waits for a slot.
Arrives(a, u) ==
  /\ att[a].pc = "none"
  /\ ~Limited(limiter, u, now)
  /\ att' = [att EXCEPT ![a] = [@ EXCEPT !.pc = "queued", !.user = u,
                                         !.at = now]]
  /\ UNCHANGED <<now, limiter, limits, guessed>>

ArrivesDenied(a, u) ==
  /\ att[a].pc = "none"
  /\ ~Limited(limiter, u, now)
  /\ FailureRecorded(u, now)
  /\ att' = [att EXCEPT ![a].pc = "done"]
  /\ UNCHANGED <<now, limits, guessed>>

Refused(a, u) ==
  /\ att[a].pc = "none"
  /\ Limited(limiter, u, now)
  /\ att' = [att EXCEPT ![a].pc = "done"]
  /\ UNCHANGED <<now, limiter, limits, guessed>>

\* The helper's transaction before it checks the password.
Reserves(a) ==
  LET u == att[a].user IN
  /\ att[a].pc = "job"
  /\ Open(u)
  /\ limits' = ReservedRows(u)
  /\ att' = [att EXCEPT ![a].pc = "verify",
                        ![a].held = [k \in Keys |-> IF k \in Scopes(u) THEN Deadline(k) ELSE 0]]
  /\ UNCHANGED <<now, limiter, guessed>>

\* The password is checked; only a right one is refunded.
Verifies(a, right) ==
  LET u == att[a].user
      d == att[a].held[u]
  IN /\ att[a].pc = "verify"
     /\ IF right
        THEN limits' = Refunded(a) /\ UNCHANGED guessed
        ELSE guessed' = [guessed EXCEPT ![u][d] = @ + 1] /\ UNCHANGED limits
     /\ att' = [att EXCEPT ![a].pc = IF right THEN "right" ELSE "wrong"]
     /\ UNCHANGED <<now, limiter>>

\* The failure is recorded under the time at which the request came in.
RecordsFailure(a) ==
  /\ att[a].pc = "wrong"
  /\ FailureRecorded(att[a].user, att[a].at)
  /\ att' = [att EXCEPT ![a].pc = "done"]
  /\ UNCHANGED <<now, limits, guessed>>

\* record_success
RecordsSuccess(a) ==
  /\ att[a].pc = "right"
  /\ limiter' = [limiter EXCEPT ![att[a].user] = NoEntry]
  /\ att' = [att EXCEPT ![a].pc = "done"]
  /\ UNCHANGED <<now, limits, guessed>>

\* RateLimited and Unavailable end an attempt without a trace in the limiter.
Ends(a) ==
  /\ att' = [att EXCEPT ![a].pc = "done"]
  /\ UNCHANGED <<now, limiter, limits, guessed>>

Ticks ==
  /\ now < MaxTime
  /\ now' = now + 1
  /\ UNCHANGED <<limiter, limits, att, guessed>>

\* The process ends: its limiter is lost and its attempts are not answered.
LimiterLost ==
  /\ limiter' = [u \in Users |-> NoEntry]
  /\ att' = [a \in Attempts |-> IF att[a].pc = "none" THEN att[a] ELSE [att[a] EXCEPT !.pc = "done"]]
  /\ UNCHANGED <<now, limits, guessed>>

\* The expiry task's cleanup of the limiter.
LimiterSwept == limiter' = Swept(limiter, now)

-----------------------------------------------------------------------------
(* What the limits are for. *)

\* Of the passwords tried for an account under one durable deadline, at most
\* max_login_failures are wrong: attempts that run in parallel, helpers that
\* die before they answer and refunds of earlier windows included.
GuessesBounded == \A u \in Users : \A d \in Deadlines : guessed[u][d] <= MaxFailures
=============================================================================
