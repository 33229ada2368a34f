------------------------------ MODULE Transfer ------------------------------
(***************************************************************************)
(* What an upload promises its client, whatever connections, processes and *)
(* budgets do: an upload belongs to one session from its first byte to its *)
(* end, the bytes acknowledged only grow, a broken connection may park it, *)
(* and whoever resumes it is its session and goes on where it stopped.     *)
(* An upload that is over is never taken up again.  One event may touch    *)
(* several uploads: a process that ends lets go of all of them.            *)
(***************************************************************************)
EXTENDS Naturals

CONSTANTS Transfers, Sessions, None, MaxBytes

VARIABLE upload   \* the state, the session and the bytes acknowledged of each upload

Fresh == [state |-> "fresh", owner |-> None, acked |-> 0]
Over  == [state |-> "over", owner |-> None, acked |-> 0]

Init == upload = [t \in Transfers |-> Fresh]

\* How one upload may go from u to v.
Begins(u, v) ==
  u = Fresh /\ \E s \in Sessions : v = [state |-> "open", owner |-> s, acked |-> 0]

Acknowledges(u, v) ==
  /\ u.state = "open" /\ v = [u EXCEPT !.acked = v.acked]
  /\ u.acked < v.acked /\ v.acked <= MaxBytes

\* A connection lets go of an upload that has bytes to go on from.
Parks(u, v)   == u.state = "open" /\ u.acked > 0 /\ v = [u EXCEPT !.state = "parked"]
Resumes(u, v) == u.state = "parked" /\ v = [u EXCEPT !.state = "open"]

\* The client says that it sent everything; the upload is being published.
Finishes(u, v) == u.state = "open" /\ v = [u EXCEPT !.state = "ending"]

Step(u, v) ==
  v \in {u, Over} \/ Begins(u, v) \/ Acknowledges(u, v) \/ Parks(u, v) \/ Resumes(u, v) \/ Finishes(u, v)

Next == \A t \in Transfers : Step(upload[t], upload'[t])

Spec == Init /\ [][Next]_upload
=============================================================================
