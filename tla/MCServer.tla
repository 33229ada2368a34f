------------------------------ MODULE MCServer ------------------------------
(* Small instances of Server for TLC. *)
EXTENDS Server, TLC

CONSTANTS p1, p2, c1, c2, c3, s1, s2, s3, x1, t1, t2, t3, a1, a2, a3

MCProcOf == [x \in {c1, c2, s1, s2, x1, c3, s3} |-> IF x \in {c3, s3} THEN p2 ELSE p1]

Work == [procs |-> {p1}, conns |-> {}, streams |-> {}, attempts |-> {}, sessions |-> {s1},
         transfers |-> {}, totals |-> {2}, kinds |-> {}, events |-> {},
         keeps |-> {TRUE}, slots |-> 1]

\* Two sockets and a download compete for the slots while the session ends
\* and the server drains.
Traffic == [Work EXCEPT !.conns = {c1, c2}, !.streams = {x1}, !.kinds = {"other"},
                        !.events = {"revoke", "drain"}]

\* A socket logs in on its own channel; leases validate their grants.
Channel == [Work EXCEPT !.conns = {c1, c2}, !.kinds = {"other"},
                        !.events = {"preauth", "deny", "validate", "drain"}]

\* One upload moves between the sockets of two sessions.
Handover == [Work EXCEPT !.conns = {c1, c2}, !.sessions = {s1, s2}, !.transfers = {t1}, !.totals = {1},
                         !.kinds = {"begin", "chunk", "abort", "resume"},
                         !.events = {"expire", "leave"}]

\* Uploads that end, tear or are suspended next to a shutdown.
Closing == [Work EXCEPT !.conns = {c1, c2}, !.transfers = {t1}, !.keeps = BOOLEAN,
                        !.kinds = {"begin", "chunk", "end", "resume"},
                        !.events = {"leave", "torn", "drain"}]

\* Two processes stage uploads in one directory; either may crash.
Sharing == [Work EXCEPT !.procs = {p1, p2}, !.conns = {c1, c3}, !.sessions = {s1, s3},
                        !.transfers = {t1, t2, t3}, !.totals = {2},
                        !.kinds = {"begin", "chunk", "end"}, !.events = {"crash"}]

\* Logins in parallel.
Doorstep == [Work EXCEPT !.attempts = {a1, a2, a3}, !.slots = 2]

\* A helper dies, a policy changes, the limiter is lost with its process.
Doorway == [Work EXCEPT !.attempts = {a1, a2}, !.slots = 2,
                        !.events = {"die", "deny", "crash", "restart"}]

\* What must end: requests and a download, and an upload that may be suspended.
Stalls == [Traffic EXCEPT !.conns = {c1}, !.totals = {1},
                           !.events = {"revoke", "drain", "validate"}]
Suspending == [Work EXCEPT !.conns = {c1}, !.transfers = {t1}, !.totals = {1},
                           !.kinds = {"begin", "chunk"},
                           !.events = {"leave", "expire", "drain"}]
Resuming == [Suspending EXCEPT !.conns = {c1, c2}, !.kinds = {"begin", "chunk", "resume"},
                               !.events = {"leave"}]

MCWorkloads == {Traffic, Channel, Handover, Closing, Sharing, Doorstep, Doorway}
MCLive == {Stalls, Suspending, Resuming}
=============================================================================
