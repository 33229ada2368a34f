------------------------------- MODULE Access -------------------------------
(***************************************************************************)
(* The decisions about one request on one root: the path rules of          *)
(* policy/access.rs, the checks the web server makes from its own          *)
(* configuration (policy/decision.rs) and the ones the helper repeats from *)
(* a policy it trusts (helper/policy.rs, helper/access.rs).                *)
(*                                                                         *)
(* A path is a sequence of names.  A policy is a record: `rules' (of the   *)
(* root and of the user), `sys' (names hidden from everyone), `ro', `up',  *)
(* `hid' (the root's read_only, uploads_allowed, hidden_files_allowed),    *)
(* `web' and `block' (an executable is refused in a web root), `sens'      *)
(* (names that match a sensitive pattern), `exe' (names with a blocked     *)
(* extension) and `feats' (the features that are on).                      *)
(*                                                                         *)
(* A request names a `path', a `target' and, for an archive, its sources.  *)
(***************************************************************************)
EXTENDS Naturals, Sequences

CONSTANTS
  Reserved,     \* names of the trash and of staged transactions
  DotNames      \* names that begin with a dot

NoPath == <<"">>

Actions == {"discover", "read", "write", "move", "delete", "chmod"}
Features == {"save", "chmod", "extract", "delete"}

Rules(S) == [path : Seq(S), rec : BOOLEAN, deny : SUBSET Actions]
Policies(S) == [rules : SUBSET Rules(S), sys : SUBSET S, ro : BOOLEAN, up : BOOLEAN, hid : BOOLEAN,
                web : BOOLEAN, block : BOOLEAN, sens : SUBSET S, exe : SUBSET S, feats : SUBSET Features]

Reads == {"list", "stat", "search", "listtrash", "download", "range", "read", "quota"}
Creates == {"mkdir", "upload"}
Archives == {"zip", "targz"}
Carries == {"rename", "move"}
Writes == Creates \cup Archives \cup Carries
            \cup {"save", "copy", "trash", "restore", "delete", "purge", "chmod", "extract"}
Ops == Reads \cup Writes

Parent(p) == SubSeq(p, 1, Len(p) - 1)
NameOf(p) == p[Len(p)]
Below(p, q) == Len(q) < Len(p) /\ SubSeq(p, 1, Len(q)) = q
AtOrBelow(p, q) == p = q \/ Below(p, q)
Suffix(p, q) == SubSeq(p, Len(q) + 1, Len(p))
HasName(p, names) == \E i \in DOMAIN p : p[i] \in names
Hidden(p) == HasName(p, DotNames)

-----------------------------------------------------------------------------
(* policy/access.rs: an undiscoverable path, or one below it, does not exist *)
(* for the user, whatever else is denied there.                              *)

Undiscoverable(rules, p) == \E r \in rules : AtOrBelow(p, r.path) /\ "discover" \in r.deny

Denied(rules, p, a) ==
  \E r \in rules : a \in r.deny /\ (p = r.path \/ (r.rec /\ Below(p, r.path)))

CheckDenies(pol, p, a) ==
  IF HasName(p, pol.sys \cup Reserved) \/ Undiscoverable(pol.rules, p) \/ Denied(pol.rules, p, a)
  THEN "denied" ELSE "ok"

Check(pol, p, a) ==
  IF HasName(p, pol.sys \cup Reserved) \/ Undiscoverable(pol.rules, p) THEN "notfound"
  ELSE IF Denied(pol.rules, p, a) THEN "denied" ELSE "ok"

Permits(pol, p, a) == Check(pol, p, a) = "ok"

\* The policy of a request: what the server's snapshot and the trusted ceiling
\* both allow.
Restrict(snap, ceil) ==
  [rules |-> snap.rules \cup ceil.rules,
   sys   |-> snap.sys \cup ceil.sys,
   ro    |-> snap.ro \/ ceil.ro,
   up    |-> snap.up /\ ceil.up,
   hid   |-> snap.hid /\ ceil.hid,
   web   |-> snap.web \/ ceil.web,
   block |-> snap.block \/ ceil.block,
   sens  |-> snap.sens \cup ceil.sens,
   exe   |-> snap.exe \cup ceil.exe,
   feats |-> snap.feats \cap ceil.feats]

Sensitive(pol, p) == p # <<>> /\ NameOf(p) \in pol.sens
Blocked(pol, p) == pol.web /\ pol.block /\ NameOf(p) \in pol.exe

Feature(op) == CASE op \in {"save", "chmod", "extract"} -> {op}
                 [] op \in {"delete", "purge"} -> {"delete"}
                 [] OTHER -> {}

-----------------------------------------------------------------------------
(* policy/decision.rs: what the web server refuses before it asks a helper. *)

First(answers) ==
  IF \E i \in DOMAIN answers : answers[i] # "ok"
  THEN answers[CHOOSE i \in DOMAIN answers :
                 answers[i] # "ok" /\ \A j \in 1..(i - 1) : answers[j] = "ok"]
  ELSE "ok"

DeniedIf(condition) == IF condition THEN "denied" ELSE "ok"

Visible(pol, p) == Check(pol, p, "discover")

\* The refusals that depend on the kind of operation: reading or changing a
\* sensitive name, an executable uploaded to a web root, an archive unpacked there.
KindRefused(pol, op, path, target) ==
  \/ op \in {"read", "save", "chmod", "extract"} \cup Archives /\ Sensitive(pol, path)
  \/ op = "upload" /\ Blocked(pol, target)
  \/ op = "extract" /\ pol.web

\* An upload and an extraction are decided before the target is looked at.
TargetRefused(pol, op, target) ==
  /\ target # NoPath
  /\ op \notin {"upload", "extract"}
  /\ (Hidden(target) /\ ~pol.hid) \/ Sensitive(pol, target)

\* A listing asks for hidden names itself; the helper filters them.
CheckOperation(pol, op, path, target) ==
  LET trashed == op \in {"restore", "purge"}
  IN  First(<< IF trashed THEN "ok" ELSE Visible(pol, path),
               IF target = NoPath THEN "ok" ELSE Visible(pol, target),
               DeniedIf(~(Feature(op) \subseteq pol.feats)),
               DeniedIf(pol.ro /\ op \in Writes),
               DeniedIf(~trashed /\ op # "list" /\ Hidden(path) /\ ~pol.hid),
               DeniedIf(KindRefused(pol, op, path, target)),
               DeniedIf(TargetRefused(pol, op, target)) >>)

-----------------------------------------------------------------------------
(* helper/access.rs and helper/policy.rs: the helper decides again.  A        *)
(* request `q' has its operation, path, target and the sources of an archive. *)

OperationAccess(op) ==
  CASE op \in {"list", "stat", "search", "listtrash", "quota"} -> "discover"
    [] op \in {"download", "range", "read", "copy", "extract"} \cup Archives -> "read"
    [] op \in {"save", "restore"} \cup Creates -> "write"
    [] op \in Carries -> "move"
    [] op \in {"trash", "delete", "purge"} -> "delete"
    [] op = "chmod" -> "chmod"

\* The path a helper finds in a request: an upload and an archive name the file
\* they make, everything else what it acts on.
HelperPath(q) == IF q.op \in {"upload"} \cup Archives THEN q.target ELSE q.path

\* The target it checks.  A rename and a new folder send a bare name; only the
\* rename's is joined to its parent again.
HelperTarget(q) == IF q.op = "upload" THEN NoPath
                   ELSE IF q.op = "mkdir" THEN <<NameOf(q.target)>> ELSE q.target

AccessAuthorize(q, pol) ==
  First(<< IF q.op \in {"listtrash", "restore", "purge", "quota"} THEN "ok"
           ELSE Check(pol, HelperPath(q), OperationAccess(q.op)),
           IF HelperTarget(q) = NoPath THEN "ok" ELSE Check(pol, HelperTarget(q), "write"),
           IF q.op \in Archives THEN Check(pol, q.path, "read") ELSE "ok" >>)

PolicyAuthorize(q, pol) ==
  LET internal == q.op \in {"restore", "listtrash", "purge"}
      path     == HelperPath(q)
      target   == IF HelperTarget(q) = NoPath THEN path ELSE HelperTarget(q)
  IN  DeniedIf(\/ q.op \in Writes /\ pol.ro
               \/ q.op = "upload" /\ ~pol.up
               \/ ~internal /\ ~pol.hid /\ Hidden(path)
               \/ \E p \in ({HelperTarget(q)} \ {NoPath}) \cup (IF q.op \in Archives THEN {q.path} ELSE {}) :
                    (~pol.hid /\ Hidden(p)) \/ Sensitive(pol, p)
               \/ ~internal /\ q.op \notin {"list", "stat", "search"} /\ Sensitive(pol, path)
               \/ q.op \in Writes /\ pol.web
                    /\ (q.op = "extract" \/ (target # <<>> /\ Blocked(pol, target))))

Authorize(q, pol) == First(<< AccessAuthorize(q, pol), PolicyAuthorize(q, pol) >>)

\* The supervisor checks no feature: the worker does, after the preflight.
FeatureOn(q, pol) == DeniedIf(~(Feature(q.op) \subseteq pol.feats))

\* A tree is moved or deleted as a whole or not at all: each descendant (a
\* suffix of the tree's paths) must allow the action, and a tree that changes
\* its name must be readable and its new paths writable.
PreflightNode(pol, path, action, target, suffix) ==
  First(<< Check(pol, path \o suffix, action),
           IF target = NoPath THEN "ok" ELSE Check(pol, path \o suffix, "read"),
           IF target = NoPath THEN "ok" ELSE Check(pol, target \o suffix, "write"),
           Check(pol, path \o suffix, "discover") >>)

PreflightTree(pol, path, action, target, suffixes) ==
  IF \A s \in suffixes : PreflightNode(pol, path, action, target, s) = "ok" THEN "ok"
  ELSE LET bad == CHOOSE s \in suffixes :
                    /\ PreflightNode(pol, path, action, target, s) # "ok"
                    /\ \A t \in suffixes : Len(t) < Len(s) => PreflightNode(pol, path, action, target, t) = "ok"
       IN  PreflightNode(pol, path, action, target, bad)

=============================================================================
