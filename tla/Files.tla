------------------------------- MODULE Files --------------------------------
(***************************************************************************)
(* One user's file requests on one root.  The web server decides with the  *)
(* configuration it serves and sends the request and a snapshot of that    *)
(* configuration to the helper (ws/dispatch.rs, fs/*.rs).  The helper      *)
(* restricts the snapshot by the root configuration file and by the rules  *)
(* in the account database, decides again, waits for the directory lock if *)
(* the request changes anything, loads both once more, decides a third     *)
(* time and runs the worker (helper/ipc.rs, helper/*.rs).  Without web     *)
(* accounts a request comes with a ticket instead of a grant: then there   *)
(* are no rules in a database, and what was decided before the lock stays. *)
(* Meanwhile the operator edits the root file, an administrator patches    *)
(* the panel settings, rules are stored, and the owner works by SSH.       *)
(*                                                                         *)
(* The content of a file is a set of pairs of a suffix and an atom: a      *)
(* plain file holds its atom at the empty suffix, an archive the atoms of  *)
(* its entries at theirs; Dir marks a directory.                           *)
(***************************************************************************)
EXTENDS Access, Integers

CONSTANTS
  Reqs,         \* requests that may be in progress together
  NoReq,
  Paths,        \* the paths of the model, the root <<>> included
  ZipNames, TarNames,   \* names with the extension of an archive
  Workloads     \* what a run asks, edits and starts from

VARIABLES
  wl,       \* the workload
  tree,     \* what is at each path
  trash,    \* trash entries: where each came from, and its tree
  root,     \* the root configuration file
  stored,   \* the rules in the account database, read by helpers only
  panel,    \* the saved panel settings: the features, or none
  served,   \* the configuration the web server serves
  patch,    \* a change of the panel settings in progress
  lock,     \* the directory lock
  req,      \* the requests
  tab,      \* the file each request's editor shows
  fresh,    \* the next content or trash entry
  asked     \* requests asked so far

conf == <<root, stored, panel, served, patch>>
vars == <<wl, tree, trash, conf, lock, req, tab, fresh, asked>>

Dir == 0
Modes == {"plain", "exec", "setid"}

Nothing == [kind |-> "none", data |-> {}, mode |-> "plain"]
Folder == [kind |-> "dir", data |-> {}, mode |-> "plain"]
File(data) == [kind |-> "file", data |-> data, mode |-> "plain"]
Plain(atom) == File({<< <<>>, atom>>})
AtomsOf(node) == {d[2] : d \in node.data} \ {Dir}

NoTab == [path |-> NoPath, node |-> Nothing]
NoStage == [s \in {} |-> Nothing]
NoPanel == {"none"}

NoPolicy == [rules |-> {}, sys |-> {}, ro |-> FALSE, up |-> TRUE, hid |-> TRUE, web |-> FALSE,
             block |-> FALSE, sens |-> {}, exe |-> {}, feats |-> Features]

Query(op, path, target) == [op |-> op, path |-> path, target |-> target, id |-> 0, by |-> "none",
                            tok |-> Nothing, atom |-> 0, mode |-> "plain"]
NoQuery == Query("stat", NoPath, NoPath)
Idle == [pc |-> "idle", q |-> NoQuery, snap |-> NoPolicy, pol |-> NoPolicy, ceil |-> NoPolicy,
         stage |-> NoStage, way |-> {}, res |-> "ok", names |-> {}, atoms |-> {}]

\* What a helper trusts: the root file and, with web accounts, the rules stored
\* for the account.
Ceiling == IF wl.grants THEN [root EXCEPT !.rules = @ \cup stored] ELSE root

-----------------------------------------------------------------------------
(* The directory tree. *)

Exists(t, p) == t[p].kind # "none"
IsDir(t, p) == t[p].kind = "dir"
IsFile(t, p) == t[p].kind = "file"
SuffixesAt(t, p) == {Suffix(x, p) : x \in {y \in Paths : AtOrBelow(y, p) /\ Exists(t, y)}}
Subtree(t, p) == [s \in SuffixesAt(t, p) |-> t[p \o s]]
Children(t, p) == {x \in Paths : x # <<>> /\ Parent(x) = p /\ Exists(t, x)}
Pruned(t, p) == [x \in Paths |-> IF AtOrBelow(x, p) THEN Nothing ELSE t[x]]
Grafted(t, p, sub) ==
  [x \in Paths |-> IF AtOrBelow(x, p) /\ Suffix(x, p) \in DOMAIN sub THEN sub[Suffix(x, p)] ELSE t[x]]

\* A tree that does not fit under a path of the model is out of its bounds.
Fits(p, suffixes) == \A s \in suffixes : p \o s \in Paths

\* A new name needs a directory to be in, and no one may have it.
NewName(t, p) ==
  IF p = <<>> \/ p \notin Paths THEN "invalid"
  ELSE IF ~IsDir(t, Parent(p)) THEN "notfound"
  ELSE IF Exists(t, p) THEN "exists" ELSE "ok"

Found(t, p) == IF p \in Paths /\ Exists(t, p) THEN "ok" ELSE "notfound"

-----------------------------------------------------------------------------
(* fs/*.rs: what the web server decides.  It sees no file. *)

Policy(pol, q) == CheckOperation(pol, q.op, q.path, q.target)

\* Reading: the policy alone.
ListRequest(pol, q) == Policy(pol, q)
MetadataRequest(pol, q) == Policy(pol, q)
SearchRequest(pol, q) == Policy(pol, q)
ListTrashRequest(pol, q) == Policy(pol, q)
DownloadRequest(pol, q) == Policy(pol, q)
ReadTextRequest(pol, q) == Policy(pol, q)

\* A new name is refused when it is sensitive or an executable in a web root.
NewNameRefused(pol, p) == Sensitive(pol, p) \/ Blocked(pol, p)

SaveRequest(pol, q) ==
  First(<< DeniedIf(q.path = <<>>), Policy(pol, q), DeniedIf(Blocked(pol, q.path)) >>)

UploadRequest(pol, q) ==
  First(<< DeniedIf(pol.ro \/ ~pol.up \/ NewNameRefused(pol, q.target)), Policy(pol, q) >>)

CreateFolderRequest(pol, q) ==
  First(<< Visible(pol, q.path), Visible(pol, q.target), DeniedIf(Sensitive(pol, q.target)), Policy(pol, q) >>)

\* A rename, a move and a copy look at both names before the policy.
TwoNamesRequest(pol, q) ==
  First(<< Visible(pol, q.path), Visible(pol, q.target),
           DeniedIf(q.target = <<>> \/ Sensitive(pol, q.path) \/ NewNameRefused(pol, q.target)),
           Policy(pol, q) >>)
RenameRequest(pol, q) == TwoNamesRequest(pol, q)
MoveRequest(pol, q) == TwoNamesRequest(pol, q)
CopyRequest(pol, q) == TwoNamesRequest(pol, q)

ChmodRequest(pol, q) ==
  First(<< Visible(pol, q.path), DeniedIf(q.path = <<>> \/ pol.ro), Policy(pol, q),
           DeniedIf(q.mode = "setid" \/ (pol.web /\ q.mode = "exec")) >>)

MoveToTrashRequest(pol, q) ==
  First(<< Visible(pol, q.path), DeniedIf(Sensitive(pol, q.path)), Policy(pol, q) >>)
RestoreRequest(pol, q) == Policy(pol, q)
DeleteRequest(pol, q) ==
  First(<< IF q.op = "purge" THEN "ok" ELSE Visible(pol, q.path),
           DeniedIf((q.op = "delete" /\ q.path = <<>>) \/ pol.ro), Policy(pol, q) >>)

ArchiveRequest(pol, q, names) ==
  First(<< Visible(pol, q.target), DeniedIf(q.target = <<>> \/ NameOf(q.target) \notin names \/ pol.ro),
           Visible(pol, q.path), DeniedIf(q.path = <<>>), Policy(pol, q) >>)
CompressZipRequest(pol, q) == ArchiveRequest(pol, q, ZipNames)
CompressTarGzRequest(pol, q) == ArchiveRequest(pol, q, TarNames)
ExtractRequest(pol, q) ==
  First(<< Visible(pol, q.path), DeniedIf(q.path = <<>>), Visible(pol, q.target), DeniedIf(pol.ro),
           Policy(pol, q) >>)

ServerDecides(pol, q) ==
  CASE q.op = "list" -> ListRequest(pol, q)
    [] q.op = "stat" -> MetadataRequest(pol, q)
    [] q.op = "search" -> SearchRequest(pol, q)
    [] q.op = "listtrash" -> ListTrashRequest(pol, q)
    [] q.op \in {"download", "range"} -> DownloadRequest(pol, q)
    [] q.op = "read" -> ReadTextRequest(pol, q)
    [] q.op = "save" -> SaveRequest(pol, q)
    [] q.op = "upload" -> UploadRequest(pol, q)
    [] q.op = "mkdir" -> CreateFolderRequest(pol, q)
    [] q.op = "rename" -> RenameRequest(pol, q)
    [] q.op = "move" -> MoveRequest(pol, q)
    [] q.op = "copy" -> CopyRequest(pol, q)
    [] q.op = "chmod" -> ChmodRequest(pol, q)
    [] q.op = "trash" -> MoveToTrashRequest(pol, q)
    [] q.op = "restore" -> RestoreRequest(pol, q)
    [] q.op \in {"delete", "purge"} -> DeleteRequest(pol, q)
    [] q.op = "zip" -> CompressZipRequest(pol, q)
    [] q.op = "targz" -> CompressTarGzRequest(pol, q)
    [] q.op = "extract" -> ExtractRequest(pol, q)
    [] q.op = "quota" -> "ok"

-----------------------------------------------------------------------------
(* ws/dispatch.rs: a request is decoded and handled with the configuration    *)
(* that is served at that moment.                                             *)

Answered(r, res) == [req EXCEPT ![r].pc = "done", ![r].res = res]

\* A text is read or saved after the file's metadata was asked for.
FirstCall(op) == IF op \in {"read", "save"} THEN "stat" ELSE "sent"

Dispatched(r, q) ==
  LET decided == ServerDecides(served, q)
  IN  /\ req[r].pc \in {"idle", "done"}
      /\ asked < wl.asks
      /\ asked' = asked + 1
      /\ req' = [req EXCEPT ![r] = [Idle EXCEPT !.pc = IF decided = "ok" THEN FirstCall(q.op) ELSE "done",
                                                !.q = q, !.snap = served, !.res = decided]]
      /\ UNCHANGED <<wl, tree, trash, conf, lock>>

Asked(r, ops) ==
  \E q \in {x \in wl.queries : x.op \in ops} : Dispatched(r, q) /\ UNCHANGED <<tab, fresh>>

AskRead(r) == Asked(r, {"list", "stat", "download", "range", "read", "quota"})
AskSearch(r) == Asked(r, {"search"})
AskArchive(r) == Asked(r, {"chmod", "zip", "targz", "extract"})
AskChange(r) == Asked(r, {"mkdir", "rename", "move", "copy"})

\* An upload that was staged whole is published; its content is new.
AskUpload(r) ==
  \E q \in {x \in wl.queries : x.op = "upload"} :
    /\ Dispatched(r, [q EXCEPT !.atom = fresh])
    /\ fresh' = fresh + 1
    /\ UNCHANGED tab

\* An editor saves new text over what it shows, by the revision it was given,
\* by the modification time, or without either.
AskSave(r) ==
  \E q \in {x \in wl.queries : x.op = "save"} :
    /\ q.by # "none" => tab[r].path = q.path
    /\ Dispatched(r, [q EXCEPT !.atom = fresh, !.tok = IF q.by = "none" THEN Nothing ELSE tab[r].node])
    /\ fresh' = fresh + 1
    /\ UNCHANGED tab

\* The entries of the trash are named by their identifiers.
AskTrash(r) ==
  \/ Asked(r, {"trash", "delete", "listtrash"})
  \/ \E q \in {x \in wl.queries : x.op \in {"restore", "purge"}}, id \in DOMAIN trash :
       Dispatched(r, [q EXCEPT !.id = id]) /\ UNCHANGED <<tab, fresh>>

\* The metadata is answered by the helper under its own decision; the server
\* goes on unless the file is a directory, sensitive or not the one expected.
Statted(r) ==
  LET q   == req[r].q
      pol == Restrict(req[r].snap, Ceiling)
      s   == First(<< Authorize(Query("stat", q.path, NoPath), pol), Found(tree, q.path) >>)
      unexpected == q.by = "modified" /\ tree[q.path] # q.tok
      res == IF s = "notfound" THEN (IF q.op = "read" \/ q.by = "modified" THEN "notfound" ELSE "ok")
             ELSE First(<< s, DeniedIf(IsDir(tree, q.path) \/ Sensitive(pol, q.path)),
                           IF unexpected THEN "conflict" ELSE "ok" >>)
  IN  /\ req[r].pc = "stat"
      /\ req' = IF res = "ok" THEN [req EXCEPT ![r].pc = "sent"] ELSE Answered(r, res)
      /\ UNCHANGED <<wl, tree, trash, conf, lock, tab, fresh, asked>>

-----------------------------------------------------------------------------
(* helper/ipc.rs: the supervisor.  What it answers releases the lock. *)

Released(r) == IF lock = r THEN NoReq ELSE lock

\* An answer: a result, the paths it names and the contents it carries.
Answers(r, res, names, atoms) ==
  /\ req' = [req EXCEPT ![r].pc = "done", ![r].res = res, ![r].names = names, ![r].atoms = atoms,
                        ![r].stage = NoStage, ![r].way = {}]
  /\ lock' = Released(r)
  /\ UNCHANGED <<wl, conf, asked>>

Refuses(r, res) == Answers(r, res, {}, {}) /\ UNCHANGED <<tree, trash, tab, fresh>>

\* The request is decided under the policy both sides allow.
Admits(r) ==
  LET pol == Restrict(req[r].snap, Ceiling)
      res == Authorize(req[r].q, pol)
      pc  == IF res # "ok" THEN "done" ELSE IF req[r].q.op \in Reads THEN "work" ELSE "queued"
  IN  /\ req[r].pc = "sent"
      /\ req' = [req EXCEPT ![r].pc = pc, ![r].res = res, ![r].pol = pol, ![r].ceil = Ceiling]
      /\ UNCHANGED <<wl, tree, trash, conf, lock, tab, fresh, asked>>

LockedPolicyAsAdmitted(r) == req[r].pol

\* With a grant the policy of a change is the one loaded while the lock is held;
\* with a ticket it stays the one of admission.
LockedPolicy(r) == IF wl.grants THEN Restrict(req[r].snap, Ceiling) ELSE req[r].pol

\* What was loaded again is decided again; a refusal has no typed answer.
Locks(r) ==
  LET pol     == LockedPolicy(r)
      refused == wl.grants /\ Authorize(req[r].q, pol) # "ok"
  IN  /\ req[r].pc = "queued" /\ lock = NoReq
      /\ \/ refused /\ Refuses(r, "failed")
         \/ /\ ~refused
            /\ lock' = r
            /\ req' = [req EXCEPT ![r].pc = "work", ![r].pol = pol,
                                  ![r].ceil = IF wl.grants THEN Ceiling ELSE @]
            /\ UNCHANGED <<wl, tree, trash, conf, tab, fresh, asked>>

\* The tree a move or a deletion takes with it; a trash entry is judged by the
\* place it came from.
Preflight(q, pol) ==
  CASE q.op \in Carries -> PreflightTree(pol, q.path, "move", q.target, SuffixesAt(tree, q.path) \cup {<<>>})
    [] q.op \in {"trash", "delete"} ->
         PreflightTree(pol, q.path, "delete", NoPath, SuffixesAt(tree, q.path) \cup {<<>>})
    [] q.op = "purge" ->
         IF q.id \in DOMAIN trash
         THEN PreflightTree(pol, trash[q.id].orig, "delete", NoPath, DOMAIN trash[q.id].nodes)
         ELSE "notfound"
    [] OTHER -> "ok"

WorkerDecides(q, pol) ==
  First(<< AccessAuthorize(q, pol), Preflight(q, pol), PolicyAuthorize(q, pol), FeatureOn(q, pol) >>)

Working(r, op) == req[r].pc = "work" /\ req[r].q.op = op /\ WorkerDecides(req[r].q, req[r].pol) = "ok"

WorkerRefuses(r) ==
  /\ req[r].pc = "work"
  /\ WorkerDecides(req[r].q, req[r].pol) # "ok"
  /\ Refuses(r, WorkerDecides(req[r].q, req[r].pol))

-----------------------------------------------------------------------------
(* helper/*.rs: the workers that read. *)

Reports(r, res, names, atoms) ==
  \/ res # "ok" /\ Refuses(r, res)
  \/ res = "ok" /\ Answers(r, "ok", names, atoms) /\ UNCHANGED <<tree, trash, tab, fresh>>

Shown(pol, p) == Permits(pol, p, "discover") /\ (pol.hid \/ ~Hidden(p))

Lists(r) ==
  LET q == req[r].q
  IN  /\ Working(r, "list")
      /\ Reports(r, First(<< Found(tree, q.path), IF IsDir(tree, q.path) THEN "ok" ELSE "invalid" >>),
                 {c \in Children(tree, q.path) : Shown(req[r].pol, c)}, {})

Stats(r) ==
  /\ Working(r, "stat")
  /\ Reports(r, Found(tree, req[r].q.path), {req[r].q.path}, {})

Searches(r) ==
  LET q == req[r].q
  IN  /\ Working(r, "search")
      /\ Reports(r, Found(tree, q.path),
                 {x \in Paths : Below(x, q.path) /\ Exists(tree, x) /\ Shown(req[r].pol, x)}, {})

ReadResult(t, p) == First(<< Found(t, p), IF IsFile(t, p) THEN "ok" ELSE "invalid" >>)

Downloads(r) ==
  LET q == req[r].q
  IN  /\ Working(r, "download") \/ Working(r, "range")
      /\ Reports(r, ReadResult(tree, q.path), {q.path}, AtomsOf(tree[q.path]))

\* The text comes with the revision of the file, which the editor keeps.
ReadsText(r) ==
  LET q   == req[r].q
      res == ReadResult(tree, q.path)
  IN  /\ Working(r, "read")
      /\ Answers(r, res, IF res = "ok" THEN {q.path} ELSE {}, IF res = "ok" THEN AtomsOf(tree[q.path]) ELSE {})
      /\ tab' = IF res = "ok" THEN [tab EXCEPT ![r] = [path |-> q.path, node |-> tree[q.path]]] ELSE tab
      /\ UNCHANGED <<tree, trash, fresh>>

ListedTrash(pol) == {id \in DOMAIN trash : Permits(pol, trash[id].orig, "discover")}

ListsTrash(r) ==
  /\ Working(r, "listtrash")
  /\ Reports(r, "ok", {trash[id].orig : id \in ListedTrash(req[r].pol)}, {})

Measures(r) == Working(r, "quota") /\ Reports(r, "ok", {}, {})

-----------------------------------------------------------------------------
(* The workers that change the tree at once. *)

Changes(r, res, newTree) ==
  \/ res # "ok" /\ Refuses(r, res)
  \/ /\ res = "ok"
     /\ Answers(r, "ok", {}, {})
     /\ tree' = newTree
     /\ UNCHANGED <<trash, tab, fresh>>

MakesFolder(r) ==
  LET q == req[r].q
  IN  /\ Working(r, "mkdir")
      /\ Changes(r, NewName(tree, q.target), [tree EXCEPT ![q.target] = Folder])

MovedTop(t, p, target) == [t EXCEPT ![p] = Nothing, ![target] = t[p]]

\* A rename or a move: refused if the target exists, lies in the source or has no directory.
Moved(t, p, target) == Grafted(Pruned(t, p), target, Subtree(t, p))

MoveResult(t, p, target) ==
  First(<< Found(t, p), IF p = <<>> THEN "invalid" ELSE "ok", NewName(t, target),
           IF Below(target, p) \/ ~Fits(target, SuffixesAt(t, p)) THEN "invalid" ELSE "ok" >>)

Renames(r) ==
  LET q == req[r].q
  IN  Working(r, "rename") /\ Changes(r, MoveResult(tree, q.path, q.target), Moved(tree, q.path, q.target))

Moves(r) ==
  LET q == req[r].q
  IN  Working(r, "move") /\ Changes(r, MoveResult(tree, q.path, q.target), Moved(tree, q.path, q.target))

Deletes(r) ==
  LET q == req[r].q
  IN  /\ Working(r, "delete")
      /\ Changes(r, First(<< IF q.path = <<>> THEN "invalid" ELSE "ok", Found(tree, q.path) >>), Pruned(tree, q.path))

Chmods(r) ==
  LET q == req[r].q
  IN  /\ Working(r, "chmod")
      /\ Changes(r, First(<< DeniedIf(q.path = <<>> \/ (req[r].pol.web /\ q.mode = "exec")),
                             Found(tree, q.path), DeniedIf(q.mode = "setid") >>),
                 [tree EXCEPT ![q.path].mode = q.mode])

Trashes(r) ==
  LET q   == req[r].q
      res == First(<< Found(tree, q.path), IF q.path = <<>> THEN "invalid" ELSE "ok" >>)
  IN  /\ Working(r, "trash")
      /\ \/ res # "ok" /\ Refuses(r, res)
         \/ /\ res = "ok"
            /\ Answers(r, "ok", {q.path}, {})
            /\ trash' = [id \in DOMAIN trash \cup {fresh} |->
                           IF id = fresh THEN [orig |-> q.path, nodes |-> Subtree(tree, q.path)] ELSE trash[id]]
            /\ tree' = Pruned(tree, q.path)
            /\ fresh' = fresh + 1
            /\ UNCHANGED tab

Without(id) == [i \in DOMAIN trash \ {id} |-> trash[i]]

\* An entry goes back where it came from, if the whole of it may be written there.
RestoreResult(pol, e) ==
  First(<< Check(pol, e.orig, "write"), IF Exists(tree, e.orig) THEN "exists" ELSE "ok",
           PreflightTree(pol, e.orig, "write", NoPath, DOMAIN e.nodes), NewName(tree, e.orig) >>)

Restores(r) ==
  LET id  == req[r].q.id
      res == IF id \in DOMAIN trash THEN RestoreResult(req[r].pol, trash[id]) ELSE "notfound"
  IN  /\ Working(r, "restore")
      /\ \/ res # "ok" /\ Refuses(r, res)
         \/ /\ res = "ok"
            /\ Answers(r, "ok", {}, {})
            /\ tree' = Grafted(tree, trash[id].orig, trash[id].nodes)
            /\ trash' = Without(id)
            /\ UNCHANGED <<tab, fresh>>

Purges(r) ==
  /\ Working(r, "purge")
  /\ Answers(r, "ok", {}, {})
  /\ trash' = Without(req[r].q.id)
  /\ UNCHANGED <<tree, tab, fresh>>

-----------------------------------------------------------------------------
(* helper/transaction.rs: a file or a tree is made under a private name next *)
(* to its destination, checked again and renamed into place.                 *)

Transactions == {"save", "upload", "copy", "extract"} \cup Archives

Destination(q) == IF q.op = "save" THEN q.path ELSE q.target

RevisionMatchesAnyText(pol, q) == q.by # "revision" \/ IsFile(tree, q.path) = (q.tok # Nothing)

\* The editor's revision is the file as it was read, or that it was missing.
RevisionMatches(pol, q) ==
  \/ q.by # "revision"
  \/ q.tok = Nothing /\ ~Exists(tree, q.path)
  \/ q.tok # Nothing /\ tree[q.path] = q.tok /\ Permits(pol, q.path, "read")

\* `way' are the directories of a staged tree that nobody was asked about.
Stages(r, res, sub, way, newTree) ==
  \/ res # "ok" /\ Answers(r, res, {}, {}) /\ tree' = newTree /\ UNCHANGED <<trash, tab, fresh>>
  \/ /\ res = "ok"
     /\ req' = [req EXCEPT ![r].pc = "staged", ![r].stage = sub, ![r].way = way]
     /\ tree' = newTree
     /\ UNCHANGED <<wl, trash, conf, lock, tab, fresh, asked>>

One(node) == [s \in {<<>>} |-> node]
InDirectory(p) == IF p # <<>> /\ IsDir(tree, Parent(p)) THEN "ok" ELSE "notfound"

StagesText(r) ==
  LET q == req[r].q
  IN  /\ Working(r, "save")
      /\ Stages(r, First(<< IF RevisionMatches(req[r].pol, q) THEN "ok" ELSE "conflict", InDirectory(q.path) >>),
                One(Plain(q.atom)), {}, tree)

StagesUpload(r) ==
  LET q == req[r].q
  IN  Working(r, "upload") /\ Stages(r, InDirectory(q.target), One(Plain(q.atom)), {}, tree)

StagesCopy(r) ==
  LET q == req[r].q
  IN  /\ Working(r, "copy")
      /\ Stages(r, First(<< ReadResult(tree, q.path), InDirectory(q.target) >>), One(File(tree[q.path].data)), {}, tree)

TakenWhateverIsRead(pol, p) == Permits(pol, p, "discover") /\ ~Sensitive(pol, p)

\* What an archive takes of a tree: a name it may not show, read or publish is
\* left out with all that is below it.
Taken(pol, p) == Permits(pol, p, "discover") /\ Permits(pol, p, "read") /\ ~Sensitive(pol, p) /\ (pol.hid \/ ~Hidden(p))

Carried(pol, p) ==
  {s \in SuffixesAt(tree, p) : \A n \in 1..Len(s) : Taken(pol, p \o SubSeq(s, 1, n))}

Entries(pol, p) ==
  UNION {LET at == <<NameOf(p)>> \o s
         IN  IF IsDir(tree, p \o s) THEN {<<at, Dir>>} ELSE {<<at, a>> : a \in AtomsOf(tree[p \o s])}
         : s \in Carried(pol, p)}

CompressZip(r) ==
  LET q == req[r].q
  IN  Working(r, "zip") /\ Stages(r, First(<< Found(tree, q.path), InDirectory(q.target) >>),
                                  One(File(Entries(req[r].pol, q.path))), {}, tree)
CompressTarGz(r) ==
  LET q == req[r].q
  IN  Working(r, "targz") /\ Stages(r, First(<< Found(tree, q.path), InDirectory(q.target) >>),
                                    One(File(Entries(req[r].pol, q.path))), {}, tree)

\* Unpacking makes the directories that lead to its destination first.  Each
\* entry must be writable where it will be; the first that is not ends it.
Ancestors(p) == {SubSeq(p, 1, n) : n \in 1..(Len(p) - 1)}
WithParents(t, p) == [x \in Paths |-> IF x \in Ancestors(p) /\ ~Exists(t, x) THEN Folder ELSE t[x]]

EntryRefused(pol, p, s) ==
  First(<< DeniedIf(~pol.hid /\ Hidden(s)), Check(pol, p \o s, "write"), DeniedIf(Sensitive(pol, p \o s)) >>)

\* What an archive lists, its directories, and what lies above an entry.
Listed(data) == {d[1] : d \in data}
Directories(data) == {d[1] : d \in {e \in data : e[2] = Dir}}
Above(data) == UNION {Ancestors(s) : s \in Listed(data)}

\* A file that is also a directory cannot be made.
Tangled(data) == \E d \in data : d[2] # Dir /\ d[1] \in Directories(data) \cup Above(data)

Unpacked(data) ==
  [s \in Listed(data) \cup Above(data) \cup {<<>>} |->
     IF s \in Directories(data) \cup Above(data) \cup {<<>>} THEN Folder
     ELSE File({<< <<>>, d[2]>> : d \in {e \in data : e[1] = s}})]

UnpackStarts(q) ==
  First(<< Found(tree, q.path),
           IF q.target = <<>> \/ \E x \in Ancestors(q.target) : IsFile(tree, x) THEN "invalid" ELSE "ok" >>)

\* `way' are the directories made for the entries below them; faults end it.
Unpacks(r, names, way, faults) ==
  LET q       == req[r].q
      data    == tree[q.path].data
      refused == ({EntryRefused(req[r].pol, q.target, s) : s \in Listed(data)} \ {"ok"}) \cup faults
      broken  == ~IsFile(tree, q.path) \/ <<>> \in Listed(data) \/ ~Fits(q.target, Listed(data))
  IN  /\ Working(r, "extract")
      /\ NameOf(q.path) \in names
      /\ UnpackStarts(q) = "ok"
      /\ \/ broken /\ Stages(r, "invalid", NoStage, {}, WithParents(tree, q.target))
         \/ ~broken /\ \E res \in refused : Stages(r, res, NoStage, {}, WithParents(tree, q.target))
         \/ ~broken /\ refused = {} /\ Stages(r, "ok", Unpacked(data), way, WithParents(tree, q.target))

\* create_dir_all: a zip may leave out the directories of its entries.
ExtractZip(r) ==
  LET data == tree[req[r].q.path].data
  IN  Unpacks(r, ZipNames, Above(data) \ Listed(data), IF Tangled(data) THEN {"exists", "failed"} ELSE {})

\* unpack: the directory of an entry must be there.
ExtractTar(r) ==
  LET data == tree[req[r].q.path].data
  IN  Unpacks(r, TarNames, {}, IF Tangled(data) \/ ~(Above(data) \subseteq Listed(data)) THEN {"failed"} ELSE {})

\* No source, a file in the way, or a name that is not an archive's.
ExtractFails(r) ==
  LET q == req[r].q
  IN  /\ Working(r, "extract")
      /\ \/ UnpackStarts(q) # "ok" /\ Refuses(r, UnpackStarts(q))
         \/ /\ UnpackStarts(q) = "ok"
            /\ NameOf(q.path) \notin ZipNames \cup TarNames
            /\ Stages(r, "invalid", NoStage, {}, WithParents(tree, q.target))

\* The caller left before the publication.
Cancels(r) ==
  /\ "cancel" \in wl.events
  /\ req[r].pc = "staged"
  /\ Refuses(r, "denied")

Rechecks(r) ==
  /\ req[r].pc = "staged"
  /\ \/ ~RevisionMatches(req[r].pol, req[r].q) /\ Refuses(r, "conflict")
     \/ /\ RevisionMatches(req[r].pol, req[r].q)
        /\ req' = [req EXCEPT ![r].pc = "vetted"]
        /\ UNCHANGED <<wl, tree, trash, conf, lock, tab, fresh, asked>>

\* A save replaces the file and keeps its mode; nothing else replaces anything.
PublishResult(q) ==
  IF q.op = "save" THEN First(<< InDirectory(q.path), IF IsDir(tree, q.path) THEN "invalid" ELSE "ok" >>)
  ELSE NewName(tree, q.target)

Publishes(r) ==
  LET q    == req[r].q
      kept == IF q.op = "save" THEN One([req[r].stage[<<>>] EXCEPT !.mode = tree[q.path].mode]) ELSE req[r].stage
  IN  /\ req[r].pc = "vetted"
      /\ Changes(r, PublishResult(q), Grafted(tree, Destination(q), kept))

-----------------------------------------------------------------------------
(* The owner works on the files directly. *)

OwnerWrites ==
  /\ "owner" \in wl.events
  /\ fresh < wl.contents
  /\ \E p \in wl.owned :
       /\ IsDir(tree, Parent(p)) /\ ~IsDir(tree, p)
       /\ tree' = [tree EXCEPT ![p] = Plain(-fresh)]
  /\ fresh' = fresh + 1
  /\ UNCHANGED <<wl, trash, conf, lock, req, tab, asked>>

(* config.rs, runtime_settings.rs, admin/api.rs: the configuration changes. *)

Configured(newRoot, newStored, newPanel, newServed, newPatch) ==
  /\ root' = newRoot /\ stored' = newStored /\ panel' = newPanel
  /\ served' = newServed /\ patch' = newPatch
  /\ UNCHANGED <<wl, tree, trash, lock, req, tab, fresh, asked>>

\* `allowed' remembers the features the root file had since the patch began.
NoPatch == [pc |-> "idle", feats |-> {}, save |-> FALSE, allowed |-> {}]

RootEdits ==
  \E c \in wl.roots \ {root} :
    Configured(c, stored, panel, served, [patch EXCEPT !.allowed = IF patch.pc = "idle" THEN {} ELSE @ \cup c.feats])

RulesStored == \E s \in wl.stores \ {stored} : Configured(root, s, panel, served, patch)

\* The saved settings are applied over the root file; what exceeds it fails.
Effective(base, saved) == IF saved = NoPanel THEN base ELSE [base EXCEPT !.feats = saved]
WithinRoot(c, base) == c.feats \subseteq base.feats /\ [c EXCEPT !.feats = base.feats] = base

Reloads ==
  LET c == Effective(root, panel)
  IN  /\ "reload" \in wl.events
      /\ patch.pc = "idle"
      /\ WithinRoot(c, root)
      /\ Configured(root, stored, panel, c, patch)

\* A patch holds the configuration's lock: it starts from what is served, is
\* checked against the root file as it is then, saved and served.
PatchBegins ==
  /\ "patch" \in wl.events
  /\ patch.pc = "idle"
  /\ \E on \in SUBSET wl.feats, save \in BOOLEAN :
       Configured(root, stored, panel, served,
                  [pc |-> "begun", feats |-> (served.feats \ wl.feats) \cup on, save |-> save, allowed |-> root.feats])

ValidRuntimeFeaturesUnread(c) == [c EXCEPT !.feats = root.feats] = root

\* validate_runtime in a split configuration; an installation with a single
\* configuration file has no ceiling.
ValidRuntime(c) == WithinRoot(c, root)

PatchChecks ==
  LET c == [served EXCEPT !.feats = patch.feats]
  IN  /\ patch.pc = "begun"
      /\ Configured(root, stored, panel, served, IF ValidRuntime(c) THEN [patch EXCEPT !.pc = "valid"] ELSE NoPatch)

\* Saving checks once more.
PatchStores ==
  LET c == [served EXCEPT !.feats = patch.feats]
  IN  /\ patch.pc = "valid"
      /\ IF patch.save /\ ~ValidRuntime(c) THEN Configured(root, stored, panel, served, NoPatch)
         ELSE Configured(root, stored, IF patch.save THEN c.feats ELSE panel, c, NoPatch)

-----------------------------------------------------------------------------
(* What a run starts from and is asked: trees in which everything lies in a  *)
(* directory, rules of the account that stay stored throughout, requests as  *)
(* the handlers build them, and contents that are told apart by their atoms. *)

Nodes == {n \in [kind : {"none", "dir", "file"}, data : SUBSET (Seq(STRING) \X Int), mode : Modes] :
            /\ n.kind # "file" => n.data = {}
            /\ n.kind = "none" => n = Nothing}

IsTree(sub) ==
  \A s \in DOMAIN sub :
    /\ s \in Seq(STRING) /\ sub[s] \in Nodes
    /\ \A n \in 0..(Len(s) - 1) : SubSeq(s, 1, n) \in DOMAIN sub /\ sub[SubSeq(s, 1, n)].kind = "dir"

Entry(e) == e.orig \in Paths \ {<<>>} /\ IsTree(e.nodes)

TwoPaths == Creates \cup Carries \cup Archives \cup {"copy", "extract"}

Queries == [op : Ops, path : Paths \cup {NoPath}, target : Paths \cup {NoPath}, id : Int,
            by : {"none", "revision", "modified"}, tok : Nodes, atom : Nat, mode : Modes]

IsQuery(q) ==
  /\ q \in Queries
  /\ q.path = NoPath <=> q.op \in {"restore", "purge"}
  /\ q.target = NoPath <=> q.op \notin TwoPaths
  /\ q.op \in Creates => q.target # <<>> /\ Parent(q.target) = q.path
  /\ q.op \in {"listtrash", "quota"} => q.path = <<>>

IsWorkload(w) ==
  /\ DOMAIN w.tree \subseteq Paths /\ IsTree(w.tree)
  /\ <<>> \in DOMAIN w.tree /\ w.tree[<<>>].kind = "dir"
  /\ \A id \in DOMAIN w.trash : id \in Int /\ Entry(w.trash[id])
  /\ w.roots \subseteq Policies(STRING)
  /\ w.floor \subseteq Rules(STRING)
  /\ w.grants \in BOOLEAN
  /\ \A s \in w.stores : s \subseteq Rules(STRING)
  /\ IF w.grants THEN \A s \in w.stores : w.floor \subseteq s ELSE \A c \in w.roots : w.floor \subseteq c.rules
  /\ \A q \in w.queries : IsQuery(q)
  /\ w.owned \subseteq Paths \ {<<>>} /\ w.feats \subseteq Features
  /\ w.fresh \in Nat \ {0}
  /\ \A p \in DOMAIN w.tree : \A d \in w.tree[p].data : d[2] \in 0..(w.fresh - 1)
  /\ \A p, x \in DOMAIN w.tree : p # x => AtomsOf(w.tree[p]) \cap AtomsOf(w.tree[x]) = {}
  /\ \A id \in DOMAIN w.trash, p \in DOMAIN w.tree : \A s \in DOMAIN w.trash[id].nodes :
       AtomsOf(w.trash[id].nodes[s]) \cap AtomsOf(w.tree[p]) = {}

ASSUME FilesConstants ==
  /\ NoReq \notin Reqs
  /\ Paths \subseteq Seq(STRING) /\ <<>> \in Paths /\ NoPath \notin Paths
  /\ \A p \in Paths : \A n \in 0..Len(p) : SubSeq(p, 1, n) \in Paths
  /\ \A w \in Workloads : IsWorkload(w)

-----------------------------------------------------------------------------
Init ==
  /\ wl \in Workloads
  /\ tree = [p \in Paths |-> IF p \in DOMAIN wl.tree THEN wl.tree[p] ELSE Nothing]
  /\ trash = wl.trash
  /\ root \in wl.roots
  /\ stored \in wl.stores
  /\ panel = NoPanel
  /\ served = root
  /\ patch = NoPatch
  /\ lock = NoReq
  /\ req = [r \in Reqs |-> Idle]
  /\ tab = [r \in Reqs |-> NoTab]
  /\ fresh = wl.fresh
  /\ asked = 0

Asks(r) == \/ AskRead(r) \/ AskSearch(r) \/ AskChange(r) \/ AskTrash(r)
           \/ AskArchive(r) \/ AskSave(r) \/ AskUpload(r)

Supervises(r) == Statted(r) \/ Admits(r) \/ Locks(r) \/ WorkerRefuses(r)

Reading(r) == Lists(r) \/ Stats(r) \/ Searches(r) \/ Downloads(r) \/ ReadsText(r) \/ ListsTrash(r) \/ Measures(r)

Changing(r) == \/ MakesFolder(r) \/ Renames(r) \/ Moves(r) \/ Deletes(r) \/ Chmods(r)
               \/ Trashes(r) \/ Restores(r) \/ Purges(r)

Staging(r) == \/ StagesText(r) \/ StagesUpload(r) \/ StagesCopy(r) \/ CompressZip(r) \/ CompressTarGz(r)
              \/ ExtractZip(r) \/ ExtractTar(r) \/ ExtractFails(r)
              \/ Cancels(r) \/ Rechecks(r) \/ Publishes(r)

Configures == RootEdits \/ RulesStored \/ Reloads \/ PatchBegins \/ PatchChecks \/ PatchStores

Next ==
  \/ \E r \in Reqs : Asks(r) \/ Supervises(r) \/ Reading(r) \/ Changing(r) \/ Staging(r)
  \/ OwnerWrites
  \/ Configures

Spec == Init /\ [][Next]_vars

-----------------------------------------------------------------------------
(* Properties. *)

Results == {"ok", "notfound", "denied", "exists", "invalid", "conflict", "failed"}

IsNode(n) == n.kind \in {"none", "dir", "file"} /\ n.mode \in Modes /\ (n.kind # "file" => n.data = {})

\* The variables have their types; everything in the tree lies in a directory, a
\* trash entry holds a tree, and the lock is held by a request in its worker.
TypeOK ==
  /\ \A p \in Paths : IsNode(tree[p]) /\ (Exists(tree, p) /\ p # <<>> => IsDir(tree, Parent(p)))
  /\ \A id \in DOMAIN trash :
       /\ trash[id].orig \in Paths \ {<<>>}
       /\ \A s \in DOMAIN trash[id].nodes :
            s # <<>> => Parent(s) \in DOMAIN trash[id].nodes /\ trash[id].nodes[Parent(s)].kind = "dir"
  /\ lock \in Reqs \cup {NoReq}
  /\ \A r \in Reqs :
       /\ req[r].pc \in {"idle", "stat", "sent", "queued", "work", "staged", "vetted", "done"}
       /\ req[r].res \in Results
       /\ (req[r].pc \in {"staged", "vetted"} \/ (req[r].pc = "work" /\ req[r].q.op \in Writes)) <=> lock = r
  /\ served.feats \subseteq Features

\* The rules that are in force throughout a run.
Floor == [NoPolicy EXCEPT !.rules = wl.floor]
Unreadable(p) == ~Permits(Floor, p, "read")
Secrets == UNION {AtomsOf(wl.tree[p]) : p \in {x \in DOMAIN wl.tree : Unreadable(x)}}

\* What a rule forbids the user to read is never in an answer, and no sequence of
\* moves, copies, archives and restores brings it to a path where it may be read.
UnreadableStaysUnread ==
  /\ \A r \in Reqs : req[r].atoms \cap Secrets = {}
  /\ \A p \in Paths : AtomsOf(tree[p]) \cap Secrets # {} => Unreadable(p)
  /\ \A id \in DOMAIN trash : \A s \in DOMAIN trash[id].nodes :
       AtomsOf(trash[id].nodes[s]) \cap Secrets # {} => Unreadable(trash[id].orig \o s)

\* The paths that do not exist for the user.
Secluded(p) == p # NoPath /\ (HasName(p, Reserved) \/ Undiscoverable(wl.floor, p))

\* A policy without the rules that hide anything, and a denial that is given
\* without them too: it tells nothing of what they hide.
Blind(pol) == [pol EXCEPT !.rules = {x \in @ : "discover" \notin x.deny}]
DeniedAnyway(x) ==
  /\ x.res = "denied"
  /\ ServerDecides(Blind(x.snap), x.q) = "denied" \/ Authorize(x.q, Blind(x.pol)) = "denied"

AsIfMissing(x) == x.res = "notfound" \/ DeniedAnyway(x)

\* An undiscoverable path appears in no answer, and a request that names one is
\* answered NotFound, as if nothing were there, or by a denial that it would get
\* if nothing were hidden.  The name of a new folder is excepted, and listing
\* the trash and measuring the quota name no path.
HiddenStaysHidden ==
  \A r \in Reqs : req[r].pc = "done" =>
    /\ \A p \in req[r].names : ~Secluded(p)
    /\ (\/ Secluded(req[r].q.path) /\ req[r].q.op \notin {"listtrash", "quota"}
        \/ Secluded(req[r].q.target) /\ req[r].q.op # "mkdir")
         => AsIfMissing(req[r])

\* The same without the exception: what the documentation says of discover rules.
UndiscoverableDoesNotExist ==
  \A r \in Reqs :
    req[r].pc = "done" /\ (Secluded(req[r].q.path) \/ Secluded(req[r].q.target)) => AsIfMissing(req[r])

\* What a step of a request needs at a path it changes.
Needs(p, q) ==
  IF ~Exists(tree, p) THEN "write"
  ELSE IF ~Exists(tree', p) THEN (IF q.op \in Carries THEN "move" ELSE "delete")
  ELSE IF tree[p].data = tree'[p].data THEN "chmod" ELSE "write"

\* Left to findings: the name of a new folder, the directories an extraction
\* makes on the way to its destination, and those a zip does not list.
Excused(p, x) ==
  \/ x.q.op = "mkdir"
  \/ x.q.op = "extract" /\ p \in Ancestors(x.q.target) \cup {x.q.target \o s : s \in x.way}

\* Whatever a request changes, at its path and below it, was permitted there by
\* the snapshot it came with and by the root file and the stored rules as they
\* were when it got the lock (with a ticket: by the root file as it was when it
\* was admitted), and its operation was switched on and its root writable in both.
ChangesPermitted ==
  [][\A r \in Reqs : lock = r /\ req'[r] # req[r] /\ tree' # tree =>
       \A pol \in {req[r].snap, req[r].ceil} :
         /\ ~pol.ro
         /\ Feature(req[r].q.op) \subseteq pol.feats
         /\ \A p \in Paths : tree'[p] # tree[p] /\ ~Excused(p, req[r]) => Permits(pol, p, Needs(p, req[r].q))]_vars

\* A save by revision replaces only the text its editor showed: another editor's
\* save in between makes it fail.  (The owner, working directly, may lose.)
NoLostEdit ==
  [][\A r \in Reqs : req[r].pc = "vetted" /\ req[r].q.op = "save" /\ req[r].q.by = "revision"
                       /\ tree'[req[r].q.path] # tree[req[r].q.path] /\ req'[r].pc = "done" =>
       \/ tree[req[r].q.path] = req[r].q.tok
       \/ \A a \in AtomsOf(tree[req[r].q.path]) : a < 0]_vars

\* A patch serves no feature that the root file has had switched off ever since
\* the patch began.
RevokedStaysRevoked ==
  [][patch.pc = "valid" /\ served' # served => served'.feats \subseteq patch.allowed]_vars
=============================================================================
