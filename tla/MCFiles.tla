------------------------------ MODULE MCFiles -------------------------------
(* Small instances of Files for TLC. *)
EXTENDS Files, TLC

docs == <<"docs">>
a    == <<"docs", "a">>
key  == <<"docs", "key">>
box  == <<"box">>
zip  == <<"z.zip">>
tar  == <<"t.tgz">>

MCPaths == {<<>>, docs, a, key, box, zip, tar, <<"box", "a">>, <<"box", "key">>,
            <<"box", "docs">>, <<"box", "docs", "a">>, <<"box", "docs", "key">>}

Rule(path, rec, deny) == [path |-> path, rec |-> rec, deny |-> deny]

Start == (<<>> :> Folder) @@ (docs :> Folder) @@ (a :> Plain(1)) @@ (key :> Plain(2))

Work == [tree |-> Start, trash |-> [id \in {} |-> {}], roots |-> {NoPolicy}, stores |-> {{}}, floor |-> {},
         grants |-> TRUE, queries |-> {}, events |-> {}, owned |-> {}, feats |-> {}, asks |-> 2, contents |-> 12, fresh |-> 10]

\* A file that may be seen, moved away and deleted but not read: can its
\* content be brought anywhere by several requests?
NoRead == {Rule(key, FALSE, {"read"})}
Carrying == [Work EXCEPT
  !.stores = {NoRead}, !.floor = NoRead, !.asks = 4,
  !.queries = {Query("rename", docs, box), Query("move", key, <<"box", "key">>), Query("copy", key, box),
               Query("trash", key, NoPath), Query("trash", docs, NoPath), Query("restore", NoPath, NoPath),
               Query("mkdir", <<>>, box), Query("zip", docs, zip), Query("extract", zip, box),
               Query("move", a, <<"box", "a">>),
               Query("download", key, NoPath), Query("download", zip, NoPath), Query("rename", box, docs)}]


\* A path that does not exist for the user, with something in the trash that
\* came from there.
Unseen == {Rule(key, FALSE, {"discover"})}
Ghost == 1 :> [orig |-> key, nodes |-> One(Plain(3))]
Secluding == [Work EXCEPT
  !.stores = {Unseen}, !.floor = Unseen, !.trash = Ghost, !.asks = 3,
  !.queries = {Query("list", docs, NoPath), Query("search", <<>>, NoPath), Query("stat", key, NoPath),
               Query("listtrash", <<>>, NoPath), Query("restore", NoPath, NoPath), Query("purge", NoPath, NoPath),
               Query("rename", a, key), Query("move", docs, box), Query("copy", a, key), Query("save", key, NoPath),
               Query("upload", docs, key), Query("trash", docs, NoPath), Query("mkdir", docs, key),
               Query("targz", docs, tar), Query("extract", tar, box), Query("range", key, NoPath),
               Query("quota", <<>>, NoPath), Query("delete", docs, NoPath),
               Query("stat", a, NoPath), Query("trash", a, NoPath)}]

\* Editors of one text, its owner, a change of its mode and its removal.
Saved(by) == [Query("save", a, NoPath) EXCEPT !.by = by]
Editing == [Work EXCEPT
  !.asks = 5, !.events = {"owner", "cancel"}, !.owned = {a},
  !.queries = {Query("read", a, NoPath), Saved("revision"), Saved("modified"), Saved("none")}]

Replacing == [Work EXCEPT
  !.asks = 4, !.events = {"cancel"},
  !.queries = {Query("read", a, NoPath), Saved("revision"), Query("trash", a, NoPath),
               Query("restore", NoPath, NoPath), Query("upload", docs, a), Query("copy", key, a),
               [Query("chmod", a, NoPath) EXCEPT !.mode = "exec"], Query("extract", a, <<"box", "a">>)}]

\* The root file and the stored rules change between the decisions on a request.
Narrow == [NoPolicy EXCEPT !.ro = TRUE]
Plainer == [NoPolicy EXCEPT !.feats = {}]
Guarded == {Rule(a, FALSE, {"write", "delete"}), Rule(box, TRUE, {"write"})}
Tightening == [Work EXCEPT
  !.roots = {NoPolicy, Plainer}, !.stores = {{}, Guarded}, !.events = {"reload"}, !.asks = 2,
  !.trash = 1 :> [orig |-> docs, nodes |-> (<<>> :> Folder) @@ (<<"a">> :> Plain(3))],
  !.queries = {Query("delete", docs, NoPath), Query("rename", docs, box), Query("save", a, NoPath),
               Query("restore", NoPath, NoPath), Query("zip", docs, zip), Query("extract", zip, box),
               [Query("chmod", a, NoPath) EXCEPT !.mode = "exec"]}]

\* ... or the root becomes read-only.
Freezing == [Tightening EXCEPT !.roots = {NoPolicy, Narrow}, !.stores = {{}}]

\* The same with a ticket: the rules are in the root file, and stay as admitted.
Ticketed == [Work EXCEPT
  !.grants = FALSE, !.roots = {NoPolicy, Narrow, [NoPolicy EXCEPT !.rules = Guarded]}, !.events = {"reload"},
  !.queries = {Query("delete", docs, NoPath), Query("rename", docs, box), Query("save", a, NoPath)}]

\* Archives that others made: directories that no entry lists, one of which may
\* not be written, and a file where another entry needs a directory.
Loose(atom) == {<< <<"docs", "a">>, atom>>}
Knotted(atom) == Loose(atom) \cup {<< <<"docs">>, atom + 1>>}
Unlisted == {Rule(<<"box", "docs">>, FALSE, {"write"})}
Opened(z, t) == [Work EXCEPT
  !.tree = Start @@ (zip :> File(z)) @@ (tar :> File(t)), !.stores = {{}, Unlisted},
  !.queries = {Query("extract", zip, box), Query("extract", tar, box), Query("mkdir", <<>>, box),
               Query("list", box, NoPath)}]

\* Names with a meaning: sensitive, hidden, executable, in a web root.
Strict == [NoPolicy EXCEPT !.web = TRUE, !.block = TRUE, !.sens = {"key"}, !.exe = {"a"}, !.hid = FALSE, !.up = FALSE]
Naming == [Work EXCEPT
  !.roots = {NoPolicy, Strict}, !.events = {"reload"}, !.asks = 1,
  !.queries = {Query(op, docs, p) : op \in {"upload", "mkdir"}, p \in {a, key}}
        \cup {Query(op, p, NoPath) : op \in {"read", "download", "trash", "save"}, p \in {a, key}}
        \cup {Query("copy", a, <<"box">>), Query("zip", docs, zip), Query("zip", docs, box),
              [Query("chmod", a, NoPath) EXCEPT !.mode = "setid"]}]

\* ... of which one is undiscoverable and refused for another reason too.
Shrouding == [Naming EXCEPT !.stores = {Unseen}, !.floor = Unseen]

\* The panel switches features while the operator edits the root file.
Panelling == [Work EXCEPT
  !.roots = {NoPolicy, [NoPolicy EXCEPT !.feats = {"save"}], [NoPolicy EXCEPT !.feats = {"chmod"}]},
  !.feats = {"save", "chmod"}, !.events = {"reload", "patch"}]

MCWorkloads == {Carrying, Secluding, Editing, Replacing, Tightening, Freezing, Ticketed,
                Opened(Loose(3), Loose(5)), Opened(Knotted(3), Knotted(5)), Naming, Shrouding, Panelling}
MCFolder == {Secluding}
Symmetry == Permutations(Reqs)
=============================================================================
