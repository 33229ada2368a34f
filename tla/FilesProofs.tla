---------------------------- MODULE FilesProofs -----------------------------
(***************************************************************************)
(* The properties of Files for every set of requests, paths and workloads. *)
(*                                                                         *)
(* The inductive invariant IInv has three parts: ConfInv (the policies are *)
(* policies, the rules that never change are in the ceiling, a patch in    *)
(* progress remembers every feature the root file had), ReqsInv (a change  *)
(* in its worker has the lock; an admitted request has the policy made of  *)
(* its snapshot and the ceiling it saw last; each part of what it staged   *)
(* may be written or is a directory its zip does not list) and FilesInv    *)
(* (the tree is a tree, and so is every trash entry).  NextStep says that  *)
(* it is kept, and that every step is of one of a few kinds: Opens,        *)
(* Supervised, ReadOnly, Alters, Prepares, OwnerStep, ConfigStep.  The     *)
(* theorems follow from those kinds alone, some with an invariant of their *)
(* own (EditInv, SecretInv, HiddenInv).                                    *)
(***************************************************************************)
EXTENDS Files, AccessProofs

-----------------------------------------------------------------------------
(* Paths.  A path is a sequence of names; Below is the proper-prefix order.  *)

LEMMA BelowFacts ==
  ASSUME NEW S, NEW x \in Seq(S), NEW y \in Seq(S), NEW z \in Seq(S)
  PROVE  /\ ~Below(x, x)
         /\ Below(x, y) /\ Below(y, z) => Below(x, z)
         /\ Below(x, y) /\ Below(x, z) => y = z \/ Below(y, z) \/ Below(z, y)
         /\ Below(x, y) <=> \E n \in 0..(Len(x) - 1) : y = SubSeq(x, 1, n)
<1>1. ASSUME NEW u \in Seq(S), NEW v \in Seq(S)
      PROVE  Below(u, v) <=> Len(v) < Len(u) /\ \A i \in 1..Len(v) : u[i] = v[i]
  <2>1. Len(v) <= Len(u) => SubSeq(u, 1, Len(v)) \in Seq(S) /\ Len(SubSeq(u, 1, Len(v))) = Len(v)
           /\ \A i \in 1..Len(v) : SubSeq(u, 1, Len(v))[i] = u[i]
    OBVIOUS
  <2>2. QED
    BY <2>1 DEF Below
<1>2. ~Below(x, x)
  BY DEF Below
<1>3. Below(x, y) /\ Below(y, z) => Below(x, z)
  BY <1>1
<1>4. Below(x, y) /\ Below(x, z) => y = z \/ Below(y, z) \/ Below(z, y)
  BY <1>1
<1>5. Below(x, y) <=> \E n \in 0..(Len(x) - 1) : y = SubSeq(x, 1, n)
  <2>1. ASSUME NEW n \in 0..(Len(x) - 1), y = SubSeq(x, 1, n) PROVE Below(x, y)
    BY <2>1 DEF Below
  <2>2. ASSUME Below(x, y) PROVE \E n \in 0..(Len(x) - 1) : y = SubSeq(x, 1, n)
    <3>1. Len(y) \in Nat /\ Len(x) \in Nat /\ Len(y) < Len(x) /\ SubSeq(x, 1, Len(y)) = y
      BY <2>2 DEF Below
    <3>2. Len(y) \in 0..(Len(x) - 1)
      BY <3>1
    <3>3. QED
      BY <3>1, <3>2
  <2>3. QED
    BY <2>1, <2>2
<1>6. QED
  BY <1>2, <1>3, <1>4, <1>5

LEMMA ParentFacts ==
  ASSUME NEW S, NEW x \in Seq(S), x # <<>>
  PROVE  /\ Parent(x) \in Seq(S) /\ Below(x, Parent(x))
         /\ \A y \in Seq(S) : Below(x, y) => AtOrBelow(Parent(x), y)
<1>1. Len(x) \in Nat /\ Len(x) # 0
  OBVIOUS
<1>2. Parent(x) \in Seq(S) /\ Len(Parent(x)) = Len(x) - 1
  <2>1. PICK n \in Nat : n = Len(x) - 1
    BY <1>1
  <2>2. SubSeq(x, 1, n) \in Seq(S) /\ Len(SubSeq(x, 1, n)) = n
    BY <2>1
  <2>3. QED
    BY <2>1, <2>2 DEF Parent
<1>3. Below(x, Parent(x))
  <2>1. Len(Parent(x)) < Len(x) /\ SubSeq(x, 1, Len(Parent(x))) = Parent(x)
    BY <1>1, <1>2 DEF Parent
  <2>2. QED
    BY <2>1 DEF Below
<1>4. ASSUME NEW y \in Seq(S), Below(x, y) PROVE AtOrBelow(Parent(x), y)
  <2>1. Len(y) <= Len(x) - 1
    BY <1>4, <1>1 DEF Below
  <2>2. CASE Len(y) = Len(x) - 1
    BY <1>4, <2>2 DEF Below, AtOrBelow, Parent
  <2>3. CASE Len(y) < Len(x) - 1
    <3>1. Below(Parent(x), y) \/ Below(y, Parent(x)) \/ y = Parent(x)
      BY <1>2, <1>3, <1>4, BelowFacts
    <3>2. QED
      BY <3>1, <1>2, <2>3 DEF Below, AtOrBelow
  <2>4. QED
    BY <2>1, <2>2, <2>3
<1>5. QED
  BY <1>2, <1>3, <1>4

LEMMA SuffixFacts ==
  ASSUME NEW S, NEW p \in Seq(S), NEW s \in Seq(S)
  PROVE  /\ p \o s \in Seq(S) /\ AtOrBelow(p \o s, p) /\ Suffix(p \o s, p) = s
         /\ \A x \in Seq(S) : AtOrBelow(x, p) => Suffix(x, p) \in Seq(S) /\ x = p \o Suffix(x, p)
         /\ \A u \in Seq(S) : Below(p \o s, p \o u) <=> Below(s, u)
         /\ p \o <<>> = p
<1>1. p \o s \in Seq(S) /\ Len(p \o s) = Len(p) + Len(s)
  OBVIOUS
<1>2. Suffix(p \o s, p) = s
  BY <1>1 DEF Suffix
<1>3. AtOrBelow(p \o s, p)
  <2>1. CASE s = <<>>
    BY <2>1 DEF AtOrBelow
  <2>2. CASE s # <<>>
    BY <2>2, <1>1 DEF AtOrBelow, Below
  <2>3. QED
    BY <2>1, <2>2
<1>4. ASSUME NEW x \in Seq(S), AtOrBelow(x, p) PROVE Suffix(x, p) \in Seq(S) /\ x = p \o Suffix(x, p)
  BY <1>4 DEF AtOrBelow, Below, Suffix
<1>5. ASSUME NEW u \in Seq(S) PROVE Below(p \o s, p \o u) <=> Below(s, u)
  BY <1>1 DEF Below
<1>6. p \o <<>> = p
  OBVIOUS
<1>7. QED
  BY <1>1, <1>2, <1>3, <1>4, <1>5, <1>6

-----------------------------------------------------------------------------
(* Trees.  In a sound tree whatever exists lies in directories all the way up *)
(* to the root.                                                               *)

Names == Seq(STRING)

Sound(t) ==
  /\ t \in [Paths -> Nodes]
  /\ IsDir(t, <<>>)
  /\ \A x, p \in Paths : Exists(t, x) /\ Below(x, p) => IsDir(t, p)

LEMMA PathFacts ==
  /\ Paths \subseteq Names /\ <<>> \in Paths /\ <<>> \in Names
  /\ \A x \in Paths, y \in Names : Below(x, y) => y \in Paths
  /\ \A x \in Paths : x # <<>> => Parent(x) \in Paths /\ Below(x, Parent(x))
<1>1. Paths \subseteq Names /\ <<>> \in Paths /\ <<>> \in Names
  BY FilesConstants DEF Names
<1>2. ASSUME NEW x \in Paths, NEW y \in Names, Below(x, y) PROVE y \in Paths
  <2>1. x \in Seq(STRING) /\ y \in Seq(STRING) /\ Len(x) \in Nat
    BY <1>1 DEF Names
  <2>2. PICK n \in 0..(Len(x) - 1) : y = SubSeq(x, 1, n)
    BY <1>2, <2>1, BelowFacts
  <2>3. n \in 0..Len(x)
    BY <2>1
  <2>4. QED
    BY <2>2, <2>3, FilesConstants
<1>3. ASSUME NEW x \in Paths, x # <<>> PROVE Parent(x) \in Paths /\ Below(x, Parent(x))
  <2>1. x \in Seq(STRING)
    BY <1>1 DEF Names
  <2>2. Parent(x) \in Seq(STRING) /\ Below(x, Parent(x))
    BY <1>3, <2>1, ParentFacts
  <2>3. QED
    BY <1>2, <2>2 DEF Names
<1>4. QED
  BY <1>1, <1>2, <1>3

\* The sequence facts for names.
LEMMA NameFacts ==
  /\ \A x \in Names : ~Below(x, x)
  /\ \A x, y, z \in Names : Below(x, y) /\ Below(y, z) => Below(x, z)
  /\ \A x, y, z \in Names : Below(x, y) /\ Below(x, z) => y = z \/ Below(y, z) \/ Below(z, y)
  /\ \A x, y \in Names : Below(x, y) <=> \E n \in 0..(Len(x) - 1) : y = SubSeq(x, 1, n)
  /\ \A x \in Names : \A n \in 0..(Len(x) - 1) : SubSeq(x, 1, n) \in Names
  /\ \A x, y \in Names : x # <<>> /\ Below(x, y) => AtOrBelow(Parent(x), y)
<1>1. ASSUME NEW x \in Names, NEW n \in 0..(Len(x) - 1) PROVE SubSeq(x, 1, n) \in Names
  BY DEF Names
<1>2. QED
  BY <1>1, BelowFacts, ParentFacts DEF Names

LEMMA JoinFacts ==
  /\ \A p, s \in Names : p \o s \in Names /\ AtOrBelow(p \o s, p) /\ Suffix(p \o s, p) = s
  /\ \A x, p \in Names : AtOrBelow(x, p) => Suffix(x, p) \in Names /\ x = p \o Suffix(x, p)
  /\ \A p, s, u \in Names : Below(p \o s, p \o u) <=> Below(s, u)
  /\ \A p \in Names : p \o <<>> = p
BY SuffixFacts DEF Names

\* A tree in terms of the order of its paths.
LEMMA TreeForm ==
  ASSUME NEW sub
  PROVE  IsTree(sub) <=>
           \A s \in DOMAIN sub :
             /\ s \in Names /\ sub[s] \in Nodes
             /\ \A u \in Names : Below(s, u) => u \in DOMAIN sub /\ sub[u].kind = "dir"
<1>1. ASSUME NEW s \in Names
      PROVE  (\A n \in 0..(Len(s) - 1) : SubSeq(s, 1, n) \in DOMAIN sub /\ sub[SubSeq(s, 1, n)].kind = "dir")
             <=> \A u \in Names : Below(s, u) => u \in DOMAIN sub /\ sub[u].kind = "dir"
  <2> DEFINE D(u) == u \in DOMAIN sub /\ sub[u].kind = "dir"
  <2>0. \A n \in 0..(Len(s) - 1) : SubSeq(s, 1, n) \in Names
    BY NameFacts
  <2>1. \A u \in Names : Below(s, u) <=> \E n \in 0..(Len(s) - 1) : u = SubSeq(s, 1, n)
    BY NameFacts
  <2>2. ASSUME NEW n \in 0..(Len(s) - 1) PROVE Below(s, SubSeq(s, 1, n))
    BY <2>0, <2>1
  <2> HIDE DEF D
  <2>3. (\A n \in 0..(Len(s) - 1) : D(SubSeq(s, 1, n))) <=> \A u \in Names : Below(s, u) => D(u)
    BY <2>0, <2>1, <2>2
  <2>4. QED
    BY <2>3 DEF D
<1>2. QED
  BY <1>1 DEF IsTree, Names

\* Below what is no directory there is nothing.
LEMMA NothingBelow ==
  ASSUME NEW t, Sound(t), NEW p \in Paths, ~IsDir(t, p), NEW x \in Paths, Below(x, p)
  PROVE  ~Exists(t, x)
BY DEF Sound

LEMMA PrunedSound ==
  ASSUME NEW t, Sound(t), NEW p \in Paths, p # <<>>
  PROVE  Sound(Pruned(t, p))
<1> DEFINE new == Pruned(t, p)
<1>0. Nothing \in Nodes
  BY DEF Nodes, Nothing, Modes
<1>1. new \in [Paths -> Nodes] /\ \A x \in Paths : new[x] = IF AtOrBelow(x, p) THEN Nothing ELSE t[x]
  BY <1>0 DEF Pruned, Sound
<1>2. ~AtOrBelow(<<>>, p)
  BY PathFacts DEF AtOrBelow, Below, Names
<1>3. ASSUME NEW x \in Paths, NEW y \in Paths, Exists(new, x), Below(x, y) PROVE IsDir(new, y)
  <2>1. ~AtOrBelow(x, p) /\ Exists(t, x)
    BY <1>1, <1>3 DEF Exists, Nothing
  <2>2. ~AtOrBelow(y, p)
    BY <1>3, <2>1, PathFacts, NameFacts DEF AtOrBelow
  <2>3. QED
    BY <1>1, <1>3, <2>1, <2>2 DEF Sound, IsDir
<1>4. QED
  BY <1>1, <1>2, <1>3, PathFacts DEF Sound, IsDir

LEMMA GraftedSound ==
  ASSUME NEW t, Sound(t), NEW sub, IsTree(sub), NEW p \in Paths, p # <<>>,
         ~IsDir(t, p), IsDir(t, Parent(p))
  PROVE  Sound(Grafted(t, p, sub))
<1> DEFINE new == Grafted(t, p, sub)
           In(x) == AtOrBelow(x, p) /\ Suffix(x, p) \in DOMAIN sub
<1>1. new \in [Paths -> Nodes] /\ \A x \in Paths : new[x] = IF In(x) THEN sub[Suffix(x, p)] ELSE t[x]
  BY TreeForm DEF Grafted, Sound
<1>2. ~AtOrBelow(<<>>, p)
  BY PathFacts DEF AtOrBelow, Below, Names
<1>3. ASSUME NEW y \in Paths, Below(p, y) PROVE IsDir(new, y)
  <2>1. Parent(p) \in Paths /\ AtOrBelow(Parent(p), y)
    BY <1>3, PathFacts, NameFacts
  <2>2. IsDir(t, y)
    BY <2>1 DEF Sound, AtOrBelow, IsDir, Exists
  <2>3. ~AtOrBelow(y, p)
    BY <1>3, PathFacts, NameFacts DEF AtOrBelow
  <2>4. QED
    BY <1>1, <2>2, <2>3 DEF IsDir
<1>4. ASSUME NEW x \in Paths, NEW y \in Paths, Exists(new, x), Below(x, y) PROVE IsDir(new, y)
  <2>1. x \in Names /\ y \in Names /\ p \in Names
    BY PathFacts
  <2>2. CASE In(x) /\ AtOrBelow(y, p)
    <3>1. Suffix(x, p) \in Names /\ Suffix(y, p) \in Names /\ x = p \o Suffix(x, p) /\ y = p \o Suffix(y, p)
      BY <2>1, <2>2, JoinFacts
    <3>2. Below(Suffix(x, p), Suffix(y, p))
      BY <1>4, <2>1, <3>1, JoinFacts
    <3>3. Suffix(y, p) \in DOMAIN sub /\ sub[Suffix(y, p)].kind = "dir"
      BY <2>2, <3>1, <3>2, TreeForm
    <3>4. QED
      BY <1>1, <2>2, <3>3 DEF IsDir
  <2>3. CASE In(x) /\ ~AtOrBelow(y, p)
    <3>1. Below(p, y)
      BY <1>4, <2>1, <2>3, NameFacts DEF AtOrBelow
    <3>2. QED
      BY <1>3, <3>1
  <2>4. CASE ~In(x)
    <3>1. Exists(t, x)
      BY <1>1, <1>4, <2>4 DEF Exists
    <3>2. IsDir(t, y)
      BY <3>1, <1>4 DEF Sound
    <3>3. ~Below(y, p)
      BY <3>2, NothingBelow DEF IsDir, Exists
    <3>4. y # p
      BY <3>2
    <3>5. QED
      BY <1>1, <3>2, <3>3, <3>4 DEF IsDir, AtOrBelow
  <2>5. QED
    BY <2>2, <2>3, <2>4
<1>5. QED
  BY <1>1, <1>2, <1>4, PathFacts DEF Sound, IsDir

\* A subtree is a tree.
LEMMA SubtreeFacts ==
  ASSUME NEW t, Sound(t), NEW p \in Paths
  PROVE  /\ DOMAIN Subtree(t, p) = SuffixesAt(t, p) /\ SuffixesAt(t, p) \subseteq Names
         /\ \A s \in SuffixesAt(t, p) : p \o s \in Paths /\ Exists(t, p \o s) /\ Subtree(t, p)[s] = t[p \o s]
         /\ \A x \in Paths : AtOrBelow(x, p) /\ Exists(t, x) => Suffix(x, p) \in SuffixesAt(t, p)
<1>1. DOMAIN Subtree(t, p) = SuffixesAt(t, p)
  BY DEF Subtree
<1>2. ASSUME NEW s \in SuffixesAt(t, p)
      PROVE  s \in Names /\ p \o s \in Paths /\ Exists(t, p \o s) /\ Subtree(t, p)[s] = t[p \o s]
  <2>1. PICK x \in Paths : AtOrBelow(x, p) /\ Exists(t, x) /\ s = Suffix(x, p)
    BY DEF SuffixesAt
  <2>2. s \in Names /\ x = p \o s
    BY <2>1, PathFacts, JoinFacts
  <2>3. QED
    BY <2>1, <2>2 DEF Subtree
<1>3. \A x \in Paths : AtOrBelow(x, p) /\ Exists(t, x) => Suffix(x, p) \in SuffixesAt(t, p)
  BY DEF SuffixesAt
<1>4. QED
  BY <1>1, <1>2, <1>3

LEMMA SubtreeIsTree ==
  ASSUME NEW t, Sound(t), NEW p \in Paths
  PROVE  IsTree(Subtree(t, p))
<1> DEFINE sub == Subtree(t, p)
<1>1. ASSUME NEW s \in SuffixesAt(t, p) PROVE s \in Names /\ sub[s] \in Nodes
  BY SubtreeFacts DEF Sound
<1>2. ASSUME NEW s \in SuffixesAt(t, p), NEW u \in Names, Below(s, u)
      PROVE  u \in SuffixesAt(t, p) /\ sub[u].kind = "dir"
  <2>1. p \in Names /\ s \in Names /\ p \o s \in Paths /\ Exists(t, p \o s)
    BY SubtreeFacts, PathFacts
  <2>2. p \o u \in Names /\ Below(p \o s, p \o u)
    BY <1>2, <2>1, JoinFacts
  <2>3. p \o u \in Paths /\ IsDir(t, p \o u)
    BY <2>1, <2>2, PathFacts DEF Sound
  <2>4. AtOrBelow(p \o u, p) /\ Suffix(p \o u, p) = u
    BY <2>1, JoinFacts
  <2>5. u \in SuffixesAt(t, p)
    BY <2>3, <2>4, SubtreeFacts DEF IsDir, Exists
  <2>6. QED
    BY <2>3, <2>5, SubtreeFacts DEF IsDir
<1>3. QED
  BY <1>1, <1>2, SubtreeFacts, TreeForm

LEMMA OneIsTree ==
  ASSUME NEW node \in Nodes
  PROVE  IsTree(One(node))
<1>1. DOMAIN One(node) = {<<>>} /\ One(node)[<<>>] = node
  BY DEF One
<1>2. \A u \in Names : ~Below(<<>>, u)
  BY DEF Below, Names
<1>3. QED
  BY <1>1, <1>2, PathFacts, TreeForm

\* What lies above a path, in terms of the order of paths.
LEMMA AncestorForm ==
  ASSUME NEW s \in Names, NEW u
  PROVE  u \in Ancestors(s) <=> u \in Names /\ u # <<>> /\ Below(s, u)
<1>0. Len(s) \in Nat /\ \A n \in 0..(Len(s) - 1) : SubSeq(s, 1, n) \in Names
  BY NameFacts DEF Names
<1>1. \A v \in Names : Below(s, v) <=> \E n \in 0..(Len(s) - 1) : v = SubSeq(s, 1, n)
  BY NameFacts
<1>2. ASSUME NEW n \in 0..(Len(s) - 1) PROVE SubSeq(s, 1, n) = <<>> <=> n = 0
  <2>1. Len(SubSeq(s, 1, n)) = n
    BY <1>0 DEF Names
  <2>2. CASE n = 0
    BY <1>0, <2>1, <2>2 DEF Names
  <2>3. CASE n # 0
    BY <2>1, <2>3
  <2>4. QED
    BY <2>2, <2>3
<1>3. \A n : n \in 1..(Len(s) - 1) <=> n \in 0..(Len(s) - 1) /\ n # 0
  BY <1>0
<1>4. u \in Ancestors(s) <=> \E n \in 1..(Len(s) - 1) : u = SubSeq(s, 1, n)
  BY DEF Ancestors
<1>5. QED
  BY <1>0, <1>1, <1>2, <1>3, <1>4

LEMMA NodeFacts ==
  /\ Nothing \in Nodes /\ Folder \in Nodes
  /\ \A data \in SUBSET (Names \X Int) : File(data) \in Nodes
  /\ \A n \in Nodes : n.data \in SUBSET (Names \X Int) /\ File(n.data) \in Nodes
  /\ \A n \in Nodes, m \in Modes : n.kind # "none" => [n EXCEPT !.mode = m] \in Nodes
BY DEF File, Folder, Nothing, Nodes, Modes, Names

\* What an archive lists and what lies above it are names, and what lies above
\* one of them is a directory.
LEMMA AboveFacts ==
  ASSUME NEW data \in SUBSET (Names \X Int)
  PROVE  /\ Listed(data) \subseteq Names /\ Above(data) \subseteq Names
         /\ \A s \in Listed(data) \cup Above(data), u \in Names : u # <<>> /\ Below(s, u) => u \in Above(data)
<1>1. Listed(data) \subseteq Names
  BY DEF Listed
<1>2. \A u : u \in Above(data) <=> \E s \in Listed(data) : u \in Ancestors(s)
  BY DEF Above
<1>3. \A u : u \in Above(data) <=> \E s \in Listed(data) : u \in Names /\ u # <<>> /\ Below(s, u)
  BY <1>1, <1>2, AncestorForm
<1>4. QED
  BY <1>1, <1>3, NameFacts

LEMMA UnpackedIsTree ==
  ASSUME NEW data \in SUBSET (Names \X Int)
  PROVE  IsTree(Unpacked(data))
<1> DEFINE sub == Unpacked(data)
           Held(s) == {<< <<>>, d[2]>> : d \in {e \in data : e[1] = s}}
<1>1. /\ DOMAIN sub = Listed(data) \cup Above(data) \cup {<<>>}
      /\ \A s \in DOMAIN sub :
           sub[s] = IF s \in Directories(data) \cup Above(data) \cup {<<>>} THEN Folder ELSE File(Held(s))
  BY DEF Unpacked
<1>2. ASSUME NEW s PROVE File(Held(s)) \in Nodes
  <2>1. ASSUME NEW e \in Held(s) PROVE e \in Names \X Int
    <3>1. PICK d \in data : e = << <<>>, d[2]>>
      OBVIOUS
    <3>2. d[2] \in Int
      OBVIOUS
    <3>3. QED
      BY <3>1, <3>2, PathFacts
  <2> HIDE DEF Held
  <2>2. Held(s) \in SUBSET (Names \X Int)
    BY <2>1
  <2>3. QED
    BY <2>2, NodeFacts
<1> HIDE DEF sub, Held
<1>3. ASSUME NEW s \in DOMAIN sub PROVE s \in Names /\ sub[s] \in Nodes
  BY <1>1, <1>2, AboveFacts, NodeFacts, PathFacts
<1>4. ASSUME NEW s \in DOMAIN sub, NEW u \in Names, Below(s, u) PROVE u \in DOMAIN sub /\ sub[u].kind = "dir"
  <2>1. u = <<>> \/ u \in Above(data)
    <3>1. ~Below(<<>>, u)
      BY DEF Below, Names
    <3>2. QED
      BY <1>1, <1>4, <3>1, AboveFacts
  <2>2. u \in DOMAIN sub /\ sub[u] = Folder
    BY <1>1, <2>1
  <2>3. QED
    BY <2>2 DEF Folder
<1>5. IsTree(sub)
  BY <1>3, <1>4, TreeForm
<1>6. QED
  BY <1>5 DEF sub

\* One node of a sound tree is replaced.
LEMMA SetSound ==
  ASSUME NEW t, Sound(t), NEW p \in Paths, p # <<>>, NEW node \in Nodes,
         IsDir(t, p) => node.kind = "dir", IsDir(t, Parent(p))
  PROVE  Sound([t EXCEPT ![p] = node])
<1> DEFINE new == [t EXCEPT ![p] = node]
<1>1. new \in [Paths -> Nodes] /\ new[p] = node /\ \A x \in Paths : x # p => new[x] = t[x]
  BY DEF Sound
<1>2. ASSUME NEW x \in Paths, IsDir(t, x) PROVE IsDir(new, x)
  BY <1>1, <1>2 DEF IsDir
<1> HIDE DEF new
<1>3. ASSUME NEW x \in Paths, NEW y \in Paths, Exists(new, x), Below(x, y) PROVE IsDir(new, y)
  <2>1. CASE x # p
    BY <1>1, <1>2, <1>3, <2>1 DEF Sound, Exists
  <2>2. CASE x = p
    <3>1. Parent(p) \in Paths /\ AtOrBelow(Parent(p), y)
      BY <1>3, <2>2, PathFacts, NameFacts
    <3>2. IsDir(t, y)
      BY <3>1 DEF Sound, AtOrBelow, IsDir, Exists
    <3>3. QED
      BY <1>2, <3>2
  <2>3. QED
    BY <2>1, <2>2
<1>4. Sound(new)
  BY <1>1, <1>2, <1>3, PathFacts DEF Sound
<1>5. QED
  BY <1>4 DEF new

\* The directories on the way to a path are made.
LEMMA WithParentsSound ==
  ASSUME NEW t, Sound(t), NEW p \in Paths, \A x \in Ancestors(p) : ~IsFile(t, x)
  PROVE  Sound(WithParents(t, p))
<1> DEFINE new == WithParents(t, p)
           Made(x) == x \in Ancestors(p) /\ ~Exists(t, x)
<1>1. /\ new \in [Paths -> Nodes]
      /\ \A x \in Paths : new[x] = IF Made(x) THEN Folder ELSE t[x]
  BY NodeFacts DEF WithParents, Sound
<1>2. ASSUME NEW x \in Paths, IsDir(t, x) PROVE IsDir(new, x)
  BY <1>1, <1>2 DEF IsDir, Exists
<1>3. ASSUME NEW x \in Ancestors(p), NEW y \in Paths, y # <<>>, Below(x, y) PROVE y \in Ancestors(p)
  BY <1>3, PathFacts, NameFacts, AncestorForm
<1> HIDE DEF new
<1>4. ASSUME NEW x \in Paths, NEW y \in Paths, Exists(new, x), Below(x, y) PROVE IsDir(new, y)
  <2>1. CASE Exists(t, x)
    BY <1>2, <1>4, <2>1 DEF Sound
  <2>2. CASE ~Exists(t, x) /\ y = <<>>
    BY <1>2, <2>2 DEF Sound
  <2>3. CASE ~Exists(t, x) /\ y # <<>>
    <3>1. x \in Ancestors(p)
      BY <1>1, <1>4, <2>3 DEF Exists
    <3>2. y \in Ancestors(p)
      BY <1>3, <1>4, <2>3, <3>1
    <3>3. t[y].kind \in {"none", "dir", "file"} /\ t[y].kind # "file"
      BY <3>2 DEF Sound, Nodes, IsFile
    <3>4. QED
      BY <1>1, <1>2, <3>2, <3>3 DEF IsDir, Exists, Folder
  <2>4. QED
    BY <2>1, <2>2, <2>3
<1>5. Sound(new)
  BY <1>1, <1>2, <1>4, PathFacts DEF Sound
<1>6. QED
  BY <1>5 DEF new

\* What an archive holds: the carried directories and the contents of the carried
\* files, each with the name of the tree before its suffix.
IsEntry(pol, p, e) ==
  \E s \in Carried(pol, p) :
    \/ IsDir(tree, p \o s) /\ e = <<<<NameOf(p)>> \o s, Dir>>
    \/ ~IsDir(tree, p \o s) /\ \E a \in AtomsOf(tree[p \o s]) : e = <<<<NameOf(p)>> \o s, a>>

LEMMA EntriesAre ==
  ASSUME NEW pol, NEW p, NEW e
  PROVE  e \in Entries(pol, p) <=> IsEntry(pol, p, e)
<1> DEFINE Of(s) == IF IsDir(tree, p \o s) THEN {<<<<NameOf(p)>> \o s, Dir>>}
                    ELSE {<<<<NameOf(p)>> \o s, a>> : a \in AtomsOf(tree[p \o s])}
<1>1. Entries(pol, p) = UNION {Of(s) : s \in Carried(pol, p)}
  BY Zenon DEF Entries
<1>2. e \in UNION {Of(s) : s \in Carried(pol, p)} <=> \E s \in Carried(pol, p) : e \in Of(s)
  <2> HIDE DEF Of
  <2>1. QED
    OBVIOUS
<1>3. ASSUME NEW s
      PROVE  e \in Of(s) <=>
               \/ IsDir(tree, p \o s) /\ e = <<<<NameOf(p)>> \o s, Dir>>
               \/ ~IsDir(tree, p \o s) /\ \E a \in AtomsOf(tree[p \o s]) : e = <<<<NameOf(p)>> \o s, a>>
  BY Zenon
<1> HIDE DEF Of
<1>4. QED
  BY <1>1, <1>2, <1>3 DEF IsEntry

LEMMA AtomFacts ==
  ASSUME NEW n \in Nodes
  PROVE  AtomsOf(n) \subseteq Int /\ \A a \in AtomsOf(n) : \E d \in n.data : d[2] = a
<1>1. n.data \in SUBSET (Names \X Int)
  BY NodeFacts
<1>2. \A d \in n.data : d[2] \in Int
  BY <1>1
<1>3. QED
  BY <1>2 DEF AtomsOf

LEMMA EntriesFacts ==
  ASSUME NEW pol, NEW p \in Paths, p # <<>>, Sound(tree)
  PROVE  Entries(pol, p) \in SUBSET (Names \X Int)
<1> DEFINE top == <<NameOf(p)>>
<1>1. top \in Names
  <2>1. p \in Seq(STRING) /\ Len(p) \in Nat /\ Len(p) # 0
    BY PathFacts DEF Names
  <2>2. NameOf(p) \in STRING
    BY <2>1 DEF NameOf
  <2>3. QED
    BY <2>2 DEF Names
<1>2. ASSUME NEW e \in Entries(pol, p) PROVE e \in Names \X Int
  <2>0. IsEntry(pol, p, e)
    BY EntriesAre
  <2>1. PICK s \in Carried(pol, p) :
          \/ IsDir(tree, p \o s) /\ e = <<top \o s, Dir>>
          \/ ~IsDir(tree, p \o s) /\ \E a \in AtomsOf(tree[p \o s]) : e = <<top \o s, a>>
    BY <2>0, Zenon DEF IsEntry
  <2> HIDE DEF top
  <2>2. s \in SuffixesAt(tree, p)
    BY DEF Carried
  <2>3. top \o s \in Names
    BY <1>1, <2>2, SubtreeFacts, JoinFacts
  <2>4. tree[p \o s] \in Nodes
    BY <2>2, SubtreeFacts DEF Sound
  <2>5. PICK a \in Int : e = <<top \o s, a>>
    BY <2>1, <2>4, AtomFacts DEF Dir
  <2>6. QED
    BY <2>3, <2>5
<1>3. QED
  BY <1>2

-----------------------------------------------------------------------------
(* The answers: a decision is one of three, whoever makes it.                *)

Verdicts == {"ok", "notfound", "denied"}

LEMMA FirstIn ==
  ASSUME NEW V, "ok" \in V, NEW s \in Seq(V)
  PROVE  First(s) \in V
<1>1. Len(s) \in Nat /\ DOMAIN s = 1..Len(s) /\ \A i \in 1..Len(s) : s[i] \in V
  OBVIOUS
<1>2. QED
  BY <1>1, FirstIs

LEMMA FirstAll ==
  ASSUME NEW V, NEW s \in Seq(V), First(s) = "ok"
  PROVE  \A i \in 1..Len(s) : s[i] = "ok"
<1>1. Len(s) \in Nat /\ DOMAIN s = 1..Len(s)
  OBVIOUS
<1>2. QED
  BY <1>1, FirstIs

\* Lists of the lengths that occur.
LEMMA VerdictLists ==
  /\ \A a, b \in Verdicts : First(<<a, b>>) \in Verdicts
         /\ (First(<<a, b>>) = "ok" => a = "ok" /\ b = "ok")
  /\ \A a, b, c \in Verdicts : First(<<a, b, c>>) \in Verdicts
         /\ (First(<<a, b, c>>) = "ok" => a = "ok" /\ b = "ok" /\ c = "ok")
  /\ \A a, b, c, d \in Verdicts : First(<<a, b, c, d>>) \in Verdicts
         /\ (First(<<a, b, c, d>>) = "ok" => a = "ok" /\ b = "ok" /\ c = "ok" /\ d = "ok")
  /\ \A a, b, c, d, e \in Verdicts : First(<<a, b, c, d, e>>) \in Verdicts
         /\ (First(<<a, b, c, d, e>>) = "ok" => a = "ok" /\ b = "ok" /\ c = "ok" /\ d = "ok" /\ e = "ok")
<1>2. ASSUME NEW a \in Verdicts, NEW b \in Verdicts
      PROVE  First(<<a, b>>) \in Verdicts /\ (First(<<a, b>>) = "ok" => a = "ok" /\ b = "ok")
  <2> DEFINE s == <<a, b>>
  <2>1. s \in Seq(Verdicts) /\ Len(s) = 2 /\ s[1] = a /\ s[2] = b
    OBVIOUS
  <2> HIDE DEF s
  <2>2. First(s) \in Verdicts /\ (First(s) = "ok" => \A i \in 1..2 : s[i] = "ok")
    BY <2>1, FirstIn, FirstAll DEF Verdicts
  <2>3. First(s) \in Verdicts /\ (First(s) = "ok" => a = "ok" /\ b = "ok")
    BY <2>1, <2>2
  <2>4. QED
    BY <2>3 DEF s
<1>3. ASSUME NEW a \in Verdicts, NEW b \in Verdicts, NEW c \in Verdicts
      PROVE  First(<<a, b, c>>) \in Verdicts /\ (First(<<a, b, c>>) = "ok" => a = "ok" /\ b = "ok" /\ c = "ok")
  <2> DEFINE s == <<a, b, c>>
  <2>1. s \in Seq(Verdicts) /\ Len(s) = 3 /\ s[1] = a /\ s[2] = b /\ s[3] = c
    OBVIOUS
  <2> HIDE DEF s
  <2>2. First(s) \in Verdicts /\ (First(s) = "ok" => \A i \in 1..3 : s[i] = "ok")
    BY <2>1, FirstIn, FirstAll DEF Verdicts
  <2>3. First(s) \in Verdicts /\ (First(s) = "ok" => a = "ok" /\ b = "ok" /\ c = "ok")
    BY <2>1, <2>2
  <2>4. QED
    BY <2>3 DEF s
<1>4. ASSUME NEW a \in Verdicts, NEW b \in Verdicts, NEW c \in Verdicts, NEW d \in Verdicts
      PROVE  First(<<a, b, c, d>>) \in Verdicts /\ (First(<<a, b, c, d>>) = "ok" => a = "ok" /\ b = "ok" /\ c = "ok" /\ d = "ok")
  <2> DEFINE s == <<a, b, c, d>>
  <2>1. s \in Seq(Verdicts) /\ Len(s) = 4 /\ s[1] = a /\ s[2] = b /\ s[3] = c /\ s[4] = d
    OBVIOUS
  <2> HIDE DEF s
  <2>2. First(s) \in Verdicts /\ (First(s) = "ok" => \A i \in 1..4 : s[i] = "ok")
    BY <2>1, FirstIn, FirstAll DEF Verdicts
  <2>3. First(s) \in Verdicts /\ (First(s) = "ok" => a = "ok" /\ b = "ok" /\ c = "ok" /\ d = "ok")
    BY <2>1, <2>2
  <2>4. QED
    BY <2>3 DEF s
<1>5. ASSUME NEW a \in Verdicts, NEW b \in Verdicts, NEW c \in Verdicts, NEW d \in Verdicts, NEW e \in Verdicts
      PROVE  First(<<a, b, c, d, e>>) \in Verdicts /\ (First(<<a, b, c, d, e>>) = "ok" => a = "ok" /\ b = "ok" /\ c = "ok" /\ d = "ok" /\ e = "ok")
  <2> DEFINE s == <<a, b, c, d, e>>
  <2>1. s \in Seq(Verdicts) /\ Len(s) = 5 /\ s[1] = a /\ s[2] = b /\ s[3] = c /\ s[4] = d /\ s[5] = e
    OBVIOUS
  <2> HIDE DEF s
  <2>2. First(s) \in Verdicts /\ (First(s) = "ok" => \A i \in 1..5 : s[i] = "ok")
    BY <2>1, FirstIn, FirstAll DEF Verdicts
  <2>3. First(s) \in Verdicts /\ (First(s) = "ok" => a = "ok" /\ b = "ok" /\ c = "ok" /\ d = "ok" /\ e = "ok")
    BY <2>1, <2>2
  <2>4. QED
    BY <2>3 DEF s
<1>6. QED
  BY <1>2, <1>3, <1>4, <1>5

LEMMA SmallVerdicts ==
  /\ "ok" \in Verdicts
  /\ \A pol, p, a : Check(pol, p, a) \in Verdicts
  /\ \A pol, p : Visible(pol, p) \in Verdicts
  /\ \A c : DeniedIf(c) \in Verdicts
BY DEF Verdicts, Check, Visible, DeniedIf

LEMMA PolicyVerdict ==
  ASSUME NEW pol, NEW q
  PROVE  Policy(pol, q) \in Verdicts
<1> DEFINE trashed == q.op \in {"restore", "purge"}
           a == IF trashed THEN "ok" ELSE Visible(pol, q.path)
           b == IF q.target = NoPath THEN "ok" ELSE Visible(pol, q.target)
           c == DeniedIf(~(Feature(q.op) \subseteq pol.feats))
           d == DeniedIf(pol.ro /\ q.op \in Writes)
           e == DeniedIf(~trashed /\ q.op # "list" /\ Hidden(q.path) /\ ~pol.hid)
           f == DeniedIf(KindRefused(pol, q.op, q.path, q.target))
           g == DeniedIf(TargetRefused(pol, q.op, q.target))
<1>1. Policy(pol, q) = First(<<a, b, c, d, e, f, g>>)
  BY DEF Policy, CheckOperation
<1>2. /\ a \in Verdicts /\ b \in Verdicts /\ c \in Verdicts /\ d \in Verdicts
      /\ e \in Verdicts /\ f \in Verdicts /\ g \in Verdicts
  BY SmallVerdicts
<1> HIDE DEF a, b, c, d, e, f, g
<1>3. <<a, b, c, d, e, f, g>> \in Seq(Verdicts)
  BY <1>2
<1>4. First(<<a, b, c, d, e, f, g>>) \in Verdicts
  BY <1>3, FirstIn, SmallVerdicts
<1>5. QED
  BY <1>1, <1>4

LEMMA ServerVerdict ==
  ASSUME NEW pol, NEW q, q.op \in Ops
  PROVE  ServerDecides(pol, q) \in Verdicts
<1> USE SmallVerdicts, PolicyVerdict, VerdictLists
<1>1. SaveRequest(pol, q) \in Verdicts
  BY DEF SaveRequest
<1>2. UploadRequest(pol, q) \in Verdicts
  BY DEF UploadRequest
<1>3. CreateFolderRequest(pol, q) \in Verdicts
  BY DEF CreateFolderRequest
<1>4. TwoNamesRequest(pol, q) \in Verdicts
  BY DEF TwoNamesRequest
<1>5. ChmodRequest(pol, q) \in Verdicts
  BY DEF ChmodRequest
<1>6. MoveToTrashRequest(pol, q) \in Verdicts
  BY DEF MoveToTrashRequest
<1>7. DeleteRequest(pol, q) \in Verdicts
  BY DEF DeleteRequest
<1>8. ASSUME NEW names PROVE ArchiveRequest(pol, q, names) \in Verdicts
  BY DEF ArchiveRequest
<1>9. ExtractRequest(pol, q) \in Verdicts
  BY DEF ExtractRequest
<1>10. QED
  BY <1>1, <1>2, <1>3, <1>4, <1>5, <1>6, <1>7, <1>8, <1>9
     DEF ServerDecides, Ops, Reads, Writes, Creates, Archives, Carries, ListRequest, MetadataRequest, SearchRequest,
         ListTrashRequest, DownloadRequest, ReadTextRequest, RenameRequest, MoveRequest, CopyRequest, RestoreRequest,
         CompressZipRequest, CompressTarGzRequest

LEMMA TreeVerdict ==
  ASSUME NEW pol, NEW path, NEW action, NEW target, NEW suffixes
  PROVE  PreflightTree(pol, path, action, target, suffixes) \in Verdicts
<1>1. ASSUME NEW s PROVE PreflightNode(pol, path, action, target, s) \in Verdicts
  BY SmallVerdicts, VerdictLists DEF PreflightNode
<1>2. QED
  BY <1>1, SmallVerdicts DEF PreflightTree

LEMMA HelperVerdicts ==
  ASSUME NEW pol, NEW q
  PROVE  /\ AccessAuthorize(q, pol) \in Verdicts /\ PolicyAuthorize(q, pol) \in Verdicts
         /\ Authorize(q, pol) \in Verdicts /\ FeatureOn(q, pol) \in Verdicts
         /\ Preflight(q, pol) \in Verdicts /\ WorkerDecides(q, pol) \in Verdicts
<1>1. AccessAuthorize(q, pol) \in Verdicts
  BY SmallVerdicts, VerdictLists DEF AccessAuthorize
<1>2. PolicyAuthorize(q, pol) \in Verdicts
  BY SmallVerdicts DEF PolicyAuthorize
<1>3. Authorize(q, pol) \in Verdicts
  BY <1>1, <1>2, SmallVerdicts, VerdictLists DEF Authorize
<1>4. FeatureOn(q, pol) \in Verdicts
  BY SmallVerdicts DEF FeatureOn
<1>7. Preflight(q, pol) \in Verdicts
  BY TreeVerdict DEF Preflight, Verdicts
<1>8. WorkerDecides(q, pol) \in Verdicts
  BY <1>1, <1>2, <1>4, <1>7, SmallVerdicts, VerdictLists DEF WorkerDecides
<1>9. QED
  BY <1>1, <1>2, <1>3, <1>4, <1>7, <1>8

-----------------------------------------------------------------------------
(* A denial does not depend on the rules that hide: a decision that says "ok" *)
(* or "denied" says the same without them.                                    *)

Keeps(a, b) == (a = "ok" => b = "ok") /\ (a = "denied" => b = "denied")

LEMMA KeepsFirst ==
  ASSUME NEW n \in Nat, NEW s, NEW t, DOMAIN s = 1..n, DOMAIN t = 1..n, \A i \in 1..n : Keeps(s[i], t[i])
  PROVE  Keeps(First(s), First(t))
<1>1. CASE \A i \in 1..n : s[i] = "ok"
  <2>1. \A i \in 1..n : t[i] = "ok"
    BY <1>1 DEF Keeps
  <2>2. QED
    BY <1>1, <2>1, FirstIs DEF Keeps
<1>2. CASE \E i \in 1..n : s[i] # "ok"
  <2>1. PICK i \in 1..n : First(s) = s[i] /\ s[i] # "ok" /\ \A j \in 1..(i - 1) : s[j] = "ok"
    BY <1>2, FirstIs
  <2>2. CASE s[i] = "denied"
    <3>1. t[i] = "denied" /\ \A j \in 1..(i - 1) : t[j] = "ok"
      BY <2>1, <2>2 DEF Keeps
    <3>2. PICK k \in 1..n : First(t) = t[k] /\ t[k] # "ok" /\ \A j \in 1..(k - 1) : t[j] = "ok"
      BY <3>1, FirstIs
    <3>3. k = i
      BY <3>1, <3>2
    <3>4. QED
      BY <2>1, <2>2, <3>1, <3>2, <3>3 DEF Keeps
  <2>3. QED
    BY <2>1, <2>2 DEF Keeps
<1>3. QED
  BY <1>1, <1>2

\* Lists of the lengths that occur.
LEMMA KeepsLists ==
  /\ \A a, b, a1, b1 : Keeps(a, a1) /\ Keeps(b, b1) => Keeps(First(<<a, b>>), First(<<a1, b1>>))
  /\ \A a, b, c, a1, b1, c1 :
       Keeps(a, a1) /\ Keeps(b, b1) /\ Keeps(c, c1) => Keeps(First(<<a, b, c>>), First(<<a1, b1, c1>>))
  /\ \A a, b, c, d, a1, b1, c1, d1 :
       Keeps(a, a1) /\ Keeps(b, b1) /\ Keeps(c, c1) /\ Keeps(d, d1)
         => Keeps(First(<<a, b, c, d>>), First(<<a1, b1, c1, d1>>))
  /\ \A a, b, c, d, e, a1, b1, c1, d1, e1 :
       Keeps(a, a1) /\ Keeps(b, b1) /\ Keeps(c, c1) /\ Keeps(d, d1) /\ Keeps(e, e1)
         => Keeps(First(<<a, b, c, d, e>>), First(<<a1, b1, c1, d1, e1>>))
<1>2. ASSUME NEW a, NEW b, NEW a1, NEW b1, Keeps(a, a1), Keeps(b, b1)
      PROVE  Keeps(First(<<a, b>>), First(<<a1, b1>>))
  <2>1. PICK s, t : s = <<a, b>> /\ t = <<a1, b1>>
    OBVIOUS
  <2>2. DOMAIN s = 1..2 /\ DOMAIN t = 1..2 /\ \A i \in 1..2 : Keeps(s[i], t[i])
    BY <1>2, <2>1
  <2>3. QED
    BY <2>1, <2>2, KeepsFirst
<1>3. ASSUME NEW a, NEW b, NEW c, NEW a1, NEW b1, NEW c1, Keeps(a, a1), Keeps(b, b1), Keeps(c, c1)
      PROVE  Keeps(First(<<a, b, c>>), First(<<a1, b1, c1>>))
  <2>1. PICK s, t : s = <<a, b, c>> /\ t = <<a1, b1, c1>>
    OBVIOUS
  <2>2. DOMAIN s = 1..3 /\ DOMAIN t = 1..3 /\ \A i \in 1..3 : Keeps(s[i], t[i])
    BY <1>3, <2>1
  <2>3. QED
    BY <2>1, <2>2, KeepsFirst
<1>4. ASSUME NEW a, NEW b, NEW c, NEW d, NEW a1, NEW b1, NEW c1, NEW d1,
             Keeps(a, a1), Keeps(b, b1), Keeps(c, c1), Keeps(d, d1)
      PROVE  Keeps(First(<<a, b, c, d>>), First(<<a1, b1, c1, d1>>))
  <2>1. PICK s, t : s = <<a, b, c, d>> /\ t = <<a1, b1, c1, d1>>
    OBVIOUS
  <2>2. DOMAIN s = 1..4 /\ DOMAIN t = 1..4 /\ \A i \in 1..4 : Keeps(s[i], t[i])
    BY <1>4, <2>1
  <2>3. QED
    BY <2>1, <2>2, KeepsFirst
<1>5. ASSUME NEW a, NEW b, NEW c, NEW d, NEW e, NEW a1, NEW b1, NEW c1, NEW d1, NEW e1,
             Keeps(a, a1), Keeps(b, b1), Keeps(c, c1), Keeps(d, d1), Keeps(e, e1)
      PROVE  Keeps(First(<<a, b, c, d, e>>), First(<<a1, b1, c1, d1, e1>>))
  <2>1. PICK s, t : s = <<a, b, c, d, e>> /\ t = <<a1, b1, c1, d1, e1>>
    OBVIOUS
  <2>2. DOMAIN s = 1..5 /\ DOMAIN t = 1..5 /\ \A i \in 1..5 : Keeps(s[i], t[i])
    BY <1>5, <2>1
  <2>3. QED
    BY <2>1, <2>2, KeepsFirst
<1>6. QED
  BY <1>2, <1>3, <1>4, <1>5

\* The policy without the rules that hide differs in its rules only.
LEMMA BlindFacts ==
  ASSUME NEW pol \in Policies(STRING)
  PROVE  /\ Blind(pol).rules = {x \in pol.rules : "discover" \notin x.deny}
         /\ Blind(pol).sys = pol.sys /\ Blind(pol).ro = pol.ro /\ Blind(pol).up = pol.up
         /\ Blind(pol).hid = pol.hid /\ Blind(pol).web = pol.web /\ Blind(pol).block = pol.block
         /\ Blind(pol).sens = pol.sens /\ Blind(pol).exe = pol.exe /\ Blind(pol).feats = pol.feats
BY DEF Blind, Policies

\* A rule that denies something at a path that may be seen hides nothing.
LEMMA CheckKeeps ==
  ASSUME NEW pol \in Policies(STRING), NEW p, NEW a
  PROVE  Keeps(Check(pol, p, a), Check(Blind(pol), p, a))
<1>1. PICK blind : blind = Blind(pol)
  OBVIOUS
<1>2. blind.rules = {x \in pol.rules : "discover" \notin x.deny} /\ blind.sys = pol.sys
  BY <1>1, BlindFacts
<1>3. ~Undiscoverable(blind.rules, p)
  BY <1>2 DEF Undiscoverable
<1>4. Denied(blind.rules, p, a) => Denied(pol.rules, p, a)
  BY <1>2 DEF Denied
<1>5. Denied(pol.rules, p, a) /\ ~Undiscoverable(pol.rules, p) => Denied(blind.rules, p, a)
  BY <1>2 DEF Denied, Undiscoverable, AtOrBelow
<1>6. QED
  BY <1>1, <1>2, <1>3, <1>4, <1>5 DEF Keeps, Check

LEMMA SmallKeeps ==
  ASSUME NEW pol \in Policies(STRING)
  PROVE  /\ \A a : Keeps(a, a)
         /\ \A p, a : Keeps(Check(pol, p, a), Check(Blind(pol), p, a))
         /\ \A p : Keeps(Visible(pol, p), Visible(Blind(pol), p))
         /\ \A p : Sensitive(Blind(pol), p) = Sensitive(pol, p) /\ Blocked(Blind(pol), p) = Blocked(pol, p)
BY CheckKeeps, BlindFacts DEF Keeps, Visible, Sensitive, Blocked

LEMMA PolicyKeeps ==
  ASSUME NEW pol \in Policies(STRING), NEW q
  PROVE  Keeps(Policy(pol, q), Policy(Blind(pol), q))
<1> DEFINE trashed == q.op \in {"restore", "purge"}
           A(x) == IF trashed THEN "ok" ELSE Visible(x, q.path)
           B(x) == IF q.target = NoPath THEN "ok" ELSE Visible(x, q.target)
           C(x) == DeniedIf(~(Feature(q.op) \subseteq x.feats))
           D(x) == DeniedIf(x.ro /\ q.op \in Writes)
           E(x) == DeniedIf(~trashed /\ q.op # "list" /\ Hidden(q.path) /\ ~x.hid)
           F(x) == DeniedIf(KindRefused(x, q.op, q.path, q.target))
           G(x) == DeniedIf(TargetRefused(x, q.op, q.target))
<1>1. PICK blind : blind = Blind(pol)
  OBVIOUS
<1>2. \A x : Policy(x, q) = First(<<A(x), B(x), C(x), D(x), E(x), F(x), G(x)>>)
  BY DEF Policy, CheckOperation
<1>3. Keeps(A(pol), A(blind)) /\ Keeps(B(pol), B(blind))
  BY <1>1, SmallKeeps
<1>4. C(blind) = C(pol) /\ D(blind) = D(pol) /\ E(blind) = E(pol)
  BY <1>1, BlindFacts
<1>5. F(blind) = F(pol)
  BY <1>1, BlindFacts, SmallKeeps DEF KindRefused
<1>6. G(blind) = G(pol)
  BY <1>1, BlindFacts, SmallKeeps DEF TargetRefused
<1> HIDE DEF A, B, C, D, E, F, G
<1>7. PICK s, t : /\ s = <<A(pol), B(pol), C(pol), D(pol), E(pol), F(pol), G(pol)>>
                  /\ t = <<A(blind), B(blind), C(blind), D(blind), E(blind), F(blind), G(blind)>>
  OBVIOUS
<1>8. /\ DOMAIN s = 1..7 /\ DOMAIN t = 1..7
      /\ \A i \in 1..7 : i \in {1, 2} \/ s[i] = t[i]
      /\ s[1] = A(pol) /\ t[1] = A(blind) /\ s[2] = B(pol) /\ t[2] = B(blind)
  BY <1>4, <1>5, <1>6, <1>7
<1>9. \A i \in 1..7 : Keeps(s[i], t[i])
  BY <1>3, <1>8, SmallKeeps
<1>10. Keeps(First(s), First(t))
  BY <1>8, <1>9, KeepsFirst
<1>11. QED
  BY <1>1, <1>2, <1>7, <1>10

LEMMA ServerKeeps ==
  ASSUME NEW pol \in Policies(STRING), NEW q, q.op \in Ops
  PROVE  Keeps(ServerDecides(pol, q), ServerDecides(Blind(pol), q))
<1>1. PICK blind : blind = Blind(pol)
  OBVIOUS
<1>2. /\ Keeps(Policy(pol, q), Policy(blind, q))
      /\ \A p : Keeps(Visible(pol, p), Visible(blind, p))
      /\ \A a : Keeps(a, a)
  BY <1>1, PolicyKeeps, SmallKeeps
<1>3. /\ \A p : Sensitive(blind, p) = Sensitive(pol, p) /\ Blocked(blind, p) = Blocked(pol, p)
      /\ \A p : NewNameRefused(blind, p) = NewNameRefused(pol, p)
      /\ blind.ro = pol.ro /\ blind.up = pol.up /\ blind.web = pol.web
  BY <1>1, SmallKeeps, BlindFacts DEF NewNameRefused
<1> USE KeepsLists
<1>4. Keeps(SaveRequest(pol, q), SaveRequest(blind, q))
  BY <1>2, <1>3 DEF SaveRequest
<1>5. Keeps(UploadRequest(pol, q), UploadRequest(blind, q))
  BY <1>2, <1>3 DEF UploadRequest
<1>6. Keeps(CreateFolderRequest(pol, q), CreateFolderRequest(blind, q))
  BY <1>2, <1>3 DEF CreateFolderRequest
<1>7. Keeps(TwoNamesRequest(pol, q), TwoNamesRequest(blind, q))
  BY <1>2, <1>3 DEF TwoNamesRequest
<1>8. Keeps(ChmodRequest(pol, q), ChmodRequest(blind, q))
  BY <1>2, <1>3 DEF ChmodRequest
<1>9. Keeps(MoveToTrashRequest(pol, q), MoveToTrashRequest(blind, q))
  BY <1>2, <1>3 DEF MoveToTrashRequest
<1>10. Keeps(DeleteRequest(pol, q), DeleteRequest(blind, q))
  BY <1>2, <1>3 DEF DeleteRequest
<1>11. ASSUME NEW names PROVE Keeps(ArchiveRequest(pol, q, names), ArchiveRequest(blind, q, names))
  BY <1>2, <1>3 DEF ArchiveRequest
<1>12. Keeps(ExtractRequest(pol, q), ExtractRequest(blind, q))
  BY <1>2, <1>3 DEF ExtractRequest
<1>13. QED
  BY <1>1, <1>2, <1>4, <1>5, <1>6, <1>7, <1>8, <1>9, <1>10, <1>11, <1>12
     DEF ServerDecides, Ops, Reads, Writes, Creates, Archives, Carries, ListRequest, MetadataRequest, SearchRequest,
         ListTrashRequest, DownloadRequest, ReadTextRequest, RenameRequest, MoveRequest, CopyRequest, RestoreRequest,
         CompressZipRequest, CompressTarGzRequest

LEMMA AuthorizeKeeps ==
  ASSUME NEW pol \in Policies(STRING), NEW q
  PROVE  Keeps(Authorize(q, pol), Authorize(q, Blind(pol)))
<1>1. PICK blind : blind = Blind(pol)
  OBVIOUS
<1>2. Keeps(AccessAuthorize(q, pol), AccessAuthorize(q, blind))
  <2>1. /\ \A p, a : Keeps(Check(pol, p, a), Check(blind, p, a))
        /\ \A a : Keeps(a, a)
    BY <1>1, SmallKeeps
  <2>2. QED
    BY <2>1, KeepsLists DEF AccessAuthorize
<1>3. PolicyAuthorize(q, blind) = PolicyAuthorize(q, pol)
  <2> DEFINE internal == q.op \in {"restore", "listtrash", "purge"}
             path     == HelperPath(q)
             target   == IF HelperTarget(q) = NoPath THEN path ELSE HelperTarget(q)
             others   == ({HelperTarget(q)} \ {NoPath}) \cup (IF q.op \in Archives THEN {q.path} ELSE {})
             A(x) == q.op \in Writes /\ x.ro
             B(x) == q.op = "upload" /\ ~x.up
             C(x) == ~internal /\ ~x.hid /\ Hidden(path)
             D(x) == \E p \in others : (~x.hid /\ Hidden(p)) \/ Sensitive(x, p)
             E(x) == ~internal /\ q.op \notin {"list", "stat", "search"} /\ Sensitive(x, path)
             F(x) == q.op \in Writes /\ x.web /\ (q.op = "extract" \/ (target # <<>> /\ Blocked(x, target)))
  <2>1. \A x : PolicyAuthorize(q, x) = DeniedIf(A(x) \/ B(x) \/ C(x) \/ D(x) \/ E(x) \/ F(x))
    BY Zenon DEF PolicyAuthorize
  <2>2. /\ blind.ro = pol.ro /\ blind.up = pol.up /\ blind.hid = pol.hid /\ blind.web = pol.web
        /\ \A p : (Sensitive(blind, p) <=> Sensitive(pol, p)) /\ (Blocked(blind, p) <=> Blocked(pol, p))
    BY <1>1, BlindFacts, SmallKeeps
  <2> HIDE DEF internal, path, target, others
  <2>3. /\ A(blind) <=> A(pol)
        /\ B(blind) <=> B(pol)
        /\ C(blind) <=> C(pol)
    BY <2>2
  <2>4. D(blind) <=> D(pol)
    BY <2>2
  <2>5. (E(blind) <=> E(pol)) /\ (F(blind) <=> F(pol))
    BY <2>2
  <2> HIDE DEF A, B, C, D, E, F
  <2>6. QED
    BY <2>1, <2>3, <2>4, <2>5 DEF DeniedIf
<1>4. QED
  BY <1>1, <1>2, <1>3, KeepsLists, SmallKeeps DEF Authorize

-----------------------------------------------------------------------------
(* The configuration.  A patch in progress remembers every feature the root   *)
(* file has had since it began.                                               *)

Patches == [pc : {"idle", "begun", "valid"}, feats : SUBSET Features, save : BOOLEAN, allowed : SUBSET Features]

ConfInv ==
  /\ wl \in Workloads
  /\ root \in Policies(STRING) /\ served \in Policies(STRING)
  /\ stored \subseteq Rules(STRING)
  /\ IF wl.grants THEN wl.floor \subseteq stored ELSE wl.floor \subseteq root.rules
  /\ panel = NoPanel \/ panel \subseteq Features
  /\ patch \in Patches
  /\ patch.pc # "idle" => root.feats \subseteq patch.allowed
  /\ patch.pc = "valid" => patch.feats \subseteq patch.allowed

LEMMA ConfInit == Init => ConfInv
<1> SUFFICES ASSUME Init PROVE ConfInv
  OBVIOUS
<1>1. wl \in Workloads /\ IsWorkload(wl)
  BY FilesConstants DEF Init
<1>2. /\ root \in Policies(STRING) /\ stored \subseteq Rules(STRING)
      /\ IF wl.grants THEN wl.floor \subseteq stored ELSE wl.floor \subseteq root.rules
  BY <1>1 DEF Init, IsWorkload
<1>3. patch = NoPatch /\ NoPatch \in Patches /\ NoPatch.pc = "idle"
  BY DEF Init, NoPatch, Patches
<1>4. QED
  BY <1>1, <1>2, <1>3 DEF Init, ConfInv

LEMMA ConfKept ==
  ASSUME ConfInv, UNCHANGED <<wl, conf>>
  PROVE  ConfInv' /\ served' = served /\ Ceiling' = Ceiling
BY DEF ConfInv, conf, Ceiling

LEMMA ConfStep ==
  ASSUME ConfInv, Configures
  PROVE  ConfInv' /\ (patch.pc = "valid" /\ served' # served => served'.feats \subseteq patch.allowed)
<1> DEFINE c == [served EXCEPT !.feats = patch.feats]
<1>0. /\ IsWorkload(wl) /\ wl \in Workloads /\ root \in Policies(STRING) /\ served \in Policies(STRING) /\ patch \in Patches
      /\ root.feats \subseteq Features /\ served.feats \subseteq Features
      /\ NoPatch \in Patches /\ NoPatch.pc = "idle"
  BY FilesConstants DEF ConfInv, Policies, NoPatch, Patches
<1>c. c \in Policies(STRING) /\ c.feats = patch.feats /\ patch.feats \subseteq Features
  BY <1>0 DEF Policies, Patches
<1> HIDE DEF c
<1>1. CASE RootEdits
  <2>1. PICK b \in wl.roots :
          Configured(b, stored, panel, served, [patch EXCEPT !.allowed = IF patch.pc = "idle" THEN {} ELSE @ \cup b.feats])
    BY <1>1 DEF RootEdits
  <2>2. b \in Policies(STRING) /\ b.feats \subseteq Features /\ (~wl.grants => wl.floor \subseteq b.rules)
    BY <1>0 DEF IsWorkload, Policies
  <2>3. /\ patch'.pc = patch.pc /\ patch'.feats = patch.feats /\ patch' \in Patches
        /\ patch.pc # "idle" => patch'.allowed = patch.allowed \cup b.feats
    BY <1>0, <2>1, <2>2 DEF Configured, Patches
  <2>4. QED
    BY <2>1, <2>2, <2>3 DEF Configured, ConfInv
<1>2. CASE RulesStored
  <2>1. PICK s \in wl.stores : Configured(root, s, panel, served, patch)
    BY <1>2 DEF RulesStored
  <2>2. s \subseteq Rules(STRING) /\ (wl.grants => wl.floor \subseteq s)
    BY <1>0 DEF IsWorkload
  <2>3. QED
    BY <2>1, <2>2 DEF Configured, ConfInv
<1>3. CASE Reloads
  <2>1. patch.pc = "idle" /\ Configured(root, stored, panel, Effective(root, panel), patch)
    BY <1>3 DEF Reloads
  <2>2. Effective(root, panel) \in Policies(STRING)
    BY <1>0 DEF ConfInv, Effective, Policies
  <2>3. QED
    BY <2>1, <2>2 DEF Configured, ConfInv
<1>4. CASE PatchBegins
  <2>1. PICK on \in SUBSET wl.feats, save \in BOOLEAN :
          Configured(root, stored, panel, served,
                     [pc |-> "begun", feats |-> (served.feats \ wl.feats) \cup on, save |-> save, allowed |-> root.feats])
    BY <1>4 DEF PatchBegins
  <2>2. wl.feats \subseteq Features
    BY <1>0 DEF IsWorkload
  <2>3. patch' \in Patches /\ patch'.pc = "begun" /\ patch'.allowed = root.feats
    BY <1>0, <2>1, <2>2 DEF Configured, Patches
  <2>4. QED
    BY <1>4, <2>1, <2>3 DEF Configured, ConfInv
<1>5. CASE PatchChecks
  <2>1. patch.pc = "begun" /\ Configured(root, stored, panel, served, IF ValidRuntime(c) THEN [patch EXCEPT !.pc = "valid"] ELSE NoPatch)
    BY <1>5 DEF PatchChecks, c
  <2>2. CASE ValidRuntime(c)
    <3>1. patch' \in Patches /\ patch'.feats = patch.feats /\ patch'.allowed = patch.allowed /\ patch'.pc = "valid"
      BY <1>0, <2>1, <2>2 DEF Configured, Patches
    <3>2. patch.feats \subseteq root.feats
      BY <1>c, <2>2 DEF ValidRuntime, WithinRoot
    <3>3. QED
      BY <2>1, <3>1, <3>2 DEF Configured, ConfInv
  <2>3. CASE ~ValidRuntime(c)
    BY <1>0, <2>1, <2>3 DEF Configured, ConfInv
  <2>4. QED
    BY <2>2, <2>3
<1>6. CASE PatchStores
  <2>1. patch.pc = "valid"
    BY <1>6 DEF PatchStores
  <2>2. CASE Configured(root, stored, panel, served, NoPatch)
    BY <1>0, <2>2 DEF Configured, ConfInv
  <2>3. CASE Configured(root, stored, IF patch.save THEN c.feats ELSE panel, c, NoPatch)
    <3>1. panel' = NoPanel \/ panel' \subseteq Features
      BY <1>c, <2>3 DEF Configured, ConfInv
    <3>2. QED
      BY <1>0, <1>c, <2>1, <2>3, <3>1 DEF Configured, ConfInv
  <2>4. QED
    BY <1>6, <2>2, <2>3 DEF PatchStores, c
<1>7. QED
  BY <1>1, <1>2, <1>3, <1>4, <1>5, <1>6 DEF Configures

-----------------------------------------------------------------------------
(* The requests.                                                              *)

Pcs == {"idle", "stat", "sent", "queued", "work", "staged", "vetted", "done"}
Parts == UNION {[D -> Nodes] : D \in SUBSET Names}
ReqRec == [pc : Pcs, q : Queries, snap : Policies(STRING), pol : Policies(STRING), ceil : Policies(STRING),
           stage : Parts, way : SUBSET Names, res : Results, names : SUBSET Names, atoms : SUBSET Int]

\* The request is in its worker and changes something.
InWorker(x) == x.pc \in {"staged", "vetted"} \/ (x.pc = "work" /\ x.q.op \in Writes)

Admitted(x) == x.pc \in {"queued", "work", "staged", "vetted"}

\* A part of a staged tree may be written, or is a directory nobody was asked about.
PartOK(op, pol, p, way, s) == Permits(pol, p \o s, "write") \/ (op = "extract" /\ s \in way)

\* What is staged may be published.
PublishOK(x) ==
  /\ PolicyAuthorize(x.q, x.pol) = "ok" /\ FeatureOn(x.q, x.pol) = "ok"
  /\ \A s \in DOMAIN x.stage : PartOK(x.q.op, x.pol, Destination(x.q), x.way, s)

\* What is known of a request in the handler or the helper, that holds the lock
\* or not: once it is admitted its policy has the rules that never change and is
\* what its snapshot and the ceiling it saw last both allow.
ReqFine(x, locked, floor) ==
  /\ x.pc # "idle" => IsQuery(x.q)
  /\ InWorker(x) <=> locked
  /\ x.pc = "queued" => x.q.op \in Writes
  /\ x.pc = "stat" => x.q.op \in {"read", "save"}
  /\ x.pc \in {"staged", "vetted"} => x.q.op \in Transactions /\ IsTree(x.stage) /\ <<>> \in DOMAIN x.stage /\ PublishOK(x)
  /\ x.pc \in {"staged", "vetted"} /\ x.q.op = "save" => x.stage[<<>>].kind = "file"
  /\ x.pc \notin {"idle", "done"} /\ x.q.op \in Archives => x.q.path # <<>>
  /\ Admitted(x) => floor \subseteq x.pol.rules /\ x.pol = Restrict(x.snap, x.ceil)

ReqsInv ==
  /\ lock \in Reqs \cup {NoReq}
  /\ req \in [Reqs -> ReqRec]
  /\ \A r \in Reqs : ReqFine(req[r], lock = r, wl.floor)

LEMMA IdleFine ==
  /\ Idle \in ReqRec
  /\ \A floor : ReqFine(Idle, FALSE, floor)
<1>1. NoQuery \in Queries
  BY NodeFacts DEF NoQuery, Query, Queries, Ops, Reads, Modes
<1>2. NoPolicy \in Policies(STRING)
  BY DEF NoPolicy, Policies
<1>3. NoStage \in Parts
  <2>1. NoStage \in [{} -> Nodes] /\ {} \in SUBSET Names
    BY DEF NoStage
  <2>2. QED
    BY <2>1 DEF Parts
<1>4. Idle \in ReqRec
  BY <1>1, <1>2, <1>3 DEF Idle, ReqRec, Pcs, Results
<1>5. ASSUME NEW floor PROVE ReqFine(Idle, FALSE, floor)
  BY DEF ReqFine, Idle, InWorker, Admitted
<1>6. QED
  BY <1>4, <1>5

\* One request takes a step; the others keep their place.
LEMMA ReqStep ==
  ASSUME ReqsInv, wl' = wl, NEW r \in Reqs, NEW x \in ReqRec, req' = [req EXCEPT ![r] = x],
         \/ lock' = lock
         \/ lock' = Released(r)
         \/ lock = NoReq /\ lock' = r,
         ReqFine(x, lock' = r, wl.floor)
  PROVE  ReqsInv'
<1>1. lock' \in Reqs \cup {NoReq} /\ \A s \in Reqs : s # r => (lock' = s <=> lock = s)
  BY FilesConstants DEF ReqsInv, Released
<1>2. req' \in [Reqs -> ReqRec] /\ req'[r] = x /\ \A s \in Reqs : s # r => req'[s] = req[s]
  BY DEF ReqsInv
<1>3. ASSUME NEW s \in Reqs PROVE ReqFine(req[s], lock = s, wl.floor)'
  <2>1. CASE s = r
    BY <1>2, <2>1
  <2>2. CASE s # r
    <3>1. req'[s] = req[s] /\ (lock' = s <=> lock = s) /\ ReqFine(req[s], lock = s, wl.floor)
      BY <1>1, <1>2, <2>2 DEF ReqsInv
    <3>2. ReqFine(req[s], lock' = s, wl.floor)
      BY <3>1 DEF ReqFine
    <3>3. QED
      BY <3>1, <3>2
  <2>3. QED
    BY <2>1, <2>2
<1>4. QED
  BY <1>1, <1>2, <1>3 DEF ReqsInv

LEMMA AnswersFine ==
  ASSUME ReqsInv, NEW r \in Reqs, req[r].pc # "idle",
         NEW res \in Results, NEW names \in SUBSET Names, NEW atoms \in SUBSET Int, Answers(r, res, names, atoms)
  PROVE  /\ ReqsInv' /\ UNCHANGED <<wl, conf>>
         /\ req'[r].pc = "done" /\ req'[r].q = req[r].q /\ req'[r].res = res
         /\ req'[r].names = names /\ req'[r].atoms = atoms
         /\ \A s \in Reqs : s # r => req'[s] = req[s]
<1> DEFINE x == [req[r] EXCEPT !.pc = "done", !.res = res, !.names = names, !.atoms = atoms,
                        !.stage = NoStage, !.way = {}]
<1>0. req \in [Reqs -> ReqRec] /\ req[r] \in ReqRec /\ ReqFine(req[r], lock = r, wl.floor)
  BY DEF ReqsInv
<1>1. NoStage \in Parts
  BY IdleFine DEF Idle, ReqRec
<1>2. /\ x \in ReqRec /\ x.pc = "done" /\ x.q = req[r].q /\ x.res = res
      /\ x.names = names /\ x.atoms = atoms
  BY <1>0, <1>1 DEF ReqRec, Pcs
<1>3. req' = [req EXCEPT ![r] = x]
  BY <1>0 DEF Answers
<1> HIDE DEF x
<1>4. lock' = Released(r) /\ UNCHANGED <<wl, conf>>
  BY DEF Answers
<1>5. lock' # r
  BY <1>4, FilesConstants DEF Released
<1>6. ReqFine(x, lock' = r, wl.floor)
  BY <1>0, <1>2, <1>5 DEF ReqFine, InWorker, Admitted
<1>7. ReqsInv'
  BY <1>2, <1>3, <1>4, <1>6, ReqStep
<1>8. req'[r] = x /\ \A s \in Reqs : s # r => req'[s] = req[s]
  BY <1>0, <1>3
<1>9. QED
  BY <1>2, <1>4, <1>7, <1>8

-----------------------------------------------------------------------------
(* The inductive invariant.                                                   *)

FilesInv ==
  /\ Sound(tree)
  /\ \A id \in DOMAIN trash : id \in Int /\ Entry(trash[id])
  /\ tab \in [Reqs -> [path : Paths \cup {NoPath}, node : Nodes]]
  /\ fresh \in Nat \ {0}

IInv == ConfInv /\ ReqsInv /\ FilesInv

LEMMA FilesKept ==
  ASSUME FilesInv, UNCHANGED <<tree, trash, tab, fresh>>
  PROVE  FilesInv'
BY DEF FilesInv

LEMMA IInvInit == Init => IInv
<1> SUFFICES ASSUME Init PROVE IInv
  OBVIOUS
<1>1. ConfInv /\ IsWorkload(wl)
  BY ConfInit, FilesConstants DEF ConfInv
<1>2. ReqsInv
  <2>1. lock = NoReq /\ NoReq \notin Reqs /\ req = [r \in Reqs |-> Idle]
    BY FilesConstants DEF Init
  <2>2. ASSUME NEW r \in Reqs PROVE ReqFine(req[r], lock = r, wl.floor)
    <3>1. req[r] = Idle /\ (lock = r <=> FALSE)
      BY <2>1
    <3>2. ReqFine(Idle, FALSE, wl.floor)
      BY IdleFine
    <3>3. QED
      BY <3>1, <3>2 DEF ReqFine
  <2>3. QED
    BY <2>1, <2>2, IdleFine DEF ReqsInv
<1>3. Sound(tree)
  <2> DEFINE w == wl.tree
  <2>1. /\ DOMAIN w \subseteq Paths /\ <<>> \in DOMAIN w /\ w[<<>>].kind = "dir" /\ IsTree(w)
    BY <1>1 DEF IsWorkload
  <2>2. tree = [p \in Paths |-> IF p \in DOMAIN w THEN w[p] ELSE Nothing]
    BY DEF Init
  <2> HIDE DEF w
  <2>3. \A s \in DOMAIN w : w[s] \in Nodes /\ \A u \in Names : Below(s, u) => u \in DOMAIN w /\ w[u].kind = "dir"
    BY <2>1, TreeForm
  <2>4. tree \in [Paths -> Nodes] /\ IsDir(tree, <<>>)
    BY <2>1, <2>2, <2>3, NodeFacts, PathFacts DEF IsDir
  <2>5. ASSUME NEW x \in Paths, NEW p \in Paths, Exists(tree, x), Below(x, p) PROVE IsDir(tree, p)
    <3>1. x \in DOMAIN w
      BY <2>2, <2>5 DEF Exists, Nothing
    <3>2. p \in DOMAIN w /\ w[p].kind = "dir"
      BY <2>3, <2>5, <3>1, PathFacts
    <3>3. QED
      BY <2>2, <3>2 DEF IsDir
  <2>6. QED
    BY <2>4, <2>5 DEF Sound
<1>4. \A id \in DOMAIN trash : id \in Int /\ Entry(trash[id])
  BY <1>1 DEF Init, IsWorkload
<1>5. tab \in [Reqs -> [path : Paths \cup {NoPath}, node : Nodes]]
  BY NodeFacts DEF Init, NoTab
<1>6. fresh \in Nat \ {0}
  BY <1>1 DEF Init, IsWorkload
<1>7. QED
  BY <1>1, <1>2, <1>3, <1>4, <1>5, <1>6 DEF IInv, FilesInv

-----------------------------------------------------------------------------
(* A request is asked.                                                        *)

LEMMA ArchiveNamed ==
  ASSUME NEW pol, NEW q, q.op \in Archives, ServerDecides(pol, q) = "ok"
  PROVE  q.path # <<>>
<1>1. PICK names : ServerDecides(pol, q) = ArchiveRequest(pol, q, names)
  <2>1. CASE q.op = "zip"
    BY <2>1 DEF ServerDecides, CompressZipRequest
  <2>2. CASE q.op = "targz"
    BY <2>2 DEF ServerDecides, CompressTarGzRequest
  <2>3. QED
    BY <2>1, <2>2 DEF Archives
<1>2. DeniedIf(q.path = <<>>) = "ok"
  BY <1>1, SmallVerdicts, PolicyVerdict, VerdictLists DEF ArchiveRequest
<1>3. QED
  BY <1>2 DEF DeniedIf

LEMMA DispatchedFine ==
  ASSUME ConfInv, ReqsInv, NEW r \in Reqs, NEW q, IsQuery(q), Dispatched(r, q)
  PROVE  /\ ReqsInv' /\ UNCHANGED <<wl, conf, tree, trash, lock>> /\ lock # r
         /\ req'[r].pc \in {"stat", "sent", "done"} /\ req'[r].q = q
         /\ req'[r].snap = served /\ req'[r].res = ServerDecides(served, q)
         /\ req'[r].pc = "done" => req'[r].res # "ok"
         /\ req'[r].names = {} /\ req'[r].atoms = {}
         /\ \A s \in Reqs : s # r => req'[s] = req[s]
<1> DEFINE decided == ServerDecides(served, q)
           x == [Idle EXCEPT !.pc = IF decided = "ok" THEN FirstCall(q.op) ELSE "done",
                             !.q = q, !.snap = served, !.res = decided]
<1>0. req \in [Reqs -> ReqRec] /\ ReqFine(req[r], lock = r, wl.floor) /\ Idle \in ReqRec
  BY IdleFine DEF ReqsInv
<1>1. /\ req[r].pc \in {"idle", "done"}
      /\ req' = [req EXCEPT ![r] = x]
      /\ UNCHANGED <<wl, conf, tree, trash, lock>>
  BY DEF Dispatched
<1>2. lock # r
  BY <1>0, <1>1 DEF ReqFine, InWorker
<1>3. q \in Queries /\ q.op \in Ops /\ served \in Policies(STRING)
  BY DEF IsQuery, Queries, ConfInv
<1>4. decided \in Verdicts
  BY <1>3, ServerVerdict
<1>5. q.op \in Archives /\ decided = "ok" => q.path # <<>>
  BY ArchiveNamed
<1> HIDE DEF decided
<1>6. /\ x \in ReqRec /\ x.q = q /\ x.snap = served /\ x.res = decided /\ x.names = {} /\ x.atoms = {}
      /\ x.pc = IF decided = "ok" THEN FirstCall(q.op) ELSE "done"
  BY <1>0, <1>3, <1>4 DEF Idle, ReqRec, Pcs, FirstCall, Verdicts, Results
<1> HIDE DEF x
<1>7. /\ x.pc \in {"stat", "sent", "done"} /\ (x.pc = "done" <=> decided # "ok")
      /\ x.pc = "stat" => q.op \in {"read", "save"}
  BY <1>6 DEF FirstCall
<1>8. ReqFine(x, lock' = r, wl.floor)
  BY <1>1, <1>2, <1>5, <1>6, <1>7 DEF ReqFine, InWorker, Admitted
<1>9. ReqsInv'
  BY <1>1, <1>6, <1>8, ReqStep
<1>10. req'[r] = x /\ \A s \in Reqs : s # r => req'[s] = req[s]
  BY <1>0, <1>1
<1>11. QED
  BY <1>1, <1>2, <1>6, <1>7, <1>9, <1>10 DEF decided

\* Whatever is asked, the request is well formed and nothing else has changed.
LEMMA AskedFine ==
  ASSUME IInv, NEW r \in Reqs, Asks(r)
  PROVE  /\ \E q : IsQuery(q) /\ Dispatched(r, q) /\ (q.op \in {"save", "upload"} => q.atom = fresh)
         /\ UNCHANGED tab /\ fresh' \in {fresh, fresh + 1}
<1>0. /\ \A q \in wl.queries : IsQuery(q)
      /\ fresh \in Nat /\ tab[r].node \in Nodes
      /\ \A id \in DOMAIN trash : id \in Int
  BY FilesConstants DEF IInv, ConfInv, FilesInv, IsWorkload
<1>1. ASSUME NEW ops, "save" \notin ops, "upload" \notin ops, Asked(r, ops)
      PROVE  /\ \E q : IsQuery(q) /\ Dispatched(r, q) /\ (q.op \in {"save", "upload"} => q.atom = fresh)
             /\ UNCHANGED <<tab, fresh>>
  BY <1>0, <1>1 DEF Asked
<1>2. CASE AskUpload(r)
  <2>1. PICK q \in wl.queries : Dispatched(r, [q EXCEPT !.atom = fresh]) /\ fresh' = fresh + 1 /\ UNCHANGED tab
    BY <1>2 DEF AskUpload
  <2>2. IsQuery(q)
    BY <1>0
  <2>3. IsQuery([q EXCEPT !.atom = fresh]) /\ [q EXCEPT !.atom = fresh].atom = fresh
    BY <1>0, <2>2 DEF IsQuery, Queries
  <2>4. QED
    BY <2>1, <2>3
<1>3. CASE AskSave(r)
  <2>1. PICK q \in wl.queries :
          /\ Dispatched(r, [q EXCEPT !.atom = fresh, !.tok = IF q.by = "none" THEN Nothing ELSE tab[r].node])
          /\ fresh' = fresh + 1 /\ UNCHANGED tab
    BY <1>3 DEF AskSave
  <2>2. PICK n \in Nodes : n = IF q.by = "none" THEN Nothing ELSE tab[r].node
    BY <1>0, NodeFacts
  <2>3. IsQuery(q)
    BY <1>0
  <2>4. IsQuery([q EXCEPT !.atom = fresh, !.tok = n]) /\ [q EXCEPT !.atom = fresh, !.tok = n].atom = fresh
    BY <1>0, <2>3 DEF IsQuery, Queries
  <2>5. QED
    BY <2>1, <2>2, <2>4
<1>4. CASE \E q \in {x \in wl.queries : x.op \in {"restore", "purge"}}, id \in DOMAIN trash :
             Dispatched(r, [q EXCEPT !.id = id]) /\ UNCHANGED <<tab, fresh>>
  <2>1. PICK q \in wl.queries, id \in DOMAIN trash :
          q.op \in {"restore", "purge"} /\ Dispatched(r, [q EXCEPT !.id = id]) /\ UNCHANGED <<tab, fresh>>
    BY <1>4
  <2>2. IsQuery(q) /\ id \in Int
    BY <1>0
  <2>3. IsQuery([q EXCEPT !.id = id]) /\ [q EXCEPT !.id = id].op \notin {"save", "upload"}
    BY <2>1, <2>2 DEF IsQuery, Queries
  <2>4. QED
    BY <2>1, <2>3
<1>5. QED
  BY <1>1, <1>2, <1>3, <1>4 DEF Asks, AskRead, AskSearch, AskChange, AskTrash, AskArchive

-----------------------------------------------------------------------------
(* The supervisor.                                                            *)

LEMMA RestrictTyped ==
  ASSUME ConfInv, NEW snap \in Policies(STRING)
  PROVE  /\ Ceiling \in Policies(STRING) /\ Restrict(snap, Ceiling) \in Policies(STRING)
         /\ wl.floor \subseteq Restrict(snap, Ceiling).rules
<1>1. Ceiling \in Policies(STRING) /\ wl.floor \subseteq Ceiling.rules
  <2>1. CASE wl.grants
    <3>1. Ceiling \in Policies(STRING) /\ Ceiling.rules = root.rules \cup stored
      BY <2>1 DEF ConfInv, Ceiling, Policies
    <3>2. QED
      BY <2>1, <3>1 DEF ConfInv
  <2>2. CASE ~wl.grants
    BY <2>2 DEF ConfInv, Ceiling
  <2>3. QED
    BY <2>1, <2>2
<1>2. Restrict(snap, Ceiling) \in Policies(STRING)
  BY <1>1 DEF Restrict, Policies
<1>3. Restrict(snap, Ceiling).rules = snap.rules \cup Ceiling.rules
  BY DEF Restrict
<1>4. QED
  BY <1>1, <1>2, <1>3 DEF ConfInv

StatAnswer(q, pol) == First(<< Authorize(Query("stat", q.path, NoPath), pol), Found(tree, q.path) >>)

LEMMA StattedFine ==
  ASSUME IInv, NEW r \in Reqs, Statted(r)
  PROVE  /\ IInv' /\ UNCHANGED <<wl, conf, tree, trash, lock, tab, fresh>> /\ lock # r
         /\ req[r].pc = "stat" /\ req'[r].q = req[r].q
         /\ req'[r].names = req[r].names /\ req'[r].atoms = req[r].atoms
         /\ \/ req'[r].pc = "sent"
            \/ /\ req'[r].pc = "done"
               /\ StatAnswer(req[r].q, Restrict(req[r].snap, Ceiling)) = "notfound" => req'[r].res = "notfound"
         /\ \A s \in Reqs : s # r => req'[s] = req[s]
<1> DEFINE q == req[r].q
           pol == Restrict(req[r].snap, Ceiling)
           s == StatAnswer(q, pol)
           unexpected == q.by = "modified" /\ tree[q.path] # q.tok
           res == IF s = "notfound" THEN (IF q.op = "read" \/ q.by = "modified" THEN "notfound" ELSE "ok")
                  ELSE First(<< s, DeniedIf(IsDir(tree, q.path) \/ Sensitive(pol, q.path)),
                                IF unexpected THEN "conflict" ELSE "ok" >>)
           x == IF res = "ok" THEN [req[r] EXCEPT !.pc = "sent"] ELSE [req[r] EXCEPT !.pc = "done", !.res = res]
<1>0. req \in [Reqs -> ReqRec] /\ req[r] \in ReqRec /\ ReqFine(req[r], lock = r, wl.floor)
  BY DEF IInv, ReqsInv
<1>1. /\ req[r].pc = "stat"
      /\ UNCHANGED <<wl, tree, trash, conf, lock, tab, fresh, asked>>
  BY DEF Statted
<1>2. s \in Verdicts
  <2>1. PICK a \in Verdicts : a = Authorize(Query("stat", q.path, NoPath), pol)
    BY HelperVerdicts
  <2>2. PICK b \in Verdicts : b = Found(tree, q.path)
    BY DEF Found, Verdicts
  <2>3. s = First(<<a, b>>)
    BY <2>1, <2>2 DEF StatAnswer
  <2>4. QED
    BY <2>3, VerdictLists
<1>3. req' = [req EXCEPT ![r] = x]
  <2>1. req' = IF res = "ok" THEN [req EXCEPT ![r].pc = "sent"] ELSE Answered(r, res)
    BY DEF Statted, StatAnswer
  <2> HIDE DEF res
  <2>2. QED
    BY <1>0, <2>1 DEF Answered
<1>4. lock # r
  BY <1>0, <1>1 DEF ReqFine, InWorker
<1>5. res \in Results
  <2>1. CASE s = "notfound"
    BY <2>1 DEF Results
  <2>2. CASE s # "notfound"
    <3>1. DeniedIf(IsDir(tree, q.path) \/ Sensitive(pol, q.path)) \in Verdicts
      BY SmallVerdicts
    <3> HIDE DEF s, unexpected
    <3>2. QED
      BY <1>2, <2>2, <3>1, FirstOfThree DEF Verdicts, Results
  <2>3. QED
    BY <2>1, <2>2
<1>6. s = "notfound" /\ res # "ok" => res = "notfound"
  OBVIOUS
<1> HIDE DEF res
<1>7. /\ x \in ReqRec /\ x.pc \in {"sent", "done"} /\ x.q = q /\ x.names = req[r].names /\ x.atoms = req[r].atoms
      /\ x.pc = "done" => res # "ok" /\ x.res = res
  BY <1>0, <1>5 DEF ReqRec, Pcs
<1> HIDE DEF x
<1>8. ReqFine(x, lock' = r, wl.floor)
  BY <1>0, <1>1, <1>4, <1>7 DEF ReqFine, InWorker, Admitted
<1>9. ReqsInv'
  BY <1>1, <1>3, <1>7, <1>8, ReqStep DEF IInv
<1>10. ConfInv' /\ FilesInv'
  BY <1>1, ConfKept, FilesKept DEF IInv
<1>11. req'[r] = x /\ \A t \in Reqs : t # r => req'[t] = req[t]
  BY <1>0, <1>3
<1>12. QED
  BY <1>1, <1>4, <1>6, <1>7, <1>9, <1>10, <1>11 DEF IInv

LEMMA RefusesFine ==
  ASSUME IInv, NEW r \in Reqs, req[r].pc # "idle", NEW res \in Results, Refuses(r, res)
  PROVE  /\ IInv' /\ UNCHANGED <<wl, conf, tree, trash, tab, fresh>>
         /\ req'[r].pc = "done" /\ req'[r].q = req[r].q /\ req'[r].res = res
         /\ req'[r].names = {} /\ req'[r].atoms = {}
         /\ \A s \in Reqs : s # r => req'[s] = req[s]
<1>1. Answers(r, res, {}, {}) /\ UNCHANGED <<tree, trash, tab, fresh>>
  BY DEF Refuses
<1>2. /\ ReqsInv' /\ UNCHANGED <<wl, conf>>
      /\ req'[r].pc = "done" /\ req'[r].q = req[r].q /\ req'[r].res = res
      /\ req'[r].names = {} /\ req'[r].atoms = {}
      /\ \A s \in Reqs : s # r => req'[s] = req[s]
  <2>1. PICK names \in SUBSET Names, atoms \in SUBSET Int : names = {} /\ atoms = {}
    OBVIOUS
  <2>2. Answers(r, res, names, atoms)
    BY <1>1, <2>1
  <2>3. QED
    BY <2>1, <2>2, AnswersFine DEF IInv
<1>3. ConfInv' /\ FilesInv'
  BY <1>1, <1>2, ConfKept, FilesKept DEF IInv
<1>4. QED
  BY <1>1, <1>2, <1>3 DEF IInv

LEMMA AdmitsFine ==
  ASSUME IInv, NEW r \in Reqs, Admits(r)
  PROVE  /\ IInv' /\ UNCHANGED <<wl, conf, tree, trash, tab, fresh>> /\ lock # r
         /\ req[r].pc = "sent" /\ req'[r].q = req[r].q
         /\ LET pol == Restrict(req[r].snap, Ceiling)
                res == Authorize(req[r].q, pol)
            IN  /\ req'[r].pol = pol /\ req'[r].res = res
                /\ \/ res # "ok" /\ req'[r].pc = "done"
                   \/ res = "ok" /\ req'[r].pc \in {"work", "queued"}
         /\ req'[r].names = req[r].names /\ req'[r].atoms = req[r].atoms
         /\ \A s \in Reqs : s # r => req'[s] = req[s]
<1> DEFINE pol == Restrict(req[r].snap, Ceiling)
           res == Authorize(req[r].q, pol)
           pc == IF res # "ok" THEN "done" ELSE IF req[r].q.op \in Reads THEN "work" ELSE "queued"
           x == [req[r] EXCEPT !.pc = pc, !.res = res, !.pol = pol, !.ceil = Ceiling]
<1>0. req \in [Reqs -> ReqRec] /\ req[r] \in ReqRec /\ ReqFine(req[r], lock = r, wl.floor)
  BY DEF IInv, ReqsInv
<1>1. /\ req[r].pc = "sent"
      /\ req' = [req EXCEPT ![r].pc = pc, ![r].res = res, ![r].pol = pol, ![r].ceil = Ceiling]
      /\ UNCHANGED <<wl, tree, trash, conf, lock, tab, fresh, asked>>
  BY DEF Admits
<1>2. lock # r
  BY <1>0, <1>1 DEF ReqFine, InWorker
<1>3. pol \in Policies(STRING) /\ wl.floor \subseteq pol.rules /\ Ceiling \in Policies(STRING)
  BY <1>0, RestrictTyped DEF IInv, ReqRec
<1>4. res \in Results
  BY HelperVerdicts DEF Verdicts, Results
<1>5. pc \in {"done", "work", "queued"} /\ (pc = "done" <=> res # "ok")
  OBVIOUS
<1>6. (pc = "work" => req[r].q.op \notin Writes) /\ (pc = "queued" => req[r].q.op \in Writes)
  BY <1>0, <1>1 DEF ReqFine, IsQuery, Queries, Ops, Reads, Writes, Creates, Archives, Carries
<1>7. x.pol = Restrict(req[r].snap, Ceiling) /\ x.res = res
  BY <1>0 DEF ReqRec
<1> HIDE DEF res, pc
<1>8. req' = [req EXCEPT ![r] = x]
  <2> HIDE DEF pol
  <2>1. QED
    BY <1>0, <1>1
<1>9. /\ x \in ReqRec /\ x.pc = pc /\ x.q = req[r].q /\ x.pol = pol /\ x.snap = req[r].snap /\ x.ceil = Ceiling
      /\ x.names = req[r].names /\ x.atoms = req[r].atoms
  <2> HIDE DEF pol
  <2>1. QED
    BY <1>0, <1>3, <1>4, <1>5 DEF ReqRec, Pcs
<1>10. x.pol = Restrict(x.snap, x.ceil)
  BY <1>7, <1>9
<1> HIDE DEF x, pol
<1>11. ReqFine(x, lock' = r, wl.floor)
  BY <1>0, <1>1, <1>2, <1>3, <1>5, <1>6, <1>9, <1>10 DEF ReqFine, InWorker, Admitted
<1>12. ReqsInv'
  BY <1>1, <1>8, <1>9, <1>11, ReqStep DEF IInv
<1>13. ConfInv' /\ FilesInv'
  BY <1>1, ConfKept, FilesKept DEF IInv
<1>14. req'[r] = x /\ \A t \in Reqs : t # r => req'[t] = req[t]
  BY <1>0, <1>8
<1>15. QED
  BY <1>1, <1>2, <1>5, <1>7, <1>9, <1>12, <1>13, <1>14 DEF IInv, res, pol

LEMMA LocksFine ==
  ASSUME IInv, NEW r \in Reqs, Locks(r)
  PROVE  /\ IInv' /\ UNCHANGED <<wl, conf, tree, trash, tab, fresh>> /\ lock # r
         /\ req[r].pc = "queued" /\ req'[r].q = req[r].q
         /\ \/ req'[r].pc = "done" /\ req'[r].names = {} /\ req'[r].atoms = {}
            \/ req'[r].pc = "work" /\ req'[r].names = req[r].names /\ req'[r].atoms = req[r].atoms
         /\ \A s \in Reqs : s # r => req'[s] = req[s]
<1> DEFINE pol == LockedPolicy(r)
           ceil == IF wl.grants THEN Ceiling ELSE req[r].ceil
           x == [req[r] EXCEPT !.pc = "work", !.pol = pol, !.ceil = ceil]
<1>0. req \in [Reqs -> ReqRec] /\ req[r] \in ReqRec /\ ReqFine(req[r], lock = r, wl.floor)
  BY DEF IInv, ReqsInv
<1>1. req[r].pc = "queued" /\ lock = NoReq
  BY DEF Locks
<1>2. lock # r
  BY <1>1, FilesConstants
<1>3. /\ pol \in Policies(STRING) /\ wl.floor \subseteq pol.rules /\ ceil \in Policies(STRING)
      /\ pol = Restrict(req[r].snap, ceil)
  <2>1. CASE wl.grants
    BY <1>0, <2>1, RestrictTyped DEF IInv, ReqRec, LockedPolicy
  <2>2. CASE ~wl.grants
    <3>1. pol = req[r].pol /\ ceil = req[r].ceil
      BY <2>2 DEF LockedPolicy
    <3>2. wl.floor \subseteq req[r].pol.rules /\ req[r].pol = Restrict(req[r].snap, req[r].ceil)
      BY <1>0, <1>1 DEF ReqFine, Admitted
    <3>3. req[r].pol \in Policies(STRING) /\ req[r].ceil \in Policies(STRING)
      BY <1>0 DEF ReqRec
    <3>4. QED
      BY <3>1, <3>2, <3>3
  <2>3. QED
    BY <2>1, <2>2
<1>4. CASE Refuses(r, "failed")
  <2>1. PICK res \in Results : res = "failed"
    BY DEF Results
  <2>2. QED
    BY <1>1, <1>2, <1>4, <2>1, RefusesFine
<1>5. CASE /\ req' = [req EXCEPT ![r].pc = "work", ![r].pol = pol, ![r].ceil = IF wl.grants THEN Ceiling ELSE @]
           /\ lock' = r
           /\ UNCHANGED <<wl, tree, trash, conf, tab, fresh, asked>>
  <2>1. req' = [req EXCEPT ![r] = x]
    <3> HIDE DEF pol
    <3>1. QED
      BY <1>0, <1>5
  <2> HIDE DEF pol, ceil
  <2>2. /\ x \in ReqRec /\ x.pc = "work" /\ x.q = req[r].q /\ x.pol = pol
        /\ x.snap = req[r].snap /\ x.ceil = ceil
        /\ x.names = req[r].names /\ x.atoms = req[r].atoms
    BY <1>0, <1>3 DEF ReqRec, Pcs
  <2> HIDE DEF x
  <2>3. ReqFine(x, lock' = r, wl.floor)
    BY <1>0, <1>1, <1>3, <1>5, <2>2 DEF ReqFine, InWorker, Admitted
  <2>4. ReqsInv'
    BY <1>1, <1>5, <2>1, <2>2, <2>3, ReqStep DEF IInv
  <2>5. ConfInv' /\ FilesInv'
    BY <1>5, ConfKept, FilesKept DEF IInv
  <2>6. req'[r] = x /\ \A t \in Reqs : t # r => req'[t] = req[t]
    BY <1>0, <2>1
  <2>7. QED
    BY <1>1, <1>2, <1>5, <2>2, <2>4, <2>5, <2>6 DEF IInv
<1>6. QED
  BY <1>4, <1>5 DEF Locks

-----------------------------------------------------------------------------
(* The worker.                                                                *)

LEMMA AccessParts ==
  ASSUME NEW q, NEW pol, AccessAuthorize(q, pol) = "ok"
  PROVE  /\ q.op \notin {"listtrash", "restore", "purge", "quota"} => Permits(pol, HelperPath(q), OperationAccess(q.op))
         /\ HelperTarget(q) # NoPath => Permits(pol, HelperTarget(q), "write")
         /\ q.op \in Archives => Permits(pol, q.path, "read")
<1> DEFINE a == IF q.op \in {"listtrash", "restore", "purge", "quota"} THEN "ok"
                ELSE Check(pol, HelperPath(q), OperationAccess(q.op))
           b == IF HelperTarget(q) = NoPath THEN "ok" ELSE Check(pol, HelperTarget(q), "write")
           c == IF q.op \in Archives THEN Check(pol, q.path, "read") ELSE "ok"
<1>1. First(<<a, b, c>>) = "ok"
  BY DEF AccessAuthorize
<1> HIDE DEF a, b, c
<1>2. a = "ok" /\ b = "ok" /\ c = "ok"
  BY <1>1, FirstOfThree
<1>3. QED
  BY <1>2 DEF a, b, c, Permits

\* Whatever is permitted at a path, the path may be seen.
LEMMA PermitsDiscover ==
  ASSUME NEW pol, NEW p, NEW a, Permits(pol, p, a)
  PROVE  Permits(pol, p, "discover")
BY DEF Permits, Check, Denied, Undiscoverable, AtOrBelow

LEMMA WorkingFacts ==
  ASSUME IInv, NEW r \in Reqs, NEW op, Working(r, op)
  PROVE  /\ req[r] \in ReqRec /\ req[r].pc = "work" /\ IsQuery(req[r].q) /\ req[r].q \in Queries
         /\ req[r].q.op = op /\ req[r].pol \in Policies(STRING)
         /\ req[r].q.path = NoPath \/ req[r].q.path \in Paths
         /\ req[r].q.target = NoPath \/ req[r].q.target \in Paths
         /\ AccessAuthorize(req[r].q, req[r].pol) = "ok" /\ Preflight(req[r].q, req[r].pol) = "ok"
         /\ PolicyAuthorize(req[r].q, req[r].pol) = "ok" /\ FeatureOn(req[r].q, req[r].pol) = "ok"
         /\ op \in Writes <=> lock = r
         /\ wl.floor \subseteq req[r].pol.rules
         /\ op \in Archives => req[r].q.path # <<>>
<1> DEFINE q == req[r].q
           pol == req[r].pol
<1>1. req[r] \in ReqRec /\ ReqFine(req[r], lock = r, wl.floor)
  BY DEF IInv, ReqsInv
<1>2. req[r].pc = "work" /\ q.op = op /\ WorkerDecides(q, pol) = "ok"
  BY DEF Working
<1>3. First(<< AccessAuthorize(q, pol), Preflight(q, pol), PolicyAuthorize(q, pol), FeatureOn(q, pol) >>) = "ok"
  BY <1>2 DEF WorkerDecides
<1>4. AccessAuthorize(q, pol) = "ok" /\ Preflight(q, pol) = "ok" /\ PolicyAuthorize(q, pol) = "ok" /\ FeatureOn(q, pol) = "ok"
  BY <1>3, FirstOfFour
<1>5. IsQuery(q) /\ (op \in Writes <=> lock = r) /\ wl.floor \subseteq pol.rules /\ (op \in Archives => q.path # <<>>)
  BY <1>1, <1>2 DEF ReqFine, InWorker, Admitted
<1>6. q \in Queries /\ pol \in Policies(STRING)
  BY <1>1 DEF ReqRec
<1>7. QED
  BY <1>1, <1>2, <1>4, <1>5, <1>6 DEF Queries

LEMMA ReportsFine ==
  ASSUME IInv, NEW r \in Reqs, req[r].pc # "idle", NEW res \in Results,
         NEW names \in SUBSET Names, NEW atoms \in SUBSET Int, Reports(r, res, names, atoms)
  PROVE  /\ IInv' /\ UNCHANGED <<wl, conf, tree, trash, tab, fresh>>
         /\ req'[r].pc = "done" /\ req'[r].q = req[r].q /\ req'[r].res = res
         /\ req'[r].names \subseteq names /\ req'[r].atoms \subseteq atoms
         /\ res # "ok" => req'[r].names = {} /\ req'[r].atoms = {}
         /\ \A s \in Reqs : s # r => req'[s] = req[s]
<1>1. CASE res # "ok" /\ Refuses(r, res)
  BY <1>1, RefusesFine
<1>2. CASE res = "ok" /\ Answers(r, res, names, atoms) /\ UNCHANGED <<tree, trash, tab, fresh>>
  <2>1. /\ ReqsInv' /\ UNCHANGED <<wl, conf>>
        /\ req'[r].pc = "done" /\ req'[r].q = req[r].q /\ req'[r].res = res
        /\ req'[r].names = names /\ req'[r].atoms = atoms
        /\ \A s \in Reqs : s # r => req'[s] = req[s]
    BY <1>2, AnswersFine DEF IInv
  <2>2. ConfInv' /\ FilesInv'
    BY <1>2, <2>1, ConfKept, FilesKept DEF IInv
  <2>3. QED
    BY <1>2, <2>1, <2>2 DEF IInv
<1>3. QED
  BY <1>1, <1>2 DEF Reports

LEMMA WorkerRefusesFine ==
  ASSUME IInv, NEW r \in Reqs, WorkerRefuses(r)
  PROVE  /\ req[r].pc = "work" /\ IInv' /\ UNCHANGED <<wl, conf, tree, trash, tab, fresh>>
         /\ req'[r].pc = "done" /\ req'[r].q = req[r].q
         /\ req'[r].res \in {"notfound", "denied"} /\ req'[r].names = {} /\ req'[r].atoms = {}
         /\ \A s \in Reqs : s # r => req'[s] = req[s]
<1>1. PICK res \in Verdicts : res = WorkerDecides(req[r].q, req[r].pol)
  BY HelperVerdicts
<1>2. req[r].pc = "work" /\ res # "ok" /\ Refuses(r, res)
  BY <1>1 DEF WorkerRefuses
<1>3. res \in Results /\ res \in {"notfound", "denied"}
  BY <1>2 DEF Verdicts, Results
<1>4. QED
  BY <1>2, <1>3, RefusesFine

\* An answer of a reading worker: it changes nothing, and what it names may be
\* seen, what it carries may be read.
ReadOnly(r) ==
  /\ UNCHANGED <<wl, conf, tree, trash, fresh>>
  /\ req[r].pc = "work" /\ req'[r].pc = "done" /\ req'[r].q = req[r].q
  /\ \A p \in req'[r].names : Permits(req[r].pol, p, "discover")
  /\ \A a \in req'[r].atoms : /\ req[r].q.path \in Paths /\ a \in AtomsOf(tree[req[r].q.path])
                              /\ Permits(req[r].pol, req[r].q.path, "read")
  /\ \A s \in Reqs : s # r => req'[s] = req[s]

LEMMA ReadOnlyReports ==
  ASSUME IInv, NEW r \in Reqs, req[r].pc = "work", NEW res \in Results,
         NEW names \in SUBSET Names, NEW atoms \in SUBSET Int, Reports(r, res, names, atoms),
         \A p \in names : res = "ok" => Permits(req[r].pol, p, "discover"),
         \A a \in atoms : res = "ok" => /\ req[r].q.path \in Paths /\ a \in AtomsOf(tree[req[r].q.path])
                                        /\ Permits(req[r].pol, req[r].q.path, "read")
  PROVE  IInv' /\ ReadOnly(r)
<1>1. /\ IInv' /\ UNCHANGED <<wl, conf, tree, trash, tab, fresh>>
      /\ req'[r].pc = "done" /\ req'[r].q = req[r].q /\ req'[r].res = res
      /\ req'[r].names \subseteq names /\ req'[r].atoms \subseteq atoms
      /\ res # "ok" => req'[r].names = {} /\ req'[r].atoms = {}
      /\ \A s \in Reqs : s # r => req'[s] = req[s]
  BY ReportsFine
<1>2. QED
  BY <1>1 DEF ReadOnly

LEMMA AccessOf ==
  /\ \A op \in {"list", "stat", "search"} : OperationAccess(op) = "discover"
  /\ \A op \in {"download", "range", "read"} : OperationAccess(op) = "read"
  /\ \A op \in {"copy", "extract"} : OperationAccess(op) = "read"
  /\ \A op \in Archives : OperationAccess(op) = "read"
  /\ \A op \in {"save", "upload", "mkdir"} : OperationAccess(op) = "write"
  /\ \A op \in Carries : OperationAccess(op) = "move"
  /\ \A op \in {"trash", "delete"} : OperationAccess(op) = "delete"
  /\ OperationAccess("chmod") = "chmod"
BY DEF OperationAccess, Archives, Creates, Carries

LEMMA ReadPath ==
  ASSUME IInv, NEW r \in Reqs, NEW op \in {"list", "stat", "search", "download", "range", "read"}, Working(r, op)
  PROVE  /\ req[r].q.path \in Paths
         /\ Permits(req[r].pol, req[r].q.path, "discover")
         /\ op \in {"download", "range", "read"} => Permits(req[r].pol, req[r].q.path, "read")
<1> DEFINE q == req[r].q
<1>1. /\ q.op = op /\ IsQuery(q) /\ (q.path = NoPath \/ q.path \in Paths)
      /\ AccessAuthorize(q, req[r].pol) = "ok"
  BY WorkingFacts
<1>2. q.path \in Paths /\ HelperPath(q) = q.path
  BY <1>1 DEF IsQuery, HelperPath, Archives
<1>3. Permits(req[r].pol, q.path, OperationAccess(op))
  BY <1>1, <1>2, AccessParts
<1>4. OperationAccess(op) = IF op \in {"download", "range", "read"} THEN "read" ELSE "discover"
  BY AccessOf
<1>5. QED
  BY <1>2, <1>3, <1>4, PermitsDiscover

LEMMA FoundResult == \A t, p : Found(t, p) \in Results /\ ReadResult(t, p) \in Results
  /\ (Found(t, p) = "ok" => p \in Paths /\ Exists(t, p))
  /\ (ReadResult(t, p) = "ok" => p \in Paths /\ IsFile(t, p))
<1> SUFFICES ASSUME NEW t, NEW p
             PROVE  /\ Found(t, p) \in Results /\ ReadResult(t, p) \in Results
                    /\ (Found(t, p) = "ok" => p \in Paths /\ Exists(t, p))
                    /\ (ReadResult(t, p) = "ok" => p \in Paths /\ IsFile(t, p))
  OBVIOUS
<1>1. Found(t, p) \in {"ok", "notfound"} /\ (Found(t, p) = "ok" => p \in Paths /\ Exists(t, p))
  BY DEF Found
<1>2. PICK a \in {"ok", "notfound"}, b \in {"ok", "invalid"} :
        a = Found(t, p) /\ b = (IF IsFile(t, p) THEN "ok" ELSE "invalid")
  BY <1>1
<1>3. ReadResult(t, p) = First(<<a, b>>)
  BY <1>2 DEF ReadResult
<1>4. ReadResult(t, p) \in {a, b} /\ (ReadResult(t, p) = "ok" => a = "ok" /\ b = "ok")
  BY <1>3, FirstOfTwo
<1>5. QED
  BY <1>1, <1>2, <1>4 DEF Results

LEMMA ReadingFine ==
  ASSUME IInv, NEW r \in Reqs, Reading(r)
  PROVE  IInv' /\ ReadOnly(r)
<1> DEFINE q == req[r].q
           pol == req[r].pol
<1>t. Paths \subseteq Names /\ \A p \in Paths : AtomsOf(tree[p]) \in SUBSET Int
  BY PathFacts, AtomFacts DEF IInv, FilesInv, Sound
<1>1. CASE Lists(r)
  <2>1. PICK names : names = {c \in Children(tree, q.path) : Shown(pol, c)}
    OBVIOUS
  <2>2. names \in SUBSET Names /\ \A p \in names : Permits(pol, p, "discover")
    BY <1>t, <2>1 DEF Children, Shown
  <2>3. PICK a \in {"ok", "notfound"}, b \in {"ok", "invalid"} :
          a = Found(tree, q.path) /\ b = (IF IsDir(tree, q.path) THEN "ok" ELSE "invalid")
    BY DEF Found
  <2>4. PICK res \in Results : res = First(<<a, b>>)
    BY FirstOfTwo DEF Results
  <2>5. Working(r, "list") /\ Reports(r, First(<<Found(tree, q.path), IF IsDir(tree, q.path) THEN "ok" ELSE "invalid">>), names, {})
    BY <1>1, <2>1 DEF Lists
  <2>6. Reports(r, res, names, {}) /\ req[r].pc = "work" /\ {} \in SUBSET Int
    BY <2>3, <2>4, <2>5 DEF Working
  <2>7. QED
    BY <2>2, <2>6, ReadOnlyReports
<1>2. CASE Stats(r)
  <2>1. Working(r, "stat") /\ req[r].pc = "work" /\ Reports(r, Found(tree, q.path), {q.path}, {})
    BY <1>2 DEF Stats, Working
  <2>2. q.path \in Paths /\ Permits(pol, q.path, "discover")
    BY <2>1, ReadPath
  <2>3. PICK names \in SUBSET Names, res \in Results, atoms \in SUBSET Int :
          names = {q.path} /\ res = Found(tree, q.path) /\ atoms = {}
    BY <1>t, <2>2, FoundResult
  <2>4. QED
    BY <2>1, <2>2, <2>3, ReadOnlyReports
<1>3. CASE Searches(r)
  <2>1. PICK names : names = {x \in Paths : Below(x, q.path) /\ Exists(tree, x) /\ Shown(pol, x)}
    OBVIOUS
  <2>2. names \in SUBSET Names /\ \A p \in names : Permits(pol, p, "discover")
    BY <1>t, <2>1 DEF Shown
  <2>3. Reports(r, Found(tree, q.path), names, {}) /\ req[r].pc = "work"
    BY <1>3, <2>1 DEF Searches, Working
  <2>4. PICK res \in Results, atoms \in SUBSET Int : res = Found(tree, q.path) /\ atoms = {}
    BY FoundResult
  <2>5. QED
    BY <2>2, <2>3, <2>4, ReadOnlyReports
<1>4. CASE Downloads(r)
  <2>1. PICK op \in {"download", "range"} : Working(r, op)
    BY <1>4 DEF Downloads
  <2>2. q.path \in Paths /\ Permits(pol, q.path, "discover") /\ Permits(pol, q.path, "read")
    BY <2>1, ReadPath
  <2>3. PICK names \in SUBSET Names, res \in Results, atoms \in SUBSET Int :
          names = {q.path} /\ res = ReadResult(tree, q.path) /\ atoms = AtomsOf(tree[q.path])
    BY <1>t, <2>2, FoundResult
  <2>4. Reports(r, res, names, atoms) /\ req[r].pc = "work"
    BY <1>4, <2>1, <2>3 DEF Downloads, Working
  <2>5. QED
    BY <2>2, <2>3, <2>4, ReadOnlyReports
<1>5. CASE ReadsText(r)
  <2>1. Working(r, "read") /\ req[r].pc = "work"
    BY <1>5 DEF ReadsText, Working
  <2>2. q.path \in Paths /\ Permits(pol, q.path, "discover") /\ Permits(pol, q.path, "read")
    BY <2>1, ReadPath
  <2>3. PICK res \in Results : res = ReadResult(tree, q.path)
    BY FoundResult
  <2>4. PICK names \in SUBSET Names, atoms \in SUBSET Int :
          /\ names = (IF res = "ok" THEN {q.path} ELSE {})
          /\ atoms = (IF res = "ok" THEN AtomsOf(tree[q.path]) ELSE {})
    BY <1>t, <2>2
  <2>5. /\ Answers(r, res, names, atoms)
        /\ tab' = IF res = "ok" THEN [tab EXCEPT ![r] = [path |-> q.path, node |-> tree[q.path]]] ELSE tab
        /\ UNCHANGED <<tree, trash, fresh>>
    BY <1>5, <2>3, <2>4 DEF ReadsText
  <2>6. /\ ReqsInv' /\ UNCHANGED <<wl, conf>>
        /\ req'[r].pc = "done" /\ req'[r].q = req[r].q /\ req'[r].names = names /\ req'[r].atoms = atoms
        /\ \A s \in Reqs : s # r => req'[s] = req[s]
    BY <2>1, <2>5, AnswersFine DEF IInv
  <2>7. tab' \in [Reqs -> [path : Paths \cup {NoPath}, node : Nodes]]
    <3>1. tree[q.path] \in Nodes /\ tab \in [Reqs -> [path : Paths \cup {NoPath}, node : Nodes]]
      BY <2>2 DEF IInv, FilesInv, Sound
    <3>2. [path |-> q.path, node |-> tree[q.path]] \in [path : Paths \cup {NoPath}, node : Nodes]
      BY <2>2, <3>1
    <3>3. QED
      BY <2>5, <3>1, <3>2
  <2>8. IInv'
    BY <2>5, <2>6, <2>7, ConfKept DEF IInv, FilesInv
  <2>9. QED
    BY <2>1, <2>2, <2>4, <2>5, <2>6, <2>8 DEF ReadOnly
<1>6. CASE ListsTrash(r)
  <2>1. PICK names : names = {trash[id].orig : id \in ListedTrash(pol)}
    OBVIOUS
  <2>2. names \in SUBSET Names /\ \A p \in names : Permits(pol, p, "discover")
    BY <1>t, <2>1 DEF ListedTrash, IInv, FilesInv, Entry
  <2>3. Reports(r, "ok", names, {}) /\ req[r].pc = "work" /\ "ok" \in Results
    BY <1>6, <2>1 DEF ListsTrash, Working, Results
  <2>4. PICK atoms \in SUBSET Int : atoms = {}
    OBVIOUS
  <2>5. QED
    BY <2>2, <2>3, <2>4, ReadOnlyReports
<1>7. CASE Measures(r)
  <2>1. Reports(r, "ok", {}, {}) /\ req[r].pc = "work" /\ "ok" \in Results
    BY <1>7 DEF Measures, Working, Results
  <2>2. PICK names \in SUBSET Names, atoms \in SUBSET Int : names = {} /\ atoms = {}
    OBVIOUS
  <2>3. QED
    BY <2>1, <2>2, ReadOnlyReports
<1>8. QED
  BY <1>1, <1>2, <1>3, <1>4, <1>5, <1>6, <1>7 DEF Reading

-----------------------------------------------------------------------------
(* The workers that change the tree keep it sound.                            *)

LEMMA NewNameResult ==
  ASSUME NEW t, NEW p
  PROVE  /\ NewName(t, p) \in Results
         /\ NewName(t, p) = "ok" => p \in Paths /\ p # <<>> /\ IsDir(t, Parent(p)) /\ ~Exists(t, p) /\ ~IsDir(t, p)
BY DEF NewName, Results, Exists, IsDir

LEMMA InDirectoryResult ==
  ASSUME NEW p
  PROVE  /\ InDirectory(p) \in Results
         /\ InDirectory(p) = "ok" => p # <<>> /\ IsDir(tree, Parent(p))
BY DEF InDirectory, Results

LEMMA MoveResultFacts ==
  ASSUME NEW t, NEW p, NEW target
  PROVE  /\ MoveResult(t, p, target) \in Results
         /\ MoveResult(t, p, target) = "ok" =>
              /\ p \in Paths /\ Exists(t, p) /\ p # <<>>
              /\ NewName(t, target) = "ok" /\ ~Below(target, p)
<1>1. PICK a \in {"ok", "notfound"} : a = Found(t, p)
  BY DEF Found
<1>2. PICK b \in {"ok", "invalid"} : b = (IF p = <<>> THEN "invalid" ELSE "ok")
  OBVIOUS
<1>3. PICK c \in Results : c = NewName(t, target)
  BY NewNameResult
<1>4. PICK d \in {"ok", "invalid"} : d = (IF Below(target, p) \/ ~Fits(target, SuffixesAt(t, p)) THEN "invalid" ELSE "ok")
  OBVIOUS
<1>5. MoveResult(t, p, target) = First(<<a, b, c, d>>)
  BY <1>1, <1>2, <1>3, <1>4 DEF MoveResult
<1>6. /\ MoveResult(t, p, target) \in {a, b, c, d}
      /\ MoveResult(t, p, target) = "ok" => a = "ok" /\ b = "ok" /\ c = "ok" /\ d = "ok"
  BY <1>5, FirstOfFour
<1>7. MoveResult(t, p, target) \in Results
  BY <1>1, <1>2, <1>3, <1>4, <1>6 DEF Results
<1>8. QED
  BY <1>1, <1>2, <1>3, <1>4, <1>6, <1>7 DEF Found

\* Where a tree goes is neither in what it leaves nor in anything that exists.
LEMMA MoveApart ==
  ASSUME NEW t, Sound(t), NEW p, NEW target, MoveResult(t, p, target) = "ok"
  PROVE  /\ p \in Paths /\ target \in Paths /\ p # <<>> /\ target # <<>>
         /\ \A x \in Paths : AtOrBelow(x, target) => ~Exists(t, x) /\ ~AtOrBelow(x, p)
         /\ IsDir(t, Parent(target)) /\ ~AtOrBelow(Parent(target), p)
<1>1. /\ p \in Paths /\ target \in Paths /\ p # <<>> /\ target # <<>> /\ Exists(t, p)
      /\ ~Below(target, p) /\ ~Exists(t, target) /\ ~IsDir(t, target) /\ IsDir(t, Parent(target))
  BY MoveResultFacts, NewNameResult
<1>2. p # target /\ ~Below(p, target)
  BY <1>1, NothingBelow
<1>3. ASSUME NEW x \in Paths, AtOrBelow(x, target) PROVE ~Exists(t, x) /\ ~AtOrBelow(x, p)
  <2>1. ~Exists(t, x)
    BY <1>1, <1>3, NothingBelow DEF AtOrBelow
  <2>2. x \in Names /\ p \in Names /\ target \in Names
    BY <1>1, PathFacts
  <2>3. ~AtOrBelow(x, p)
    BY <1>1, <1>2, <1>3, <2>2, NameFacts DEF AtOrBelow
  <2>4. QED
    BY <2>1, <2>3
<1>4. ~AtOrBelow(Parent(target), p)
  <2>1. Parent(target) \in Names /\ Below(target, Parent(target)) /\ target \in Names /\ p \in Names
    BY <1>1, PathFacts
  <2>2. QED
    BY <1>1, <2>1, NameFacts DEF AtOrBelow
<1>5. QED
  BY <1>1, <1>3, <1>4

\* What a move leaves at each path.
LEMMA MovedIs ==
  ASSUME NEW t, Sound(t), NEW p, NEW target, MoveResult(t, p, target) = "ok", NEW x \in Paths
  PROVE  \/ /\ AtOrBelow(x, target) /\ Suffix(x, target) \in SuffixesAt(t, p)
            /\ Moved(t, p, target)[x] = t[p \o Suffix(x, target)] /\ p \o Suffix(x, target) \in Paths
            /\ Exists(t, p \o Suffix(x, target)) /\ ~Exists(t, x)
         \/ AtOrBelow(x, p) /\ Moved(t, p, target)[x] = Nothing
         \/ ~AtOrBelow(x, p) /\ Moved(t, p, target)[x] = t[x]
<1>1. Moved(t, p, target)[x] = IF AtOrBelow(x, target) /\ Suffix(x, target) \in DOMAIN Subtree(t, p)
                               THEN Subtree(t, p)[Suffix(x, target)]
                               ELSE IF AtOrBelow(x, p) THEN Nothing ELSE t[x]
  BY DEF Moved, Grafted, Pruned
<1>2. p \in Paths
  BY MoveApart
<1>3. CASE AtOrBelow(x, target) /\ Suffix(x, target) \in DOMAIN Subtree(t, p)
  BY <1>1, <1>2, <1>3, SubtreeFacts, MoveApart
<1>4. QED
  BY <1>1, <1>3

LEMMA MovedSound ==
  ASSUME NEW t, Sound(t), NEW p, NEW target, MoveResult(t, p, target) = "ok"
  PROVE  Sound(Moved(t, p, target))
<1>1. /\ p \in Paths /\ target \in Paths /\ p # <<>> /\ target # <<>>
      /\ \A x \in Paths : AtOrBelow(x, target) => ~Exists(t, x) /\ ~AtOrBelow(x, p)
      /\ IsDir(t, Parent(target)) /\ ~AtOrBelow(Parent(target), p) /\ Parent(target) \in Paths
  BY MoveApart, PathFacts
<1>2. PICK u : u = Pruned(t, p)
  OBVIOUS
<1>3. Sound(u)
  BY <1>1, <1>2, PrunedSound
<1>4. \A x \in Paths : ~AtOrBelow(x, p) => u[x] = t[x]
  BY <1>2 DEF Pruned
<1>5. IsDir(u, Parent(target)) /\ ~IsDir(u, target)
  BY <1>1, <1>4 DEF IsDir, Exists, AtOrBelow
<1>6. PICK sub : sub = Subtree(t, p)
  OBVIOUS
<1>7. IsTree(sub)
  BY <1>1, <1>6, SubtreeIsTree
<1>8. Sound(Grafted(u, target, sub))
  BY <1>1, <1>3, <1>5, <1>7, GraftedSound
<1>9. QED
  BY <1>2, <1>6, <1>8 DEF Moved

LEMMA ChangesFine ==
  ASSUME IInv, NEW r \in Reqs, req[r].pc # "idle", NEW res \in Results, NEW new,
         Changes(r, res, new), res = "ok" => Sound(new)
  PROVE  /\ IInv' /\ UNCHANGED <<wl, conf, trash, tab, fresh>>
         /\ tree' = tree \/ (res = "ok" /\ tree' = new)
         /\ req'[r].pc = "done" /\ req'[r].q = req[r].q /\ req'[r].names = {} /\ req'[r].atoms = {}
         /\ \A s \in Reqs : s # r => req'[s] = req[s]
<1>1. CASE res # "ok" /\ Refuses(r, res)
  BY <1>1, RefusesFine
<1>2. CASE res = "ok" /\ Answers(r, "ok", {}, {}) /\ tree' = new /\ UNCHANGED <<trash, tab, fresh>>
  <2>1. PICK names \in SUBSET Names, atoms \in SUBSET Int : names = {} /\ atoms = {}
    OBVIOUS
  <2>2. Answers(r, res, names, atoms)
    BY <1>2, <2>1
  <2>3. /\ ReqsInv' /\ UNCHANGED <<wl, conf>>
        /\ req'[r].pc = "done" /\ req'[r].q = req[r].q
        /\ req'[r].names = {} /\ req'[r].atoms = {}
        /\ \A s \in Reqs : s # r => req'[s] = req[s]
    BY <2>1, <2>2, AnswersFine DEF IInv
  <2>4. FilesInv'
    BY <1>2 DEF IInv, FilesInv
  <2>5. QED
    BY <1>2, <2>3, <2>4, ConfKept DEF IInv
<1>3. QED
  BY <1>1, <1>2 DEF Changes

-----------------------------------------------------------------------------
(* What a step that changes the tree was allowed to do, and where the         *)
(* contents it leaves come from.                                              *)

Permitted(x) ==
  /\ ~x.pol.ro /\ Feature(x.q.op) \subseteq x.pol.feats
  /\ \A p \in Paths : tree'[p] # tree[p] /\ ~Excused(p, x) => Permits(x.pol, p, Needs(p, x.q))

Readable(pol, a) == \E x \in Paths : a \in AtomsOf(tree[x]) /\ Permits(pol, x, "read")
FromTrash(p, a) ==
  \E id \in DOMAIN trash : \E s \in DOMAIN trash[id].nodes :
    p = trash[id].orig \o s /\ a \in AtomsOf(trash[id].nodes[s])
FromStage(x, a) == \E s \in DOMAIN x.stage : a \in AtomsOf(x.stage[s])

Flows(x) ==
  \A p \in Paths : \A a \in AtomsOf(tree'[p]) :
    a \in AtomsOf(tree[p]) \/ Readable(x.pol, a) \/ FromTrash(p, a) \/ (x.pc = "vetted" /\ FromStage(x, a))

Discards ==
  \A id \in DOMAIN trash' :
    \/ id \in DOMAIN trash /\ trash'[id] = trash[id]
    \/ \A s \in DOMAIN trash'[id].nodes :
         trash'[id].orig \o s \in Paths /\ trash'[id].nodes[s] = tree[trash'[id].orig \o s]

Alters(r) ==
  /\ lock = r /\ UNCHANGED <<wl, conf, tab>> /\ fresh' \in {fresh, fresh + 1}
  /\ req[r].pc \in {"work", "vetted"} /\ req'[r].pc = "done"
  /\ req'[r].q = req[r].q /\ req'[r].atoms = {}
  /\ \A p \in req'[r].names : Permits(req[r].pol, p, "discover")
  /\ tree' # tree => Permitted(req[r])
  /\ Flows(req[r]) /\ Discards
  /\ \A s \in Reqs : s # r => req'[s] = req[s]

LEMMA PolicyParts ==
  ASSUME NEW q, NEW pol, PolicyAuthorize(q, pol) = "ok", FeatureOn(q, pol) = "ok", q.op \in Writes
  PROVE  ~pol.ro /\ Feature(q.op) \subseteq pol.feats
BY DEF PolicyAuthorize, FeatureOn, DeniedIf

\* A preflight that answers "ok" has looked at every path of the tree.
LEMMA PreflightAll ==
  ASSUME NEW pol, NEW path, NEW action, NEW target, NEW suffixes \in SUBSET Names,
         PreflightTree(pol, path, action, target, suffixes) = "ok"
  PROVE  \A s \in suffixes : PreflightNode(pol, path, action, target, s) = "ok"
<1> DEFINE Ok(s) == PreflightNode(pol, path, action, target, s) = "ok"
           IsBad(s) == ~Ok(s) /\ \A t \in suffixes : Len(t) < Len(s) => Ok(t)
           lens == {Len(s) : s \in {t \in suffixes : ~Ok(t)}}
<1> SUFFICES ASSUME \E s \in suffixes : ~Ok(s) PROVE FALSE
  OBVIOUS
<1> HIDE DEF Ok
<1>1. \A s \in suffixes : Len(s) \in Nat
  BY DEF Names
<1>2. lens \in SUBSET Nat /\ lens # {}
  BY <1>1
<1>3. PICK n \in lens : \A m \in lens : n <= m
  BY <1>2, Least
<1>4. PICK s \in suffixes : ~Ok(s) /\ n = Len(s)
  BY <1>3
<1>5. IsBad(s)
  <2>1. ASSUME NEW t \in suffixes, Len(t) < Len(s), ~Ok(t) PROVE FALSE
    <3>1. Len(t) \in lens
      BY <2>1
    <3>2. n <= Len(t)
      BY <1>3, <3>1
    <3>3. QED
      BY <1>1, <1>4, <2>1, <3>2
  <2>2. QED
    BY <1>4, <2>1
<1>6. IsBad(CHOOSE k \in suffixes : IsBad(k))
  <2> HIDE DEF IsBad
  <2>1. QED
    BY <1>5
<1>7. ~Ok(CHOOSE k \in suffixes : IsBad(k))
  BY <1>6
<1>8. PreflightTree(pol, path, action, target, suffixes)
        = PreflightNode(pol, path, action, target, CHOOSE k \in suffixes : IsBad(k))
  BY <1>4 DEF PreflightTree, Ok
<1>9. QED
  BY <1>7, <1>8 DEF Ok

\* What the preflight of a request says of each path of its tree.
LEMMA PreflightPaths ==
  ASSUME IInv, NEW q, IsQuery(q), q.op \in Carries \cup {"trash", "delete"}, NEW pol, Preflight(q, pol) = "ok"
  PROVE  /\ q.path \in Paths /\ (q.op \in Carries => q.target \in Paths)
         /\ \A s \in SuffixesAt(tree, q.path) :
              /\ Permits(pol, q.path \o s, IF q.op \in Carries THEN "move" ELSE "delete")
              /\ q.op \in Carries => Permits(pol, q.path \o s, "read") /\ Permits(pol, q.target \o s, "write")
<1>1. q.path \in Paths /\ (q.op \in Carries => q.target \in Paths /\ q.target # NoPath)
  <2>1. q \in Queries
    BY DEF IsQuery
  <2>2. (q.path = NoPath <=> q.op \in {"restore", "purge"}) /\ (q.target = NoPath <=> q.op \notin TwoPaths)
    BY DEF IsQuery
  <2>3. q.path \in Paths \cup {NoPath} /\ q.target \in Paths \cup {NoPath}
    BY <2>1 DEF Queries
  <2>4. q.op \notin {"restore", "purge"} /\ (q.op \in Carries => q.op \in TwoPaths)
    BY DEF Carries, TwoPaths
  <2>5. QED
    BY <2>2, <2>3, <2>4
<1>2. PICK S : S = SuffixesAt(tree, q.path) \cup {<<>>}
  OBVIOUS
<1>3. S \in SUBSET Names
  BY <1>1, <1>2, SubtreeFacts, PathFacts DEF IInv, FilesInv
<1>4. CASE q.op \in Carries
  <2>0. q.op \notin {"trash", "delete"} /\ q.op # "purge"
    BY <1>4 DEF Carries
  <2>1. PreflightTree(pol, q.path, "move", q.target, S) = "ok"
    BY <1>2, <1>4, <2>0 DEF Preflight
  <2>2. \A s \in S : PreflightNode(pol, q.path, "move", q.target, s) = "ok"
    BY <1>3, <2>1, PreflightAll
  <2>3. QED
    BY <1>1, <1>2, <1>4, <2>2, NodeOk
<1>5. CASE q.op \in {"trash", "delete"}
  <2>1. q.op \notin Carries
    BY <1>5 DEF Carries
  <2>2. PreflightTree(pol, q.path, "delete", NoPath, S) = "ok"
    BY <1>2, <1>5, <2>1 DEF Preflight
  <2>3. \A s \in S : PreflightNode(pol, q.path, "delete", NoPath, s) = "ok"
    BY <1>3, <2>2, PreflightAll
  <2>4. QED
    BY <1>1, <1>2, <2>1, <2>3, NodeOk
<1>6. QED
  BY <1>4, <1>5

LEMMA TreeFacts ==
  ASSUME IInv
  PROVE  /\ Sound(tree) /\ tree \in [Paths -> Nodes]
         /\ \A p \in Paths : ~Exists(tree, p) => tree[p] = Nothing
         /\ AtomsOf(Nothing) = {} /\ AtomsOf(Folder) = {}
         /\ \A n \in Nodes : n.kind # "file" => AtomsOf(n) = {}
<1>1. Sound(tree) /\ tree \in [Paths -> Nodes]
  BY DEF IInv, FilesInv, Sound
<1>2. \A n \in Nodes : n.kind = "none" => n = Nothing
  BY DEF Nodes
<1>3. \A n \in Nodes : n.kind # "file" => n.data = {}
  BY DEF Nodes
<1>4. QED
  BY <1>1, <1>2, <1>3, NodeFacts DEF Exists, AtomsOf, Nothing, Folder

LEMMA MakesFolderFine ==
  ASSUME IInv, NEW r \in Reqs, MakesFolder(r)
  PROVE  IInv' /\ Alters(r)
<1> DEFINE q == req[r].q
           pol == req[r].pol
<1>1. Working(r, "mkdir") /\ Changes(r, NewName(tree, q.target), [tree EXCEPT ![q.target] = Folder])
  BY DEF MakesFolder
<1>2. /\ req[r].pc = "work" /\ q.op = "mkdir" /\ lock = r
      /\ PolicyAuthorize(q, pol) = "ok" /\ FeatureOn(q, pol) = "ok" /\ q.op \in Writes
  BY <1>1, WorkingFacts DEF Writes, Creates
<1>3. PICK new : new = [tree EXCEPT ![q.target] = Folder]
  OBVIOUS
<1>4. PICK res \in Results : res = NewName(tree, q.target)
  BY NewNameResult
<1>5. res = "ok" => q.target \in Paths /\ Sound(new)
  BY <1>3, <1>4, NewNameResult, SetSound, NodeFacts, TreeFacts
<1>6. /\ IInv' /\ UNCHANGED <<wl, conf, trash, tab, fresh>>
      /\ tree' = tree \/ (res = "ok" /\ tree' = new)
      /\ req'[r].pc = "done" /\ req'[r].q = req[r].q /\ req'[r].names = {} /\ req'[r].atoms = {}
      /\ \A s \in Reqs : s # r => req'[s] = req[s]
  BY <1>1, <1>2, <1>3, <1>4, <1>5, ChangesFine
<1>7. Permitted(req[r])
  BY <1>2, PolicyParts DEF Permitted, Excused
<1>8. Flows(req[r]) /\ Discards
  BY <1>3, <1>5, <1>6, TreeFacts DEF Flows, Discards
<1>9. QED
  BY <1>2, <1>6, <1>7, <1>8 DEF Alters

LEMMA MovingFine ==
  ASSUME IInv, NEW r \in Reqs, NEW op \in Carries, Working(r, op),
         Changes(r, MoveResult(tree, req[r].q.path, req[r].q.target), Moved(tree, req[r].q.path, req[r].q.target))
  PROVE  IInv' /\ Alters(r)
<1> DEFINE q == req[r].q
           pol == req[r].pol
<1>1. /\ req[r].pc = "work" /\ q.op = op /\ lock = r /\ IsQuery(q) /\ Preflight(q, pol) = "ok"
      /\ PolicyAuthorize(q, pol) = "ok" /\ FeatureOn(q, pol) = "ok" /\ q.op \in Writes
  BY WorkingFacts DEF Writes
<1>2. PICK new : new = Moved(tree, q.path, q.target)
  OBVIOUS
<1>3. PICK res \in Results : res = MoveResult(tree, q.path, q.target)
  BY MoveResultFacts
<1>4. res = "ok" => Sound(new)
  BY <1>2, <1>3, MovedSound, TreeFacts
<1>5. /\ IInv' /\ UNCHANGED <<wl, conf, trash, tab, fresh>>
      /\ tree' = tree \/ (res = "ok" /\ tree' = new)
      /\ req'[r].pc = "done" /\ req'[r].q = req[r].q /\ req'[r].names = {} /\ req'[r].atoms = {}
      /\ \A s \in Reqs : s # r => req'[s] = req[s]
  BY <1>1, <1>2, <1>3, <1>4, ChangesFine
<1>6. /\ q.path \in Paths /\ q.target \in Paths
      /\ \A s \in SuffixesAt(tree, q.path) :
           /\ Permits(pol, q.path \o s, "move")
           /\ Permits(pol, q.path \o s, "read") /\ Permits(pol, q.target \o s, "write")
  BY <1>1, PreflightPaths
<1>7. ASSUME res = "ok", tree' = new, NEW x \in Paths
      PROVE  \/ /\ Permits(pol, x, "write") /\ ~Exists(tree, x)
                /\ \E y \in Paths : tree'[x] = tree[y] /\ Permits(pol, y, "read")
             \/ /\ AtOrBelow(x, q.path) /\ tree'[x] = Nothing
                /\ Exists(tree, x) => Permits(pol, x, "move")
             \/ tree'[x] = tree[x]
  <2>1. \/ /\ AtOrBelow(x, q.target) /\ Suffix(x, q.target) \in SuffixesAt(tree, q.path)
           /\ new[x] = tree[q.path \o Suffix(x, q.target)] /\ q.path \o Suffix(x, q.target) \in Paths
           /\ ~Exists(tree, x)
        \/ AtOrBelow(x, q.path) /\ new[x] = Nothing
        \/ new[x] = tree[x]
    <3>1. MoveResult(tree, q.path, q.target) = "ok" /\ Sound(tree)
      BY <1>3, <1>7, TreeFacts
    <3>2. PICK y, t : y = q.path /\ t = q.target
      OBVIOUS
    <3>3. \/ /\ AtOrBelow(x, t) /\ Suffix(x, t) \in SuffixesAt(tree, y)
             /\ Moved(tree, y, t)[x] = tree[y \o Suffix(x, t)] /\ y \o Suffix(x, t) \in Paths
             /\ ~Exists(tree, x)
          \/ AtOrBelow(x, y) /\ Moved(tree, y, t)[x] = Nothing
          \/ Moved(tree, y, t)[x] = tree[x]
      BY <3>1, <3>2, MovedIs
    <3>4. QED
      BY <1>2, <3>2, <3>3
  <2>2. CASE /\ AtOrBelow(x, q.target) /\ Suffix(x, q.target) \in SuffixesAt(tree, q.path)
             /\ new[x] = tree[q.path \o Suffix(x, q.target)] /\ q.path \o Suffix(x, q.target) \in Paths
             /\ ~Exists(tree, x)
    <3>1. x = q.target \o Suffix(x, q.target)
      BY <1>6, <2>2, JoinFacts, PathFacts
    <3>2. Permits(pol, x, "write") /\ Permits(pol, q.path \o Suffix(x, q.target), "read")
      BY <1>6, <2>2, <3>1
    <3>3. QED
      BY <1>7, <2>2, <3>2
  <2>3. CASE AtOrBelow(x, q.path) /\ new[x] = Nothing
    <3>1. Exists(tree, x) => Suffix(x, q.path) \in SuffixesAt(tree, q.path) /\ x = q.path \o Suffix(x, q.path)
      BY <1>6, <2>3, SubtreeFacts, JoinFacts, PathFacts, TreeFacts
    <3>2. QED
      BY <1>6, <1>7, <2>3, <3>1
  <2>4. QED
    BY <1>7, <2>1, <2>2, <2>3
<1>8. tree' # tree => Permitted(req[r])
  <2> SUFFICES ASSUME tree' # tree, NEW x \in Paths, tree'[x] # tree[x]
               PROVE  Permits(pol, x, Needs(x, q))
    BY <1>1, PolicyParts DEF Permitted
  <2>1. CASE Permits(pol, x, "write") /\ ~Exists(tree, x)
    BY <2>1 DEF Needs
  <2>2. CASE tree'[x] = Nothing /\ (Exists(tree, x) => Permits(pol, x, "move"))
    <3>1. Exists(tree, x)
      BY <2>2, TreeFacts
    <3>2. ~Exists(tree', x)
      BY <2>2 DEF Exists, Nothing
    <3>3. QED
      BY <1>1, <2>2, <3>1, <3>2 DEF Needs
  <2>3. QED
    BY <1>5, <1>7, <2>1, <2>2
<1>9. Flows(req[r]) /\ Discards
  <2>1. Flows(req[r])
    BY <1>5, <1>7, TreeFacts DEF Flows, Readable
  <2>2. QED
    BY <1>5, <2>1 DEF Discards
<1>10. QED
  BY <1>1, <1>5, <1>8, <1>9 DEF Alters

\* A tree is deleted or goes to the trash.
LEMMA PruningAllowed ==
  ASSUME IInv, NEW x, IsQuery(x.q), x.q.op \in {"trash", "delete"}, Preflight(x.q, x.pol) = "ok",
         PolicyAuthorize(x.q, x.pol) = "ok", FeatureOn(x.q, x.pol) = "ok",
         tree' = Pruned(tree, x.q.path)
  PROVE  Permitted(x) /\ Flows(x)
<1> DEFINE q == x.q
           pol == x.pol
<1>1. q.op \notin Carries /\ q.op \in Writes
  BY DEF Carries, Writes
<1>2. q.path \in Paths /\ \A s \in SuffixesAt(tree, q.path) : Permits(pol, q.path \o s, "delete")
  BY <1>1, PreflightPaths
<1>3. \A p \in Paths : tree'[p] = IF AtOrBelow(p, q.path) THEN Nothing ELSE tree[p]
  BY DEF Pruned
<1>4. ASSUME NEW p \in Paths, tree'[p] # tree[p] PROVE Permits(pol, p, Needs(p, q))
  <2>1. AtOrBelow(p, q.path) /\ tree'[p] = Nothing /\ Exists(tree, p)
    BY <1>3, <1>4, TreeFacts
  <2>2. Suffix(p, q.path) \in SuffixesAt(tree, q.path) /\ p = q.path \o Suffix(p, q.path)
    BY <1>2, <2>1, SubtreeFacts, JoinFacts, PathFacts, TreeFacts
  <2>3. Permits(pol, p, "delete")
    BY <1>2, <2>2
  <2>4. ~Exists(tree', p)
    BY <2>1 DEF Exists, Nothing
  <2>5. QED
    BY <1>1, <2>1, <2>3, <2>4 DEF Needs
<1>5. Permitted(x)
  BY <1>1, <1>4, PolicyParts DEF Permitted
<1>6. Flows(x)
  BY <1>3, TreeFacts DEF Flows
<1>7. QED
  BY <1>5, <1>6

LEMMA DeletesFine ==
  ASSUME IInv, NEW r \in Reqs, Deletes(r)
  PROVE  IInv' /\ Alters(r)
<1> DEFINE q == req[r].q
           pol == req[r].pol
<1>1. /\ Working(r, "delete")
      /\ Changes(r, First(<< IF q.path = <<>> THEN "invalid" ELSE "ok", Found(tree, q.path) >>), Pruned(tree, q.path))
  BY DEF Deletes
<1>2. /\ req[r].pc = "work" /\ q.op = "delete" /\ lock = r /\ IsQuery(q) /\ Preflight(q, pol) = "ok"
      /\ PolicyAuthorize(q, pol) = "ok" /\ FeatureOn(q, pol) = "ok"
  BY <1>1, WorkingFacts DEF Writes
<1>3. PICK a \in {"ok", "invalid"}, b \in {"ok", "notfound"} :
        a = (IF q.path = <<>> THEN "invalid" ELSE "ok") /\ b = Found(tree, q.path)
  BY DEF Found
<1>4. PICK res \in Results : res = First(<<a, b>>) /\ (res = "ok" => a = "ok" /\ b = "ok")
  BY FirstOfTwo DEF Results
<1>5. PICK new : new = Pruned(tree, q.path)
  OBVIOUS
<1>6. res = "ok" => Sound(new)
  BY <1>3, <1>4, <1>5, FoundResult, PrunedSound, TreeFacts
<1>7. Changes(r, res, new)
  BY <1>1, <1>3, <1>4, <1>5
<1>8. /\ IInv' /\ UNCHANGED <<wl, conf, trash, tab, fresh>>
      /\ tree' = tree \/ (res = "ok" /\ tree' = new)
      /\ req'[r].pc = "done" /\ req'[r].q = req[r].q /\ req'[r].names = {} /\ req'[r].atoms = {}
      /\ \A s \in Reqs : s # r => req'[s] = req[s]
  BY <1>2, <1>6, <1>7, ChangesFine
<1>9. tree' = new => Permitted(req[r]) /\ Flows(req[r])
  BY <1>2, <1>5, PruningAllowed
<1>10. tree' = tree => Flows(req[r])
  BY DEF Flows
<1>11. Discards
  BY <1>8 DEF Discards
<1>12. QED
  BY <1>2, <1>8, <1>9, <1>10, <1>11 DEF Alters

LEMMA TrashesFine ==
  ASSUME IInv, NEW r \in Reqs, Trashes(r)
  PROVE  IInv' /\ Alters(r)
<1> DEFINE q == req[r].q
           pol == req[r].pol
<1>1. Working(r, "trash")
  BY DEF Trashes
<1>2. /\ req[r].pc = "work" /\ q.op = "trash" /\ lock = r /\ IsQuery(q) /\ Preflight(q, pol) = "ok"
      /\ PolicyAuthorize(q, pol) = "ok" /\ FeatureOn(q, pol) = "ok" /\ AccessAuthorize(q, pol) = "ok"
  BY <1>1, WorkingFacts DEF Writes
<1>3. PICK a \in {"ok", "notfound"}, b \in {"ok", "invalid"} :
        a = Found(tree, q.path) /\ b = (IF q.path = <<>> THEN "invalid" ELSE "ok")
  BY DEF Found
<1>4. PICK res \in Results : res = First(<<a, b>>) /\ (res = "ok" => a = "ok" /\ b = "ok")
  BY FirstOfTwo DEF Results
<1>5. CASE res # "ok" /\ Refuses(r, res)
  <2>1. /\ IInv' /\ UNCHANGED <<wl, conf, tree, trash, tab, fresh>>
        /\ req'[r].pc = "done" /\ req'[r].q = req[r].q /\ req'[r].names = {} /\ req'[r].atoms = {}
        /\ \A s \in Reqs : s # r => req'[s] = req[s]
    BY <1>2, <1>5, RefusesFine
  <2>2. Flows(req[r]) /\ Discards
    BY <2>1 DEF Flows, Discards
  <2>3. QED
    BY <1>2, <2>1, <2>2 DEF Alters
<1>6. CASE res = "ok"
  <2>1. /\ Answers(r, "ok", {q.path}, {})
        /\ trash' = [id \in DOMAIN trash \cup {fresh} |->
                       IF id = fresh THEN [orig |-> q.path, nodes |-> Subtree(tree, q.path)] ELSE trash[id]]
        /\ tree' = Pruned(tree, q.path)
        /\ fresh' = fresh + 1
        /\ UNCHANGED tab
    BY <1>3, <1>4, <1>6 DEF Trashes
  <2>2. q.path \in Paths /\ q.path # <<>>
    BY <1>3, <1>4, <1>6, FoundResult
  <2>3. PICK names \in SUBSET Names, atoms \in SUBSET Int : names = {q.path} /\ atoms = {}
    BY <2>2, PathFacts
  <2>4. /\ ReqsInv' /\ UNCHANGED <<wl, conf>>
        /\ req'[r].pc = "done" /\ req'[r].q = req[r].q /\ req'[r].names = names /\ req'[r].atoms = atoms
        /\ \A s \in Reqs : s # r => req'[s] = req[s]
    BY <1>2, <1>6, <2>1, <2>3, AnswersFine DEF IInv
  <2>5. Permits(pol, q.path, "discover")
    <3>1. HelperPath(q) = q.path /\ OperationAccess(q.op) = "delete"
      BY <1>2, AccessOf DEF HelperPath, Archives
    <3>2. Permits(pol, q.path, "delete")
      BY <1>2, <3>1, AccessParts
    <3>3. QED
      BY <3>2, PermitsDiscover
  <2>6. PICK e : e = [orig |-> q.path, nodes |-> Subtree(tree, q.path)]
    OBVIOUS
  <2>7. Entry(e) /\ e.orig = q.path /\ e.nodes = Subtree(tree, q.path)
    BY <2>2, <2>6, SubtreeIsTree, TreeFacts DEF Entry
  <2>8. /\ DOMAIN trash' = DOMAIN trash \cup {fresh}
        /\ \A id \in DOMAIN trash' : trash'[id] = IF id = fresh THEN e ELSE trash[id]
    BY <2>1, <2>6
  <2>9. FilesInv'
    <3>1. Sound(tree')
      BY <2>1, <2>2, PrunedSound, TreeFacts
    <3>2. \A id \in DOMAIN trash' : id \in Int /\ Entry(trash'[id])
      BY <2>7, <2>8 DEF IInv, FilesInv
    <3>3. fresh \in Nat \ {0} /\ tab \in [Reqs -> [path : Paths \cup {NoPath}, node : Nodes]]
      BY DEF IInv, FilesInv
    <3>4. fresh' \in Nat \ {0}
      BY <2>1, <3>3
    <3>5. QED
      BY <2>1, <3>1, <3>2, <3>3, <3>4 DEF FilesInv
  <2>10. Permitted(req[r]) /\ Flows(req[r])
    BY <1>2, <2>1, PruningAllowed
  <2>11. Discards
    <3>1. \A s \in DOMAIN e.nodes : e.orig \o s \in Paths /\ e.nodes[s] = tree[e.orig \o s]
      BY <2>2, <2>7, SubtreeFacts, TreeFacts
    <3>2. QED
      BY <2>8, <3>1 DEF Discards
  <2>12. QED
    BY <1>2, <2>1, <2>3, <2>4, <2>5, <2>9, <2>10, <2>11, ConfKept DEF Alters, IInv
<1>7. QED
  BY <1>3, <1>4, <1>5, <1>6 DEF Trashes

LEMMA ChmodsFine ==
  ASSUME IInv, NEW r \in Reqs, Chmods(r)
  PROVE  IInv' /\ Alters(r)
<1> DEFINE q == req[r].q
           pol == req[r].pol
<1>1. /\ Working(r, "chmod")
      /\ Changes(r, First(<< DeniedIf(q.path = <<>> \/ (pol.web /\ q.mode = "exec")),
                             Found(tree, q.path), DeniedIf(q.mode = "setid") >>),
                 [tree EXCEPT ![q.path].mode = q.mode])
  BY DEF Chmods
<1>2. /\ req[r].pc = "work" /\ q.op = "chmod" /\ lock = r /\ IsQuery(q) /\ q.mode \in Modes
      /\ PolicyAuthorize(q, pol) = "ok" /\ FeatureOn(q, pol) = "ok" /\ AccessAuthorize(q, pol) = "ok"
      /\ q.op \in Writes
  BY <1>1, WorkingFacts DEF Writes, Queries
<1>3. PICK a \in Verdicts, b \in {"ok", "notfound"}, c \in Verdicts :
        /\ a = DeniedIf(q.path = <<>> \/ (pol.web /\ q.mode = "exec")) /\ b = Found(tree, q.path)
        /\ c = DeniedIf(q.mode = "setid")
  BY SmallVerdicts DEF Found
<1>4. PICK res \in Results : res = First(<<a, b, c>>) /\ (res = "ok" => a = "ok" /\ b = "ok" /\ c = "ok")
  BY FirstOfThree DEF Results, Verdicts
<1>5. res = "ok" => q.path \in Paths /\ q.path # <<>> /\ Exists(tree, q.path)
  BY <1>3, <1>4, FoundResult DEF DeniedIf
<1>6. PICK node : node = [tree[q.path] EXCEPT !.mode = q.mode]
  OBVIOUS
<1>7. res = "ok" => /\ node \in Nodes /\ node.kind = tree[q.path].kind /\ node.data = tree[q.path].data
                    /\ IsDir(tree, Parent(q.path))
  <2> SUFFICES ASSUME res = "ok" PROVE /\ node \in Nodes /\ node.kind = tree[q.path].kind /\ node.data = tree[q.path].data
                                       /\ IsDir(tree, Parent(q.path))
    OBVIOUS
  <2>1. tree[q.path] \in Nodes /\ tree[q.path].kind # "none"
    BY <1>5, TreeFacts DEF Exists
  <2>2. node \in Nodes
    BY <1>2, <1>6, <2>1, NodeFacts
  <2>3. node.kind = tree[q.path].kind /\ node.data = tree[q.path].data
    BY <1>6, <2>1 DEF Nodes
  <2>4. IsDir(tree, Parent(q.path))
    BY <1>5, PathFacts, TreeFacts DEF Sound
  <2>5. QED
    BY <2>2, <2>3, <2>4
<1>8. PICK new : new = [tree EXCEPT ![q.path] = node]
  OBVIOUS
<1>9. res = "ok" => Sound(new)
  BY <1>5, <1>7, <1>8, SetSound, TreeFacts DEF IsDir
<1>10. Changes(r, res, new)
  BY <1>1, <1>3, <1>4, <1>6, <1>8
<1>11. /\ IInv' /\ UNCHANGED <<wl, conf, trash, tab, fresh>>
       /\ tree' = tree \/ (res = "ok" /\ tree' = new)
       /\ req'[r].pc = "done" /\ req'[r].q = req[r].q /\ req'[r].names = {} /\ req'[r].atoms = {}
       /\ \A s \in Reqs : s # r => req'[s] = req[s]
  BY <1>2, <1>9, <1>10, ChangesFine
<1>12. ASSUME res = "ok", tree' = new, NEW p \in Paths
       PROVE  tree'[p] = tree[p] \/ (p = q.path /\ tree'[p] = node)
  BY <1>8, <1>12, TreeFacts
<1>13. Permits(pol, q.path, "chmod")
  <2>1. HelperPath(q) = q.path /\ OperationAccess(q.op) = "chmod"
    BY <1>2, AccessOf DEF HelperPath, Archives
  <2>2. QED
    BY <1>2, <2>1, AccessParts
<1>14. tree' # tree => Permitted(req[r])
  <2> SUFFICES ASSUME tree' # tree, NEW p \in Paths, tree'[p] # tree[p] PROVE Permits(pol, p, Needs(p, q))
    BY <1>2, PolicyParts DEF Permitted
  <2>1. res = "ok" /\ p = q.path /\ tree'[p] = node
    BY <1>11, <1>12
  <2>2. Needs(p, q) = "chmod"
    BY <1>5, <1>7, <2>1 DEF Needs, Exists
  <2>3. QED
    BY <1>13, <2>1, <2>2
<1>15. Flows(req[r])
  BY <1>7, <1>11, <1>12 DEF Flows, AtomsOf
<1>16. QED
  BY <1>2, <1>11, <1>14, <1>15 DEF Alters, Discards

\* What is grafted onto a free name arrives at paths where nothing is.
LEMMA GraftedIs ==
  ASSUME NEW t, Sound(t), NEW p \in Paths, ~IsDir(t, p), NEW sub, NEW x \in Paths
  PROVE  \/ /\ AtOrBelow(x, p) /\ Suffix(x, p) \in DOMAIN sub /\ x = p \o Suffix(x, p)
            /\ Grafted(t, p, sub)[x] = sub[Suffix(x, p)]
            /\ x = p \/ ~Exists(t, x)
         \/ Grafted(t, p, sub)[x] = t[x]
<1>1. Grafted(t, p, sub)[x] = IF AtOrBelow(x, p) /\ Suffix(x, p) \in DOMAIN sub THEN sub[Suffix(x, p)] ELSE t[x]
  BY DEF Grafted
<1>2. CASE AtOrBelow(x, p) /\ Suffix(x, p) \in DOMAIN sub
  <2>1. x = p \o Suffix(x, p)
    BY <1>2, JoinFacts, PathFacts
  <2>2. x = p \/ ~Exists(t, x)
    BY <1>2, NothingBelow DEF AtOrBelow
  <2>3. QED
    BY <1>1, <1>2, <2>1, <2>2
<1>3. QED
  BY <1>1, <1>2

LEMMA RestoresFine ==
  ASSUME IInv, NEW r \in Reqs, Restores(r)
  PROVE  IInv' /\ Alters(r)
<1> DEFINE q == req[r].q
           pol == req[r].pol
           id == q.id
           e == trash[id]
           res == IF id \in DOMAIN trash THEN RestoreResult(pol, e) ELSE "notfound"
<1>1. /\ Working(r, "restore")
      /\ \/ res # "ok" /\ Refuses(r, res)
         \/ /\ res = "ok"
            /\ Answers(r, "ok", {}, {})
            /\ tree' = Grafted(tree, trash[id].orig, trash[id].nodes)
            /\ trash' = Without(id)
            /\ UNCHANGED <<tab, fresh>>
  BY DEF Restores
<1>2. /\ req[r].pc = "work" /\ q.op = "restore" /\ lock = r
      /\ PolicyAuthorize(q, pol) = "ok" /\ FeatureOn(q, pol) = "ok" /\ q.op \in Writes
  BY <1>1, WorkingFacts DEF Writes
<1>3. /\ RestoreResult(pol, e) \in Results
      /\ RestoreResult(pol, e) = "ok" => /\ PreflightTree(pol, e.orig, "write", NoPath, DOMAIN e.nodes) = "ok"
                                         /\ NewName(tree, e.orig) = "ok"
  <2>1. PICK a \in Verdicts, b \in {"ok", "exists"} :
          a = Check(pol, e.orig, "write") /\ b = (IF Exists(tree, e.orig) THEN "exists" ELSE "ok")
    BY SmallVerdicts
  <2>2. PICK c \in Verdicts : c = PreflightTree(pol, e.orig, "write", NoPath, DOMAIN e.nodes)
    BY TreeVerdict
  <2>3. PICK d \in Results : d = NewName(tree, e.orig)
    BY NewNameResult
  <2>4. RestoreResult(pol, e) = First(<<a, b, c, d>>)
    BY <2>1, <2>2, <2>3 DEF RestoreResult
  <2>5. RestoreResult(pol, e) \in {a, b, c, d} /\ (RestoreResult(pol, e) = "ok" => c = "ok" /\ d = "ok")
    BY <2>4, FirstOfFour
  <2>6. RestoreResult(pol, e) \in Results
    BY <2>5 DEF Results, Verdicts
  <2>7. QED
    BY <2>2, <2>3, <2>5, <2>6
<1>4. CASE res # "ok" /\ Refuses(r, res)
  <2>1. res \in Results
    BY <1>3 DEF Results
  <2>2. /\ IInv' /\ UNCHANGED <<wl, conf, tree, trash, tab, fresh>>
        /\ req'[r].pc = "done" /\ req'[r].q = req[r].q /\ req'[r].names = {} /\ req'[r].atoms = {}
        /\ \A s \in Reqs : s # r => req'[s] = req[s]
    <3> HIDE DEF res
    <3>1. QED
      BY <1>2, <1>4, <2>1, RefusesFine
  <2>3. Flows(req[r]) /\ Discards
    BY <2>2 DEF Flows, Discards
  <2>4. QED
    BY <1>2, <2>2, <2>3 DEF Alters
<1>5. CASE /\ res = "ok"
           /\ Answers(r, "ok", {}, {})
           /\ tree' = Grafted(tree, e.orig, e.nodes)
           /\ trash' = Without(id)
           /\ UNCHANGED <<tab, fresh>>
  <2>1. /\ id \in DOMAIN trash /\ Entry(e)
        /\ PreflightTree(pol, e.orig, "write", NoPath, DOMAIN e.nodes) = "ok" /\ NewName(tree, e.orig) = "ok"
    BY <1>3, <1>5 DEF IInv, FilesInv
  <2>2. PICK p, sub : p = e.orig /\ sub = e.nodes
    OBVIOUS
  <2>3. /\ p \in Paths /\ p # <<>> /\ IsTree(sub) /\ DOMAIN sub \in SUBSET Names
        /\ IsDir(tree, Parent(p)) /\ ~IsDir(tree, p) /\ ~Exists(tree, p)
    BY <2>1, <2>2, NewNameResult, TreeForm DEF Entry
  <2>4. tree' = Grafted(tree, p, sub) /\ Sound(tree')
    BY <1>5, <2>2, <2>3, GraftedSound, TreeFacts
  <2>5. \A s \in DOMAIN sub : Permits(pol, p \o s, "write")
    BY <2>1, <2>2, <2>3, PreflightAll, NodeOk
  <2>6. ASSUME NEW x \in Paths
        PROVE  \/ /\ ~Exists(tree, x) /\ Permits(pol, x, "write")
                  /\ \E s \in DOMAIN sub : x = p \o s /\ tree'[x] = sub[s]
               \/ tree'[x] = tree[x]
    <3>1. \/ /\ Suffix(x, p) \in DOMAIN sub /\ x = p \o Suffix(x, p)
             /\ Grafted(tree, p, sub)[x] = sub[Suffix(x, p)]
             /\ x = p \/ ~Exists(tree, x)
          \/ Grafted(tree, p, sub)[x] = tree[x]
      BY <2>3, GraftedIs, TreeFacts
    <3>2. QED
      BY <2>3, <2>4, <2>5, <3>1
  <2>7. PICK names \in SUBSET Names, atoms \in SUBSET Int : names = {} /\ atoms = {}
    OBVIOUS
  <2>8. /\ ReqsInv' /\ UNCHANGED <<wl, conf>>
        /\ req'[r].pc = "done" /\ req'[r].q = req[r].q /\ req'[r].names = names /\ req'[r].atoms = atoms
        /\ \A s \in Reqs : s # r => req'[s] = req[s]
    <3>1. Answers(r, "ok", names, atoms) /\ "ok" \in Results
      BY <1>5, <2>7 DEF Results
    <3>2. QED
      BY <1>2, <3>1, AnswersFine DEF IInv
  <2>9. \A i \in DOMAIN trash' : i \in DOMAIN trash /\ trash'[i] = trash[i]
    BY <1>5 DEF Without
  <2>10. FilesInv'
    BY <1>5, <2>4, <2>9 DEF IInv, FilesInv
  <2>11. Permitted(req[r])
    BY <1>2, <2>6, PolicyParts DEF Permitted, Needs
  <2>12. Flows(req[r])
    BY <2>1, <2>2, <2>6 DEF Flows, FromTrash
  <2>13. Discards
    BY <2>9 DEF Discards
  <2>14. QED
    BY <1>2, <1>5, <2>7, <2>8, <2>10, <2>11, <2>12, <2>13, ConfKept DEF Alters, IInv
<1>6. QED
  BY <1>1, <1>4, <1>5

LEMMA PurgesFine ==
  ASSUME IInv, NEW r \in Reqs, Purges(r)
  PROVE  IInv' /\ Alters(r)
<1>1. /\ Working(r, "purge") /\ Answers(r, "ok", {}, {}) /\ trash' = Without(req[r].q.id)
      /\ UNCHANGED <<tree, tab, fresh>> /\ "ok" \in Results
  BY DEF Purges, Results
<1>2. req[r].pc = "work" /\ lock = r
  BY <1>1, WorkingFacts DEF Writes
<1>3. PICK names \in SUBSET Names, atoms \in SUBSET Int : names = {} /\ atoms = {}
  OBVIOUS
<1>4. /\ ReqsInv' /\ UNCHANGED <<wl, conf>>
      /\ req'[r].pc = "done" /\ req'[r].q = req[r].q /\ req'[r].names = names /\ req'[r].atoms = atoms
      /\ \A s \in Reqs : s # r => req'[s] = req[s]
  BY <1>1, <1>2, <1>3, AnswersFine DEF IInv
<1>5. \A i \in DOMAIN trash' : i \in DOMAIN trash /\ trash'[i] = trash[i]
  BY <1>1 DEF Without
<1>6. FilesInv'
  BY <1>1, <1>5 DEF IInv, FilesInv
<1>7. Flows(req[r]) /\ Discards
  BY <1>1, <1>5 DEF Flows, Discards
<1>8. QED
  BY <1>1, <1>2, <1>3, <1>4, <1>6, <1>7, ConfKept DEF Alters, IInv

LEMMA ChangingFine ==
  ASSUME IInv, NEW r \in Reqs, Changing(r)
  PROVE  IInv' /\ Alters(r)
<1>1. CASE Renames(r) \/ Moves(r)
  BY <1>1, MovingFine DEF Renames, Moves, Carries
<1>2. QED
  BY <1>1, MakesFolderFine, DeletesFine, ChmodsFine, TrashesFine, RestoresFine, PurgesFine DEF Changing

-----------------------------------------------------------------------------
(* What is staged, and its publication.                                       *)

\* A step that stages something: it makes no contents, what it stages may be
\* published, and its contents are the request's own or may be read.
Prepares(r) ==
  /\ lock = r /\ UNCHANGED <<wl, conf, trash, tab, fresh>>
  /\ req[r].pc \in {"work", "staged"} /\ req'[r].pc \in {"staged", "vetted", "done"} /\ req'[r].q = req[r].q
  /\ \/ req'[r].names = {} /\ req'[r].atoms = {}
     \/ req'[r].names = req[r].names /\ req'[r].atoms = req[r].atoms
  /\ tree' # tree => Permitted(req[r])
  /\ \A p \in Paths : AtomsOf(tree'[p]) = AtomsOf(tree[p])
  /\ req'[r].pc \in {"staged", "vetted"} =>
       \/ req[r].pc = "staged" /\ req'[r].stage = req[r].stage
       \/ /\ req'[r].pc = "staged"
          /\ \A s \in DOMAIN req'[r].stage : \A a \in AtomsOf(req'[r].stage[s]) :
               \/ req[r].q.op \in {"save", "upload"} /\ a = req[r].q.atom
               \/ Readable(req[r].pol, a)
  /\ req'[r].pc = "vetted" => tree' = tree /\ RevisionMatches(req[r].pol, req[r].q)
  /\ \A s \in Reqs : s # r => req'[s] = req[s]

LEMMA StagesFine ==
  ASSUME IInv, NEW r \in Reqs, NEW op \in Transactions, Working(r, op),
         NEW res \in Results, NEW sub, NEW way \in SUBSET Names, NEW new, Stages(r, res, sub, way, new), Sound(new),
         res = "ok" => /\ IsTree(sub) /\ <<>> \in DOMAIN sub /\ sub \in Parts
                       /\ op = "save" => sub[<<>>].kind = "file"
                       /\ \A s \in DOMAIN sub : PartOK(op, req[r].pol, Destination(req[r].q), way, s)
  PROVE  /\ IInv' /\ UNCHANGED <<wl, conf, trash, tab, fresh>> /\ tree' = new /\ lock = r
         /\ req[r].pc = "work" /\ req'[r].q = req[r].q
         /\ \/ req'[r].pc = "done" /\ req'[r].names = {} /\ req'[r].atoms = {}
            \/ /\ req'[r].pc = "staged" /\ req'[r].names = req[r].names /\ req'[r].atoms = req[r].atoms
               /\ req'[r].stage = sub /\ res = "ok"
         /\ \A s \in Reqs : s # r => req'[s] = req[s]
<1> DEFINE q == req[r].q
           pol == req[r].pol
<1>0. req \in [Reqs -> ReqRec] /\ req[r] \in ReqRec /\ ReqFine(req[r], lock = r, wl.floor)
  BY DEF IInv, ReqsInv
<1>1. op \in Writes
  BY DEF Transactions, Writes, Creates
<1>2. /\ req[r].pc = "work" /\ q.op = op /\ lock = r
      /\ PolicyAuthorize(q, pol) = "ok" /\ FeatureOn(q, pol) = "ok"
  BY <1>1, WorkingFacts
<1>3. CASE res # "ok" /\ Answers(r, res, {}, {}) /\ tree' = new /\ UNCHANGED <<trash, tab, fresh>>
  <2>1. PICK names \in SUBSET Names, atoms \in SUBSET Int : names = {} /\ atoms = {}
    OBVIOUS
  <2>2. /\ ReqsInv' /\ UNCHANGED <<wl, conf>>
        /\ req'[r].pc = "done" /\ req'[r].q = req[r].q
        /\ req'[r].names = {} /\ req'[r].atoms = {}
        /\ \A s \in Reqs : s # r => req'[s] = req[s]
    BY <1>2, <1>3, <2>1, AnswersFine DEF IInv
  <2>3. FilesInv'
    BY <1>3 DEF IInv, FilesInv
  <2>4. QED
    BY <1>2, <1>3, <2>2, <2>3, ConfKept DEF IInv
<1>4. CASE /\ res = "ok"
           /\ req' = [req EXCEPT ![r].pc = "staged", ![r].stage = sub, ![r].way = way]
           /\ tree' = new
           /\ UNCHANGED <<wl, trash, conf, lock, tab, fresh, asked>>
  <2> DEFINE x == [req[r] EXCEPT !.pc = "staged", !.stage = sub, !.way = way]
  <2>1. req' = [req EXCEPT ![r] = x]
    BY <1>0, <1>4
  <2>2. /\ x \in ReqRec /\ x.pc = "staged" /\ x.q = q /\ x.pol = pol /\ x.stage = sub /\ x.way = way
        /\ x.names = req[r].names /\ x.atoms = req[r].atoms /\ x.snap = req[r].snap /\ x.ceil = req[r].ceil
    BY <1>0, <1>4 DEF ReqRec, Pcs
  <2> HIDE DEF x
  <2>3. PublishOK(x)
    BY <1>2, <1>4, <2>2 DEF PublishOK
  <2>4. ReqFine(x, lock' = r, wl.floor)
    BY <1>0, <1>2, <1>4, <2>2, <2>3 DEF ReqFine, InWorker, Admitted
  <2>5. ReqsInv'
    BY <1>4, <2>1, <2>2, <2>4, ReqStep DEF IInv
  <2>6. FilesInv'
    BY <1>4 DEF IInv, FilesInv
  <2>7. req'[r] = x /\ \A s \in Reqs : s # r => req'[s] = req[s]
    BY <1>0, <2>1
  <2>8. QED
    BY <1>2, <1>4, <2>2, <2>5, <2>6, <2>7, ConfKept DEF IInv
<1>5. QED
  BY <1>3, <1>4 DEF Stages

LEMMA OneFacts ==
  ASSUME NEW node \in Nodes, node.kind = "file", NEW pol, NEW p \in Paths, Permits(pol, p, "write")
  PROVE  /\ IsTree(One(node)) /\ <<>> \in DOMAIN One(node) /\ One(node) \in Parts
         /\ One(node)[<<>>] = node /\ DOMAIN One(node) = {<<>>}
         /\ \A s \in DOMAIN One(node) : Permits(pol, p \o s, "write")
<1>1. DOMAIN One(node) = {<<>>} /\ One(node)[<<>>] = node /\ One(node) \in [{<<>>} -> Nodes]
  BY DEF One
<1>2. {<<>>} \in SUBSET Names /\ p \o <<>> = p
  BY PathFacts, JoinFacts
<1>3. One(node) \in Parts
  BY <1>1, <1>2 DEF Parts
<1>4. QED
  BY <1>1, <1>2, <1>3, OneIsTree

\* One file is staged, at a destination that may be written.
LEMMA StagesOneFine ==
  ASSUME IInv, NEW r \in Reqs, NEW op \in Transactions, Working(r, op),
         NEW res \in Results, NEW node, Stages(r, res, One(node), {}, tree),
         res = "ok" => /\ node \in Nodes /\ node.kind = "file"
                       /\ Destination(req[r].q) \in Paths /\ Permits(req[r].pol, Destination(req[r].q), "write")
                       /\ \A a \in AtomsOf(node) : \/ op \in {"save", "upload"} /\ a = req[r].q.atom
                                                   \/ Readable(req[r].pol, a)
  PROVE  IInv' /\ Prepares(r)
<1>1. PICK sub : sub = One(node)
  OBVIOUS
<1>2. res = "ok" => /\ IsTree(sub) /\ <<>> \in DOMAIN sub /\ sub \in Parts
                    /\ op = "save" => sub[<<>>].kind = "file"
                    /\ \A s \in DOMAIN sub : PartOK(op, req[r].pol, Destination(req[r].q), {}, s)
                    /\ \A s \in DOMAIN sub : sub[s] = node
  <2>1. PICK p, pol : p = Destination(req[r].q) /\ pol = req[r].pol
    OBVIOUS
  <2>2. QED
    BY <1>1, <2>1, OneFacts DEF PartOK
<1>3. /\ IInv' /\ UNCHANGED <<wl, conf, trash, tab, fresh>> /\ tree' = tree /\ lock = r
      /\ req[r].pc = "work" /\ req'[r].q = req[r].q
      /\ \/ req'[r].pc = "done" /\ req'[r].names = {} /\ req'[r].atoms = {}
         \/ /\ req'[r].pc = "staged" /\ req'[r].names = req[r].names /\ req'[r].atoms = req[r].atoms
            /\ req'[r].stage = sub /\ res = "ok"
      /\ \A s \in Reqs : s # r => req'[s] = req[s]
  <2>0. PICK way \in SUBSET Names : way = {}
    OBVIOUS
  <2>1. PICK new : new = tree
    OBVIOUS
  <2>2. Stages(r, res, sub, way, new) /\ Sound(new)
    BY <1>1, <2>0, <2>1, TreeFacts
  <2>3. res = "ok" => /\ IsTree(sub) /\ <<>> \in DOMAIN sub /\ sub \in Parts
                      /\ op = "save" => sub[<<>>].kind = "file"
                      /\ \A s \in DOMAIN sub : PartOK(op, req[r].pol, Destination(req[r].q), way, s)
    BY <1>2, <2>0
  <2>4. QED
    BY <2>1, <2>2, <2>3, StagesFine
<1>4. req[r].q.op = op
  BY DEF Working
<1>5. QED
  BY <1>2, <1>3, <1>4 DEF Prepares

LEMMA PlainFacts ==
  ASSUME NEW a \in Int
  PROVE  /\ Plain(a) \in Nodes /\ Plain(a).kind = "file" /\ AtomsOf(Plain(a)) \subseteq {a}
<1>1. {<< <<>>, a>>} \in SUBSET (Names \X Int)
  BY PathFacts
<1>2. Plain(a) \in Nodes
  BY <1>1, NodeFacts DEF Plain
<1>3. QED
  BY <1>2 DEF Plain, File, AtomsOf

\* The paths of a request that stages, and what was permitted at them.
LEMMA TransactionPaths ==
  ASSUME IInv, NEW r \in Reqs, NEW op \in Transactions, Working(r, op)
  PROVE  LET q == req[r].q
             pol == req[r].pol
         IN  /\ Destination(q) \in Paths /\ Permits(pol, Destination(q), "write") /\ q.path \in Paths
             /\ op \in {"copy", "extract"} \cup Archives => Permits(pol, q.path, "read")
             /\ op # "save" => Destination(q) = q.target
<1> DEFINE q == req[r].q
           pol == req[r].pol
<1>1. /\ q.op = op /\ IsQuery(q) /\ AccessAuthorize(q, pol) = "ok"
      /\ q.path = NoPath \/ q.path \in Paths
      /\ q.target = NoPath \/ q.target \in Paths
  BY WorkingFacts
<1>2. q.path \in Paths /\ (op # "save" => q.target \in Paths /\ q.target # NoPath)
  <2>1. op \notin {"restore", "purge"} /\ (op # "save" => op \in TwoPaths)
    BY DEF Transactions, TwoPaths, Creates, Archives
  <2>2. QED
    BY <1>1, <2>1 DEF IsQuery
<1>3. Destination(q) = IF op = "save" THEN q.path ELSE q.target
  BY <1>1 DEF Destination
<1>4. CASE op = "save"
  <2>1. HelperPath(q) = q.path /\ OperationAccess(op) = "write"
    BY <1>1, <1>4, AccessOf DEF HelperPath, Archives
  <2>2. QED
    BY <1>1, <1>2, <1>3, <1>4, <2>1, AccessParts DEF Archives
<1>5. CASE op = "upload"
  <2>1. HelperPath(q) = q.target /\ OperationAccess(op) = "write"
    BY <1>1, <1>5, AccessOf DEF HelperPath
  <2>2. QED
    BY <1>1, <1>2, <1>3, <1>5, <2>1, AccessParts DEF Archives
<1>6. CASE op \in {"copy", "extract"}
  <2>1. HelperPath(q) = q.path /\ HelperTarget(q) = q.target /\ OperationAccess(op) = "read"
    BY <1>1, <1>6, AccessOf DEF HelperPath, HelperTarget, Archives
  <2>2. QED
    BY <1>1, <1>2, <1>3, <1>6, <2>1, AccessParts
<1>7. CASE op \in Archives
  <2>1. HelperTarget(q) = q.target /\ op # "save"
    BY <1>1, <1>7 DEF HelperTarget, Archives
  <2>2. QED
    BY <1>1, <1>2, <1>3, <1>7, <2>1, AccessParts
<1>8. QED
  BY <1>4, <1>5, <1>6, <1>7 DEF Transactions

LEMMA StagesContentFine ==
  ASSUME IInv, NEW r \in Reqs, StagesText(r) \/ StagesUpload(r)
  PROVE  IInv' /\ Prepares(r)
<1> DEFINE q == req[r].q
           pol == req[r].pol
<1>1. ASSUME NEW op \in {"save", "upload"}, Working(r, op), NEW res \in Results,
             Stages(r, res, One(Plain(q.atom)), {}, tree)
      PROVE  IInv' /\ Prepares(r)
  <2>1. op \in Transactions
    BY DEF Transactions
  <2>2. q.atom \in Int
    BY <1>1, WorkingFacts DEF Queries
  <2>3. PICK node : node = Plain(q.atom)
    OBVIOUS
  <2>4. node \in Nodes /\ node.kind = "file" /\ AtomsOf(node) \subseteq {q.atom}
    BY <2>2, <2>3, PlainFacts
  <2>5. Destination(q) \in Paths /\ Permits(pol, Destination(q), "write")
    BY <1>1, <2>1, TransactionPaths
  <2>6. QED
    BY <1>1, <2>1, <2>3, <2>4, <2>5, StagesOneFine
<1>2. CASE StagesText(r)
  <2>1. PICK a \in {"ok", "conflict"} : a = IF RevisionMatches(pol, q) THEN "ok" ELSE "conflict"
    OBVIOUS
  <2>2. PICK b \in Results : b = InDirectory(q.path)
    BY InDirectoryResult
  <2>3. PICK res : res = First(<<a, b>>)
    OBVIOUS
  <2>4. res \in Results
    BY <2>3, FirstOfTwo DEF Results
  <2>5. Working(r, "save") /\ Stages(r, res, One(Plain(q.atom)), {}, tree)
    BY <1>2, <2>1, <2>2, <2>3 DEF StagesText
  <2>6. QED
    BY <1>1, <2>4, <2>5
<1>3. CASE StagesUpload(r)
  <2>1. PICK res \in Results : res = InDirectory(q.target)
    BY InDirectoryResult
  <2>2. QED
    BY <1>1, <1>3, <2>1 DEF StagesUpload
<1>4. QED
  BY <1>2, <1>3

LEMMA StagesCopyFine ==
  ASSUME IInv, NEW r \in Reqs, StagesCopy(r)
  PROVE  IInv' /\ Prepares(r)
<1> DEFINE q == req[r].q
           pol == req[r].pol
<1>1. Working(r, "copy") /\ "copy" \in Transactions
  BY DEF StagesCopy, Transactions
<1>2. PICK a \in Results : a = ReadResult(tree, q.path)
  BY FoundResult
<1>3. PICK b \in Results : b = InDirectory(q.target)
  BY InDirectoryResult
<1>4. PICK res : res = First(<<a, b>>)
  OBVIOUS
<1>5. res \in Results
  BY <1>4, FirstOfTwo DEF Results
<1>6. PICK node : node = File(tree[q.path].data)
  OBVIOUS
<1>7. Stages(r, res, One(node), {}, tree)
  BY <1>2, <1>3, <1>4, <1>6 DEF StagesCopy
<1>8. /\ Destination(q) \in Paths /\ Permits(pol, Destination(q), "write") /\ q.path \in Paths
      /\ Permits(pol, q.path, "read")
  BY <1>1, TransactionPaths
<1>9. node \in Nodes /\ node.kind = "file" /\ AtomsOf(node) = AtomsOf(tree[q.path])
  <2>1. tree[q.path] \in Nodes
    BY <1>8, TreeFacts
  <2>2. QED
    BY <1>6, <2>1, NodeFacts DEF File, AtomsOf
<1>10. \A a1 \in AtomsOf(node) : Readable(pol, a1)
  BY <1>8, <1>9 DEF Readable
<1>11. QED
  BY <1>1, <1>5, <1>7, <1>8, <1>9, <1>10, StagesOneFine

\* What an archive takes may be read.
LEMMA EntriesReadable ==
  ASSUME IInv, NEW pol, NEW p \in Paths, Permits(pol, p, "read"), NEW d \in Entries(pol, p), d[2] # Dir
  PROVE  Readable(pol, d[2])
<1>1. PICK s \in Carried(pol, p) : \E a \in AtomsOf(tree[p \o s]) : d = <<<<NameOf(p)>> \o s, a>>
  BY EntriesAre DEF IsEntry
<1>2. d[2] \in AtomsOf(tree[p \o s])
  BY <1>1
<1>3. s \in Names /\ s \in SuffixesAt(tree, p) /\ p \o s \in Paths
  BY SubtreeFacts, TreeFacts DEF Carried
<1>4. Permits(pol, p \o s, "read")
  <2>1. CASE s = <<>>
    BY <2>1, JoinFacts, PathFacts
  <2>2. CASE s # <<>>
    <3>1. s \in Seq(STRING) /\ Len(s) \in 1..Len(s) /\ SubSeq(s, 1, Len(s)) = s
      BY <1>3, <2>2 DEF Names
    <3>2. Taken(pol, p \o s)
      BY <3>1 DEF Carried
    <3>3. QED
      BY <3>2 DEF Taken
  <2>3. QED
    BY <2>1, <2>2
<1>5. QED
  BY <1>2, <1>3, <1>4 DEF Readable

LEMMA CompressFine ==
  ASSUME IInv, NEW r \in Reqs, CompressZip(r) \/ CompressTarGz(r)
  PROVE  IInv' /\ Prepares(r)
<1> DEFINE q == req[r].q
           pol == req[r].pol
<1>1. PICK a \in Results : a = Found(tree, q.path)
  BY FoundResult
<1>2. PICK b \in Results : b = InDirectory(q.target)
  BY InDirectoryResult
<1>3. PICK res : res = First(<<a, b>>)
  OBVIOUS
<1>4. res \in Results
  BY <1>3, FirstOfTwo DEF Results
<1>5. PICK data : data = Entries(pol, q.path)
  OBVIOUS
<1>6. PICK node : node = File(data)
  OBVIOUS
<1>7. PICK op \in Archives : Working(r, op) /\ Stages(r, res, One(node), {}, tree)
  BY <1>1, <1>2, <1>3, <1>5, <1>6 DEF CompressZip, CompressTarGz, Archives
<1>8. op \in Transactions
  BY DEF Transactions
<1>9. /\ Destination(q) \in Paths /\ Permits(pol, Destination(q), "write") /\ q.path \in Paths
      /\ Permits(pol, q.path, "read")
  BY <1>7, <1>8, TransactionPaths
<1>10. q.path # <<>>
  BY <1>7, WorkingFacts
<1>11. data \in SUBSET (Names \X Int)
  BY <1>5, <1>9, <1>10, EntriesFacts, TreeFacts
<1>12. node \in Nodes /\ node.kind = "file" /\ AtomsOf(node) = {d[2] : d \in data} \ {Dir}
  BY <1>6, <1>11, NodeFacts DEF File, AtomsOf
<1>13. \A c \in AtomsOf(node) : Readable(pol, c)
  <2>1. ASSUME NEW c \in AtomsOf(node) PROVE Readable(pol, c)
    <3>1. PICK d \in data : c = d[2] /\ d[2] # Dir
      BY <1>12
    <3>2. PICK p, po : p = q.path /\ po = pol
      OBVIOUS
    <3>3. Readable(po, d[2])
      BY <1>5, <1>9, <3>1, <3>2, EntriesReadable
    <3>4. QED
      BY <3>1, <3>2, <3>3
  <2>2. QED
    BY <2>1
<1>14. QED
  BY <1>4, <1>7, <1>8, <1>9, <1>12, <1>13, StagesOneFine

LEMMA EntryRefusedFacts ==
  ASSUME NEW pol, NEW p, NEW s
  PROVE  EntryRefused(pol, p, s) \in Results /\ (EntryRefused(pol, p, s) = "ok" => Permits(pol, p \o s, "write"))
<1>1. PICK a \in Verdicts, b \in Verdicts, c \in Verdicts :
        a = DeniedIf(~pol.hid /\ Hidden(s)) /\ b = Check(pol, p \o s, "write") /\ c = DeniedIf(Sensitive(pol, p \o s))
  BY SmallVerdicts
<1>2. EntryRefused(pol, p, s) = First(<<a, b, c>>)
  BY <1>1 DEF EntryRefused
<1>3. EntryRefused(pol, p, s) \in {"ok", a, b, c} /\ (EntryRefused(pol, p, s) = "ok" => b = "ok")
  BY <1>2, FirstOfThree
<1>4. QED
  BY <1>1, <1>3 DEF Verdicts, Results, Permits

LEMMA UnpackedFacts ==
  ASSUME NEW data \in SUBSET (Names \X Int)
  PROVE  /\ IsTree(Unpacked(data)) /\ Unpacked(data) \in Parts /\ <<>> \in DOMAIN Unpacked(data)
         /\ DOMAIN Unpacked(data) = Listed(data) \cup Above(data) \cup {<<>>}
         /\ \A s \in DOMAIN Unpacked(data) : \A a \in AtomsOf(Unpacked(data)[s]) : \E d \in data : a = d[2] /\ a # Dir
<1> DEFINE sub == Unpacked(data)
           Held(s) == {<< <<>>, d[2]>> : d \in {e \in data : e[1] = s}}
<1>1. /\ DOMAIN sub = Listed(data) \cup Above(data) \cup {<<>>}
      /\ \A s \in DOMAIN sub :
           sub[s] = IF s \in Directories(data) \cup Above(data) \cup {<<>>} THEN Folder ELSE File(Held(s))
      /\ sub = [s \in DOMAIN sub |-> sub[s]]
  BY DEF Unpacked
<1>2. IsTree(sub)
  BY UnpackedIsTree
<1> HIDE DEF sub
<1>3. sub \in Parts
  <2>1. DOMAIN sub \in SUBSET Names /\ \A s \in DOMAIN sub : sub[s] \in Nodes
    BY <1>2, TreeForm
  <2>2. sub \in [DOMAIN sub -> Nodes]
    BY <1>1, <2>1
  <2>3. QED
    BY <2>1, <2>2 DEF Parts
<1>4. ASSUME NEW s \in DOMAIN sub, NEW a \in AtomsOf(sub[s]) PROVE \E d \in data : a = d[2] /\ a # Dir
  <2>1. sub[s] = Folder \/ sub[s] = File(Held(s))
    BY <1>1
  <2>2. AtomsOf(Folder) = {}
    BY DEF AtomsOf, Folder
  <2>3. a \in {e[2] : e \in Held(s)} /\ a # Dir
    BY <2>1, <2>2 DEF AtomsOf, File
  <2>4. PICK e \in Held(s) : a = e[2]
    BY <2>3
  <2>5. PICK d \in data : e = << <<>>, d[2]>>
    BY <2>4
  <2>6. QED
    BY <2>3, <2>4, <2>5
<1>5. QED
  BY <1>1, <1>2, <1>3, <1>4 DEF sub

\* The directories on the way to a destination are all an extraction makes in the
\* tree before it is published.
LEMMA WithParentsFacts ==
  ASSUME IInv, NEW x, x.q.op = "extract", x.q.target \in Paths, UnpackStarts(x.q) = "ok",
         PolicyAuthorize(x.q, x.pol) = "ok", FeatureOn(x.q, x.pol) = "ok", tree' = WithParents(tree, x.q.target)
  PROVE  /\ Sound(tree') /\ Permitted(x)
         /\ \A p \in Paths : AtomsOf(tree'[p]) = AtomsOf(tree[p])
<1> DEFINE q == x.q
<1>1. PICK a, b : /\ a = Found(tree, q.path)
                  /\ b = IF q.target = <<>> \/ \E y \in Ancestors(q.target) : IsFile(tree, y) THEN "invalid" ELSE "ok"
  OBVIOUS
<1>2. First(<<a, b>>) = "ok"
  BY <1>1 DEF UnpackStarts
<1>3. \A y \in Ancestors(q.target) : ~IsFile(tree, y)
  BY <1>1, <1>2, FirstOfTwo
<1>4. Sound(tree')
  BY <1>3, WithParentsSound, TreeFacts
<1>5. \A p \in Paths : tree'[p] = IF p \in Ancestors(q.target) /\ ~Exists(tree, p) THEN Folder ELSE tree[p]
  BY DEF WithParents
<1>6. Permitted(x)
  <2>1. ~x.pol.ro /\ Feature(q.op) \subseteq x.pol.feats
    BY PolicyParts DEF Writes
  <2>2. \A p \in Paths : tree'[p] # tree[p] => Excused(p, x)
    BY <1>5 DEF Excused
  <2>3. QED
    BY <2>1, <2>2 DEF Permitted
<1>7. \A p \in Paths : AtomsOf(tree'[p]) = AtomsOf(tree[p])
  <2>1. \A p \in Paths : tree[p] \in Nodes
    BY TreeFacts
  <2>2. AtomsOf(Folder) = {}
    BY DEF AtomsOf, Folder
  <2>3. \A p \in Paths : ~Exists(tree, p) => AtomsOf(tree[p]) = {}
    BY <2>1 DEF Exists, Nodes, AtomsOf, Nothing
  <2>4. QED
    BY <1>5, <2>2, <2>3
<1>8. QED
  BY <1>4, <1>6, <1>7

\* The steps of an extraction, from the result and the tree it stages.
LEMMA ExtractsFine ==
  ASSUME IInv, NEW r \in Reqs, Working(r, "extract"), UnpackStarts(req[r].q) = "ok",
         NEW res \in Results, NEW sub, NEW way \in SUBSET Names,
         Stages(r, res, sub, way, WithParents(tree, req[r].q.target)),
         res = "ok" => /\ IsTree(sub) /\ <<>> \in DOMAIN sub /\ sub \in Parts
                       /\ \A s \in DOMAIN sub : PartOK("extract", req[r].pol, req[r].q.target, way, s)
                       /\ \A s \in DOMAIN sub : \A a \in AtomsOf(sub[s]) : Readable(req[r].pol, a)
  PROVE  IInv' /\ Prepares(r)
<1> DEFINE q == req[r].q
           pol == req[r].pol
<1>1. "extract" \in Transactions
  BY DEF Transactions
<1>2. Destination(q) \in Paths /\ Destination(q) = q.target
  BY <1>1, TransactionPaths
<1>3. q.op = "extract" /\ PolicyAuthorize(q, pol) = "ok" /\ FeatureOn(q, pol) = "ok"
  BY WorkingFacts
<1>4. PICK new : new = WithParents(tree, q.target)
  OBVIOUS
<1>5. tree' = new
  BY <1>4 DEF Stages
<1>6. Sound(tree') /\ Permitted(req[r]) /\ \A p \in Paths : AtomsOf(tree'[p]) = AtomsOf(tree[p])
  <2>1. PICK x : x = req[r]
    OBVIOUS
  <2>2. Sound(tree') /\ Permitted(x) /\ \A p \in Paths : AtomsOf(tree'[p]) = AtomsOf(tree[p])
    BY <1>2, <1>3, <1>4, <1>5, <2>1, WithParentsFacts
  <2>3. QED
    BY <2>1, <2>2
<1>7. /\ IInv' /\ UNCHANGED <<wl, conf, trash, tab, fresh>> /\ lock = r
      /\ req[r].pc = "work" /\ req'[r].q = req[r].q
      /\ \/ req'[r].pc = "done" /\ req'[r].names = {} /\ req'[r].atoms = {}
         \/ /\ req'[r].pc = "staged" /\ req'[r].names = req[r].names /\ req'[r].atoms = req[r].atoms
            /\ req'[r].stage = sub /\ res = "ok"
      /\ \A s \in Reqs : s # r => req'[s] = req[s]
  <2>1. PICK op \in Transactions : op = "extract"
    BY <1>1
  <2>2. Working(r, op) /\ Stages(r, res, sub, way, new) /\ Sound(new)
    BY <1>4, <1>5, <1>6, <2>1
  <2>3. res = "ok" => /\ IsTree(sub) /\ <<>> \in DOMAIN sub /\ sub \in Parts
                      /\ op = "save" => sub[<<>>].kind = "file"
                      /\ \A s \in DOMAIN sub : PartOK(op, req[r].pol, Destination(req[r].q), way, s)
    BY <1>2, <2>1
  <2>4. QED
    BY <2>2, <2>3, StagesFine
<1>8. QED
  BY <1>6, <1>7 DEF Prepares

\* Whatever ends it early, an extraction stages nothing then; otherwise each part
\* of what it stages is listed and was checked, or lies on the way to such a part.
LEMMA UnpacksFine ==
  ASSUME IInv, NEW r \in Reqs, NEW names, NEW way, NEW faults, Unpacks(r, names, way, faults),
         faults \subseteq {"exists", "failed"},
         faults = {} => LET data == tree[req[r].q.path].data
                        IN  way \subseteq Above(data) /\ Above(data) \subseteq way \cup Listed(data)
  PROVE  IInv' /\ Prepares(r)
<1> DEFINE q == req[r].q
           pol == req[r].pol
           data == tree[q.path].data
           refused == ({EntryRefused(pol, q.target, s) : s \in Listed(data)} \ {"ok"}) \cup faults
           new == WithParents(tree, q.target)
<1>1. Working(r, "extract") /\ UnpackStarts(q) = "ok" /\ "extract" \in Transactions
  BY DEF Unpacks, Transactions
<1>2. \/ Stages(r, "invalid", NoStage, {}, new)
      \/ \E res \in refused : Stages(r, res, NoStage, {}, new)
      \/ refused = {} /\ Stages(r, "ok", Unpacked(data), way, new)
  BY DEF Unpacks
<1>3. PICK none \in SUBSET Names : none = {}
  OBVIOUS
<1>4. CASE Stages(r, "invalid", NoStage, {}, new)
  <2>0. PICK res \in Results : res = "invalid"
    BY DEF Results
  <2>1. PICK sub : sub = NoStage
    OBVIOUS
  <2>2. Stages(r, res, sub, none, new)
    BY <1>3, <1>4, <2>0, <2>1
  <2>3. QED
    BY <1>1, <2>0, <2>2, ExtractsFine
<1>5. CASE \E res \in refused : Stages(r, res, NoStage, {}, new)
  <2>1. PICK res \in refused : Stages(r, res, NoStage, {}, new)
    BY <1>5
  <2>2. res \in Results /\ res # "ok"
    <3>1. {"exists", "failed"} \subseteq Results
      BY DEF Results
    <3>2. \A s : EntryRefused(pol, q.target, s) \in Results
      BY EntryRefusedFacts
    <3>3. res \in faults \/ (res # "ok" /\ \E s \in Listed(data) : res = EntryRefused(pol, q.target, s))
      BY <2>1
    <3>4. QED
      BY <3>1, <3>2, <3>3
  <2>3. PICK sub : sub = NoStage
    OBVIOUS
  <2>4. Stages(r, res, sub, none, new)
    BY <1>3, <2>1, <2>3
  <2>5. QED
    BY <1>1, <2>2, <2>4, ExtractsFine
<1>6. CASE refused = {} /\ Stages(r, "ok", Unpacked(data), way, new)
  <2>1. /\ q.path \in Paths /\ Permits(pol, q.path, "read") /\ Destination(q) = q.target
        /\ Permits(pol, q.target, "write") /\ q.target \in Paths
    BY <1>1, TransactionPaths
  <2>2. data \in SUBSET (Names \X Int)
    BY <2>1, NodeFacts, TreeFacts
  <2>3. \A s \in Listed(data) : Permits(pol, q.target \o s, "write")
    BY <1>6, EntryRefusedFacts
  <2>4. PICK dt : dt = data
    OBVIOUS
  <2>5. PICK sub : sub = Unpacked(dt)
    OBVIOUS
  <2>6. /\ IsTree(sub) /\ sub \in Parts /\ <<>> \in DOMAIN sub
        /\ DOMAIN sub = Listed(dt) \cup Above(dt) \cup {<<>>}
        /\ \A s \in DOMAIN sub : \A a \in AtomsOf(sub[s]) : \E d \in dt : a = d[2] /\ a # Dir
    BY <2>2, <2>4, <2>5, UnpackedFacts
  <2>7. way \in SUBSET Names /\ Above(dt) \subseteq way \cup Listed(dt)
    BY <1>6, <2>2, <2>4, AboveFacts
  <2>8. \A s \in DOMAIN sub : PartOK("extract", pol, q.target, way, s)
    <3>1. q.target \o <<>> = q.target
      BY <2>1, JoinFacts, PathFacts
    <3>2. QED
      BY <2>1, <2>3, <2>4, <2>6, <2>7, <3>1 DEF PartOK
  <2>9. \A s \in DOMAIN sub : \A a \in AtomsOf(sub[s]) : Readable(pol, a)
    <3>1. ASSUME NEW a, NEW d \in dt, a = d[2], a # Dir PROVE Readable(pol, a)
      <4>1. a \in AtomsOf(tree[q.path])
        BY <2>4, <3>1 DEF AtomsOf
      <4>2. QED
        BY <2>1, <4>1 DEF Readable
    <3>2. QED
      BY <2>6, <3>1
  <2>10. PICK res \in Results : res = "ok"
    BY DEF Results
  <2>11. Stages(r, res, sub, way, new)
    BY <1>6, <2>4, <2>5, <2>10
  <2>12. QED
    BY <1>1, <2>6, <2>7, <2>8, <2>9, <2>11, ExtractsFine
<1>7. QED
  BY <1>2, <1>4, <1>5, <1>6

LEMMA ExtractionsFine ==
  ASSUME IInv, NEW r \in Reqs, ExtractZip(r) \/ ExtractTar(r)
  PROVE  IInv' /\ Prepares(r)
<1> DEFINE data == tree[req[r].q.path].data
<1>1. PICK above, listed : above = Above(data) /\ listed = Listed(data)
  OBVIOUS
<1>2. CASE ExtractZip(r)
  <2>1. PICK way, faults : way = above \ listed /\ faults = IF Tangled(data) THEN {"exists", "failed"} ELSE {}
    OBVIOUS
  <2>2. Unpacks(r, ZipNames, way, faults)
    BY <1>1, <1>2, <2>1 DEF ExtractZip
  <2>3. /\ faults \subseteq {"exists", "failed"}
        /\ way \subseteq Above(data) /\ Above(data) \subseteq way \cup Listed(data)
    BY <1>1, <2>1
  <2>4. QED
    BY <2>2, <2>3, UnpacksFine
<1>3. CASE ExtractTar(r)
  <2>1. PICK way, faults :
          /\ way = {}
          /\ faults = IF Tangled(data) \/ ~(above \subseteq listed) THEN {"failed"} ELSE {}
    OBVIOUS
  <2>2. Unpacks(r, TarNames, way, faults)
    BY <1>1, <1>3, <2>1 DEF ExtractTar
  <2>3. /\ faults \subseteq {"exists", "failed"}
        /\ faults = {} => way \subseteq Above(data) /\ Above(data) \subseteq way \cup Listed(data)
    BY <1>1, <2>1
  <2>4. QED
    BY <2>2, <2>3, UnpacksFine
<1>4. QED
  BY <1>2, <1>3

LEMMA RefusedPrepares ==
  ASSUME IInv, NEW r \in Reqs, req[r].pc \in {"work", "staged"}, lock = r, NEW res \in Results, Refuses(r, res)
  PROVE  IInv' /\ Prepares(r)
<1>1. /\ IInv' /\ UNCHANGED <<wl, conf, tree, trash, tab, fresh>>
      /\ req'[r].pc = "done" /\ req'[r].q = req[r].q /\ req'[r].names = {} /\ req'[r].atoms = {}
      /\ \A s \in Reqs : s # r => req'[s] = req[s]
  BY RefusesFine
<1>2. QED
  BY <1>1 DEF Prepares

LEMMA ExtractFailsFine ==
  ASSUME IInv, NEW r \in Reqs, ExtractFails(r)
  PROVE  IInv' /\ Prepares(r)
<1> DEFINE q == req[r].q
<1>1. Working(r, "extract") /\ "extract" \in Writes
  BY DEF ExtractFails, Writes
<1>2. req[r].pc = "work" /\ lock = r
  BY <1>1, WorkingFacts
<1>3. CASE Refuses(r, UnpackStarts(q))
  <2>1. PICK a \in Results, b \in Results :
          /\ a = Found(tree, q.path)
          /\ b = IF q.target = <<>> \/ \E x \in Ancestors(q.target) : IsFile(tree, x) THEN "invalid" ELSE "ok"
    BY FoundResult DEF Results
  <2>2. PICK res : res = First(<<a, b>>)
    OBVIOUS
  <2>3. res \in Results
    BY <2>2, FirstOfTwo
  <2>4. res = UnpackStarts(q)
    BY <2>1, <2>2 DEF UnpackStarts
  <2>5. QED
    BY <1>2, <1>3, <2>3, <2>4, RefusedPrepares
<1>4. CASE UnpackStarts(q) = "ok" /\ Stages(r, "invalid", NoStage, {}, WithParents(tree, q.target))
  <2>1. PICK res \in Results, way \in SUBSET Names : res = "invalid" /\ way = {}
    BY DEF Results
  <2>2. QED
    BY <1>1, <1>4, <2>1, ExtractsFine
<1>5. QED
  BY <1>3, <1>4 DEF ExtractFails

LEMMA StagedFacts ==
  ASSUME IInv, NEW r \in Reqs, req[r].pc \in {"staged", "vetted"}
  PROVE  /\ req[r] \in ReqRec /\ lock = r /\ IsQuery(req[r].q) /\ req[r].q.op \in Transactions
         /\ IsTree(req[r].stage) /\ <<>> \in DOMAIN req[r].stage /\ PublishOK(req[r])
         /\ req[r].q.op = "save" => req[r].stage[<<>>].kind = "file"
         /\ req[r].q.path \in Paths /\ Destination(req[r].q) \in Paths
<1> DEFINE q == req[r].q
<1>1. req[r] \in ReqRec /\ ReqFine(req[r], lock = r, wl.floor)
  BY DEF IInv, ReqsInv
<1>2. /\ lock = r /\ IsQuery(q) /\ q.op \in Transactions
      /\ IsTree(req[r].stage) /\ <<>> \in DOMAIN req[r].stage /\ PublishOK(req[r])
      /\ q.op = "save" => req[r].stage[<<>>].kind = "file"
  BY <1>1 DEF ReqFine, InWorker
<1>3. q.op \notin {"restore", "purge"} /\ (q.op # "save" => q.op \in TwoPaths)
  BY <1>2 DEF Transactions, TwoPaths, Creates, Archives
<1>4. q.path \in Paths \cup {NoPath} /\ q.target \in Paths \cup {NoPath}
  BY <1>2 DEF IsQuery, Queries
<1>5. q.path \in Paths /\ Destination(q) \in Paths
  BY <1>2, <1>3, <1>4 DEF IsQuery, Destination
<1>6. QED
  BY <1>1, <1>2, <1>5

LEMMA CancelsFine ==
  ASSUME IInv, NEW r \in Reqs, Cancels(r)
  PROVE  IInv' /\ Prepares(r)
<1>1. req[r].pc = "staged" /\ Refuses(r, "denied") /\ "denied" \in Results
  BY DEF Cancels, Results
<1>2. QED
  BY <1>1, StagedFacts, RefusedPrepares

LEMMA RechecksFine ==
  ASSUME IInv, NEW r \in Reqs, Rechecks(r)
  PROVE  IInv' /\ Prepares(r)
<1>0. req[r].pc = "staged" /\ lock = r
  BY StagedFacts DEF Rechecks
<1>1. CASE Refuses(r, "conflict")
  <2>1. "conflict" \in Results
    BY DEF Results
  <2>2. QED
    BY <1>0, <1>1, <2>1, RefusedPrepares
<1>2. CASE /\ RevisionMatches(req[r].pol, req[r].q)
           /\ req' = [req EXCEPT ![r].pc = "vetted"]
           /\ UNCHANGED <<wl, tree, trash, conf, lock, tab, fresh, asked>>
  <2> DEFINE x == [req[r] EXCEPT !.pc = "vetted"]
  <2>1. req \in [Reqs -> ReqRec] /\ req[r] \in ReqRec /\ ReqFine(req[r], lock = r, wl.floor)
    BY DEF IInv, ReqsInv
  <2>2. req' = [req EXCEPT ![r] = x]
    BY <1>2, <2>1
  <2>3. /\ x \in ReqRec /\ x.pc = "vetted" /\ x.q = req[r].q /\ x.pol = req[r].pol
        /\ x.stage = req[r].stage /\ x.way = req[r].way
        /\ x.names = req[r].names /\ x.atoms = req[r].atoms /\ x.snap = req[r].snap /\ x.ceil = req[r].ceil
    BY <2>1 DEF ReqRec, Pcs
  <2> HIDE DEF x
  <2>4. PublishOK(x)
    BY <1>0, <2>1, <2>3 DEF ReqFine, PublishOK
  <2>5. ReqFine(x, lock' = r, wl.floor)
    BY <1>0, <1>2, <2>1, <2>3, <2>4 DEF ReqFine, InWorker, Admitted
  <2>6. ReqsInv'
    BY <1>2, <2>2, <2>3, <2>5, ReqStep DEF IInv
  <2>7. ConfInv' /\ FilesInv'
    BY <1>2, ConfKept, FilesKept DEF IInv
  <2>8. req'[r] = x /\ \A s \in Reqs : s # r => req'[s] = req[s]
    BY <2>1, <2>2
  <2>9. QED
    BY <1>0, <1>2, <2>3, <2>6, <2>7, <2>8 DEF IInv, Prepares
<1>3. QED
  BY <1>1, <1>2 DEF Rechecks

LEMMA PublishResultFacts ==
  ASSUME NEW q
  PROVE  /\ PublishResult(q) \in Results
         /\ PublishResult(q) = "ok" =>
              /\ Destination(q) # <<>> /\ IsDir(tree, Parent(Destination(q))) /\ ~IsDir(tree, Destination(q))
              /\ q.op # "save" => ~Exists(tree, Destination(q))
<1>1. CASE q.op = "save"
  <2>1. PICK a \in Results, b \in Results :
          a = InDirectory(q.path) /\ b = IF IsDir(tree, q.path) THEN "invalid" ELSE "ok"
    BY InDirectoryResult DEF Results
  <2>2. PublishResult(q) = First(<<a, b>>)
    BY <1>1, <2>1 DEF PublishResult
  <2>3. PublishResult(q) \in Results /\ (PublishResult(q) = "ok" => a = "ok" /\ b = "ok")
    BY <2>2, FirstOfTwo
  <2>4. QED
    BY <1>1, <2>1, <2>3, InDirectoryResult DEF Destination
<1>2. CASE q.op # "save"
  BY <1>2, NewNameResult DEF PublishResult, Destination
<1>3. QED
  BY <1>1, <1>2

LEMMA PublishesFine ==
  ASSUME IInv, NEW r \in Reqs, Publishes(r)
  PROVE  IInv' /\ Alters(r) /\ req[r].pc = "vetted"
<1> DEFINE q == req[r].q
           pol == req[r].pol
           stage == req[r].stage
           node == [stage[<<>>] EXCEPT !.mode = tree[q.path].mode]
           kept == IF q.op = "save" THEN One(node) ELSE stage
           p == Destination(q)
<1>1. /\ req[r].pc = "vetted"
      /\ Changes(r, PublishResult(q), Grafted(tree, p, kept))
  BY DEF Publishes
<1>2. /\ lock = r /\ IsQuery(q) /\ q.op \in Transactions
      /\ IsTree(stage) /\ <<>> \in DOMAIN stage /\ PublishOK(req[r])
      /\ q.op = "save" => stage[<<>>].kind = "file"
      /\ q.path \in Paths /\ p \in Paths
  BY <1>1, StagedFacts
<1>3. /\ PolicyAuthorize(q, pol) = "ok" /\ FeatureOn(q, pol) = "ok" /\ q.op \in Writes
      /\ \A s \in DOMAIN stage : PartOK(q.op, pol, p, req[r].way, s)
  BY <1>2 DEF PublishOK, Transactions, Writes, Creates
<1>4. q.op = "save" => /\ node \in Nodes /\ node.kind = "file" /\ AtomsOf(node) = AtomsOf(stage[<<>>])
                       /\ node.mode = tree[q.path].mode
  <2> SUFFICES ASSUME q.op = "save"
               PROVE  /\ node \in Nodes /\ node.kind = "file" /\ AtomsOf(node) = AtomsOf(stage[<<>>])
                      /\ node.mode = tree[q.path].mode
    OBVIOUS
  <2>1. stage[<<>>] \in Nodes /\ stage[<<>>].kind = "file"
    BY <1>2, TreeForm
  <2>2. PICK n \in Nodes : n = stage[<<>>]
    BY <2>1
  <2>3. PICK m \in Modes : m = tree[q.path].mode
    BY <1>2, TreeFacts DEF Nodes
  <2>4. node = [n EXCEPT !.mode = m]
    BY <2>2, <2>3
  <2>5. node \in Nodes
    BY <2>1, <2>2, <2>3, <2>4, NodeFacts
  <2>6. node.kind = n.kind /\ node.data = n.data /\ node.mode = m
    BY <2>4 DEF Nodes
  <2>7. QED
    BY <2>1, <2>2, <2>3, <2>5, <2>6 DEF AtomsOf
<1> HIDE DEF node
<1>5. PICK sub : sub = kept
  OBVIOUS
<1>6. /\ IsTree(sub) /\ \A s \in DOMAIN sub : s \in DOMAIN stage /\ AtomsOf(sub[s]) = AtomsOf(stage[s])
      /\ q.op = "save" => DOMAIN sub = {<<>>} /\ sub[<<>>] = node
  <2>1. CASE q.op = "save"
    <3>1. sub = One(node)
      BY <1>5, <2>1
    <3>2. DOMAIN sub = {<<>>} /\ sub[<<>>] = node
      BY <3>1 DEF One
    <3>3. IsTree(sub)
      BY <1>4, <2>1, <3>1, OneIsTree
    <3>4. QED
      BY <1>2, <1>4, <2>1, <3>2, <3>3
  <2>2. CASE q.op # "save"
    BY <1>2, <1>5, <2>2
  <2>3. QED
    BY <2>1, <2>2
<1>7. PICK res \in Results : res = PublishResult(q)
  BY PublishResultFacts
<1>8. res = "ok" => /\ p # <<>> /\ IsDir(tree, Parent(p)) /\ ~IsDir(tree, p)
                    /\ q.op # "save" => ~Exists(tree, p)
  BY <1>7, PublishResultFacts
<1> HIDE DEF p
<1>9. PICK new : new = Grafted(tree, p, sub)
  OBVIOUS
<1>10. res = "ok" => Sound(new)
  BY <1>2, <1>6, <1>8, <1>9, GraftedSound, TreeFacts
<1>11. /\ IInv' /\ UNCHANGED <<wl, conf, trash, tab, fresh>>
       /\ tree' = tree \/ (res = "ok" /\ tree' = new)
       /\ req'[r].pc = "done" /\ req'[r].q = req[r].q /\ req'[r].names = {} /\ req'[r].atoms = {}
       /\ \A s \in Reqs : s # r => req'[s] = req[s]
  <2>1. Changes(r, res, new)
    BY <1>1, <1>5, <1>7, <1>9
  <2>2. QED
    BY <1>1, <1>10, <2>1, ChangesFine
<1>12. ASSUME res = "ok", tree' = new, NEW x \in Paths
       PROVE  \/ \E s \in DOMAIN sub : /\ x = p \o s /\ tree'[x] = sub[s]
                                       /\ x = p \/ ~Exists(tree, x)
              \/ tree'[x] = tree[x]
  <2>1. \/ /\ Suffix(x, p) \in DOMAIN sub /\ x = p \o Suffix(x, p)
           /\ Grafted(tree, p, sub)[x] = sub[Suffix(x, p)]
           /\ x = p \/ ~Exists(tree, x)
        \/ Grafted(tree, p, sub)[x] = tree[x]
    BY <1>2, <1>8, <1>12, GraftedIs, TreeFacts
  <2>2. QED
    BY <1>9, <1>12, <2>1
<1>13. ASSUME tree' # tree, NEW x \in Paths, tree'[x] # tree[x], ~Excused(x, req[r])
       PROVE  Permits(pol, x, Needs(x, q))
  <2>1. res = "ok" /\ tree' = new
    BY <1>11, <1>13
  <2>2. PICK s \in DOMAIN sub : x = p \o s /\ tree'[x] = sub[s] /\ (x = p \/ ~Exists(tree, x))
    BY <1>12, <1>13, <2>1
  <2>3. Permits(pol, x, "write")
    <3>1. PartOK(q.op, pol, p, req[r].way, s)
      BY <1>3, <1>6, <2>2
    <3>2. q.op = "extract" => p = q.target
      BY DEF p, Destination
    <3>3. QED
      BY <1>13, <2>2, <3>1, <3>2 DEF PartOK, Excused
  <2>4. CASE ~Exists(tree, x)
    BY <2>3, <2>4 DEF Needs
  <2>5. CASE Exists(tree, x)
    <3>1. x = p /\ q.op = "save" /\ p = q.path
      BY <1>8, <2>1, <2>2, <2>5 DEF p, Destination
    <3>2. tree'[x] = node /\ node.kind = "file" /\ node.mode = tree[x].mode /\ node \in Nodes
      BY <1>4, <1>6, <2>2, <3>1
    <3>3. tree[x] \in Nodes /\ tree[x].kind = "file"
      BY <1>8, <2>1, <2>5, <3>1, TreeFacts DEF Nodes, Exists, IsDir
    <3>4. tree[x].data # tree'[x].data
      BY <1>13, <3>2, <3>3 DEF Nodes
    <3>5. Needs(x, q) = "write"
      BY <2>5, <3>2, <3>4 DEF Needs, Exists
    <3>6. QED
      BY <2>3, <3>5
  <2>6. QED
    BY <2>4, <2>5
<1>14. tree' # tree => Permitted(req[r])
  BY <1>3, <1>13, PolicyParts DEF Permitted
<1>15. Flows(req[r])
  <2> SUFFICES ASSUME NEW x \in Paths, NEW a \in AtomsOf(tree'[x])
               PROVE  a \in AtomsOf(tree[x]) \/ FromStage(req[r], a)
    BY <1>1 DEF Flows
  <2>1. QED
    BY <1>6, <1>11, <1>12 DEF FromStage
<1>16. QED
  BY <1>1, <1>2, <1>11, <1>14, <1>15 DEF Alters, Discards

LEMMA StagingFine ==
  ASSUME IInv, NEW r \in Reqs, Staging(r)
  PROVE  IInv' /\ (Prepares(r) \/ (Alters(r) /\ Publishes(r)))
<1>1. QED
  BY ExtractionsFine, StagesContentFine, StagesCopyFine, CompressFine, ExtractFailsFine, CancelsFine, RechecksFine,
     PublishesFine DEF Staging

-----------------------------------------------------------------------------
(* The owner's writes.                                                        *)

LEMMA OwnerFine ==
  ASSUME IInv, OwnerWrites
  PROVE  /\ IInv' /\ UNCHANGED <<wl, trash, conf, lock, req, tab>>
         /\ \E p \in Paths : tree' = [tree EXCEPT ![p] = Plain(-fresh)]
<1>1. PICK p \in wl.owned : /\ IsDir(tree, Parent(p)) /\ ~IsDir(tree, p)
                            /\ tree' = [tree EXCEPT ![p] = Plain(-fresh)]
  BY DEF OwnerWrites
<1>2. fresh \in Nat /\ fresh' = fresh + 1 /\ UNCHANGED <<wl, trash, conf, lock, req, tab, asked>> /\ -fresh \in Int
  BY DEF OwnerWrites, IInv, FilesInv
<1>3. p \in Paths /\ p # <<>>
  BY FilesConstants DEF IInv, ConfInv, IsWorkload
<1>4. PICK node \in Nodes : node = Plain(-fresh)
  BY <1>2, PlainFacts
<1>5. Sound(tree')
  BY <1>1, <1>3, <1>4, SetSound, TreeFacts
<1>6. FilesInv' /\ ConfInv'
  BY <1>2, <1>5, ConfKept DEF IInv, FilesInv
<1>7. ReqsInv'
  BY <1>2 DEF IInv, ReqsInv
<1>8. QED
  BY <1>1, <1>2, <1>3, <1>6, <1>7 DEF IInv

-----------------------------------------------------------------------------
(* Every step is of one of these kinds.                                       *)

\* A request is asked; the server's refusal is final.
Opens(r, q) ==
  /\ IsQuery(q) /\ (q.op \in {"save", "upload"} => q.atom = fresh)
  /\ UNCHANGED <<wl, conf, tree, trash, lock, tab>> /\ fresh' \in {fresh, fresh + 1} /\ lock # r
  /\ req'[r].pc \in {"stat", "sent", "done"} /\ req'[r].q = q /\ req'[r].names = {} /\ req'[r].atoms = {}
  /\ req'[r].pc = "done" => AsIfMissing(req'[r])
  /\ \A s \in Reqs : s # r => req'[s] = req[s]

\* The supervisor passes a request on or refuses it.
Supervised(r) ==
  /\ UNCHANGED <<wl, conf, tree, trash, tab, fresh>>
  /\ req[r].pc \in {"stat", "sent", "queued", "work"} /\ req'[r].pc \in {"sent", "queued", "work", "done"}
  /\ req'[r].q = req[r].q
  /\ \/ req'[r].names = {} /\ req'[r].atoms = {}
     \/ req'[r].names = req[r].names /\ req'[r].atoms = req[r].atoms
  /\ req'[r].pc \in {"queued", "work"} =>
       \/ req[r].pc = "queued"
       \/ \E pol : wl.floor \subseteq pol.rules /\ AccessAuthorize(req[r].q, pol) = "ok"
  /\ req'[r].pc = "done" =>
       \/ AsIfMissing(req'[r])
       \/ req[r].pc \in {"queued", "work"}
       \/ /\ req[r].pc = "stat"
          /\ \E pol : wl.floor \subseteq pol.rules /\ StatAnswer(req[r].q, pol) # "notfound"
  /\ \A s \in Reqs : s # r => req'[s] = req[s]

OwnerStep ==
  /\ UNCHANGED <<wl, trash, conf, lock, req, tab>> /\ fresh' = fresh + 1
  /\ \E p \in Paths : tree' = [tree EXCEPT ![p] = Plain(-fresh)]

ConfigStep ==
  /\ UNCHANGED <<wl, tree, trash, lock, req, tab, fresh>>
  /\ patch.pc = "valid" /\ served' # served => served'.feats \subseteq patch.allowed

Step ==
  \/ \E r \in Reqs : \/ \E q : Opens(r, q)
                     \/ Supervised(r) \/ ReadOnly(r) \/ Alters(r) \/ Prepares(r)
  \/ OwnerStep
  \/ ConfigStep

LEMMA AsksStep ==
  ASSUME IInv, NEW r \in Reqs, Asks(r)
  PROVE  IInv' /\ \E q : Opens(r, q)
<1>1. PICK q : IsQuery(q) /\ Dispatched(r, q) /\ (q.op \in {"save", "upload"} => q.atom = fresh)
  BY AskedFine
<1>2. UNCHANGED tab /\ fresh' \in {fresh, fresh + 1}
  BY AskedFine
<1>3. /\ ReqsInv' /\ UNCHANGED <<wl, conf, tree, trash, lock>> /\ lock # r
      /\ req'[r].pc \in {"stat", "sent", "done"} /\ req'[r].q = q
      /\ req'[r].snap = served /\ req'[r].res = ServerDecides(served, q)
      /\ req'[r].pc = "done" => req'[r].res # "ok"
      /\ req'[r].names = {} /\ req'[r].atoms = {}
      /\ \A s \in Reqs : s # r => req'[s] = req[s]
  BY <1>1, DispatchedFine DEF IInv
<1>4. FilesInv' /\ ConfInv'
  BY <1>2, <1>3, ConfKept DEF IInv, FilesInv
<1>5. req'[r].pc = "done" => AsIfMissing(req'[r])
  <2>1. q.op \in Ops /\ served \in Policies(STRING)
    BY <1>1 DEF IsQuery, Queries, IInv, ConfInv
  <2>2. PICK res \in Verdicts : res = ServerDecides(served, q)
    BY <2>1, ServerVerdict
  <2>3. res = "denied" => ServerDecides(Blind(served), q) = "denied"
    BY <2>1, <2>2, ServerKeeps DEF Keeps
  <2>4. QED
    BY <1>3, <2>2, <2>3 DEF AsIfMissing, DeniedAnyway, Verdicts
<1>6. Opens(r, q)
  BY <1>1, <1>2, <1>3, <1>5 DEF Opens
<1>7. QED
  BY <1>3, <1>4, <1>6 DEF IInv

LEMMA SupervisesStep ==
  ASSUME IInv, NEW r \in Reqs, Supervises(r)
  PROVE  IInv' /\ Supervised(r)
<1> DEFINE q == req[r].q
<1>0. req[r] \in ReqRec
  BY DEF IInv, ReqsInv
<1>1. PICK pol : pol = Restrict(req[r].snap, Ceiling)
  OBVIOUS
<1>2. wl.floor \subseteq pol.rules
  BY <1>0, <1>1, RestrictTyped DEF IInv, ReqRec
<1>3. CASE Statted(r)
  <2>1. /\ IInv' /\ UNCHANGED <<wl, conf, tree, trash, lock, tab, fresh>>
        /\ req[r].pc = "stat" /\ req'[r].q = q
        /\ req'[r].names = req[r].names /\ req'[r].atoms = req[r].atoms
        /\ \/ req'[r].pc = "sent"
           \/ req'[r].pc = "done" /\ (StatAnswer(q, pol) = "notfound" => req'[r].res = "notfound")
        /\ \A s \in Reqs : s # r => req'[s] = req[s]
    BY <1>1, <1>3, StattedFine
  <2>2. QED
    BY <1>2, <2>1 DEF Supervised, AsIfMissing
<1>4. CASE Admits(r)
  <2>1. PICK res \in Verdicts : res = Authorize(q, pol)
    BY HelperVerdicts
  <2>2. /\ IInv' /\ UNCHANGED <<wl, conf, tree, trash, tab, fresh>> /\ req[r].pc = "sent" /\ req'[r].q = q
        /\ req'[r].pol = pol /\ req'[r].res = res
        /\ \/ res # "ok" /\ req'[r].pc = "done"
           \/ res = "ok" /\ req'[r].pc \in {"work", "queued"}
        /\ req'[r].names = req[r].names /\ req'[r].atoms = req[r].atoms
        /\ \A s \in Reqs : s # r => req'[s] = req[s]
    BY <1>1, <1>4, <2>1, AdmitsFine
  <2>3. res = "ok" => AccessAuthorize(q, pol) = "ok"
    BY <2>1, FirstOfTwo DEF Authorize
  <2>4. res # "ok" => AsIfMissing(req'[r])
    <3>1. pol \in Policies(STRING)
      BY <1>0, <1>1, RestrictTyped DEF IInv, ReqRec
    <3>2. res = "denied" => Authorize(q, Blind(pol)) = "denied"
      BY <2>1, <3>1, AuthorizeKeeps DEF Keeps
    <3>3. QED
      BY <2>2, <3>2 DEF AsIfMissing, DeniedAnyway, Verdicts
  <2>5. QED
    BY <1>2, <2>2, <2>3, <2>4 DEF Supervised
<1>5. CASE Locks(r)
  BY <1>5, LocksFine DEF Supervised
<1>6. CASE WorkerRefuses(r)
  BY <1>6, WorkerRefusesFine DEF Supervised
<1>7. QED
  BY <1>3, <1>4, <1>5, <1>6 DEF Supervises

LEMMA ConfiguresStep ==
  ASSUME IInv, Configures
  PROVE  IInv' /\ ConfigStep
<1>1. UNCHANGED <<wl, tree, trash, lock, req, tab, fresh, asked>>
  BY DEF Configures, RootEdits, RulesStored, Reloads, PatchBegins, PatchChecks, PatchStores, Configured
<1>2. ConfInv' /\ (patch.pc = "valid" /\ served' # served => served'.feats \subseteq patch.allowed)
  BY ConfStep DEF IInv
<1>3. ReqsInv' /\ FilesInv'
  BY <1>1, FilesKept DEF IInv, ReqsInv
<1>4. QED
  BY <1>1, <1>2, <1>3 DEF IInv, ConfigStep

LEMMA NextStep ==
  ASSUME IInv, Next
  PROVE  IInv' /\ Step
<1>1. ASSUME NEW r \in Reqs, Asks(r) PROVE IInv' /\ Step
  BY <1>1, AsksStep DEF Step
<1>2. ASSUME NEW r \in Reqs, Supervises(r) PROVE IInv' /\ Step
  BY <1>2, SupervisesStep DEF Step
<1>3. ASSUME NEW r \in Reqs, Reading(r) PROVE IInv' /\ Step
  BY <1>3, ReadingFine DEF Step
<1>4. ASSUME NEW r \in Reqs, Changing(r) PROVE IInv' /\ Step
  BY <1>4, ChangingFine DEF Step
<1>5. ASSUME NEW r \in Reqs, Staging(r) PROVE IInv' /\ Step
  BY <1>5, StagingFine DEF Step
<1>6. CASE OwnerWrites
  <2>1. fresh' = fresh + 1
    BY <1>6 DEF OwnerWrites
  <2>2. QED
    BY <1>6, <2>1, OwnerFine DEF Step, OwnerStep
<1>7. CASE Configures
  BY <1>7, ConfiguresStep DEF Step
<1>8. QED
  BY <1>1, <1>2, <1>3, <1>4, <1>5, <1>6, <1>7 DEF Next

LEMMA Stutters ==
  ASSUME IInv, UNCHANGED vars
  PROVE  IInv'
<1>1. UNCHANGED <<wl, conf, tree, trash, lock, req, tab, fresh>>
  BY DEF vars
<1>2. QED
  BY <1>1, ConfKept, FilesKept DEF IInv, ReqsInv

LEMMA Inductive == Spec => []IInv
<1>1. IInv /\ [Next]_vars => IInv'
  BY NextStep, Stutters
<1>2. QED
  BY <1>1, IInvInit, PTL DEF Spec

LEMMA Steps == Spec => [][IInv /\ IInv' /\ Step]_vars
<1>1. IInv /\ [Next]_vars => IInv' /\ [Step]_vars
  BY NextStep, Stutters
<1>2. QED
  BY <1>1, IInvInit, PTL DEF Spec

-----------------------------------------------------------------------------
(* The types.                                                                 *)

LEMMA TypesFollow == IInv => TypeOK
<1> SUFFICES ASSUME IInv PROVE TypeOK
  OBVIOUS
<1>1. ASSUME NEW p \in Paths
      PROVE  IsNode(tree[p]) /\ (Exists(tree, p) /\ p # <<>> => IsDir(tree, Parent(p)))
  <2>1. tree[p] \in Nodes
    BY TreeFacts
  <2>2. IsNode(tree[p])
    BY <2>1 DEF IsNode, Nodes
  <2>3. Exists(tree, p) /\ p # <<>> => IsDir(tree, Parent(p))
    BY PathFacts, TreeFacts DEF Sound
  <2>4. QED
    BY <2>2, <2>3
<1>2. ASSUME NEW id \in DOMAIN trash
      PROVE  /\ trash[id].orig \in Paths \ {<<>>}
             /\ \A s \in DOMAIN trash[id].nodes :
                  s # <<>> => Parent(s) \in DOMAIN trash[id].nodes /\ trash[id].nodes[Parent(s)].kind = "dir"
  <2>1. Entry(trash[id])
    BY DEF IInv, FilesInv
  <2>2. PICK sub : sub = trash[id].nodes
    OBVIOUS
  <2>3. ASSUME NEW s \in DOMAIN sub, s # <<>> PROVE Parent(s) \in DOMAIN sub /\ sub[Parent(s)].kind = "dir"
    <3>1. IsTree(sub)
      BY <2>1, <2>2 DEF Entry
    <3>2. s \in Names /\ \A u \in Names : Below(s, u) => u \in DOMAIN sub /\ sub[u].kind = "dir"
      BY <3>1, TreeForm
    <3>3. Parent(s) \in Names /\ Below(s, Parent(s))
      BY <2>3, <3>2, ParentFacts DEF Names
    <3>4. QED
      BY <3>2, <3>3
  <2>4. QED
    BY <2>1, <2>2, <2>3 DEF Entry
<1>3. ASSUME NEW r \in Reqs
      PROVE  /\ req[r].pc \in {"idle", "stat", "sent", "queued", "work", "staged", "vetted", "done"}
             /\ req[r].res \in Results
             /\ (req[r].pc \in {"staged", "vetted"} \/ (req[r].pc = "work" /\ req[r].q.op \in Writes)) <=> lock = r
  <2>1. req[r] \in ReqRec /\ ReqFine(req[r], lock = r, wl.floor)
    BY DEF IInv, ReqsInv
  <2>2. QED
    BY <2>1 DEF ReqRec, Pcs, ReqFine, InWorker
<1>4. lock \in Reqs \cup {NoReq} /\ served.feats \subseteq Features
  BY DEF IInv, ReqsInv, ConfInv, Policies
<1>5. QED
  BY <1>1, <1>2, <1>3, <1>4 DEF TypeOK

\* The variables have their types, everything in the tree lies in a directory,
\* whatever is moved, restored, published or unpacked (helper/*.rs), every trash
\* entry holds a whole tree, and the directory lock is held exactly by the
\* request whose worker changes something (helper/ipc.rs).
THEOREM TypesHold == Spec => []TypeOK
BY Inductive, TypesFollow, PTL

-----------------------------------------------------------------------------
(* Configuration.                                                             *)

\* A patch of the panel settings that was checked, and checks once more when it
\* saves, serves no feature that the root file has had switched off ever since
\* the patch began (runtime_settings.rs, admin/api.rs).
THEOREM RevokedThroughout == Spec => RevokedStaysRevoked
<1>1. [IInv /\ IInv' /\ Step]_vars
        => [patch.pc = "valid" /\ served' # served => served'.feats \subseteq patch.allowed]_vars
  <2> SUFFICES ASSUME Step, patch.pc = "valid", served' # served
               PROVE  served'.feats \subseteq patch.allowed
    OBVIOUS
  <2>1. CASE UNCHANGED conf
    BY <2>1 DEF conf
  <2>2. CASE ConfigStep
    BY <2>2 DEF ConfigStep
  <2>3. QED
    BY <2>1, <2>2 DEF Step, Opens, Supervised, ReadOnly, Alters, Prepares, OwnerStep
<1>2. QED
  BY <1>1, Steps, PTL DEF RevokedStaysRevoked

-----------------------------------------------------------------------------
(* Permission.                                                                *)

Allowed(r) ==
  lock = r /\ req'[r] # req[r] /\ tree' # tree =>
    \A pol \in {req[r].snap, req[r].ceil} :
      /\ ~pol.ro
      /\ Feature(req[r].q.op) \subseteq pol.feats
      /\ \A p \in Paths : tree'[p] # tree[p] /\ ~Excused(p, req[r]) => Permits(pol, p, Needs(p, req[r].q))

LEMMA AllowedStep ==
  ASSUME IInv, Step, NEW r \in Reqs
  PROVE  Allowed(r)
<1> SUFFICES ASSUME lock = r, req'[r] # req[r], tree' # tree,
                    NEW pol \in {req[r].snap, req[r].ceil}
             PROVE  /\ ~pol.ro
                    /\ Feature(req[r].q.op) \subseteq pol.feats
                    /\ \A p \in Paths : tree'[p] # tree[p] /\ ~Excused(p, req[r]) => Permits(pol, p, Needs(p, req[r].q))
  BY DEF Allowed
<1>1. PICK s \in Reqs : Alters(s) \/ Prepares(s)
  BY DEF Step, Opens, Supervised, ReadOnly, OwnerStep, ConfigStep
<1>2. s = r
  BY <1>1 DEF Alters, Prepares
<1>3. Permitted(req[r])
  BY <1>1, <1>2 DEF Alters, Prepares
<1>4. req[r] \in ReqRec /\ req[r].pol = Restrict(req[r].snap, req[r].ceil)
  BY DEF IInv, ReqsInv, ReqFine, InWorker, Admitted
<1>5. ~pol.ro /\ Feature(req[r].q.op) \subseteq pol.feats
  <2>1. req[r].pol.ro = (req[r].snap.ro \/ req[r].ceil.ro) /\ req[r].pol.feats = req[r].snap.feats \cap req[r].ceil.feats
    BY <1>4 DEF Restrict
  <2>2. QED
    BY <1>3, <2>1 DEF Permitted
<1>6. ASSUME NEW p \in Paths, tree'[p] # tree[p], ~Excused(p, req[r]) PROVE Permits(pol, p, Needs(p, req[r].q))
  <2>1. PICK a, snap, ceil : a = Needs(p, req[r].q) /\ snap = req[r].snap /\ ceil = req[r].ceil
    OBVIOUS
  <2>2. Permits(Restrict(snap, ceil), p, a)
    BY <1>3, <1>4, <1>6, <2>1 DEF Permitted
  <2>3. Permits(snap, p, a) /\ Permits(ceil, p, a)
    BY <2>2, CheckBoth
  <2>4. QED
    BY <2>1, <2>3
<1>7. QED
  BY <1>5, <1>6

\* Whatever a request changes, at its path and at every path below, was permitted
\* there both by the snapshot it came with and by the ceiling the helper loaded
\* last (with a grant under the lock, with a ticket at admission), with its
\* operation switched on and its root writable in both (helper/ipc.rs,
\* helper/access.rs and the workers): no interleaving of root edits, stored rules,
\* patches, other requests and the owner makes a worker use an older decision, and
\* no archive, whatever its entries, makes it write elsewhere.  Excepted are the
\* paths `Excused' names: a new folder's name, the directories on the way to an
\* extraction's destination and those a zip does not list.
THEOREM ChangesWerePermitted == Spec => ChangesPermitted
<1>1. [IInv /\ IInv' /\ Step]_vars => [\A r \in Reqs : Allowed(r)]_vars
  BY AllowedStep
<1>2. QED
  BY <1>1, Steps, PTL DEF ChangesPermitted, Allowed

-----------------------------------------------------------------------------
(* Saving.                                                                    *)

\* What a vetted save by revision is about to replace.
Expected(r) ==
  req[r].pc = "vetted" /\ req[r].q.op = "save" /\ req[r].q.by = "revision" =>
    tree[req[r].q.path] = req[r].q.tok \/ \A a \in AtomsOf(tree[req[r].q.path]) : a < 0

EditInv == \A r \in Reqs : Expected(r)

Overwrites(r) ==
  req[r].pc = "vetted" /\ req[r].q.op = "save" /\ req[r].q.by = "revision"
      /\ tree'[req[r].q.path] # tree[req[r].q.path] /\ req'[r].pc = "done" =>
    \/ tree[req[r].q.path] = req[r].q.tok
    \/ \A a \in AtomsOf(tree[req[r].q.path]) : a < 0

LEMMA OwnerWrote ==
  ASSUME IInv, OwnerStep, NEW x \in Paths
  PROVE  tree'[x] = tree[x] \/ \A a \in AtomsOf(tree'[x]) : a = -fresh /\ a < 0
<1>1. PICK p \in Paths : tree' = [tree EXCEPT ![p] = Plain(-fresh)]
  BY DEF OwnerStep
<1>2. fresh \in Nat \ {0} /\ -fresh \in Int /\ -fresh < 0
  BY DEF IInv, FilesInv
<1>3. PICK n \in Int : n = -fresh
  BY <1>2
<1>4. AtomsOf(Plain(n)) \subseteq {n}
  BY PlainFacts
<1>5. tree'[x] = tree[x] \/ tree'[x] = Plain(n)
  BY <1>1, <1>3, TreeFacts
<1>6. QED
  BY <1>2, <1>3, <1>4, <1>5

LEMMA ExpectedStep ==
  ASSUME IInv, EditInv, Step
  PROVE  EditInv'
<1> SUFFICES ASSUME NEW r \in Reqs, req'[r].pc = "vetted", req'[r].q.op = "save", req'[r].q.by = "revision"
             PROVE  tree'[req'[r].q.path] = req'[r].q.tok \/ \A a \in AtomsOf(tree'[req'[r].q.path]) : a < 0
  BY DEF EditInv, Expected
<1>1. CASE req'[r] = req[r]
  <2>1. /\ lock = r /\ req[r].q.path \in Paths /\ Expected(r)
    BY <1>1, StagedFacts DEF EditInv
  <2>2. tree' = tree \/ OwnerStep
    <3>1. ASSUME NEW s \in Reqs, Alters(s) \/ Prepares(s) PROVE FALSE
      BY <1>1, <2>1, <3>1 DEF Alters, Prepares
    <3>2. QED
      BY <3>1 DEF Step, Opens, Supervised, ReadOnly, OwnerStep, ConfigStep
  <2>3. CASE tree' = tree
    BY <1>1, <2>1, <2>3 DEF Expected
  <2>4. CASE OwnerStep
    BY <1>1, <2>1, <2>4, OwnerWrote DEF Expected
  <2>5. QED
    BY <2>2, <2>3, <2>4
<1>2. CASE req'[r] # req[r]
  <2>1. Prepares(r)
    BY <1>2 DEF Step, Opens, Supervised, ReadOnly, Alters, Prepares, OwnerStep, ConfigStep
  <2>2. req'[r].q = req[r].q /\ tree' = tree /\ RevisionMatches(req[r].pol, req[r].q) /\ req[r].pc = "staged"
    BY <2>1 DEF Prepares
  <2>3. req[r].q.path \in Paths
    BY <2>2, StagedFacts
  <2>4. QED
    BY <2>2, <2>3, TreeFacts DEF RevisionMatches
<1>3. QED
  BY <1>1, <1>2

LEMMA EditKept ==
  ASSUME EditInv, UNCHANGED vars
  PROVE  EditInv'
BY DEF EditInv, Expected, vars

\* A save by revision replaces the text its editor showed or what the owner wrote
\* directly since, never the text of another editor's save (fs/text.rs,
\* helper/transaction.rs): between the second look at the revision and the
\* publication only the owner can change the file, for the request has the lock.
THEOREM NoEditIsLost == Spec => NoLostEdit
<1>1. Init => EditInv
  BY DEF Init, EditInv, Expected, Idle
<1>2. EditInv /\ [IInv /\ IInv' /\ Step]_vars => EditInv'
  BY ExpectedStep, EditKept
<1>3. EditInv => [\A r \in Reqs : Overwrites(r)]_vars
  BY DEF EditInv, Expected, Overwrites
<1>4. Spec => []EditInv
  <2>1. Spec => Init
    BY DEF Spec
  <2>2. QED
    BY <1>1, <1>2, <2>1, Steps, PTL
<1>5. QED
  BY <1>3, <1>4, PTL DEF NoLostEdit, Overwrites

-----------------------------------------------------------------------------
(* The rules that stay in force.                                              *)

\* A policy that has them permits nothing they forbid.
LEMMA FloorHolds ==
  ASSUME NEW pol, wl.floor \subseteq pol.rules, NEW p, NEW a, Permits(pol, p, a)
  PROVE  Permits(Floor, p, a)
<1>1. Floor.rules = wl.floor /\ Floor.sys = {}
  BY DEF Floor, NoPolicy
<1>2. /\ ~HasName(p, pol.sys \cup Reserved) /\ ~Undiscoverable(pol.rules, p) /\ ~Denied(pol.rules, p, a)
  BY DEF Permits, Check
<1>3. ~HasName(p, Floor.sys \cup Reserved)
  BY <1>1, <1>2 DEF HasName
<1>4. ~Undiscoverable(Floor.rules, p)
  BY <1>1, <1>2 DEF Undiscoverable
<1>5. ~Denied(Floor.rules, p, a)
  BY <1>1, <1>2 DEF Denied
<1>6. QED
  BY <1>3, <1>4, <1>5 DEF Permits, Check

LEMMA AdmittedFloor ==
  ASSUME IInv, NEW r \in Reqs, Admitted(req[r])
  PROVE  wl.floor \subseteq req[r].pol.rules
BY DEF IInv, ReqsInv, ReqFine

-----------------------------------------------------------------------------
(* Contents that may not be read.                                             *)

\* The contents in the tree and in the trash lie where they may not be read, what
\* is answered or staged holds none, and new contents are none.
SecretInv ==
  /\ UnreadableStaysUnread
  /\ \A r \in Reqs : req[r].pc \in {"staged", "vetted"} =>
       \A s \in DOMAIN req[r].stage : AtomsOf(req[r].stage[s]) \cap Secrets = {}
  /\ \A r \in Reqs : req[r].pc \notin {"idle", "done"} /\ req[r].q.op \in {"save", "upload"} => req[r].q.atom \notin Secrets
  /\ wl.fresh <= fresh

LEMMA SecretsOld ==
  ASSUME IInv
  PROVE  wl.fresh \in Nat /\ \A a \in Secrets : a \in Nat /\ a < wl.fresh
<1>1. IsWorkload(wl)
  BY FilesConstants DEF IInv, ConfInv
<1>2. wl.fresh \in Nat /\ \A p \in DOMAIN wl.tree : \A d \in wl.tree[p].data : d[2] \in 0..(wl.fresh - 1)
  BY <1>1 DEF IsWorkload
<1>3. ASSUME NEW a \in Secrets PROVE a \in Nat /\ a < wl.fresh
  <2>1. PICK p \in DOMAIN wl.tree : a \in AtomsOf(wl.tree[p])
    BY DEF Secrets
  <2>2. PICK d \in wl.tree[p].data : a = d[2]
    BY <2>1 DEF AtomsOf
  <2>3. QED
    BY <1>2, <2>2
<1>4. QED
  BY <1>2, <1>3

LEMMA SecretInit == Init => SecretInv
<1> SUFFICES ASSUME Init PROVE SecretInv
  OBVIOUS
<1>1. IsWorkload(wl) /\ IInv
  BY IInvInit, FilesConstants DEF Init
<1>2. /\ \A r \in Reqs : req[r].atoms = {} /\ req[r].pc = "idle"
      /\ tree = [p \in Paths |-> IF p \in DOMAIN wl.tree THEN wl.tree[p] ELSE Nothing]
      /\ trash = wl.trash /\ fresh = wl.fresh
  BY DEF Init, Idle
<1>3. /\ \A p, x \in DOMAIN wl.tree : p # x => AtomsOf(wl.tree[p]) \cap AtomsOf(wl.tree[x]) = {}
      /\ \A id \in DOMAIN wl.trash, p \in DOMAIN wl.tree : \A s \in DOMAIN wl.trash[id].nodes :
           AtomsOf(wl.trash[id].nodes[s]) \cap AtomsOf(wl.tree[p]) = {}
  BY <1>1 DEF IsWorkload
<1>4. ASSUME NEW p \in Paths, NEW a \in AtomsOf(tree[p]), a \in Secrets PROVE Unreadable(p)
  <2>1. p \in DOMAIN wl.tree /\ a \in AtomsOf(wl.tree[p])
    BY <1>1, <1>2, <1>4, TreeFacts
  <2>2. PICK x \in DOMAIN wl.tree : Unreadable(x) /\ a \in AtomsOf(wl.tree[x])
    BY <1>4 DEF Secrets
  <2>3. x = p
    BY <1>3, <2>1, <2>2
  <2>4. QED
    BY <2>2, <2>3
<1>5. ASSUME NEW id \in DOMAIN trash, NEW s \in DOMAIN trash[id].nodes, NEW a \in AtomsOf(trash[id].nodes[s]), a \in Secrets
      PROVE  FALSE
  <2>1. PICK x \in DOMAIN wl.tree : a \in AtomsOf(wl.tree[x])
    BY <1>5 DEF Secrets
  <2>2. QED
    BY <1>2, <1>3, <1>5, <2>1
<1>6. UnreadableStaysUnread
  BY <1>2, <1>4, <1>5 DEF UnreadableStaysUnread
<1>7. fresh \in Nat
  BY <1>1 DEF IInv, FilesInv
<1>8. QED
  BY <1>2, <1>6, <1>7 DEF SecretInv

\* What a policy that has the rules lets a request read holds no secret.
LEMMA ReadableIsPublic ==
  ASSUME SecretInv, NEW pol, wl.floor \subseteq pol.rules, NEW a, Readable(pol, a)
  PROVE  a \notin Secrets
<1>1. PICK x \in Paths : a \in AtomsOf(tree[x]) /\ Permits(pol, x, "read")
  BY DEF Readable
<1>2. ~Unreadable(x)
  BY <1>1, FloorHolds DEF Unreadable
<1>3. QED
  BY <1>1, <1>2 DEF SecretInv, UnreadableStaysUnread

LEMMA SecretsSame ==
  ASSUME wl' = wl
  PROVE  Secrets' = Secrets /\ \A p : Unreadable(p)' <=> Unreadable(p)
BY DEF Secrets, Unreadable, Floor

\* The parts of the invariant, for the steps of one request.
LEMMA SecretReqs ==
  ASSUME SecretInv, wl' = wl, NEW r \in Reqs, \A s \in Reqs : s # r => req'[s] = req[s],
         req'[r].atoms \cap Secrets = {},
         req'[r].pc \in {"staged", "vetted"} =>
           \A s \in DOMAIN req'[r].stage : AtomsOf(req'[r].stage[s]) \cap Secrets = {},
         req'[r].pc \notin {"idle", "done"} /\ req'[r].q.op \in {"save", "upload"} => req'[r].q.atom \notin Secrets,
         \A p \in Paths : AtomsOf(tree'[p]) \cap Secrets # {} => Unreadable(p),
         \A id \in DOMAIN trash' : \A s \in DOMAIN trash'[id].nodes :
           AtomsOf(trash'[id].nodes[s]) \cap Secrets # {} => Unreadable(trash'[id].orig \o s),
         wl.fresh <= fresh'
  PROVE  SecretInv'
<1>1. PICK sec : sec = Secrets
  OBVIOUS
<1>2. Secrets' = sec /\ \A p : Unreadable(p)' <=> Unreadable(p)
  BY <1>1, SecretsSame
<1>3. \A s \in Reqs : req'[s].atoms \cap sec = {}
  BY <1>1 DEF SecretInv, UnreadableStaysUnread
<1>4. \A t \in Reqs : req'[t].pc \in {"staged", "vetted"} =>
         \A s \in DOMAIN req'[t].stage : AtomsOf(req'[t].stage[s]) \cap sec = {}
  BY <1>1 DEF SecretInv
<1>5. \A t \in Reqs : req'[t].pc \notin {"idle", "done"} /\ req'[t].q.op \in {"save", "upload"} => req'[t].q.atom \notin sec
  BY <1>1 DEF SecretInv
<1>6. UnreadableStaysUnread'
  <2>1. PICK floor : floor = Floor
    OBVIOUS
  <2>2. Floor' = floor
    BY <2>1 DEF Floor
  <2>3. \A p \in Paths : AtomsOf(tree'[p]) \cap sec # {} => ~Permits(floor, p, "read")
    BY <1>1, <2>1 DEF Unreadable
  <2>4. \A id \in DOMAIN trash' : \A s \in DOMAIN trash'[id].nodes :
           AtomsOf(trash'[id].nodes[s]) \cap sec # {} => ~Permits(floor, trash'[id].orig \o s, "read")
    BY <1>1, <2>1 DEF Unreadable
  <2>5. QED
    BY <1>2, <1>3, <2>2, <2>3, <2>4 DEF UnreadableStaysUnread, Unreadable
<1>7. QED
  BY <1>2, <1>4, <1>5, <1>6 DEF SecretInv, AtomsOf

LEMMA SecretKept ==
  ASSUME SecretInv, UNCHANGED <<wl, tree, trash, req, fresh>>
  PROVE  SecretInv'
<1>1. Secrets' = Secrets /\ Floor' = Floor
  BY DEF Secrets, Unreadable, Floor
<1>2. UnreadableStaysUnread => UnreadableStaysUnread'
  BY <1>1 DEF UnreadableStaysUnread, Unreadable
<1>3. QED
  BY <1>1, <1>2 DEF SecretInv

LEMMA SecretParts ==
  ASSUME SecretInv, IInv
  PROVE  /\ \A r \in Reqs : req[r].atoms \cap Secrets = {}
         /\ \A p \in Paths : AtomsOf(tree[p]) \cap Secrets # {} => Unreadable(p)
         /\ \A id \in DOMAIN trash : \A s \in DOMAIN trash[id].nodes :
              AtomsOf(trash[id].nodes[s]) \cap Secrets # {} => Unreadable(trash[id].orig \o s)
         /\ \A r \in Reqs : req[r].pc \in {"staged", "vetted"} =>
              \A s \in DOMAIN req[r].stage : AtomsOf(req[r].stage[s]) \cap Secrets = {}
         /\ \A r \in Reqs : req[r].pc \notin {"idle", "done"} /\ req[r].q.op \in {"save", "upload"} => req[r].q.atom \notin Secrets
         /\ fresh \in Nat /\ wl.fresh \in Nat /\ wl.fresh <= fresh /\ wl.fresh <= fresh + 1 /\ fresh \notin Secrets
         /\ \A a \in Secrets : a >= 0
<1>1. fresh \in Nat
  BY DEF IInv, FilesInv
<1>2. QED
  BY <1>1, SecretsOld DEF SecretInv, UnreadableStaysUnread

LEMMA SecretOpens ==
  ASSUME IInv, SecretInv, NEW r \in Reqs, NEW q, Opens(r, q)
  PROVE  SecretInv'
<1>1. /\ wl' = wl /\ tree' = tree /\ trash' = trash /\ fresh' \in {fresh, fresh + 1}
      /\ req'[r].pc \in {"stat", "sent", "done"} /\ req'[r].q = q /\ req'[r].atoms = {}
      /\ q.op \in {"save", "upload"} => q.atom = fresh
      /\ \A s \in Reqs : s # r => req'[s] = req[s]
  BY DEF Opens
<1>2. wl.fresh <= fresh'
  BY <1>1, SecretParts
<1>3. req'[r].q.op \in {"save", "upload"} => req'[r].q.atom \notin Secrets
  BY <1>1, SecretParts
<1>4. QED
  BY <1>1, <1>2, <1>3, SecretReqs, SecretParts

LEMMA SecretSupervised ==
  ASSUME IInv, SecretInv, NEW r \in Reqs, Supervised(r)
  PROVE  SecretInv'
<1>1. /\ wl' = wl /\ tree' = tree /\ trash' = trash /\ fresh' = fresh
      /\ req[r].pc \in {"stat", "sent", "queued", "work"} /\ req'[r].pc \in {"sent", "queued", "work", "done"}
      /\ req'[r].q = req[r].q /\ (req'[r].atoms = {} \/ req'[r].atoms = req[r].atoms)
      /\ \A s \in Reqs : s # r => req'[s] = req[s]
  BY DEF Supervised
<1>2. QED
  BY <1>1, SecretReqs, SecretParts

LEMMA SecretReadOnly ==
  ASSUME IInv, SecretInv, NEW r \in Reqs, ReadOnly(r)
  PROVE  SecretInv'
<1>1. /\ wl' = wl /\ tree' = tree /\ trash' = trash /\ fresh' = fresh
      /\ req[r].pc = "work" /\ req'[r].pc = "done"
      /\ \A s \in Reqs : s # r => req'[s] = req[s]
  BY DEF ReadOnly
<1>2. wl.floor \subseteq req[r].pol.rules
  BY <1>1, AdmittedFloor DEF Admitted
<1>3. ASSUME NEW a \in req'[r].atoms PROVE a \notin Secrets
  <2>1. Readable(req[r].pol, a)
    BY DEF ReadOnly, Readable
  <2>2. QED
    BY <1>2, <2>1, ReadableIsPublic
<1>4. QED
  BY <1>1, <1>3, SecretReqs, SecretParts

LEMMA SecretAlters ==
  ASSUME IInv, SecretInv, NEW r \in Reqs, Alters(r)
  PROVE  SecretInv'
<1>1. /\ wl' = wl /\ fresh' \in {fresh, fresh + 1}
      /\ req[r].pc \in {"work", "vetted"} /\ req'[r].pc = "done" /\ req'[r].atoms = {}
      /\ Flows(req[r]) /\ Discards
      /\ \A s \in Reqs : s # r => req'[s] = req[s]
  BY DEF Alters
<1>2. wl.floor \subseteq req[r].pol.rules
  BY <1>1, AdmittedFloor DEF Admitted
<1>3. ASSUME NEW p \in Paths, NEW a \in AtomsOf(tree'[p]), a \in Secrets PROVE Unreadable(p)
  <2>1. \/ a \in AtomsOf(tree[p]) \/ Readable(req[r].pol, a) \/ FromTrash(p, a)
        \/ req[r].pc = "vetted" /\ FromStage(req[r], a)
    BY <1>1 DEF Flows
  <2>2. ~Readable(req[r].pol, a)
    BY <1>2, <1>3, ReadableIsPublic
  <2>3. ~(req[r].pc = "vetted" /\ FromStage(req[r], a))
    BY <1>3, SecretParts DEF FromStage
  <2>4. CASE a \in AtomsOf(tree[p])
    BY <1>3, <2>4, SecretParts
  <2>5. CASE FromTrash(p, a)
    BY <1>3, <2>5, SecretParts DEF FromTrash
  <2>6. QED
    BY <2>1, <2>2, <2>3, <2>4, <2>5
<1>4. ASSUME NEW id \in DOMAIN trash', NEW s \in DOMAIN trash'[id].nodes,
             AtomsOf(trash'[id].nodes[s]) \cap Secrets # {}
      PROVE  Unreadable(trash'[id].orig \o s)
  BY <1>1, <1>4, SecretParts DEF Discards
<1>5. wl.fresh <= fresh'
  BY <1>1, SecretParts
<1>6. QED
  BY <1>1, <1>3, <1>4, <1>5, SecretReqs

LEMMA SecretPrepares ==
  ASSUME IInv, SecretInv, NEW r \in Reqs, Prepares(r)
  PROVE  SecretInv'
<1>1. /\ wl' = wl /\ trash' = trash /\ fresh' = fresh
      /\ req[r].pc \in {"work", "staged"} /\ req'[r].q = req[r].q
      /\ req'[r].atoms = {} \/ req'[r].atoms = req[r].atoms
      /\ \A p \in Paths : AtomsOf(tree'[p]) = AtomsOf(tree[p])
      /\ \A s \in Reqs : s # r => req'[s] = req[s]
  BY DEF Prepares
<1>2. wl.floor \subseteq req[r].pol.rules
  BY <1>1, AdmittedFloor DEF Admitted
<1>3. ASSUME req'[r].pc \in {"staged", "vetted"}, NEW s \in DOMAIN req'[r].stage, NEW a \in AtomsOf(req'[r].stage[s])
      PROVE  a \notin Secrets
  <2>1. \/ req[r].pc = "staged" /\ req'[r].stage = req[r].stage
        \/ req[r].q.op \in {"save", "upload"} /\ a = req[r].q.atom
        \/ Readable(req[r].pol, a)
    BY <1>3 DEF Prepares
  <2>2. CASE Readable(req[r].pol, a)
    BY <1>2, <2>2, ReadableIsPublic
  <2>3. CASE req[r].pc = "staged" /\ req'[r].stage = req[r].stage
    BY <1>3, <2>3, SecretParts
  <2>4. CASE req[r].q.op \in {"save", "upload"} /\ a = req[r].q.atom
    BY <1>1, <2>4, SecretParts
  <2>5. QED
    BY <2>1, <2>2, <2>3, <2>4
<1>4. req'[r].pc \in {"staged", "vetted"} =>
        \A s \in DOMAIN req'[r].stage : AtomsOf(req'[r].stage[s]) \cap Secrets = {}
  BY <1>3
<1>5. QED
  BY <1>1, <1>4, SecretReqs, SecretParts

LEMMA SecretOwner ==
  ASSUME IInv, SecretInv, OwnerStep
  PROVE  SecretInv'
<1>1. wl' = wl /\ trash' = trash /\ req' = req /\ fresh' = fresh + 1
  BY DEF OwnerStep
<1>2. ASSUME NEW p \in Paths, AtomsOf(tree'[p]) \cap Secrets # {} PROVE Unreadable(p)
  <2>1. PICK a \in AtomsOf(tree'[p]) : a \in Secrets
    BY <1>2
  <2>2. a >= 0 /\ a \in Nat
    BY <2>1, SecretsOld
  <2>3. tree'[p] = tree[p]
    BY <2>1, <2>2, OwnerWrote
  <2>4. QED
    BY <1>2, <2>3, SecretParts
<1>3. PICK sec, floor : sec = Secrets /\ floor = Floor
  OBVIOUS
<1>4. Secrets' = sec /\ Floor' = floor
  BY <1>1, <1>3 DEF Secrets, Unreadable, Floor
<1>5. UnreadableStaysUnread'
  <2>1. \A p \in Paths : AtomsOf(tree'[p]) \cap sec # {} => ~Permits(floor, p, "read")
    BY <1>2, <1>3 DEF Unreadable
  <2>2. /\ \A r \in Reqs : req'[r].atoms \cap sec = {}
        /\ \A id \in DOMAIN trash' : \A s \in DOMAIN trash'[id].nodes :
             AtomsOf(trash'[id].nodes[s]) \cap sec # {} => ~Permits(floor, trash'[id].orig \o s, "read")
    BY <1>1, <1>3, SecretParts DEF Unreadable
  <2>3. QED
    BY <1>4, <2>1, <2>2 DEF UnreadableStaysUnread, Unreadable
<1>6. wl'.fresh <= fresh'
  BY <1>1, SecretParts
<1>7. QED
  BY <1>1, <1>3, <1>4, <1>5, <1>6 DEF SecretInv

LEMMA SecretStep ==
  ASSUME IInv, SecretInv, Step
  PROVE  SecretInv'
<1>1. CASE ConfigStep
  BY <1>1, SecretKept DEF ConfigStep
<1>2. QED
  BY <1>1, SecretOpens, SecretSupervised, SecretReadOnly, SecretAlters, SecretPrepares, SecretOwner DEF Step

\* What some rules forbid the user to read, for as long as a run lasts, is
\* in no answer, and no sequence of moves, copies, archives, extractions, deletions,
\* restores and saves, interleaved with any changes of the configuration, brings
\* it to a path or into a trash entry from where it could be read (helper/access.rs,
\* preflight; helper/archive.rs; the third decision under the lock in helper/ipc.rs).
THEOREM UnreadableIsNeverRead == Spec => []UnreadableStaysUnread
<1>1. SecretInv /\ [IInv /\ IInv' /\ Step]_vars => SecretInv'
  <2>1. CASE UNCHANGED vars
    BY <2>1, SecretKept DEF vars
  <2>2. QED
    BY <2>1, SecretStep
<1>2. Spec => Init
  BY DEF Spec
<1>3. Spec => []SecretInv
  BY <1>1, <1>2, SecretInit, Steps, PTL
<1>4. SecretInv => UnreadableStaysUnread
  BY DEF SecretInv
<1>5. QED
  BY <1>3, <1>4, PTL

-----------------------------------------------------------------------------
(* Paths that may not be discovered.                                          *)

\* The request names no such path, the exceptions aside.
Clear(q) ==
  ~ \/ Secluded(q.path) /\ q.op \notin {"listtrash", "quota"}
    \/ Secluded(q.target) /\ q.op # "mkdir"

HiddenReq(x) ==
  /\ \A p \in x.names : ~Secluded(p)
  /\ Admitted(x) => Clear(x.q)
  /\ x.pc = "done" => Clear(x.q) \/ AsIfMissing(x)

HiddenInv == \A r \in Reqs : HiddenReq(req[r])

LEMMA SeclusionHolds ==
  ASSUME NEW pol, wl.floor \subseteq pol.rules, NEW p
  PROVE  /\ \A a : Permits(pol, p, a) => ~Secluded(p)
         /\ Secluded(p) => \A a : Check(pol, p, a) = "notfound"
<1>2. Secluded(p) => HasName(p, Reserved) \/ Undiscoverable(wl.floor, p)
  BY DEF Secluded
<1>3. HasName(p, Reserved) \/ Undiscoverable(wl.floor, p) => HasName(p, pol.sys \cup Reserved) \/ Undiscoverable(pol.rules, p)
  BY DEF HasName, Undiscoverable
<1>4. Secluded(p) => \A a : Check(pol, p, a) = "notfound"
  BY <1>2, <1>3 DEF Check
<1>5. QED
  BY <1>4 DEF Permits

\* What is below a secluded path is secluded.
LEMMA SecludedBelow ==
  ASSUME IInv, NEW p \in Names, NEW x \in Names, Below(x, p), x # NoPath, Secluded(p)
  PROVE  Secluded(x)
<1>2. HasName(p, Reserved) \/ Undiscoverable(wl.floor, p)
  BY DEF Secluded
<1>3. HasName(p, Reserved) => HasName(x, Reserved)
  <2>1. p \in Seq(STRING) /\ x \in Seq(STRING) /\ Len(p) < Len(x) /\ p = SubSeq(x, 1, Len(p))
    BY DEF Names, Below
  <2>2. \A i \in DOMAIN p : i \in DOMAIN x /\ x[i] = p[i]
    BY <2>1
  <2>3. QED
    BY <2>2 DEF HasName
<1>4. Undiscoverable(wl.floor, p) => Undiscoverable(wl.floor, x)
  <2>1. ASSUME NEW rule \in wl.floor, AtOrBelow(p, rule.path) PROVE AtOrBelow(x, rule.path)
    <3>1. rule.path \in Names
      BY FilesConstants DEF IInv, ConfInv, IsWorkload, Rules, Names
    <3>2. QED
      BY <2>1, <3>1, NameFacts DEF AtOrBelow
  <2>2. QED
    BY <2>1 DEF Undiscoverable
<1>5. QED
  BY <1>2, <1>3, <1>4 DEF Secluded

\* A request the helper admits names no secluded path.
LEMMA AdmittedClear ==
  ASSUME IInv, NEW q, IsQuery(q), NEW pol, wl.floor \subseteq pol.rules, AccessAuthorize(q, pol) = "ok"
  PROVE  Clear(q)
<1>1. /\ q.op \in Ops /\ q.path \in Paths \cup {NoPath} /\ q.target \in Paths \cup {NoPath}
      /\ q.path = NoPath <=> q.op \in {"restore", "purge"}
      /\ q.target = NoPath <=> q.op \notin TwoPaths
      /\ q.op \in Creates => q.target # <<>> /\ Parent(q.target) = q.path
  BY DEF IsQuery, Queries
<1>2. /\ q.op \notin {"listtrash", "restore", "purge", "quota"} => ~Secluded(HelperPath(q))
      /\ HelperTarget(q) # NoPath => ~Secluded(HelperTarget(q))
      /\ q.op \in Archives => ~Secluded(q.path)
  BY AccessParts, SeclusionHolds
<1>3. ~Secluded(NoPath)
  BY DEF Secluded
<1>4. CASE q.op \in {"listtrash", "restore", "purge", "quota"}
  <2>1. q.target = NoPath /\ (q.op \in {"restore", "purge"} => q.path = NoPath)
    BY <1>1, <1>4 DEF TwoPaths, Creates, Carries, Archives
  <2>2. QED
    BY <1>3, <1>4, <2>1 DEF Clear
<1>5. CASE q.op = "upload"
  <2>1. HelperPath(q) = q.target /\ q.target \in Paths /\ q.target # NoPath /\ Parent(q.target) = q.path /\ q.target # <<>>
    BY <1>1, <1>5 DEF HelperPath, TwoPaths, Creates
  <2>2. ~Secluded(q.target)
    BY <1>2, <1>5, <2>1
  <2>3. q.path \in Names /\ q.target \in Names /\ Below(q.target, q.path)
    BY <2>1, PathFacts
  <2>4. ~Secluded(q.path)
    BY <2>1, <2>2, <2>3, SecludedBelow
  <2>5. QED
    BY <2>2, <2>4 DEF Clear
<1>6. CASE q.op \in Archives
  <2>1. HelperTarget(q) = q.target
    BY <1>6 DEF HelperTarget, Archives
  <2>2. QED
    BY <1>2, <1>3, <1>6, <2>1 DEF Clear
<1>7. CASE q.op \notin Archives \cup {"listtrash", "restore", "purge", "quota", "upload"}
  <2>1. HelperPath(q) = q.path
    BY <1>7 DEF HelperPath
  <2>2. q.op # "mkdir" => HelperTarget(q) = q.target
    BY <1>7 DEF HelperTarget
  <2>3. QED
    BY <1>2, <1>3, <1>7, <2>1, <2>2 DEF Clear
<1>8. QED
  BY <1>4, <1>5, <1>6, <1>7

\* The metadata of a secluded path are those of a missing one.
LEMMA StatSecluded ==
  ASSUME NEW q, Secluded(q.path), NEW pol, wl.floor \subseteq pol.rules
  PROVE  StatAnswer(q, pol) = "notfound"
<1>1. PICK sq : sq = Query("stat", q.path, NoPath)
  OBVIOUS
<1>2. sq.op = "stat" /\ sq.path = q.path /\ sq.target = NoPath
  BY <1>1 DEF Query
<1>3. HelperPath(sq) = q.path /\ OperationAccess(sq.op) = "discover"
  BY <1>2, AccessOf DEF HelperPath, Archives
<1>4. PICK a, b, c :
        /\ a = Check(pol, HelperPath(sq), OperationAccess(sq.op))
        /\ b = IF HelperTarget(sq) = NoPath THEN "ok" ELSE Check(pol, HelperTarget(sq), "write")
        /\ c = IF sq.op \in Archives THEN Check(pol, sq.path, "read") ELSE "ok"
  OBVIOUS
<1>5. a = "notfound"
  BY <1>3, <1>4, SeclusionHolds
<1>6. AccessAuthorize(sq, pol) = First(<<a, b, c>>)
  BY <1>2, <1>4 DEF AccessAuthorize
<1>7. AccessAuthorize(sq, pol) = "notfound"
  BY <1>5, <1>6, FirstOfThree
<1>8. PICK d, f : d = PolicyAuthorize(sq, pol) /\ f = Found(tree, q.path)
  OBVIOUS
<1>9. Authorize(sq, pol) = First(<<"notfound", d>>)
  BY <1>7, <1>8 DEF Authorize
<1>10. Authorize(sq, pol) = "notfound"
  BY <1>9, FirstOfTwo
<1>11. StatAnswer(q, pol) = First(<<"notfound", f>>)
  BY <1>1, <1>8, <1>10 DEF StatAnswer
<1>12. QED
  BY <1>11, FirstOfTwo

LEMMA HiddenReqs ==
  ASSUME HiddenInv, wl' = wl, NEW r \in Reqs, \A s \in Reqs : s # r => req'[s] = req[s], HiddenReq(req'[r])
  PROVE  HiddenInv'
<1>1. \A s \in Reqs : HiddenReq(req'[s])
  BY DEF HiddenInv
<1>2. QED
  BY <1>1 DEF HiddenInv, HiddenReq, Clear, Secluded, Admitted

LEMMA HiddenKept ==
  ASSUME HiddenInv, UNCHANGED <<wl, req>>
  PROVE  HiddenInv'
BY DEF HiddenInv, HiddenReq, Clear, Secluded, Admitted

LEMMA HiddenSupervised ==
  ASSUME IInv, HiddenInv, NEW r \in Reqs, Supervised(r)
  PROVE  HiddenInv'
<1> DEFINE q == req[r].q
<1>1. /\ wl' = wl /\ \A s \in Reqs : s # r => req'[s] = req[s]
      /\ req[r].pc \in {"stat", "sent", "queued", "work"} /\ req'[r].pc \in {"sent", "queued", "work", "done"}
      /\ req'[r].q = q /\ (req'[r].names = {} \/ req'[r].names = req[r].names)
  BY DEF Supervised
<1>2. ReqFine(req[r], lock = r, wl.floor) /\ HiddenReq(req[r])
  BY DEF IInv, ReqsInv, HiddenInv
<1>3. IsQuery(q) /\ (req[r].pc = "stat" => q.op \in {"read", "save"})
  BY <1>1, <1>2 DEF ReqFine
<1>4. Admitted(req'[r]) => Clear(q)
  <2> SUFFICES ASSUME req'[r].pc \in {"queued", "work"} PROVE Clear(q)
    BY <1>1 DEF Admitted
  <2>1. CASE req[r].pc = "queued"
    BY <1>2, <2>1 DEF HiddenReq, Admitted
  <2>2. CASE \E pol : wl.floor \subseteq pol.rules /\ AccessAuthorize(q, pol) = "ok"
    BY <1>3, <2>2, AdmittedClear
  <2>3. QED
    BY <2>1, <2>2 DEF Supervised
<1>5. req'[r].pc = "done" => Clear(q) \/ AsIfMissing(req'[r])
  <2>0. CASE req[r].pc \in {"queued", "work"}
    BY <1>2, <2>0 DEF HiddenReq, Admitted
  <2> SUFFICES ASSUME req'[r].pc = "done", ~AsIfMissing(req'[r]), req[r].pc \notin {"queued", "work"} PROVE Clear(q)
    BY <2>0
  <2>1. req[r].pc = "stat" /\ \E pol : wl.floor \subseteq pol.rules /\ StatAnswer(q, pol) # "notfound"
    BY DEF Supervised
  <2>2. ~Secluded(q.path)
    BY <2>1, StatSecluded
  <2>3. q.target = NoPath
    BY <1>3, <2>1 DEF IsQuery, TwoPaths, Creates, Carries, Archives
  <2>4. QED
    BY <2>2, <2>3 DEF Clear, Secluded
<1>6. HiddenReq(req'[r])
  BY <1>1, <1>2, <1>4, <1>5 DEF HiddenReq
<1>7. QED
  BY <1>1, <1>6, HiddenReqs

\* The other steps of a request: one that was admitted stays clear.
LEMMA HiddenAdmitted ==
  ASSUME IInv, HiddenInv, NEW r \in Reqs, ReadOnly(r) \/ Alters(r) \/ Prepares(r)
  PROVE  HiddenInv'
<1>1. /\ wl' = wl /\ \A s \in Reqs : s # r => req'[s] = req[s]
      /\ Admitted(req[r]) /\ req'[r].q = req[r].q
      /\ \/ \A p \in req'[r].names : Permits(req[r].pol, p, "discover")
         \/ req'[r].names = {}
         \/ req'[r].names = req[r].names
  BY DEF ReadOnly, Alters, Prepares, Admitted
<1>2. wl.floor \subseteq req[r].pol.rules /\ HiddenReq(req[r])
  BY <1>1, AdmittedFloor DEF HiddenInv
<1>3. ASSUME NEW p \in req'[r].names PROVE ~Secluded(p)
  <2>1. CASE Permits(req[r].pol, p, "discover")
    BY <1>2, <2>1, SeclusionHolds
  <2>2. QED
    BY <1>1, <1>2, <1>3, <2>1 DEF HiddenReq
<1>4. HiddenReq(req'[r])
  BY <1>1, <1>2, <1>3 DEF HiddenReq
<1>5. QED
  BY <1>1, <1>4, HiddenReqs

LEMMA HiddenStep ==
  ASSUME IInv, HiddenInv, Step
  PROVE  HiddenInv'
<1>1. ASSUME NEW r \in Reqs, NEW q, Opens(r, q) PROVE HiddenInv'
  <2>1. HiddenReq(req'[r])
    BY <1>1 DEF Opens, HiddenReq, Admitted
  <2>2. QED
    BY <1>1, <2>1, HiddenReqs DEF Opens
<1>2. CASE OwnerStep
  BY <1>2, HiddenKept DEF OwnerStep
<1>3. CASE ConfigStep
  BY <1>3, HiddenKept DEF ConfigStep
<1>4. QED
  BY <1>1, <1>2, <1>3, HiddenSupervised, HiddenAdmitted DEF Step

\* A path that some rules keep from the user, for as long as a run lasts, is named
\* by no answer, and a request that names one (not as the name of a new folder) is
\* answered NotFound, or by a denial it would get if nothing were hidden, by the
\* server or by the supervisor (policy/access.rs, ws/dispatch.rs, helper/ipc.rs,
\* helper/access.rs), whatever the configuration, other requests and the owner do
\* meanwhile.
THEOREM HiddenIsNeverShown == Spec => []HiddenStaysHidden
<1>1. Init => HiddenInv
  BY DEF Init, HiddenInv, HiddenReq, Idle, Admitted
<1>2. HiddenInv /\ [IInv /\ IInv' /\ Step]_vars => HiddenInv'
  <2>1. CASE UNCHANGED vars
    BY <2>1, HiddenKept DEF vars
  <2>2. QED
    BY <2>1, HiddenStep
<1>3. Spec => Init
  BY DEF Spec
<1>4. Spec => []HiddenInv
  BY <1>1, <1>2, <1>3, Steps, PTL
<1>5. HiddenInv => HiddenStaysHidden
  BY DEF HiddenInv, HiddenReq, HiddenStaysHidden, Clear
<1>6. QED
  BY <1>4, <1>5, PTL
=============================================================================
