---------------------------- MODULE AccessProofs ----------------------------
(***************************************************************************)
(* The policy a helper works with is the intersection of what the server   *)
(* sent and of the trusted ceiling (Restrict).  Whatever either of them    *)
(* says, the intersection permits nothing that one of the two refuses: for *)
(* a path, for a request, for a feature, for a tree.                       *)
(***************************************************************************)
EXTENDS Access, WellFoundedInduction, TLAPS

-----------------------------------------------------------------------------
(* The answer to a list of answers is the first that is not "ok".           *)

LEMMA LessThanWellFounded ==
  IsWellFoundedOn({p \in Nat \X Nat : p[1] < p[2]}, Nat)
BY NatLessThanWellFounded, Zenon DEF OpToRel

LEMMA Least ==
  ASSUME NEW S \in SUBSET Nat, S # {}
  PROVE  \E x \in S : \A y \in S : x <= y
<1> DEFINE less == {p \in Nat \X Nat : p[1] < p[2]}
<1>1. PICK x \in S : \A y \in S : ~(<<y, x>> \in less)
  <2>1. IsWellFoundedOn(less, Nat)
    BY LessThanWellFounded
  <2> HIDE DEF less
  <2>2. QED
    BY <2>1, WFMin
<1>2. ASSUME NEW y \in S PROVE x <= y
  <2>1. <<y, x>> \in Nat \X Nat /\ <<y, x>>[1] = y /\ <<y, x>>[2] = x
    OBVIOUS
  <2>2. ~(y < x)
    BY <1>1, <2>1, Zenon
  <2>3. QED
    BY <2>2
<1>3. QED
  BY <1>2

LEMMA FirstIs ==
  ASSUME NEW n \in Nat, NEW s, DOMAIN s = 1..n
  PROVE  /\ (\A i \in 1..n : s[i] = "ok") => First(s) = "ok"
         /\ (\E i \in 1..n : s[i] # "ok") =>
              \E i \in 1..n : First(s) = s[i] /\ s[i] # "ok" /\ \A j \in 1..(i - 1) : s[j] = "ok"
<1> DEFINE IsFirst(i) == s[i] # "ok" /\ \A j \in 1..(i - 1) : s[j] = "ok"
           bad == {i \in 1..n : s[i] # "ok"}
<1>1. ASSUME \A i \in 1..n : s[i] = "ok" PROVE First(s) = "ok"
  BY <1>1 DEF First
<1>2. ASSUME \E i \in 1..n : s[i] # "ok" PROVE \E i \in 1..n : First(s) = s[i] /\ IsFirst(i)
  <2>1. bad \in SUBSET Nat /\ bad # {}
    BY <1>2
  <2>2. PICK i \in bad : \A j \in bad : i <= j
    BY <2>1, Least
  <2>3. i \in 1..n /\ IsFirst(i)
    BY <2>2
  <2> HIDE DEF IsFirst
  <2>4. (CHOOSE k \in 1..n : IsFirst(k)) \in 1..n /\ IsFirst(CHOOSE k \in 1..n : IsFirst(k))
    BY <2>3
  <2>5. First(s) = s[CHOOSE k \in 1..n : IsFirst(k)]
    BY <1>2 DEF First, IsFirst
  <2>6. QED
    BY <2>4, <2>5
<1>3. QED
  BY <1>1, <1>2

LEMMA FirstOfTwo ==
  ASSUME NEW a, NEW b
  PROVE  /\ First(<<a, b>>) = "ok" <=> a = "ok" /\ b = "ok"
         /\ First(<<a, b>>) \in {a, b}
         /\ a # "ok" => First(<<a, b>>) = a
<1> DEFINE s == <<a, b>>
<1>1. 2 \in Nat /\ DOMAIN s = 1..2 /\ s[1] = a /\ s[2] = b
  OBVIOUS
<1> HIDE DEF s
<1>2. /\ (\A i \in 1..2 : s[i] = "ok") => First(s) = "ok"
      /\ (\E i \in 1..2 : s[i] # "ok") =>
            \E i \in 1..2 : First(s) = s[i] /\ s[i] # "ok" /\ \A j \in 1..(i - 1) : s[j] = "ok"
  BY <1>1, FirstIs
<1>3. /\ First(s) = "ok" <=> a = "ok" /\ b = "ok"
      /\ First(s) \in {a, b}
      /\ a # "ok" => First(s) = a
  BY <1>1, <1>2
<1>4. QED
  BY <1>3 DEF s

LEMMA FirstOfThree ==
  ASSUME NEW a, NEW b, NEW c
  PROVE  /\ First(<<a, b, c>>) = "ok" <=> a = "ok" /\ b = "ok" /\ c = "ok"
         /\ First(<<a, b, c>>) \in {a, b, c}
         /\ a # "ok" => First(<<a, b, c>>) = a
<1> DEFINE s == <<a, b, c>>
<1>1. 3 \in Nat /\ DOMAIN s = 1..3 /\ s[1] = a /\ s[2] = b /\ s[3] = c
  OBVIOUS
<1> HIDE DEF s
<1>2. /\ (\A i \in 1..3 : s[i] = "ok") => First(s) = "ok"
      /\ (\E i \in 1..3 : s[i] # "ok") =>
            \E i \in 1..3 : First(s) = s[i] /\ s[i] # "ok" /\ \A j \in 1..(i - 1) : s[j] = "ok"
  BY <1>1, FirstIs
<1>3. /\ First(s) = "ok" <=> a = "ok" /\ b = "ok" /\ c = "ok"
      /\ First(s) \in {a, b, c}
      /\ a # "ok" => First(s) = a
  BY <1>1, <1>2
<1>4. QED
  BY <1>3 DEF s

LEMMA FirstOfFour ==
  ASSUME NEW a, NEW b, NEW c, NEW d
  PROVE  /\ First(<<a, b, c, d>>) = "ok" <=> a = "ok" /\ b = "ok" /\ c = "ok" /\ d = "ok"
         /\ First(<<a, b, c, d>>) \in {a, b, c, d}
         /\ a # "ok" => First(<<a, b, c, d>>) = a
<1> DEFINE s == <<a, b, c, d>>
<1>1. 4 \in Nat /\ DOMAIN s = 1..4 /\ s[1] = a /\ s[2] = b /\ s[3] = c /\ s[4] = d
  OBVIOUS
<1> HIDE DEF s
<1>2. /\ (\A i \in 1..4 : s[i] = "ok") => First(s) = "ok"
      /\ (\E i \in 1..4 : s[i] # "ok") =>
            \E i \in 1..4 : First(s) = s[i] /\ s[i] # "ok" /\ \A j \in 1..(i - 1) : s[j] = "ok"
  BY <1>1, FirstIs
<1>3. /\ First(s) = "ok" <=> a = "ok" /\ b = "ok" /\ c = "ok" /\ d = "ok"
      /\ First(s) \in {a, b, c, d}
      /\ a # "ok" => First(s) = a
  BY <1>1, <1>2
<1>4. QED
  BY <1>3 DEF s

-----------------------------------------------------------------------------
(* One path.                                                                *)

LEMMA CheckBoth ==
  ASSUME NEW snap, NEW ceil, NEW p, NEW a
  PROVE  Permits(Restrict(snap, ceil), p, a) <=> Permits(snap, p, a) /\ Permits(ceil, p, a)
<1> DEFINE both == Restrict(snap, ceil)
<1>1. both.rules = snap.rules \cup ceil.rules /\ both.sys = snap.sys \cup ceil.sys
  BY DEF Restrict
<1>2. HasName(p, both.sys \cup Reserved)
        <=> HasName(p, snap.sys \cup Reserved) \/ HasName(p, ceil.sys \cup Reserved)
  BY <1>1 DEF HasName
<1>3. Undiscoverable(both.rules, p) <=> Undiscoverable(snap.rules, p) \/ Undiscoverable(ceil.rules, p)
  BY <1>1 DEF Undiscoverable
<1>4. Denied(both.rules, p, a) <=> Denied(snap.rules, p, a) \/ Denied(ceil.rules, p, a)
  BY <1>1 DEF Denied
<1> HIDE DEF both
<1>5. ASSUME NEW pol
      PROVE  Permits(pol, p, a) <=> ~ (HasName(p, pol.sys \cup Reserved) \/ Undiscoverable(pol.rules, p)
                                       \/ Denied(pol.rules, p, a))
  BY DEF Permits, Check
<1>6. Permits(both, p, a) <=> Permits(snap, p, a) /\ Permits(ceil, p, a)
  BY <1>2, <1>3, <1>4, <1>5
<1> QED BY <1>6 DEF both

\* The rules the helper applies to a path are exactly those of the server's
\* snapshot and of the ceiling together (helper/policy.rs, restrict): what one
\* of them hides or denies stays hidden or denied, and nothing else does.
THEOREM RestrictMeets ==
  ASSUME NEW snap, NEW ceil, NEW p, NEW a
  PROVE  Permits(Restrict(snap, ceil), p, a) <=> Permits(snap, p, a) /\ Permits(ceil, p, a)
BY CheckBoth

-----------------------------------------------------------------------------
(* One request.                                                             *)

LEMMA AccessBoth ==
  ASSUME NEW snap, NEW ceil, NEW q, AccessAuthorize(q, Restrict(snap, ceil)) = "ok"
  PROVE  AccessAuthorize(q, snap) = "ok" /\ AccessAuthorize(q, ceil) = "ok"
<1> DEFINE A(pol) == IF q.op \in {"listtrash", "restore", "purge", "quota"} THEN "ok"
                     ELSE Check(pol, HelperPath(q), OperationAccess(q.op))
           B(pol) == IF HelperTarget(q) = NoPath THEN "ok" ELSE Check(pol, HelperTarget(q), "write")
           C(pol) == IF q.op \in Archives THEN Check(pol, q.path, "read") ELSE "ok"
           both == Restrict(snap, ceil)
<1>1. ASSUME NEW pol PROVE AccessAuthorize(q, pol) = First(<<A(pol), B(pol), C(pol)>>)
  BY DEF AccessAuthorize
<1>2. A(both) = "ok" => A(snap) = "ok" /\ A(ceil) = "ok"
  BY CheckBoth DEF Permits
<1>3. B(both) = "ok" => B(snap) = "ok" /\ B(ceil) = "ok"
  BY CheckBoth DEF Permits
<1>4. C(both) = "ok" => C(snap) = "ok" /\ C(ceil) = "ok"
  BY CheckBoth DEF Permits
<1> HIDE DEF A, B, C
<1>5. A(both) = "ok" /\ B(both) = "ok" /\ C(both) = "ok"
  <2>1. First(<<A(both), B(both), C(both)>>) = "ok"
    BY <1>1
  <2> QED BY <2>1, FirstOfThree
<1>6. ASSUME NEW pol, A(pol) = "ok", B(pol) = "ok", C(pol) = "ok" PROVE AccessAuthorize(q, pol) = "ok"
  <2>1. First(<<A(pol), B(pol), C(pol)>>) = "ok"
    BY <1>6, FirstOfThree
  <2> QED BY <1>1, <2>1
<1> QED BY <1>2, <1>3, <1>4, <1>5, <1>6

LEMMA PolicyBoth ==
  ASSUME NEW S, NEW snap \in Policies(S), NEW ceil \in Policies(S), NEW q,
         PolicyAuthorize(q, Restrict(snap, ceil)) = "ok"
  PROVE  PolicyAuthorize(q, snap) = "ok" /\ PolicyAuthorize(q, ceil) = "ok"
<1> DEFINE both == Restrict(snap, ceil)
           Tighter(a, b) ==
             /\ (b.ro => a.ro) /\ (a.up => b.up) /\ (a.hid => b.hid)
             /\ (b.web => a.web) /\ (b.block => a.block)
             /\ b.sens \subseteq a.sens /\ b.exe \subseteq a.exe
<1>1. Tighter(both, snap) /\ Tighter(both, ceil)
  BY DEF Restrict, Policies
<1>2. ASSUME NEW a, NEW b, Tighter(a, b), PolicyAuthorize(q, a) = "ok" PROVE PolicyAuthorize(q, b) = "ok"
  <2>1. ASSUME NEW p PROVE (Sensitive(b, p) => Sensitive(a, p)) /\ (Blocked(b, p) => Blocked(a, p))
    BY <1>2 DEF Sensitive, Blocked
  <2> QED BY <1>2, <2>1 DEF PolicyAuthorize, DeniedIf
<1> QED BY <1>1, <1>2

\* A request the helper's supervisor admits with the restricted policy is one
\* that the snapshot alone and the ceiling alone would admit too (ipc.rs restricts
\* before it authorizes): a server that sends a wide snapshot gains nothing.
THEOREM AuthorizeNeverWidens ==
  ASSUME NEW S, NEW snap \in Policies(S), NEW ceil \in Policies(S), NEW q,
         Authorize(q, Restrict(snap, ceil)) = "ok"
  PROVE  Authorize(q, snap) = "ok" /\ Authorize(q, ceil) = "ok"
<1> DEFINE both == Restrict(snap, ceil)
<1>1. AccessAuthorize(q, both) = "ok" /\ PolicyAuthorize(q, both) = "ok"
  BY FirstOfTwo DEF Authorize
<1>2. AccessAuthorize(q, snap) = "ok" /\ AccessAuthorize(q, ceil) = "ok"
  BY <1>1, AccessBoth
<1>3. PolicyAuthorize(q, snap) = "ok" /\ PolicyAuthorize(q, ceil) = "ok"
  BY <1>1, PolicyBoth
<1> QED BY <1>2, <1>3, FirstOfTwo DEF Authorize

\* The features of the worker: on when both have them on.
THEOREM FeatureNeverWidens ==
  ASSUME NEW snap, NEW ceil, NEW q, FeatureOn(q, Restrict(snap, ceil)) = "ok"
  PROVE  FeatureOn(q, snap) = "ok" /\ FeatureOn(q, ceil) = "ok"
BY DEF FeatureOn, DeniedIf, Restrict

-----------------------------------------------------------------------------
(* A tree.                                                                  *)

LEMMA NodeOk ==
  ASSUME NEW pol, NEW path, NEW action, NEW target, NEW s
  PROVE  PreflightNode(pol, path, action, target, s) = "ok"
           <=> /\ Permits(pol, path \o s, action)
               /\ target = NoPath \/ (Permits(pol, path \o s, "read") /\ Permits(pol, target \o s, "write"))
               /\ Permits(pol, path \o s, "discover")
BY FirstOfFour DEF PreflightNode, Permits

\* The preflight of a tree that is moved, trashed or deleted (helper/access.rs,
\* preflight) admits it under the restricted policy only if every descendant
\* passes under the snapshot and under the ceiling: one file below that one of
\* the two protects keeps the whole tree where it is.
THEOREM PreflightNeverWidens ==
  ASSUME NEW snap, NEW ceil, NEW path, NEW action, NEW target, NEW suffixes,
         \A s \in suffixes : PreflightNode(Restrict(snap, ceil), path, action, target, s) = "ok"
  PROVE  /\ PreflightTree(snap, path, action, target, suffixes) = "ok"
         /\ PreflightTree(ceil, path, action, target, suffixes) = "ok"
<1>1. ASSUME NEW s \in suffixes
      PROVE  /\ PreflightNode(snap, path, action, target, s) = "ok"
             /\ PreflightNode(ceil, path, action, target, s) = "ok"
  BY NodeOk, CheckBoth
<1> QED BY <1>1 DEF PreflightTree
=============================================================================
