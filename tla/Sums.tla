-------------------------------- MODULE Sums --------------------------------
(***************************************************************************)
(* Facts about sums over finite sets, for the budgets of the other modules.*)
(* SumFunctionOnSet folds a set in an order of its own; the proofs go by   *)
(* a smallest set for which a claim would fail.                            *)
(***************************************************************************)
EXTENDS Integers, Functions, FiniteSetTheorems, WellFoundedInduction, TLAPS

\* The element that the fold takes first, and the table that it fills.
First(s) == CHOOSE x \in s : TRUE
IsTable(it, f, S) ==
  it = [s \in SUBSET S |-> IF s = {} THEN 0 ELSE f[First(s)] + it[s \ {First(s)}]]

\* The sum is the last entry of that table.
LEMMA SumIsTable ==
  ASSUME NEW f, NEW S
  PROVE  SumFunctionOnSet(f, S) = (CHOOSE it : IsTable(it, f, S))[S]
  BY DEF SumFunctionOnSet, FoldFunctionOnSet, MapThenFoldSet, IsTable, First

\* Among finite sets that fail a claim there is a smallest one.
LEMMA SmallestSet ==
  ASSUME NEW S, IsFiniteSet(S), NEW Bad, Bad \subseteq SUBSET S, Bad # {}
  PROVE  \E x \in Bad : \A y \in SUBSET x : y # x => y \notin Bad
<1>1. Bad \subseteq FiniteSubsetsOf(S)
  BY FS_Subset DEF FiniteSubsetsOf
<1>2. IsWellFoundedOn(StrictSubsetOrdering(S), FiniteSubsetsOf(S))
  BY FS_StrictSubsetOrderingWellFounded
<1>3. PICK x \in Bad : \A y \in Bad : ~(<<y, x>> \in StrictSubsetOrdering(S))
  BY <1>1, <1>2, WFMin
<1>4. ASSUME NEW y \in SUBSET x, y # x, y \in Bad PROVE FALSE
  <2>1. <<y, x>> \in StrictSubsetOrdering(S)
    BY <1>4 DEF StrictSubsetOrdering
  <2>2. QED
    BY <1>3, <1>4, <2>1
<1>5. QED
  BY <1>4

\* What a table says of its sets.
LEMMA TableEntry ==
  ASSUME NEW it, NEW f, NEW S, IsTable(it, f, S), NEW s \in SUBSET S
  PROVE  /\ s = {} => it[s] = 0
         /\ s # {} => First(s) \in s /\ s \ {First(s)} \in SUBSET S
                      /\ it[s] = f[First(s)] + it[s \ {First(s)}]
<1>1. it[s] = IF s = {} THEN 0 ELSE f[First(s)] + it[s \ {First(s)}]
  BY DEF IsTable
<1>2. s # {} => First(s) \in s
  BY DEF First
<1>3. QED
  BY <1>1, <1>2

\* Two tables agree where both have entries, whatever is outside.
LEMMA TablesAgree ==
  ASSUME NEW i, NEW j, NEW f, NEW g, NEW A, NEW B, IsTable(i, f, A), IsTable(j, g, B),
         B \subseteq A, IsFiniteSet(B), \A x \in B : f[x] = g[x]
  PROVE  \A s \in SUBSET B : i[s] = j[s]
<1> DEFINE Bad == {s \in SUBSET B : i[s] # j[s]}
<1> SUFFICES ASSUME Bad # {} PROVE FALSE
  OBVIOUS
<1>1. PICK x \in Bad : \A y \in SUBSET x : y # x => y \notin Bad
  <2>1. Bad \subseteq SUBSET B
    OBVIOUS
  <2> HIDE DEF Bad
  <2>2. QED
    BY <2>1, SmallestSet
<1>2. x \in SUBSET B /\ x \in SUBSET A /\ i[x] # j[x] /\ \A y \in SUBSET x : y # x => i[y] = j[y]
  BY <1>1
<1> HIDE DEF Bad
<1>3. x # {}
  BY <1>2, TableEntry
<1>4. PICK c : c = First(x)
  OBVIOUS
<1>5. c \in x /\ i[x] = f[c] + i[x \ {c}] /\ j[x] = g[c] + j[x \ {c}]
  <2>1. c \in x /\ i[x] = f[c] + i[x \ {c}]
    BY <1>2, <1>3, <1>4, TableEntry
  <2>2. j[x] = g[c] + j[x \ {c}]
    BY <1>2, <1>3, <1>4, TableEntry
  <2>3. QED
    BY <2>1, <2>2
<1>6. i[x \ {c}] = j[x \ {c}]
  BY <1>2, <1>5
<1>7. f[c] = g[c]
  BY <1>2, <1>5
<1>8. QED
  BY <1>2, <1>5, <1>6, <1>7

\* The table exists: the entries of the smaller sets come from their own sums.
LEMMA TableExists ==
  ASSUME NEW f, NEW S, IsFiniteSet(S)
  PROVE  \E it : IsTable(it, f, S)
<1> DEFINE Has(T) == \E it : IsTable(it, f, T)
           Bad == {T \in SUBSET S : ~Has(T)}
<1> SUFFICES ASSUME Bad # {} PROVE FALSE
  OBVIOUS
<1>1. PICK T \in Bad : \A y \in SUBSET T : y # T => y \notin Bad
  <2>1. Bad \subseteq SUBSET S
    OBVIOUS
  <2> HIDE DEF Bad
  <2>2. QED
    BY <2>1, SmallestSet
<1>2. T \in SUBSET S /\ ~Has(T) /\ \A y \in SUBSET T : y # T => Has(y)
  BY <1>1
<1> DEFINE V(s) == SumFunctionOnSet(f, s)
           E(s) == IF s = {} THEN 0 ELSE f[First(s)] + V(s \ {First(s)})
           it == [s \in SUBSET T |-> E(s)]
<1> HIDE DEF V
<1>3. ASSUME NEW s \in SUBSET T, s # T PROVE V(s) = E(s)
  <2>1. PICK i : i = CHOOSE j : IsTable(j, f, s)
    OBVIOUS
  <2>2. IsTable(i, f, s) /\ V(s) = i[s]
    BY <1>2, <1>3, <2>1, SumIsTable DEF V
  <2>3. CASE s = {}
    BY <2>2, <2>3, TableEntry
  <2>4. CASE s # {}
    <3>1. PICK c : c = First(s)
      OBVIOUS
    <3>2. c \in s /\ i[s] = f[c] + i[s \ {c}]
      BY <2>2, <2>4, <3>1, TableEntry
    <3>3. PICK r : r = s \ {c}
      OBVIOUS
    <3>4. r \in SUBSET T /\ r # T /\ r \subseteq s /\ IsFiniteSet(r)
      BY <1>2, <3>2, <3>3, FS_Subset
    <3>5. PICK k : k = CHOOSE j : IsTable(j, f, r)
      OBVIOUS
    <3>6. IsTable(k, f, r) /\ V(r) = k[r]
      BY <1>2, <3>4, <3>5, SumIsTable DEF V
    <3>7. i[r] = k[r]
      BY <2>2, <3>4, <3>6, TablesAgree
    <3>8. QED
      BY <2>2, <2>4, <3>1, <3>2, <3>3, <3>6, <3>7
  <2>5. QED
    BY <2>3, <2>4
<1>4. IsTable(it, f, T)
  <2>1. ASSUME NEW s \in SUBSET T, s # {} PROVE it[s \ {First(s)}] = V(s \ {First(s)})
    <3>1. First(s) \in s
      BY <2>1 DEF First
    <3>2. s \ {First(s)} \in SUBSET T /\ s \ {First(s)} # T
      BY <3>1
    <3>3. QED
      BY <1>3, <3>2
  <2>2. \A s \in SUBSET T : E(s) = IF s = {} THEN 0 ELSE f[First(s)] + it[s \ {First(s)}]
    BY <2>1
  <2>3. it = [s \in SUBSET T |-> E(s)]
    OBVIOUS
  <2> HIDE DEF it, E
  <2>4. QED
    BY <2>2, <2>3 DEF IsTable
<1>5. QED
  BY <1>2, <1>4

\* The empty sum, and the first element of another.
LEMMA SumUnfold ==
  ASSUME NEW f, NEW S, IsFiniteSet(S)
  PROVE  /\ S = {} => SumFunctionOnSet(f, S) = 0
         /\ S # {} => First(S) \in S
                      /\ SumFunctionOnSet(f, S) = f[First(S)] + SumFunctionOnSet(f, S \ {First(S)})
<1>1. PICK i : i = CHOOSE j : IsTable(j, f, S)
  OBVIOUS
<1>2. IsTable(i, f, S) /\ SumFunctionOnSet(f, S) = i[S]
  BY <1>1, SumIsTable, TableExists
<1>3. CASE S = {}
  BY <1>2, <1>3, TableEntry
<1>4. CASE S # {}
  <2>1. PICK c : c = First(S)
    OBVIOUS
  <2>2. c \in S /\ i[S] = f[c] + i[S \ {c}]
    BY <1>2, <1>4, <2>1, TableEntry
  <2>3. PICK r : r = S \ {c}
    OBVIOUS
  <2>4. r \subseteq S /\ IsFiniteSet(r)
    BY <2>3, FS_Subset
  <2>5. PICK k : k = CHOOSE j : IsTable(j, f, r)
    OBVIOUS
  <2>6. IsTable(k, f, r) /\ SumFunctionOnSet(f, r) = k[r]
    BY <2>4, <2>5, SumIsTable, TableExists
  <2>7. i[r] = k[r]
    BY <1>2, <2>4, <2>6, TablesAgree
  <2>8. QED
    BY <1>2, <1>4, <2>1, <2>2, <2>3, <2>6, <2>7
<1>5. QED
  BY <1>3, <1>4

-----------------------------------------------------------------------------
(* Sums of naturals. *)

\* A sum of naturals is one.
LEMMA SumType ==
  ASSUME NEW f, NEW S, IsFiniteSet(S), \A x \in S : f[x] \in Nat
  PROVE  SumFunctionOnSet(f, S) \in Nat
<1> DEFINE Bad == {s \in SUBSET S : SumFunctionOnSet(f, s) \notin Nat}
<1> SUFFICES ASSUME Bad # {} PROVE FALSE
  OBVIOUS
<1>1. PICK T \in Bad : \A y \in SUBSET T : y # T => y \notin Bad
  <2>1. Bad \subseteq SUBSET S
    OBVIOUS
  <2> HIDE DEF Bad
  <2>2. QED
    BY <2>1, SmallestSet
<1>2. /\ T \in SUBSET S /\ SumFunctionOnSet(f, T) \notin Nat
      /\ \A y \in SUBSET T : y # T => SumFunctionOnSet(f, y) \in Nat
  BY <1>1
<1> HIDE DEF Bad
<1>3. IsFiniteSet(T)
  BY <1>2, FS_Subset
<1>4. T # {}
  <2>1. T = {} => SumFunctionOnSet(f, T) = 0
    BY <1>3, SumUnfold
  <2>2. QED
    BY <1>2, <2>1
<1>5. PICK c : c \in T /\ SumFunctionOnSet(f, T) = f[c] + SumFunctionOnSet(f, T \ {c})
  BY <1>3, <1>4, SumUnfold
<1>6. SumFunctionOnSet(f, T \ {c}) \in Nat /\ f[c] \in Nat
  BY <1>2, <1>5
<1>7. QED
  BY <1>2, <1>5, <1>6

\* A sum of zeros.
LEMMA SumZero ==
  ASSUME NEW f, NEW S, IsFiniteSet(S), \A x \in S : f[x] = 0
  PROVE  SumFunctionOnSet(f, S) = 0
<1> DEFINE Bad == {s \in SUBSET S : SumFunctionOnSet(f, s) # 0}
<1> SUFFICES ASSUME Bad # {} PROVE FALSE
  OBVIOUS
<1>1. PICK T \in Bad : \A y \in SUBSET T : y # T => y \notin Bad
  <2>1. Bad \subseteq SUBSET S
    OBVIOUS
  <2> HIDE DEF Bad
  <2>2. QED
    BY <2>1, SmallestSet
<1>2. /\ T \in SUBSET S /\ SumFunctionOnSet(f, T) # 0
      /\ \A y \in SUBSET T : y # T => SumFunctionOnSet(f, y) = 0
  BY <1>1
<1> HIDE DEF Bad
<1>3. IsFiniteSet(T)
  BY <1>2, FS_Subset
<1>4. T # {}
  BY <1>2, <1>3, SumUnfold
<1>5. PICK c : c \in T /\ SumFunctionOnSet(f, T) = f[c] + SumFunctionOnSet(f, T \ {c})
  BY <1>3, <1>4, SumUnfold
<1>6. SumFunctionOnSet(f, T \ {c}) = 0 /\ f[c] = 0
  BY <1>2, <1>5
<1>7. QED
  BY <1>2, <1>5, <1>6

\* The order does not matter: any element can be taken first.
LEMMA SumRemove ==
  ASSUME NEW f, NEW S, IsFiniteSet(S), \A y \in S : f[y] \in Nat, NEW x \in S
  PROVE  SumFunctionOnSet(f, S) = f[x] + SumFunctionOnSet(f, S \ {x})
<1> DEFINE Bad == {s \in SUBSET S : \E y \in s :
                     SumFunctionOnSet(f, s) # f[y] + SumFunctionOnSet(f, s \ {y})}
<1> SUFFICES ASSUME Bad # {} PROVE FALSE
  OBVIOUS
<1>1. PICK T \in Bad : \A y \in SUBSET T : y # T => y \notin Bad
  <2>1. Bad \subseteq SUBSET S
    OBVIOUS
  <2> HIDE DEF Bad
  <2>2. QED
    BY <2>1, SmallestSet
<1>2. /\ T \in SUBSET S
      /\ \A s \in SUBSET T : s # T => \A y \in s :
           SumFunctionOnSet(f, s) = f[y] + SumFunctionOnSet(f, s \ {y})
  BY <1>1
<1>3. PICK y \in T : SumFunctionOnSet(f, T) # f[y] + SumFunctionOnSet(f, T \ {y})
  BY <1>1
<1> HIDE DEF Bad
<1>4. IsFiniteSet(T)
  BY <1>2, FS_Subset
<1>5. PICK c : c \in T /\ SumFunctionOnSet(f, T) = f[c] + SumFunctionOnSet(f, T \ {c})
  BY <1>3, <1>4, SumUnfold
<1>6. c # y
  BY <1>3, <1>5
<1>7. SumFunctionOnSet(f, T \ {c}) = f[y] + SumFunctionOnSet(f, (T \ {c}) \ {y})
  <2>1. T \ {c} \in SUBSET T /\ T \ {c} # T /\ y \in T \ {c}
    BY <1>5, <1>6
  <2>2. QED
    BY <1>2, <2>1
<1>8. SumFunctionOnSet(f, T \ {y}) = f[c] + SumFunctionOnSet(f, (T \ {y}) \ {c})
  <2>1. T \ {y} \in SUBSET T /\ T \ {y} # T /\ c \in T \ {y}
    BY <1>5, <1>6
  <2>2. QED
    BY <1>2, <2>1
<1>9. (T \ {c}) \ {y} = (T \ {y}) \ {c}
  OBVIOUS
<1>10. f[c] \in Nat /\ f[y] \in Nat /\ SumFunctionOnSet(f, (T \ {y}) \ {c}) \in Nat
  <2>1. IsFiniteSet((T \ {y}) \ {c})
    BY <1>4, FS_Subset
  <2>2. QED
    BY <1>2, <1>5, <2>1, SumType
<1>11. PICK n \in Nat : n = SumFunctionOnSet(f, (T \ {y}) \ {c})
  BY <1>10
<1>12. f[c] + (f[y] + n) = f[y] + (f[c] + n)
  BY <1>10
<1>13. QED
  BY <1>3, <1>5, <1>7, <1>8, <1>9, <1>11, <1>12

\* One more summand.
LEMMA SumAdd ==
  ASSUME NEW f, NEW S, IsFiniteSet(S), NEW x, x \notin S, \A y \in S \cup {x} : f[y] \in Nat
  PROVE  SumFunctionOnSet(f, S \cup {x}) = f[x] + SumFunctionOnSet(f, S)
<1>1. IsFiniteSet(S \cup {x}) /\ x \in S \cup {x} /\ (S \cup {x}) \ {x} = S
  BY FS_AddElement
<1>2. SumFunctionOnSet(f, S \cup {x}) = f[x] + SumFunctionOnSet(f, (S \cup {x}) \ {x})
  BY <1>1, SumRemove
<1>3. QED
  BY <1>1, <1>2

\* Functions that agree on the set have the same sum.
LEMMA SumSame ==
  ASSUME NEW f, NEW g, NEW S, IsFiniteSet(S), \A x \in S : f[x] = g[x]
  PROVE  SumFunctionOnSet(f, S) = SumFunctionOnSet(g, S)
<1>1. PICK i : i = CHOOSE it : IsTable(it, f, S)
  OBVIOUS
<1>2. PICK j : j = CHOOSE it : IsTable(it, g, S)
  OBVIOUS
<1>3. IsTable(i, f, S) /\ SumFunctionOnSet(f, S) = i[S]
  BY <1>1, SumIsTable, TableExists
<1>4. IsTable(j, g, S) /\ SumFunctionOnSet(g, S) = j[S]
  BY <1>2, SumIsTable, TableExists
<1>5. i[S] = j[S]
  BY <1>3, <1>4, TablesAgree
<1>6. QED
  BY <1>3, <1>4, <1>5

\* Smaller summands, smaller sum.
LEMMA SumLeq ==
  ASSUME NEW f, NEW g, NEW S, IsFiniteSet(S),
         \A x \in S : f[x] \in Nat /\ g[x] \in Nat /\ f[x] <= g[x]
  PROVE  SumFunctionOnSet(f, S) <= SumFunctionOnSet(g, S)
<1> DEFINE Bad == {s \in SUBSET S : ~(SumFunctionOnSet(f, s) <= SumFunctionOnSet(g, s))}
<1> SUFFICES ASSUME Bad # {} PROVE FALSE
  OBVIOUS
<1>1. PICK T \in Bad : \A y \in SUBSET T : y # T => y \notin Bad
  <2>1. Bad \subseteq SUBSET S
    OBVIOUS
  <2> HIDE DEF Bad
  <2>2. QED
    BY <2>1, SmallestSet
<1>2. /\ T \in SUBSET S /\ ~(SumFunctionOnSet(f, T) <= SumFunctionOnSet(g, T))
      /\ \A y \in SUBSET T : y # T => SumFunctionOnSet(f, y) <= SumFunctionOnSet(g, y)
  BY <1>1
<1> HIDE DEF Bad
<1>3. IsFiniteSet(T)
  BY <1>2, FS_Subset
<1>4. T # {}
  <2>1. T = {} => SumFunctionOnSet(f, T) = 0
    BY <1>3, SumUnfold
  <2>2. T = {} => SumFunctionOnSet(g, T) = 0
    BY <1>3, SumUnfold
  <2>3. QED
    BY <1>2, <2>1, <2>2
<1>5. PICK c : c \in T
  BY <1>4
<1>6. /\ SumFunctionOnSet(f, T) = f[c] + SumFunctionOnSet(f, T \ {c})
      /\ SumFunctionOnSet(g, T) = g[c] + SumFunctionOnSet(g, T \ {c})
  <2>1. SumFunctionOnSet(f, T) = f[c] + SumFunctionOnSet(f, T \ {c})
    BY <1>2, <1>3, <1>5, SumRemove
  <2>2. SumFunctionOnSet(g, T) = g[c] + SumFunctionOnSet(g, T \ {c})
    BY <1>2, <1>3, <1>5, SumRemove
  <2>3. QED
    BY <2>1, <2>2
<1>7. SumFunctionOnSet(f, T \ {c}) \in Nat /\ SumFunctionOnSet(g, T \ {c}) \in Nat
  <2>1. IsFiniteSet(T \ {c})
    BY <1>3, FS_Subset
  <2>2. SumFunctionOnSet(f, T \ {c}) \in Nat
    BY <1>2, <2>1, SumType
  <2>3. SumFunctionOnSet(g, T \ {c}) \in Nat
    BY <1>2, <2>1, SumType
  <2>4. QED
    BY <2>2, <2>3
<1>8. SumFunctionOnSet(f, T \ {c}) <= SumFunctionOnSet(g, T \ {c})
  <2>1. T \ {c} \in SUBSET T /\ T \ {c} # T
    BY <1>5
  <2>2. QED
    BY <1>2, <2>1
<1>9. f[c] \in Nat /\ g[c] \in Nat /\ f[c] <= g[c]
  BY <1>2, <1>5
<1>10. QED
  BY <1>2, <1>6, <1>7, <1>8, <1>9

\* A set apart from another one.
LEMMA SumUnion ==
  ASSUME NEW f, NEW S, NEW T, IsFiniteSet(S), IsFiniteSet(T), S \cap T = {},
         \A x \in S \cup T : f[x] \in Nat
  PROVE  SumFunctionOnSet(f, S \cup T) = SumFunctionOnSet(f, S) + SumFunctionOnSet(f, T)
<1> DEFINE Bad == {s \in SUBSET T :
                     SumFunctionOnSet(f, S \cup s) # SumFunctionOnSet(f, S) + SumFunctionOnSet(f, s)}
<1> SUFFICES ASSUME Bad # {} PROVE FALSE
  OBVIOUS
<1>1. PICK s \in Bad : \A y \in SUBSET s : y # s => y \notin Bad
  <2>1. Bad \subseteq SUBSET T
    OBVIOUS
  <2> HIDE DEF Bad
  <2>2. QED
    BY <2>1, SmallestSet
<1>2. /\ s \in SUBSET T
      /\ SumFunctionOnSet(f, S \cup s) # SumFunctionOnSet(f, S) + SumFunctionOnSet(f, s)
      /\ \A y \in SUBSET s : y # s =>
           SumFunctionOnSet(f, S \cup y) = SumFunctionOnSet(f, S) + SumFunctionOnSet(f, y)
  BY <1>1
<1> HIDE DEF Bad
<1>3. IsFiniteSet(s) /\ IsFiniteSet(S \cup s) /\ SumFunctionOnSet(f, S) \in Nat
  BY <1>2, FS_Subset, FS_Union, SumType
<1>4. s # {}
  <2>1. CASE s = {}
    <3>1. S \cup s = S
      BY <2>1
    <3>2. SumFunctionOnSet(f, s) = 0
      BY <1>3, <2>1, SumUnfold
    <3>3. SumFunctionOnSet(f, S \cup s) = SumFunctionOnSet(f, S)
      BY <3>1
    <3>4. PICK n \in Nat : n = SumFunctionOnSet(f, S)
      BY <1>3
    <3>5. n = n + 0
      OBVIOUS
    <3>6. QED
      BY <1>2, <3>2, <3>3, <3>4, <3>5
  <2>2. QED
    BY <2>1
<1>5. PICK c : c \in s
  BY <1>4
<1>6. SumFunctionOnSet(f, s) = f[c] + SumFunctionOnSet(f, s \ {c})
  BY <1>2, <1>3, <1>5, SumRemove
<1>7. SumFunctionOnSet(f, S \cup s) = f[c] + SumFunctionOnSet(f, S \cup (s \ {c}))
  <2>1. (S \cup s) \ {c} = S \cup (s \ {c}) /\ c \in S \cup s /\ \A x \in S \cup s : f[x] \in Nat
    BY <1>2, <1>5
  <2>2. SumFunctionOnSet(f, S \cup s) = f[c] + SumFunctionOnSet(f, (S \cup s) \ {c})
    BY <1>3, <2>1, SumRemove
  <2>3. QED
    BY <2>1, <2>2
<1>8. SumFunctionOnSet(f, S \cup (s \ {c})) = SumFunctionOnSet(f, S) + SumFunctionOnSet(f, s \ {c})
  <2>1. s \ {c} \in SUBSET s /\ s \ {c} # s
    BY <1>5
  <2>2. QED
    BY <1>2, <2>1
<1>9. SumFunctionOnSet(f, s \ {c}) \in Nat /\ f[c] \in Nat
  <2>1. IsFiniteSet(s \ {c})
    BY <1>3, FS_Subset
  <2>2. QED
    BY <1>2, <1>5, <2>1, SumType
<1>10. QED
  BY <1>2, <1>3, <1>6, <1>7, <1>8, <1>9

\* A part sums up to no more than the whole, and the rest is the difference.
LEMMA SumPart ==
  ASSUME NEW f, NEW S, NEW T, IsFiniteSet(S), T \subseteq S, \A x \in S : f[x] \in Nat
  PROVE  /\ SumFunctionOnSet(f, T) \in Nat /\ SumFunctionOnSet(f, S \ T) \in Nat
         /\ SumFunctionOnSet(f, S) = SumFunctionOnSet(f, T) + SumFunctionOnSet(f, S \ T)
<1>1. IsFiniteSet(T) /\ IsFiniteSet(S \ T)
  BY FS_Subset
<1>2. T \cap (S \ T) = {} /\ T \cup (S \ T) = S
  OBVIOUS
<1>3. SumFunctionOnSet(f, T \cup (S \ T)) = SumFunctionOnSet(f, T) + SumFunctionOnSet(f, S \ T)
  BY <1>1, <1>2, SumUnion
<1>4. SumFunctionOnSet(f, T) \in Nat
  BY <1>1, SumType
<1>5. SumFunctionOnSet(f, S \ T) \in Nat
  BY <1>1, SumType
<1>6. QED
  BY <1>2, <1>3, <1>4, <1>5
=============================================================================
