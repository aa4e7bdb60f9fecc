---------------------------- MODULE SetSumsTheorems ----------------------------
(***************************************************************************)
(* What SumFunctionOnSet (of the community module Functions) computes: the *)
(* sum of f[x] over the elements x of a finite set S.  Its definition takes *)
(* the elements out one by one, in the order CHOOSE happens to give; these *)
(* lemmas say that the order does not matter.  Like the running totals of  *)
(* LedgerSumsTheorems they rest on minimal elements, not on an induction   *)
(* theorem with an operator parameter.                                     *)
(***************************************************************************)
EXTENDS Functions, FiniteSetTheorems, WellFoundedInduction, Integers, TLAPS

(* Every non-empty set of subsets of a finite set has a minimal one. *)
LEMMA MinimalSubset ==
  ASSUME NEW S, IsFiniteSet(S), NEW B \in SUBSET (SUBSET S), B # {}
  PROVE  \E r \in B : \A y \in B : y \subseteq r => y = r
<1>1. \A y \in B : IsFiniteSet(y)
  BY FS_Subset
<1>2. B \subseteq FiniteSubsetsOf(S)
  BY <1>1 DEF FiniteSubsetsOf
<1>3. PICK r \in B : \A y \in B : ~ (<<y, r>> \in StrictSubsetOrdering(S))
  BY <1>2, FS_StrictSubsetOrderingWellFounded, WFMin
<1>4. \A y \in B : y \subseteq r => y = r
  BY <1>3 DEF StrictSubsetOrdering
<1>. QED  BY <1>4

-------------------------------------------------------------------------------
(* The element the sum takes out first, and the table of partial sums.     *)
First(s) == CHOOSE x \in s : TRUE

IsTable(t, f, S) ==
  t = [s \in SUBSET S |-> IF s = {} THEN 0 ELSE f[First(s)] + t[s \ {First(s)}]]

LEMMA FirstIsElement ==
  ASSUME NEW s, s # {}
  PROVE  First(s) \in s
BY DEF First

(* The equations of a table, one subset at a time. *)
LEMMA TableEquations ==
  ASSUME NEW t, NEW f, NEW S, IsTable(t, f, S), NEW s \in SUBSET S
  PROVE  /\ s = {} => t[s] = 0
         /\ s # {} => t[s] = f[First(s)] + t[s \ {First(s)}]
BY Zenon DEF IsTable

(* Tables of functions that agree on a set give it the same sum. *)
LEMMA TableUnique ==
  ASSUME NEW S, NEW T, NEW f, NEW g, NEW t, NEW u, IsTable(t, f, S), IsTable(u, g, T),
         NEW q, q \subseteq S, q \subseteq T, IsFiniteSet(q),
         \A x \in q : f[x] = g[x]
  PROVE  t[q] = u[q]
<1>. DEFINE Off == {s \in SUBSET q : t[s] # u[s]}
<1>. SUFFICES ASSUME Off # {} PROVE FALSE
  OBVIOUS
<1>1. PICK r \in Off : \A y \in Off : y \subseteq r => y = r
  <2>1. Off \in SUBSET (SUBSET q)
    OBVIOUS
  <2>. HIDE DEF Off
  <2>. QED  BY <2>1, MinimalSubset
<1>2. r \in SUBSET S /\ r \in SUBSET T /\ r \subseteq q
  OBVIOUS
<1>3. r # {}
  BY <1>1, <1>2, TableEquations
<1>. DEFINE p == r \ {First(r)}
<1>4. First(r) \in r
  BY <1>3, FirstIsElement
<1>5. p \subseteq r /\ p # r
  BY <1>4
<1>6. t[p] = u[p]
  BY <1>1, <1>2, <1>5
<1>7. t[r] = f[First(r)] + t[p] /\ u[r] = g[First(r)] + u[p]
  BY <1>2, <1>3, TableEquations
<1>8. f[First(r)] = g[First(r)]
  BY <1>2, <1>4
<1>. QED  BY <1>1, <1>6, <1>7, <1>8

(* Every finite set has a table: a minimal one without would have proper   *)
(* subsets with tables, which one addition extends.                        *)
LEMMA TableExists ==
  ASSUME NEW S, IsFiniteSet(S), NEW f
  PROVE  \E t : IsTable(t, f, S)
<1>. DEFINE Bad == {s \in SUBSET S : ~ \E t : IsTable(t, f, s)}
<1>. SUFFICES ASSUME Bad # {} PROVE FALSE
  OBVIOUS
<1>1. PICK r \in Bad : \A y \in Bad : y \subseteq r => y = r
  <2>1. Bad \in SUBSET (SUBSET S)
    OBVIOUS
  <2>. HIDE DEF Bad
  <2>. QED  BY <2>1, MinimalSubset
<1>. DEFINE Of(s) == CHOOSE t : IsTable(t, f, s)
            T == [s \in SUBSET r |-> IF s = {} THEN 0
                                     ELSE f[First(s)] + Of(s \ {First(s)})[s \ {First(s)}]]
<1>2. ASSUME NEW s \in SUBSET r, s # r
      PROVE  IsTable(Of(s), f, s) /\ IsFiniteSet(s)
  <2>1. s \in SUBSET S /\ s \notin Bad
    BY <1>1, <1>2
  <2>2. \E t : IsTable(t, f, s)
    BY <2>1
  <2>. QED  BY <2>1, <2>2, FS_Subset
<1>3. ASSUME NEW s \in SUBSET r, s # r
      PROVE  Of(s)[s] = T[s]
  <2>. DEFINE p == s \ {First(s)}
  <2>1. IsTable(Of(s), f, s)
    BY <1>2, <1>3
  <2>2. CASE s = {}
    <3>1. Of(s)[s] = 0
      BY <2>1, <2>2, TableEquations
    <3>2. T[s] = 0
      BY <2>2
    <3>. QED  BY <3>1, <3>2
  <2>3. CASE s # {}
    <3>1. Of(s)[s] = f[First(s)] + Of(s)[p]
      <4>. HIDE DEF Of
      <4>. QED  BY <2>1, <2>3, TableEquations
    <3>2. First(s) \in s
      BY <2>3, FirstIsElement
    <3>3. p \in SUBSET r /\ p # r /\ p \subseteq s
      BY <3>2
    <3>4. IsTable(Of(p), f, p) /\ IsFiniteSet(p)
      BY <3>3, <1>2
    <3>5. Of(s)[p] = Of(p)[p]
      <4>. HIDE DEF Of, p
      <4>. QED  BY <2>1, <3>3, <3>4, TableUnique
    <3>6. T[s] = f[First(s)] + Of(p)[p]
      BY <2>3
    <3>. QED  BY <3>1, <3>5, <3>6
  <2>. QED  BY <2>2, <2>3
<1>4. ASSUME NEW s \in SUBSET r, s # {}
      PROVE  T[s] = f[First(s)] + T[s \ {First(s)}]
  <2>. DEFINE p == s \ {First(s)}
  <2>1. First(s) \in s
    BY <1>4, FirstIsElement
  <2>2. p \in SUBSET r /\ p # r
    BY <2>1
  <2>3. Of(p)[p] = T[p]
    BY <1>3, <2>2
  <2>4. T[s] = f[First(s)] + Of(p)[p]
    BY <1>4
  <2>. QED  BY <2>3, <2>4
<1>5. T[{}] = 0
  OBVIOUS
<1>6. T = [s \in SUBSET r |-> T[s]]
  OBVIOUS
<1>. HIDE DEF T
<1>7. IsTable(T, f, r)
  <2>1. \A s \in SUBSET r :
          T[s] = IF s = {} THEN 0 ELSE f[First(s)] + T[s \ {First(s)}]
    BY <1>4, <1>5
  <2>. QED  BY <1>6, <2>1, Zenon DEF IsTable
<1>. QED  BY <1>1, <1>7

-------------------------------------------------------------------------------
(* SumFunctionOnSet is the last entry of a table. *)
LEMMA SumIsTable ==
  ASSUME NEW S, IsFiniteSet(S), NEW f
  PROVE  \E t : IsTable(t, f, S) /\ SumFunctionOnSet(f, S) = t[S]
<1>. DEFINE it == CHOOSE t : t = [s \in SUBSET S |->
                    IF s = {} THEN 0
                    ELSE f[CHOOSE x \in s : TRUE] + t[s \ {CHOOSE x \in s : TRUE}]]
<1>1. SumFunctionOnSet(f, S) = it[S]
  BY DEF SumFunctionOnSet, FoldFunctionOnSet, MapThenFoldSet
<1>2. \E t : t = [s \in SUBSET S |->
                    IF s = {} THEN 0
                    ELSE f[CHOOSE x \in s : TRUE] + t[s \ {CHOOSE x \in s : TRUE}]]
  <2>1. PICK t : IsTable(t, f, S)
    BY TableExists
  <2>. QED  BY <2>1, Zenon DEF IsTable, First
<1>3. it = [s \in SUBSET S |->
              IF s = {} THEN 0
              ELSE f[CHOOSE x \in s : TRUE] + it[s \ {CHOOSE x \in s : TRUE}]]
  BY <1>2
<1>. HIDE DEF it
<1>. QED  BY <1>1, <1>3 DEF IsTable, First

(* Functions that agree on a finite set have the same sum over it. *)
LEMMA SumCongruence ==
  ASSUME NEW S, IsFiniteSet(S), NEW f, NEW g, \A x \in S : f[x] = g[x]
  PROVE  SumFunctionOnSet(f, S) = SumFunctionOnSet(g, S)
<1>1. PICK t : IsTable(t, f, S) /\ SumFunctionOnSet(f, S) = t[S]
  BY SumIsTable
<1>2. PICK u : IsTable(u, g, S) /\ SumFunctionOnSet(g, S) = u[S]
  BY SumIsTable
<1>. QED  BY <1>1, <1>2, TableUnique

(* The sum over the empty set. *)
LEMMA SumEmpty ==
  ASSUME NEW f
  PROVE  SumFunctionOnSet(f, {}) = 0
<1>1. IsFiniteSet({})
  BY FS_EmptySet
<1>2. PICK t : IsTable(t, f, {}) /\ SumFunctionOnSet(f, {}) = t[{}]
  BY <1>1, SumIsTable
<1>. QED  BY <1>2, TableEquations

(* The sum with its first element taken out. *)
LEMMA SumFirst ==
  ASSUME NEW S, IsFiniteSet(S), S # {}, NEW f
  PROVE  SumFunctionOnSet(f, S) = f[First(S)] + SumFunctionOnSet(f, S \ {First(S)})
<1>. DEFINE p == S \ {First(S)}
<1>1. IsFiniteSet(p)
  BY FS_RemoveElement
<1>2. PICK t : IsTable(t, f, S) /\ SumFunctionOnSet(f, S) = t[S]
  BY SumIsTable
<1>3. PICK u : IsTable(u, f, p) /\ SumFunctionOnSet(f, p) = u[p]
  BY <1>1, SumIsTable
<1>4. t[p] = u[p]
  <2>1. p \subseteq S
    OBVIOUS
  <2>. HIDE DEF p
  <2>. QED  BY <1>1, <1>2, <1>3, <2>1, TableUnique
<1>5. t[S] = f[First(S)] + t[p]
  BY <1>2, TableEquations
<1>. QED  BY <1>2, <1>3, <1>4, <1>5

(* A sum of integers is an integer. *)
LEMMA SumIsInt ==
  ASSUME NEW S, IsFiniteSet(S), NEW f, \A x \in S : f[x] \in Int
  PROVE  SumFunctionOnSet(f, S) \in Int
<1>. DEFINE Bad == {s \in SUBSET S : SumFunctionOnSet(f, s) \notin Int}
<1>. SUFFICES ASSUME Bad # {} PROVE FALSE
  OBVIOUS
<1>1. PICK r \in Bad : \A y \in Bad : y \subseteq r => y = r
  <2>1. Bad \in SUBSET (SUBSET S)
    OBVIOUS
  <2>. HIDE DEF Bad
  <2>. QED  BY <2>1, MinimalSubset
<1>2. SumFunctionOnSet(f, r) \notin Int /\ r \in SUBSET S /\ IsFiniteSet(r)
  BY <1>1, FS_Subset
<1>3. SumFunctionOnSet(f, {}) = 0
  BY SumEmpty
<1>4. r # {}
  BY <1>2, <1>3
<1>5. First(r) \in r
  BY <1>4, FirstIsElement
<1>6. SumFunctionOnSet(f, r \ {First(r)}) \in Int
  BY <1>1, <1>2, <1>5
<1>7. SumFunctionOnSet(f, r) = f[First(r)] + SumFunctionOnSet(f, r \ {First(r)})
  BY <1>2, <1>4, SumFirst
<1>8. f[First(r)] \in Int
  BY <1>2, <1>5
<1>. HIDE DEF Bad
<1>. QED  BY <1>2, <1>6, <1>7, <1>8

(* The sum with any of its elements taken out: the order does not matter.  *)
LEMMA SumRemove ==
  ASSUME NEW S, IsFiniteSet(S), NEW f, \A x \in S : f[x] \in Int, NEW e \in S
  PROVE  SumFunctionOnSet(f, S) = f[e] + SumFunctionOnSet(f, S \ {e})
<1>. DEFINE Bad == {s \in SUBSET S :
                     \E y \in s : SumFunctionOnSet(f, s) # f[y] + SumFunctionOnSet(f, s \ {y})}
<1>. SUFFICES ASSUME Bad # {} PROVE FALSE
  OBVIOUS
<1>1. PICK r \in Bad : \A y \in Bad : y \subseteq r => y = r
  <2>1. Bad \in SUBSET (SUBSET S)
    OBVIOUS
  <2>. HIDE DEF Bad
  <2>. QED  BY <2>1, MinimalSubset
<1>2. r \in SUBSET S /\ IsFiniteSet(r)
  BY FS_Subset
<1>3. PICK y \in r : SumFunctionOnSet(f, r) # f[y] + SumFunctionOnSet(f, r \ {y})
  OBVIOUS
<1>. DEFINE x == First(r)
<1>4. x \in r /\ SumFunctionOnSet(f, r) = f[x] + SumFunctionOnSet(f, r \ {x})
  BY <1>2, <1>3, FirstIsElement, SumFirst
<1>. HIDE DEF x
<1>5. x # y
  BY <1>3, <1>4
<1>6. \A s \in SUBSET r : s # r =>
        \A z \in s : SumFunctionOnSet(f, s) = f[z] + SumFunctionOnSet(f, s \ {z})
  BY <1>1, <1>2
<1>. HIDE DEF Bad
<1>7. SumFunctionOnSet(f, r \ {x}) = f[y] + SumFunctionOnSet(f, (r \ {x}) \ {y})
  BY <1>3, <1>4, <1>5, <1>6
<1>8. SumFunctionOnSet(f, r \ {y}) = f[x] + SumFunctionOnSet(f, (r \ {y}) \ {x})
  BY <1>3, <1>4, <1>5, <1>6
<1>9. (r \ {x}) \ {y} = (r \ {y}) \ {x}
  OBVIOUS
<1>. DEFINE v == SumFunctionOnSet(f, (r \ {y}) \ {x})
<1>10. f[x] \in Int /\ f[y] \in Int /\ v \in Int
  <2>1. IsFiniteSet((r \ {y}) \ {x})
    BY <1>2, FS_Subset
  <2>2. \A z \in (r \ {y}) \ {x} : f[z] \in Int
    BY <1>2
  <2>. QED  BY <1>2, <1>3, <1>4, <2>1, <2>2, SumIsInt
<1>11. /\ SumFunctionOnSet(f, r) = f[x] + SumFunctionOnSet(f, r \ {x})
       /\ SumFunctionOnSet(f, r \ {x}) = f[y] + v
       /\ SumFunctionOnSet(f, r \ {y}) = f[x] + v
       /\ SumFunctionOnSet(f, r) # f[y] + SumFunctionOnSet(f, r \ {y})
  BY <1>3, <1>4, <1>7, <1>8, <1>9
<1>. HIDE DEF v
<1>. QED  BY <1>10, <1>11

(* One element more, and one value changed. *)
LEMMA SumAdd ==
  ASSUME NEW S, IsFiniteSet(S), NEW e, e \notin S, NEW f, \A x \in S \union {e} : f[x] \in Int
  PROVE  SumFunctionOnSet(f, S \union {e}) = SumFunctionOnSet(f, S) + f[e]
<1>. DEFINE U == S \union {e}
<1>1. IsFiniteSet(U) /\ e \in U /\ U \ {e} = S
  BY FS_AddElement
<1>2. SumFunctionOnSet(f, U) = f[e] + SumFunctionOnSet(f, U \ {e})
  <2>. HIDE DEF U
  <2>1. \A x \in U : f[x] \in Int
    BY DEF U
  <2>. QED  BY <1>1, <2>1, SumRemove
<1>3. SumFunctionOnSet(f, S) \in Int /\ f[e] \in Int
  BY SumIsInt
<1>4. SumFunctionOnSet(f, U) = SumFunctionOnSet(f, S) + f[e]
  <2>1. SumFunctionOnSet(f, U) = f[e] + SumFunctionOnSet(f, S)
    BY <1>1, <1>2
  <2>. HIDE DEF U
  <2>. QED  BY <1>3, <2>1
<1>. QED  BY <1>4

LEMMA SumOfChange ==
  ASSUME NEW S, IsFiniteSet(S), NEW e \in S, NEW d \in Int,
         NEW f, NEW g, \A x \in S : f[x] \in Int,
         \A x \in S \ {e} : g[x] = f[x],
         g[e] = f[e] + d
  PROVE  SumFunctionOnSet(g, S) = SumFunctionOnSet(f, S) + d
<1>. DEFINE p == S \ {e}
<1>1. IsFiniteSet(p)
  BY FS_RemoveElement
<1>2. SumFunctionOnSet(f, S) = f[e] + SumFunctionOnSet(f, p)
  BY SumRemove
<1>3. \A x \in S : g[x] \in Int
  OBVIOUS
<1>4. SumFunctionOnSet(g, S) = g[e] + SumFunctionOnSet(g, p)
  BY <1>3, SumRemove
<1>5. SumFunctionOnSet(f, p) = SumFunctionOnSet(g, p)
  <2>1. \A x \in p : f[x] = g[x]
    OBVIOUS
  <2>. HIDE DEF p
  <2>. QED  BY <1>1, <2>1, SumCongruence
<1>6. SumFunctionOnSet(f, p) \in Int /\ f[e] \in Int
  <2>1. \A x \in p : f[x] \in Int
    OBVIOUS
  <2>. HIDE DEF p
  <2>. QED  BY <1>1, <2>1, SumIsInt
<1>. QED  BY <1>2, <1>4, <1>5, <1>6

(* A sum of zeros. *)
LEMMA SumOfZeros ==
  ASSUME NEW S, IsFiniteSet(S), NEW f, \A x \in S : f[x] = 0
  PROVE  SumFunctionOnSet(f, S) = 0
<1>. DEFINE Bad == {s \in SUBSET S : SumFunctionOnSet(f, s) # 0}
<1>. SUFFICES ASSUME Bad # {} PROVE FALSE
  OBVIOUS
<1>1. PICK r \in Bad : \A y \in Bad : y \subseteq r => y = r
  <2>1. Bad \in SUBSET (SUBSET S)
    OBVIOUS
  <2>. HIDE DEF Bad
  <2>. QED  BY <2>1, MinimalSubset
<1>2. SumFunctionOnSet(f, r) # 0 /\ r \in SUBSET S /\ IsFiniteSet(r)
  BY <1>1, FS_Subset
<1>3. r # {}
  BY <1>2, SumEmpty
<1>4. First(r) \in r
  BY <1>3, FirstIsElement
<1>5. SumFunctionOnSet(f, r \ {First(r)}) = 0
  BY <1>1, <1>2, <1>4
<1>6. SumFunctionOnSet(f, r) = f[First(r)] + SumFunctionOnSet(f, r \ {First(r)})
  BY <1>2, <1>3, SumFirst
<1>7. f[First(r)] = 0
  BY <1>2, <1>4
<1>. HIDE DEF Bad
<1>. QED  BY <1>2, <1>5, <1>6, <1>7

(* A sum of natural numbers is one. *)
LEMMA SumIsNat ==
  ASSUME NEW S, IsFiniteSet(S), NEW f, \A x \in S : f[x] \in Nat
  PROVE  SumFunctionOnSet(f, S) \in Nat
<1>. DEFINE Bad == {s \in SUBSET S : SumFunctionOnSet(f, s) \notin Nat}
<1>. SUFFICES ASSUME Bad # {} PROVE FALSE
  OBVIOUS
<1>1. PICK r \in Bad : \A y \in Bad : y \subseteq r => y = r
  <2>1. Bad \in SUBSET (SUBSET S)
    OBVIOUS
  <2>. HIDE DEF Bad
  <2>. QED  BY <2>1, MinimalSubset
<1>2. SumFunctionOnSet(f, r) \notin Nat /\ r \in SUBSET S /\ IsFiniteSet(r)
  BY <1>1, FS_Subset
<1>3. SumFunctionOnSet(f, {}) = 0
  BY SumEmpty
<1>4. r # {}
  BY <1>2, <1>3
<1>5. First(r) \in r
  BY <1>4, FirstIsElement
<1>6. SumFunctionOnSet(f, r \ {First(r)}) \in Nat
  BY <1>1, <1>2, <1>5
<1>7. SumFunctionOnSet(f, r) = f[First(r)] + SumFunctionOnSet(f, r \ {First(r)})
  BY <1>2, <1>4, SumFirst
<1>8. f[First(r)] \in Nat
  BY <1>2, <1>5
<1>. HIDE DEF Bad
<1>. QED  BY <1>2, <1>6, <1>7, <1>8

(* A sum and the sum of what is opposite cancel out. *)
LEMMA SumOfOpposites ==
  ASSUME NEW S, IsFiniteSet(S), NEW f, NEW g, \A x \in S : f[x] \in Int /\ g[x] = -f[x]
  PROVE  SumFunctionOnSet(f, S) + SumFunctionOnSet(g, S) = 0
<1>. DEFINE Bad == {s \in SUBSET S : SumFunctionOnSet(f, s) + SumFunctionOnSet(g, s) # 0}
<1>. SUFFICES ASSUME Bad # {} PROVE FALSE
  OBVIOUS
<1>1. PICK r \in Bad : \A y \in Bad : y \subseteq r => y = r
  <2>1. Bad \in SUBSET (SUBSET S)
    OBVIOUS
  <2>. HIDE DEF Bad
  <2>. QED  BY <2>1, MinimalSubset
<1>2. /\ SumFunctionOnSet(f, r) + SumFunctionOnSet(g, r) # 0
      /\ r \in SUBSET S /\ IsFiniteSet(r)
  BY <1>1, FS_Subset
<1>3. SumFunctionOnSet(f, {}) = 0 /\ SumFunctionOnSet(g, {}) = 0
  BY SumEmpty
<1>4. r # {}
  <2>1. SumFunctionOnSet(f, {}) + SumFunctionOnSet(g, {}) = 0
    BY <1>3
  <2>. HIDE DEF Bad
  <2>. QED  BY <1>2, <2>1
<1>. DEFINE e == First(r)
            p == r \ {e}
<1>5. e \in r /\ IsFiniteSet(p) /\ p \in SUBSET S
  BY <1>2, <1>4, FirstIsElement, FS_RemoveElement
<1>6. SumFunctionOnSet(f, p) + SumFunctionOnSet(g, p) = 0
  BY <1>1, <1>2, <1>5
<1>7. /\ SumFunctionOnSet(f, r) = f[e] + SumFunctionOnSet(f, p)
      /\ SumFunctionOnSet(g, r) = g[e] + SumFunctionOnSet(g, p)
  BY <1>2, <1>4, SumFirst
<1>8. f[e] \in Int /\ g[e] = -f[e]
  BY <1>2, <1>5
<1>9. SumFunctionOnSet(f, p) \in Int /\ SumFunctionOnSet(g, p) \in Int
  <2>1. \A x \in p : f[x] \in Int /\ g[x] \in Int
    BY <1>5
  <2>. HIDE DEF p
  <2>. QED  BY <1>5, <2>1, SumIsInt
<1>. HIDE DEF Bad, e, p
<1>. QED  BY <1>2, <1>6, <1>7, <1>8, <1>9

(* The sum over two sets with nothing in common. *)
LEMMA SumOfUnion ==
  ASSUME NEW S, IsFiniteSet(S), NEW T, IsFiniteSet(T), S \intersect T = {},
         NEW f, \A x \in S \union T : f[x] \in Int
  PROVE  SumFunctionOnSet(f, S \union T) = SumFunctionOnSet(f, S) + SumFunctionOnSet(f, T)
<1>. DEFINE Bad == {s \in SUBSET T : SumFunctionOnSet(f, S \union s)
                                       # SumFunctionOnSet(f, S) + SumFunctionOnSet(f, s)}
<1>. SUFFICES ASSUME Bad # {} PROVE FALSE
  OBVIOUS
<1>1. PICK r \in Bad : \A y \in Bad : y \subseteq r => y = r
  <2>1. Bad \in SUBSET (SUBSET T)
    OBVIOUS
  <2>. HIDE DEF Bad
  <2>. QED  BY <2>1, MinimalSubset
<1>2. /\ SumFunctionOnSet(f, S \union r) # SumFunctionOnSet(f, S) + SumFunctionOnSet(f, r)
      /\ r \in SUBSET T /\ IsFiniteSet(r)
  BY <1>1, FS_Subset
<1>3. SumFunctionOnSet(f, S) \in Int
  BY SumIsInt
<1>4. ASSUME r = {} PROVE FALSE
  <2>1. S \union r = S /\ SumFunctionOnSet(f, r) = 0
    BY <1>4, SumEmpty
  <2>2. SumFunctionOnSet(f, S \union r) = SumFunctionOnSet(f, S)
    BY <2>1
  <2>. HIDE DEF Bad
  <2>. QED  BY <1>2, <1>3, <2>1, <2>2
<1>5. PICK e \in r : TRUE
  BY <1>4
<1>. DEFINE p == r \ {e}
<1>6. SumFunctionOnSet(f, S \union p) = SumFunctionOnSet(f, S) + SumFunctionOnSet(f, p)
  BY <1>1, <1>2, <1>5
<1>. HIDE DEF Bad
<1>7. IsFiniteSet(p) /\ IsFiniteSet(S \union p)
  <2>1. IsFiniteSet(p)
    BY <1>2, FS_Subset
  <2>. QED  BY <2>1, FS_Union
<1>8. p \union {e} = r /\ e \notin p /\ e \notin S /\ p \in SUBSET T /\ e \in T
  BY <1>2, <1>5
<1>. HIDE DEF p
<1>9. f[e] \in Int /\ SumFunctionOnSet(f, p) \in Int
  BY <1>7, <1>8, SumIsInt
<1>10. SumFunctionOnSet(f, r) = SumFunctionOnSet(f, p) + f[e]
  <2>1. \A x \in p \union {e} : f[x] \in Int
    BY <1>8
  <2>2. SumFunctionOnSet(f, p \union {e}) = SumFunctionOnSet(f, p) + f[e]
    BY <1>7, <1>8, <2>1, SumAdd
  <2>. QED  BY <1>8, <2>2
<1>11. SumFunctionOnSet(f, S \union r) = SumFunctionOnSet(f, S \union p) + f[e]
  <2>. DEFINE U == S \union p
  <2>1. (\A x \in U \union {e} : f[x] \in Int) /\ e \notin U /\ U \union {e} = S \union r
    BY <1>8
  <2>2. IsFiniteSet(U)
    BY <1>7
  <2>3. SumFunctionOnSet(f, U \union {e}) = SumFunctionOnSet(f, U) + f[e]
    <3>. HIDE DEF U
    <3>. QED  BY <2>1, <2>2, SumAdd
  <2>. QED  BY <2>1, <2>3
<1>. QED  BY <1>2, <1>3, <1>6, <1>9, <1>10, <1>11

(* One of finitely many numbers is the largest. *)
LEMMA LargestExists ==
  ASSUME NEW S, IsFiniteSet(S), S # {}, NEW f, \A x \in S : f[x] \in Nat
  PROVE  \E m \in S : \A y \in S : f[m] >= f[y]
<1>. DEFINE Above(x) == {y \in S : f[y] > f[x]}
            Uppers == {Above(x) : x \in S}
<1>1. Uppers \in SUBSET (SUBSET S) /\ Uppers # {}
  OBVIOUS
<1>2. PICK b \in Uppers : \A y \in Uppers : y \subseteq b => y = b
  <2>. HIDE DEF Uppers, Above
  <2>. QED  BY <1>1, MinimalSubset
<1>3. PICK m \in S : b = Above(m)
  OBVIOUS
<1>4. ASSUME NEW y \in S, ~ (f[m] >= f[y]) PROVE FALSE
  <2>1. f[m] \in Nat /\ f[y] \in Nat /\ f[y] > f[m]
    BY <1>4
  <2>2. Above(y) \in Uppers
    OBVIOUS
  <2>3. \A x \in S : f[x] > f[y] => f[x] > f[m]
    BY <2>1
  <2>4. Above(y) \subseteq Above(m)
    BY <2>3
  <2>5. y \in Above(m) /\ y \notin Above(y)
    BY <2>1
  <2>. HIDE DEF Uppers, Above
  <2>. QED  BY <1>2, <1>3, <2>2, <2>4, <2>5
<1>. QED  BY <1>4

(* What a function takes a finite set to is finite. *)
LEMMA FiniteRange ==
  ASSUME NEW S, IsFiniteSet(S), NEW h
  PROVE  IsFiniteSet({h[x] : x \in S})
<1>. DEFINE T == {h[x] : x \in S}
            k == [x \in S |-> h[x]]
<1>1. k \in Surjection(S, T)
  BY DEF Surjection
<1>. QED  BY <1>1, FS_Surjection

(* The sum over the image of a one-to-one function. *)
LEMMA SumOfImage ==
  ASSUME NEW S, IsFiniteSet(S), NEW h, \A x, y \in S : h[x] = h[y] => x = y,
         NEW f, NEW g, \A x \in S : f[x] \in Int /\ g[h[x]] = f[x]
  PROVE  SumFunctionOnSet(g, {h[x] : x \in S}) = SumFunctionOnSet(f, S)
<1>. DEFINE Of(s) == {h[x] : x \in s}
            Bad == {s \in SUBSET S : SumFunctionOnSet(g, Of(s)) # SumFunctionOnSet(f, s)}
<1>. SUFFICES ASSUME Bad # {} PROVE FALSE
  OBVIOUS
<1>1. PICK r \in Bad : \A y \in Bad : y \subseteq r => y = r
  <2>1. Bad \in SUBSET (SUBSET S)
    OBVIOUS
  <2>. HIDE DEF Bad
  <2>. QED  BY <2>1, MinimalSubset
<1>2. SumFunctionOnSet(g, Of(r)) # SumFunctionOnSet(f, r) /\ r \in SUBSET S /\ IsFiniteSet(r)
  BY <1>1, FS_Subset
<1>3. ASSUME r = {} PROVE FALSE
  <2>1. Of(r) = {}
    BY <1>3
  <2>2. SumFunctionOnSet(g, {}) = 0 /\ SumFunctionOnSet(f, {}) = 0
    BY SumEmpty
  <2>. HIDE DEF Bad, Of
  <2>. QED  BY <1>2, <1>3, <2>1, <2>2
<1>4. PICK e \in r : TRUE
  BY <1>3
<1>. DEFINE p == r \ {e}
<1>5. SumFunctionOnSet(g, Of(p)) = SumFunctionOnSet(f, p)
  BY <1>1, <1>2, <1>4
<1>. HIDE DEF Bad
<1>6. Of(r) = Of(p) \union {h[e]} /\ h[e] \notin Of(p)
  BY <1>2, <1>4
<1>7. \A x \in Of(p) \union {h[e]} : g[x] \in Int
  BY <1>2, <1>4
<1>8. IsFiniteSet(p)
  BY <1>2, FS_Subset
<1>9. IsFiniteSet(Of(p))
  BY <1>8, FiniteRange
<1>10. p \union {e} = r /\ e \notin p /\ \A x \in p \union {e} : f[x] \in Int
  BY <1>2, <1>4
<1>11. g[h[e]] = f[e]
  BY <1>2, <1>4
<1>. HIDE DEF p, Of
<1>12. SumFunctionOnSet(g, Of(p) \union {h[e]}) = SumFunctionOnSet(g, Of(p)) + g[h[e]]
  <2>. DEFINE T == Of(p)
              y == h[e]
  <2>1. IsFiniteSet(T) /\ y \notin T /\ \A x \in T \union {y} : g[x] \in Int
    BY <1>6, <1>7, <1>9
  <2>. HIDE DEF T, y
  <2>2. SumFunctionOnSet(g, T \union {y}) = SumFunctionOnSet(g, T) + g[y]
    BY <2>1, SumAdd
  <2>. QED  BY <2>2 DEF T, y
<1>13. SumFunctionOnSet(f, p \union {e}) = SumFunctionOnSet(f, p) + f[e]
  BY <1>8, <1>10, SumAdd
<1>. QED  BY <1>2, <1>5, <1>6, <1>10, <1>11, <1>12, <1>13
===============================================================================
