-------------------------- MODULE LedgerSumsTheorems --------------------------
(***************************************************************************)
(* What Total computes, for every number of holders.  The library's        *)
(* induction theorems take an operator as a parameter, which the provers   *)
(* cannot instantiate; LeastNatural gets the induction from well-founded   *)
(* minimal elements (WFMin), whose parameters are sets.                    *)
(***************************************************************************)
EXTENDS LedgerSums, TLAPS, WellFoundedInduction

(* Every non-empty set of naturals has a least element. *)
LEMMA LeastNatural ==
  ASSUME NEW T, T \subseteq Nat, T # {}
  PROVE  \E x \in T : \A y \in T : x <= y
<1>1. IsWellFoundedOn(OpToRel(<, Nat), Nat)
  BY NatLessThanWellFounded
<1>2. PICK x \in T : \A y \in T : ~ (<<y, x>> \in OpToRel(<, Nat))
  BY <1>1, WFMin
<1>3. \A y \in T : ~ (y < x)
  BY <1>2 DEF OpToRel
<1>. QED  BY <1>3

(* s holds the running totals of f up to the m-th holder. *)
IsRunning(s, f, m) ==
  /\ s \in [0..m -> Int]
  /\ s[0] = 0
  /\ \A i \in 1..m : s[i] = s[i-1] + f[i]

(* Running totals exist: a least m without them would have a predecessor   *)
(* with them, which one addition extends.                                  *)
LEMMA RunningExists ==
  ASSUME NEW f \in [Holders -> Int]
  PROVE  \E s : IsRunning(s, f, NumHolders)
<1>. DEFINE Bad == {m \in 0..NumHolders : ~ \E s : IsRunning(s, f, m)}
<1>. SUFFICES ASSUME NumHolders \in Bad PROVE FALSE
  BY NumHoldersAssumption
<1>0. Bad \subseteq Nat /\ Bad # {}
  BY NumHoldersAssumption
<1>. HIDE DEF Bad
<1>1. PICK m \in Bad : \A y \in Bad : m <= y
  BY <1>0, LeastNatural
<1>. USE DEF Bad
<1>2. m # 0
  <2>. SUFFICES ASSUME m = 0 PROVE FALSE
    OBVIOUS
  <2>1. IsRunning([i \in 0..0 |-> 0], f, 0)
    BY DEF IsRunning
  <2>. QED  BY <2>1, <1>1
<1>3. m \in Holders
  BY <1>1, <1>2, NumHoldersAssumption DEF Holders
<1>4. m-1 \in 0..NumHolders /\ m-1 \notin Bad
  BY <1>1, <1>3, NumHoldersAssumption DEF Holders
<1>5. PICK s : IsRunning(s, f, m-1)
  BY <1>4
<1>. DEFINE t == [i \in 0..m |-> IF i = m THEN s[m-1] + f[m] ELSE s[i]]
<1>6. IsRunning(t, f, m)
  BY <1>3, <1>5, NumHoldersAssumption, SMTT(30) DEF IsRunning, Holders
<1>. QED  BY <1>6, <1>1

(* Two functions with the recurrence of f are equal up to the last holder. *)
LEMMA RunningUnique ==
  ASSUME NEW f \in [Holders -> Int], NEW s, NEW t,
         IsRunning(s, f, NumHolders),
         t[0] = 0, \A i \in Holders : t[i] = t[i-1] + f[i]
  PROVE  \A n \in 0..NumHolders : t[n] = s[n]
<1>. DEFINE Off == {m \in 0..NumHolders : t[m] # s[m]}
<1>. SUFFICES ASSUME Off # {} PROVE FALSE
  OBVIOUS
<1>0. Off \subseteq Nat
  BY NumHoldersAssumption
<1>. HIDE DEF Off
<1>1. PICK m \in Off : \A y \in Off : m <= y
  BY <1>0, LeastNatural
<1>. USE DEF Off
<1>2. CASE m = 0
  BY <1>1, <1>2 DEF IsRunning
<1>3. CASE m # 0
  <2>1. m \in Holders /\ m-1 \in 0..NumHolders /\ m-1 \notin Off
    BY <1>1, <1>3, NumHoldersAssumption DEF Holders
  <2>. QED  BY <2>1, <1>1 DEF IsRunning, Holders
<1>. QED  BY <1>2, <1>3

(* The recursive function RunningTotal(f) satisfies its own equations. *)
LEMMA RunningTotalIsRunning ==
  ASSUME NEW f \in [Holders -> Int]
  PROVE  IsRunning(RunningTotal(f), f, NumHolders)
<1>. DEFINE R == RunningTotal(f)
<1>1. R = CHOOSE s : s = [n \in 0..NumHolders |-> IF n = 0 THEN 0 ELSE s[n-1] + f[n]]
  BY DEF RunningTotal
<1>2. PICK s : IsRunning(s, f, NumHolders)
  BY RunningExists
<1>3. s = [n \in 0..NumHolders |-> IF n = 0 THEN 0 ELSE s[n-1] + f[n]]
  BY <1>2, NumHoldersAssumption DEF IsRunning
<1>4. R = [n \in 0..NumHolders |-> IF n = 0 THEN 0 ELSE R[n-1] + f[n]]
  BY <1>1, <1>3
<1>. DEFINE g == [n \in 0..NumHolders |-> R[n]]
<1>. HIDE DEF R
<1>5. R = g
  BY <1>4
<1>6. \A n \in 0..NumHolders : R[n] = IF n = 0 THEN 0 ELSE R[n-1] + f[n]
  BY <1>4, Zenon
<1>7. R[0] = 0 /\ \A i \in Holders : R[i] = R[i-1] + f[i]
  BY <1>6, NumHoldersAssumption DEF Holders
<1>8. \A n \in 0..NumHolders : R[n] = s[n]
  BY <1>2, <1>7, RunningUnique
<1>9. R = s
  BY <1>5, <1>8, <1>2 DEF IsRunning
<1>. QED  BY <1>9, <1>2 DEF R

(* A total is an integer. *)
LEMMA TotalIsInt ==
  ASSUME NEW f \in [Holders -> Int]
  PROVE  Total(f) \in Int
BY RunningTotalIsRunning, NumHoldersAssumption DEF Total, IsRunning

(* Changing one ledger by d changes the total by d. *)
LEMMA TotalOfChange ==
  ASSUME NEW f \in [Holders -> Int], NEW h \in Holders, NEW d \in Int
  PROVE  Total([f EXCEPT ![h] = @ + d]) = Total(f) + d
<1>. DEFINE g == [f EXCEPT ![h] = @ + d]
            s == RunningTotal(f)
            t == [i \in 0..NumHolders |-> IF i < h THEN s[i] ELSE s[i] + d]
<1>1. g \in [Holders -> Int]
  OBVIOUS
<1>2. IsRunning(s, f, NumHolders)
  BY RunningTotalIsRunning
<1>. HIDE DEF s
<1>3. \A i \in Holders : g[i] = IF i = h THEN f[i] + d ELSE f[i]
  OBVIOUS
<1>. HIDE DEF g
<1>4. t[0] = 0
  BY <1>2, NumHoldersAssumption DEF IsRunning, Holders
<1>5. \A i \in Holders : t[i] = t[i-1] + g[i]
  <2>1. \A i \in Holders : i \in 1..NumHolders /\ i - 1 \in 0..NumHolders /\ h \in Int
    BY NumHoldersAssumption DEF Holders
  <2>2. \A i \in Holders : s[i] = s[i-1] + f[i] /\ s[i-1] \in Int /\ f[i] \in Int
    BY <1>2, <2>1 DEF IsRunning, Holders
  <2>3. ASSUME NEW i \in Holders
        PROVE  t[i] = t[i-1] + g[i]
    <3>1. t[i] = IF i < h THEN s[i] ELSE s[i] + d
      BY <2>1
    <3>2. t[i-1] = IF i - 1 < h THEN s[i-1] ELSE s[i-1] + d
      BY <2>1
    <3>3. g[i] = IF i = h THEN f[i] + d ELSE f[i]
      BY <1>3
    <3>4. h \in Int /\ i \in Int
      BY <2>1
    <3>5. CASE i < h
      BY <2>2, <3>1, <3>2, <3>3, <3>4, <3>5
    <3>6. CASE i = h
      BY <2>2, <3>1, <3>2, <3>3, <3>4, <3>6
    <3>7. CASE h < i
      BY <2>2, <3>1, <3>2, <3>3, <3>4, <3>7
    <3>. QED  BY <3>4, <3>5, <3>6, <3>7
  <2>. QED  BY <2>3
<1>6. IsRunning(RunningTotal(g), g, NumHolders)
  BY <1>1, RunningTotalIsRunning
<1>. HIDE DEF t
<1>7. \A n \in 0..NumHolders : t[n] = RunningTotal(g)[n]
  BY <1>1, <1>4, <1>5, <1>6, RunningUnique
<1>8. RunningTotal(g)[NumHolders] = s[NumHolders] + d
  BY <1>7, NumHoldersAssumption DEF t, Holders
<1>. QED  BY <1>8 DEF Total, s, g

(* Ledgers that are not negative have a total that is not negative. *)
LEMMA TotalNotNegative ==
  ASSUME NEW f \in [Holders -> Int], \A h \in Holders : f[h] >= 0
  PROVE  Total(f) >= 0
<1>. DEFINE s == RunningTotal(f)
            Low == {m \in 0..NumHolders : s[m] < 0}
<1>1. IsRunning(s, f, NumHolders)
  BY RunningTotalIsRunning
<1>. HIDE DEF s
<1>. SUFFICES ASSUME s[NumHolders] < 0 PROVE FALSE
  BY <1>1, NumHoldersAssumption DEF Total, s, IsRunning
<1>2. Low \subseteq Nat /\ Low # {}
  BY NumHoldersAssumption
<1>. HIDE DEF Low
<1>3. PICK m \in Low : \A y \in Low : m <= y
  BY <1>2, LeastNatural
<1>4. m \in Holders /\ m-1 \in 0..NumHolders /\ m-1 \notin Low
  BY <1>1, <1>3, NumHoldersAssumption DEF Low, IsRunning, Holders
<1>5. s[m] = s[m-1] + f[m] /\ s[m-1] >= 0 /\ s[m-1] \in Int /\ f[m] \in Int /\ f[m] >= 0
  BY <1>1, <1>4 DEF Low, IsRunning, Holders
<1>. QED  BY <1>3, <1>5 DEF Low
===============================================================================
