------------------------------ MODULE Induction -----------------------------
(***************************************************************************)
(* Induction over numbers, and recursion, stated with sets: the theorems   *)
(* of the library take an operator, which the provers cannot instantiate.  *)
(***************************************************************************)
EXTENDS Integers, FiniteSetTheorems, WellFoundedInduction, TLAPS

\* A set with 0 and with the successor of each of its numbers has all numbers.
LEMMA SetInduction ==
    ASSUME NEW S, 0 \in S, \A n \in Nat : n \in S => n + 1 \in S
    PROVE  \A n \in Nat : n \in S
<1> SUFFICES ASSUME NEW m \in Nat, m \notin S PROVE FALSE
  OBVIOUS
<1> DEFINE Bad == {k \in Nat : k \notin S}
           Below == {0 .. k : k \in Bad}
<1>1. \A k \in Nat : 0 .. k \in FiniteSubsetsOf(Nat)
  BY FS_Interval DEF FiniteSubsetsOf
<1>2. Below \subseteq FiniteSubsetsOf(Nat) /\ Below # {}
  BY <1>1
<1>3. PICK x \in Below : \A y \in Below : ~ (<<y, x>> \in StrictSubsetOrdering(Nat))
  <2> HIDE DEF Below
  <2> QED BY <1>2, FS_StrictSubsetOrderingWellFounded, WFMin
<1>4. PICK k \in Bad : x = 0 .. k
  BY <1>3
<1>5. k # 0 /\ k \in Nat
  BY <1>4
<1>6. k - 1 \in Bad
  BY <1>4, <1>5
<1>7. 0 .. k - 1 \in Below
  BY <1>6
<1>8. /\ 0 .. k - 1 \subseteq 0 .. k
      /\ 0 .. k - 1 # 0 .. k
      /\ {0 .. k - 1, 0 .. k} \subseteq SUBSET Nat
  BY <1>5
<1>9. <<0 .. k - 1, x>> \in StrictSubsetOrdering(Nat)
  BY <1>4, <1>8 DEF StrictSubsetOrdering
<1> QED BY <1>3, <1>7, <1>9

\* The same for the numbers up to n, and a start other than 0.
LEMMA UpTo ==
    ASSUME NEW m \in Nat, NEW n \in Nat, NEW S, m \in S, \A i \in m + 1 .. n : i - 1 \in S => i \in S
    PROVE  \A i \in m .. n : i \in S
<1> DEFINE R == {i \in Nat : m + i <= n => m + i \in S}
<1>1. 0 \in R
  OBVIOUS
<1>2. ASSUME NEW i \in Nat, i \in R PROVE i + 1 \in R
  <2> SUFFICES ASSUME m + (i + 1) <= n PROVE m + (i + 1) \in S
    OBVIOUS
  <2>1. m + (i + 1) \in m + 1 .. n /\ (m + (i + 1)) - 1 = m + i /\ m + i \in S
    BY <1>2
  <2> QED BY <2>1
<1>3. \A i \in Nat : i \in R
  <2> HIDE DEF R
  <2> QED BY <1>1, <1>2, SetInduction
<1>4. ASSUME NEW i \in m .. n PROVE i \in S
  <2>1. i - m \in Nat /\ m + (i - m) = i /\ i <= n
    OBVIOUS
  <2>2. i - m \in R
    BY <1>3, <2>1
  <2> QED BY <2>1, <2>2
<1> QED BY <1>4

\* f takes the steps one after the other.
Solves(f, N, D, base, step) ==
    f \in [0 .. N -> D] /\ f[0] = base /\ \A i \in 1 .. N : f[i] = step[i][f[i - 1]]

\* A recursion over 0 .. N whose step stays in D has a solution.
LEMMA RecursionHasSolution ==
    ASSUME NEW N \in Nat, NEW D, NEW base \in D, NEW step \in [1 .. N -> [D -> D]]
    PROVE  \E f : Solves(f, N, D, base, step)
<1> DEFINE S == {n \in 0 .. N : \E f : Solves(f, n, D, base, step)}
<1>1. 0 \in S
  <2>1. Solves([i \in 0 .. 0 |-> base], 0, D, base, step)
    BY DEF Solves
  <2> QED BY <2>1
<1>2. ASSUME NEW n \in 1 .. N, n - 1 \in S PROVE n \in S
  <2>1. PICK f : Solves(f, n - 1, D, base, step)
    BY <1>2
  <2> DEFINE g == [i \in 0 .. n |-> IF i = n THEN step[n][f[n - 1]] ELSE f[i]]
  <2>2. f[n - 1] \in D /\ step[n][f[n - 1]] \in D
    BY <2>1 DEF Solves
  <2>3. g \in [0 .. n -> D]
    BY <2>1, <2>2 DEF Solves
  <2>4. g[0] = base
    BY <2>1 DEF Solves
  <2>5. ASSUME NEW i \in 1 .. n PROVE g[i] = step[i][g[i - 1]]
    BY <2>1 DEF Solves
  <2>6. Solves(g, n, D, base, step)
    BY <2>3, <2>4, <2>5 DEF Solves
  <2> HIDE DEF g
  <2> QED BY <2>6
<1>3. N \in S
  <2> HIDE DEF S
  <2>1. \A i \in 0 .. N : i \in S
    BY <1>1, <1>2, UpTo, 0 + 1 = 1
  <2> QED BY <2>1
<1> QED BY <1>3

\* Numbers have a least one.
LEMMA LeastNumber ==
    ASSUME NEW T \in SUBSET Nat, T # {}
    PROVE  \E i \in T : \A j \in T : i <= j
<1> SUFFICES ASSUME \A i \in T : \E j \in T : j < i PROVE FALSE
  OBVIOUS
<1> DEFINE S == {n \in Nat : \A j \in 0 .. n : j \notin T}
<1>1. 0 \in S
  OBVIOUS
<1>2. ASSUME NEW n \in Nat, n \in S PROVE n + 1 \in S
  <2>1. n + 1 \notin T
    BY <1>2
  <2> QED BY <1>2, <2>1
<1>3. \A n \in Nat : n \in S
  <2> HIDE DEF S
  <2> QED BY <1>1, <1>2, SetInduction
<1>4. PICK n \in T : n \in Nat
  OBVIOUS
<1>5. n \in 0 .. n
  BY <1>4
<1> QED BY <1>3, <1>4, <1>5

\* Bounded numbers have a greatest one.
LEMMA GreatestNumber ==
    ASSUME NEW n \in Nat, NEW T \in SUBSET (0 .. n), T # {}
    PROVE  \E i \in T : \A j \in T : j <= i
<1> DEFINE R == {m \in 0 .. n : n - m \in T}
<1>1. R # {} /\ R \in SUBSET Nat
  <2>1. PICK j \in T : TRUE
    OBVIOUS
  <2>2. n - (n - j) = j /\ n - j \in 0 .. n
    OBVIOUS
  <2>3. n - j \in R
    BY <2>2
  <2> QED BY <2>3
<1>2. PICK m \in R : \A k \in R : m <= k
  <2> HIDE DEF R
  <2> QED BY <1>1, LeastNumber
<1>3. n - m \in T /\ m \in 0 .. n
  BY <1>2
<1>4. ASSUME NEW j \in T PROVE j <= n - m
  <2>1. n - (n - j) = j /\ n - j \in 0 .. n /\ j \in 0 .. n
    OBVIOUS
  <2>2. n - j \in R
    BY <2>1
  <2>3. m <= n - j
    BY <1>2, <2>2
  <2> QED BY <1>3, <2>1, <2>3
<1> QED BY <1>3, <1>4
=============================================================================
