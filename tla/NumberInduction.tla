--------------------------- MODULE NumberInduction ---------------------------
(***************************************************************************)
(* Induction over natural numbers, for the proofs about what recursive     *)
(* functions compute. The statement to be proved is given as the set of    *)
(* numbers for which it holds.                                             *)
(***************************************************************************)
EXTENDS Integers, WellFoundedInduction, TLAPS

LEMMA LeastNumber ==
  ASSUME NEW T \in SUBSET Nat, T # {}
  PROVE  \E x \in T : \A y \in T : x <= y
<1> DEFINE R == OpToRel(<, Nat)
<1>1. IsWellFoundedOn(R, Nat)
  BY NatLessThanWellFounded
<1>2. \A x, y \in Nat : <<x, y>> \in R <=> x < y
  BY DEF OpToRel
<1> HIDE DEF R
<1>3. PICK x \in T : \A y \in T : <<y, x>> \notin R
  BY <1>1, WFMin
<1>4. \A y \in T : ~ (y < x)
  BY <1>2, <1>3
<1>5. T \subseteq Nat /\ x \in Nat
  OBVIOUS
<1> QED
  BY <1>4, <1>5

LEMMA SetInduction ==
  ASSUME NEW S, 0 \in S, \A i \in Nat : i \in S => i + 1 \in S
  PROVE  Nat \subseteq S
<1> SUFFICES ASSUME Nat \ S # {} PROVE FALSE
  OBVIOUS
<1> PICK x \in Nat \ S : \A y \in Nat \ S : x <= y
  BY LeastNumber
<1>1. x # 0 /\ x - 1 \in Nat
  OBVIOUS
<1>2. x - 1 \in S
  BY <1>1
<1>3. (x - 1) + 1 \in S
  BY <1>1, <1>2
<1> QED
  BY <1>1, <1>3

LEMMA UpTo ==
  ASSUME NEW m \in Nat, NEW S, 0 \in S, \A i \in 1..m : i - 1 \in S => i \in S
  PROVE  \A i \in 0..m : i \in S
<1> DEFINE T == {i \in Nat : i \in S \/ i > m}
<1>1. 0 \in T
  OBVIOUS
<1>2. ASSUME NEW i \in Nat, i \in T PROVE i + 1 \in T
  <2>1. CASE i + 1 > m
    BY <2>1
  <2>2. CASE ~(i + 1 > m)
    <3>1. i + 1 \in 1..m /\ i \in S /\ (i + 1) - 1 = i
      BY <1>2, <2>2
    <3>2. i + 1 \in S
      BY <3>1
    <3> QED BY <3>2
  <2> QED BY <2>1, <2>2
<1>3. Nat \subseteq T
  <2> HIDE DEF T
  <2> QED BY <1>1, <1>2, SetInduction
<1> QED
  BY <1>3

(* What is computed step by step from a first value, each value from the one before. *)
Stays(step, m, S) == \A i \in 1..m : \A v \in S : step[i][v] \in S

Computed(f, m, S, first, step) ==
  f \in [0..m -> S] /\ f[0] = first /\ \A i \in 1..m : f[i] = step[i][f[i - 1]]

LEMMA StepByStep ==
  ASSUME NEW m \in Nat, NEW S, NEW first \in S, NEW step, Stays(step, m, S)
  PROVE  \E f : Computed(f, m, S, first, step)
<1> DEFINE Right(f, n) == f[0] = first /\ \A i \in 1..n : f[i] = step[i][f[i - 1]]
           T == {n \in 0..m : \E f \in [0..n -> S] : Right(f, n)}
<1>1. 0 \in T
  <2> DEFINE f == [i \in 0..0 |-> first]
  <2>1. f \in [0..0 -> S] /\ Right(f, 0)
    OBVIOUS
  <2> HIDE DEF f, Right
  <2> QED BY <2>1
<1>2. ASSUME NEW n \in 1..m, n - 1 \in T PROVE n \in T
  <2>1. PICK f \in [0..n - 1 -> S] : Right(f, n - 1)
    BY <1>2
  <2> DEFINE g == [i \in 0..n |-> IF i = n THEN step[n][f[n - 1]] ELSE f[i]]
  <2>2. f[n - 1] \in S /\ step[n][f[n - 1]] \in S
    BY DEF Stays
  <2>3. g \in [0..n -> S]
    BY <2>2
  <2>4. g[0] = first
    BY <2>1
  <2>5. ASSUME NEW i \in 1..n PROVE g[i] = step[i][g[i - 1]]
    <3>1. CASE i = n
      BY <3>1
    <3>2. CASE i # n
      <4>1. i \in 1..n - 1 /\ i \in 0..n /\ i - 1 \in 0..n /\ i - 1 # n
        BY <3>2
      <4> QED BY <2>1, <3>2, <4>1
    <3> QED BY <3>1, <3>2
  <2> HIDE DEF g
  <2> QED BY <2>3, <2>4, <2>5
<1>3. m \in T
  <2> HIDE DEF T
  <2>1. \A i \in 1..m : i - 1 \in T => i \in T
    BY <1>2
  <2>2. \A i \in 0..m : i \in T
    BY <1>1, <2>1, UpTo
  <2> QED BY <2>2
<1> QED
  BY <1>3 DEF Computed

(* The same where the values of each step belong to a set of its own.                   *)
ComputedWithin(f, m, S, first, step) ==
  /\ f = [i \in 0..m |-> f[i]] /\ f[0] = first
  /\ \A i \in 0..m : f[i] \in S[i]
  /\ \A i \in 1..m : f[i] = step[i][f[i - 1]]

LEMMA StepByStepWithin ==
  ASSUME NEW m \in Nat, NEW S, NEW first \in S[0], NEW step,
         \A i \in 1..m : \A v \in S[i - 1] : step[i][v] \in S[i]
  PROVE  \E f : ComputedWithin(f, m, S, first, step)
<1> DEFINE All == UNION {S[i] : i \in 0..m}
           Walk(i, v) == IF v \in S[i - 1] THEN step[i][v] ELSE first
           total == [i \in 1..m |-> [v \in All |-> Walk(i, v)]]
<1>1. ASSUME NEW i \in 0..m PROVE S[i] \subseteq All
  OBVIOUS
<1>2. first \in All
  BY <1>1
<1>3. ASSUME NEW i \in 1..m, NEW v \in All PROVE Walk(i, v) \in All
  <2>1. CASE v \in S[i - 1]
    <3>1. step[i][v] \in S[i] /\ i \in 0..m
      BY <2>1
    <3> HIDE DEF All
    <3> QED BY <1>1, <2>1, <3>1
  <2>2. CASE v \notin S[i - 1]
    <3> HIDE DEF All
    <3> QED BY <1>2, <2>2
  <2> QED BY <2>1, <2>2
<1>4. \A i \in 1..m : \A v \in All : total[i][v] = Walk(i, v)
  <2> HIDE DEF All, Walk
  <2> QED OBVIOUS
<1> HIDE DEF All, total
<1>5. Stays(total, m, All)
  <2> HIDE DEF Walk
  <2> QED BY <1>3, <1>4 DEF Stays
<1>6. PICK f : Computed(f, m, All, first, total)
  BY <1>2, <1>5, StepByStep
<1>7. f \in [0..m -> All] /\ f[0] = first /\ \A i \in 1..m : f[i] = total[i][f[i - 1]]
  BY <1>6 DEF Computed
<1>8. \A i \in 1..m : f[i] = Walk(i, f[i - 1])
  <2> HIDE DEF Walk
  <2>1. \A i \in 1..m : f[i - 1] \in All
    BY <1>7
  <2> QED BY <1>4, <1>7, <2>1
<1> DEFINE T == {i \in 0..m : f[i] \in S[i]}
<1>9. 0 \in T
  BY <1>7
<1>10. ASSUME NEW i \in 1..m, i - 1 \in T PROVE i \in T
  BY <1>8, <1>10
<1>11. \A i \in 0..m : i \in T
  <2> HIDE DEF T
  <2> QED BY <1>9, <1>10, UpTo
<1>12. \A i \in 1..m : f[i] = step[i][f[i - 1]]
  <2>1. \A i \in 1..m : i - 1 \in 0..m
    OBVIOUS
  <2> QED BY <1>8, <1>11, <2>1
<1> QED
  BY <1>7, <1>11, <1>12 DEF ComputedWithin

==============================================================================
