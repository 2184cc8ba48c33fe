----------------------------- MODULE Induction -----------------------------
(***************************************************************************)
(* Induction over natural numbers without a predicate for a parameter: the *)
(* numbers a statement holds of are a set.  Used where a proof has to      *)
(* follow a recursive function or a CHOOSE over numbers.                   *)
(***************************************************************************)
EXTENDS SequencesExt, SequenceTheorems, FiniteSetTheorems, TLAPS

(* A set of natural numbers has a least one: subsets of Nat of the form    *)
(* 0..n are well-ordered by inclusion.                                     *)
LEMMA LeastNatural ==
  ASSUME NEW T, T \subseteq Nat, T # {}
  PROVE  \E x \in T : \A y \in T : x <= y
  <1> DEFINE R == StrictSubsetOrdering(Nat)
             F == {0..n : n \in T}
  <1>1. IsWellFoundedOn(R, FiniteSubsetsOf(Nat))
    BY FS_StrictSubsetOrderingWellFounded, Zenon
  <1>2. F \subseteq FiniteSubsetsOf(Nat)
    <2>1. ASSUME NEW n \in T PROVE 0..n \subseteq Nat /\ IsFiniteSet(0..n)
      BY FS_Interval
    <2>2. QED
      BY <2>1 DEF FiniteSubsetsOf
  <1>3. F # {}
    OBVIOUS
  <1>4. PICK x \in F : \A y \in F : ~(<<y, x>> \in R)
    <2> HIDE DEF R, F
    <2>1. QED
      BY <1>1, <1>2, <1>3, WFMin, Zenon
  <1>5. PICK n \in T : x = 0..n
    OBVIOUS
  <1>6. ASSUME NEW m \in T, m < n PROVE FALSE
    <2>1. 0..m \subseteq Nat /\ 0..n \subseteq Nat /\ 0..m \subseteq 0..n
      BY <1>6
    <2>2. n \in 0..n /\ n \notin 0..m
      BY <1>6
    <2>3. <<0..m, 0..n>> \in R
      BY <2>1, <2>2 DEF StrictSubsetOrdering
    <2>4. QED
      BY <2>3, <1>4, <1>5
  <1>7. QED
    BY <1>6

LEMMA MinIsLeast ==
  ASSUME NEW T, T \subseteq Nat, T # {}
  PROVE  Min(T) \in T /\ \A y \in T : Min(T) <= y
  <1>1. \E x \in T : \A y \in T : x <= y
    BY LeastNatural
  <1>2. QED
    BY <1>1, Zenon DEF Min

LEMMA MinOfTwo ==
  ASSUME NEW a \in Nat, NEW b \in Nat
  PROVE  Min({a, b}) = IF a <= b THEN a ELSE b
  <1>1. Min({a, b}) \in {a, b} /\ \A y \in {a, b} : Min({a, b}) <= y
    BY MinIsLeast
  <1>2. QED
    BY <1>1

(* A set that has 0, and the next number with every number, has them all.  *)
LEMMA SetInduction ==
  ASSUME NEW S, 0 \in S, \A n \in Nat : n \in S => n + 1 \in S
  PROVE  Nat \subseteq S
  <1> SUFFICES ASSUME Nat \ S # {} PROVE FALSE
    OBVIOUS
  <1>1. PICK x \in Nat \ S : \A y \in Nat \ S : x <= y
    BY LeastNatural
  <1>2. x # 0 /\ x - 1 \in Nat /\ x - 1 < x
    BY <1>1
  <1>3. x - 1 \in S
    BY <1>1, <1>2
  <1>4. QED
    BY <1>1, <1>2, <1>3

LEMMA BoundedInduction ==
  ASSUME NEW S, NEW n \in Nat, 0 \in S, \A k \in 1..n : k - 1 \in S => k \in S
  PROVE  0..n \subseteq S
  <1> DEFINE T == {k \in Nat : k <= n => k \in S}
  <1>1. 0 \in T
    OBVIOUS
  <1>2. ASSUME NEW k \in Nat, k \in T PROVE k + 1 \in T
    <2>1. k + 1 <= n => k + 1 \in 1..n /\ (k + 1) - 1 = k /\ k \in S
      BY <1>2
    <2>2. QED
      BY <2>1
  <1> HIDE DEF T
  <1>3. Nat \subseteq T
    BY <1>1, <1>2, SetInduction
  <1>4. QED
    BY <1>3 DEF T

(* What a recursion over 0..n says of a function.  One that is right so    *)
(* far can be made one longer, so there is such a function for every n.    *)
Recurs(f, n, start, step) ==
  f = [k \in 0..n |-> IF k = 0 THEN start ELSE step[k][f[k - 1]]]

LEMMA RecursionExists ==
  ASSUME NEW X, NEW start \in X, NEW n \in Nat, NEW step \in [1..n -> [X -> X]]
  PROVE  \E f \in [0..n -> X] : Recurs(f, n, start, step)
  <1> DEFINE S == {m \in Nat : \E f \in [0..m -> X] : Recurs(f, m, start, step)}
  <1>1. 0 \in S
    <2> DEFINE e == [k \in 0..0 |-> start]
    <2>1. \A k \in 0..0 : k = 0
      OBVIOUS
    <2>2. e \in [0..0 -> X] /\ Recurs(e, 0, start, step)
      BY <2>1 DEF Recurs
    <2>3. QED
      BY <2>2
  <1>2. ASSUME NEW m \in 1..n, m - 1 \in S PROVE m \in S
    <2>1. PICK f \in [0..(m - 1) -> X] : Recurs(f, m - 1, start, step)
      BY <1>2
    <2> DEFINE g == [k \in 0..m |-> IF k = m THEN step[m][f[m - 1]] ELSE f[k]]
    <2>2. \A k \in 0..m : k = m \/ k \in 0..(m - 1)
      OBVIOUS
    <2>3. step[m] \in [X -> X] /\ f[m - 1] \in X
      OBVIOUS
    <2>4. g \in [0..m -> X]
      BY <2>2, <2>3
    <2>5. g[m] = step[m][f[m - 1]] /\ \A k \in 0..(m - 1) : g[k] = f[k]
      OBVIOUS
    <2>6. \A k \in 0..(m - 1) : f[k] = IF k = 0 THEN start ELSE step[k][f[k - 1]]
      BY <2>1 DEF Recurs
    <2> HIDE DEF g
    <2>7. ASSUME NEW k \in 0..m
          PROVE  g[k] = IF k = 0 THEN start ELSE step[k][g[k - 1]]
      <3>1. CASE k = m
        BY <2>5, <3>1
      <3>2. CASE k \in 0..(m - 1)
        <4>1. k # 0 => k - 1 \in 0..(m - 1)
          BY <3>2
        <4>2. QED
          BY <2>5, <2>6, <3>2, <4>1
      <3>3. QED
        BY <2>2, <3>1, <3>2
    <2>8. Recurs(g, m, start, step)
      BY <2>4, <2>7 DEF Recurs
    <2>9. m \in Nat
      OBVIOUS
    <2>10. QED
      BY <2>4, <2>8, <2>9
  <1> HIDE DEF S
  <1>3. 0..n \subseteq S
    BY <1>1, <1>2, BoundedInduction
  <1>4. n \in S
    BY <1>3
  <1>5. QED
    BY <1>4 DEF S
============================================================================
