--------------------------- MODULE PrepareProofs ---------------------------
(***************************************************************************)
(* Proofs about what is done before the sweep, for every trace: whatever   *)
(* images were where, and whatever is known of memory.                     *)
(***************************************************************************)
EXTENDS Prepare, Induction

(* The greatest of some numbers that do not pass n.                        *)
LEMMA MaxIsGreatest ==
  ASSUME NEW n \in Nat, NEW T, T \subseteq 0..n, T # {}
  PROVE  Max(T) \in T /\ \A y \in T : y <= Max(T)
  <1> DEFINE U == {n - x : x \in T}
  <1>1. U \subseteq Nat /\ U # {}
    <2>1. \A x \in T : x \in Nat /\ n - x \in Nat
      OBVIOUS
    <2>2. QED
      BY <2>1
  <1>2. PICK u \in U : \A y \in U : u <= y
    <2> HIDE DEF U
    <2>1. QED
      BY <1>1, LeastNatural
  <1>3. PICK x \in T : u = n - x
    OBVIOUS
  <1>4. \A y \in T : y <= x
    <2>1. \A y \in T : y \in Nat /\ n - x <= n - y
      <3>1. ASSUME NEW y \in T PROVE y \in Nat /\ n - x <= n - y
        <4>1. n - y \in U /\ y \in Nat
          OBVIOUS
        <4> HIDE DEF U
        <4>2. QED
          BY <1>2, <1>3, <4>1
      <3>2. QED
        BY <3>1
    <2>2. x \in Nat
      OBVIOUS
    <2>3. QED
      BY <2>1, <2>2
  <1>5. \E z \in T : \A y \in T : z >= y
    BY <1>4
  <1>6. Max(T) \in T /\ \A y \in T : Max(T) >= y
    BY <1>5, Zenon DEF Max
  <1>7. QED
    BY <1>6
----------------------------------------------------------------------------
(* FlattenSeq puts the sequences together one by one.                      *)
Joins(f, s) ==
  /\ f[1] = s[1]
  /\ \A i \in 2..Len(s) : f[i] = f[i - 1] \o s[i]

LEMMA FlattenIs ==
  ASSUME NEW S, NEW s \in Seq(Seq(S)), Len(s) # 0
  PROVE  \E f \in [1..Len(s) -> Seq(S)] : Joins(f, s) /\ FlattenSeq(s) = f[Len(s)]
  <1> DEFINE n == Len(s)
             Eq(f) == f = [i \in 1..n |-> IF i = 1 THEN s[i] ELSE f[i - 1] \o s[i]]
             t == CHOOSE f : Eq(f)
             step == [k \in 1..(n - 1) |-> [x \in Seq(S) |-> x \o s[k + 1]]]
  <1>1. n \in Nat /\ n >= 1 /\ n - 1 \in Nat /\ \A i \in 1..n : s[i] \in Seq(S)
    OBVIOUS
  <1>2. step \in [1..(n - 1) -> [Seq(S) -> Seq(S)]]
    <2>1. ASSUME NEW k \in 1..(n - 1), NEW x \in Seq(S) PROVE x \o s[k + 1] \in Seq(S)
      <3>1. s[k + 1] \in Seq(S)
        BY <1>1
      <3>2. QED
        BY <3>1
    <2>2. QED
      BY <2>1
  <1>3. \A k \in 1..(n - 1) : \A x \in Seq(S) : step[k][x] = x \o s[k + 1]
    OBVIOUS
  <1>4. s[1] \in Seq(S)
    BY <1>1
  <1> HIDE DEF step
  <1>5. PICK g \in [0..(n - 1) -> Seq(S)] : Recurs(g, n - 1, s[1], step)
    BY ONLY <1>1, <1>2, <1>4, RecursionExists
  <1>6. \A k \in 0..(n - 1) : g[k] = IF k = 0 THEN s[1] ELSE step[k][g[k - 1]]
    BY <1>5 DEF Recurs
  <1> DEFINE h == [i \in 1..n |-> g[i - 1]]
  <1>7. \A i \in 1..n : h[i] = IF i = 1 THEN s[i] ELSE h[i - 1] \o s[i]
    <2>1. ASSUME NEW i \in 1..n, i # 1 PROVE h[i] = h[i - 1] \o s[i]
      <3>1. i - 1 \in 1..(n - 1) /\ i - 2 \in 0..(n - 1) /\ i - 1 \in 1..n /\ (i - 1) + 1 = i
            /\ (i - 1) - 1 = i - 2 /\ i - 1 \in 0..(n - 1) /\ i - 1 # 0
        BY <1>1, <2>1
      <3>2. g[i - 1] = step[i - 1][g[i - 2]]
        BY <1>6, <3>1
      <3>3. g[i - 2] \in Seq(S)
        BY <3>1
      <3>4. step[i - 1][g[i - 2]] = g[i - 2] \o s[i]
        BY <1>3, <3>1, <3>3
      <3>5. h[i] = g[i - 1] /\ h[i - 1] = g[i - 2]
        BY <3>1
      <3>6. QED
        BY <3>2, <3>4, <3>5
    <2>2. h[1] = s[1]
      BY <1>1, <1>6
    <2>3. QED
      BY <2>1, <2>2
  <1>8. Eq(h)
    <2> DEFINE r == [i \in 1..n |-> IF i = 1 THEN s[i] ELSE h[i - 1] \o s[i]]
    <2>1. DOMAIN h = 1..n /\ DOMAIN r = 1..n
      OBVIOUS
    <2>2. \A i \in 1..n : h[i] = r[i]
      BY <1>7
    <2>3. h = r
      <3>1. h = [i \in 1..n |-> h[i]] /\ r = [i \in 1..n |-> r[i]]
        OBVIOUS
      <3> HIDE DEF h, r
      <3>2. QED
        BY <2>2, <3>1
    <2>4. QED
      BY <2>3
  <1>9. Eq(t)
    <2> HIDE DEF h
    <2>1. QED
      BY <1>8, Zenon
  <1>10. FlattenSeq(s) = t[n]
    BY <1>1 DEF FlattenSeq
  <1>11. \A i \in 1..n : t[i] = h[i]
    <2> HIDE DEF t
    <2> DEFINE P == {k \in Nat : k + 1 \in 1..n => t[k + 1] = h[k + 1]}
    <2>0. \A i \in 1..n : t[i] = IF i = 1 THEN s[i] ELSE t[i - 1] \o s[i]
      BY <1>9
    <2>00. h \in [1..n -> Seq(S)]
      BY <1>1
    <2> HIDE DEF h
    <2>1. 0 \in P
      BY <1>1, <1>7, <2>0
    <2>2. ASSUME NEW k \in Nat, k \in P PROVE k + 1 \in P
      <3>1. CASE k + 2 \in 1..n
        <4>1. k + 1 \in 1..n /\ k + 2 # 1 /\ (k + 2) - 1 = k + 1
          BY <3>1
        <4>2. t[k + 2] = t[k + 1] \o s[k + 2]
          BY <2>0, <3>1, <4>1
        <4>3. h[k + 2] = h[k + 1] \o s[k + 2]
          BY <1>7, <3>1, <4>1
        <4>4. t[k + 1] = h[k + 1]
          BY <2>2, <4>1
        <4>5. t[k + 2] = h[k + 2] /\ (k + 1) + 1 = k + 2
          BY <4>2, <4>3, <4>4
        <4>6. QED
          BY <4>5
      <3>2. CASE k + 2 \notin 1..n
        BY <3>2
      <3>3. QED
        BY <3>1, <3>2
    <2> HIDE DEF P
    <2>3. Nat \subseteq P
      BY <2>1, <2>2, SetInduction
    <2>4. ASSUME NEW i \in 1..n PROVE t[i] = h[i]
      <3>1. i - 1 \in P /\ (i - 1) + 1 = i
        BY <2>3
      <3>2. QED
        BY <3>1 DEF P
    <2>5. QED
      BY <2>4
  <1>12. h \in [1..n -> Seq(S)]
    BY <1>1
  <1>13. Joins(h, s)
    <2>1. ASSUME NEW i \in 2..n PROVE h[i] = h[i - 1] \o s[i]
      <3>1. i \in 1..n /\ i # 1
        BY <1>1
      <3>2. QED
        BY ONLY <1>7, <3>1
    <2>2. h[1] = s[1]
      <3>1. 1 \in 1..n
        BY <1>1
      <3>2. QED
        BY ONLY <1>7, <3>1
    <2>3. QED
      BY ONLY <2>1, <2>2 DEF Joins
  <1> HIDE DEF h, t
  <1>14. FlattenSeq(s) = h[n]
    BY <1>1, <1>10, <1>11
  <1>15. QED
    BY <1>12, <1>13, <1>14

LEMMA JoinFacts ==
  ASSUME NEW S, NEW s \in Seq(S), NEW v \in Seq(S)
  PROVE  /\ s \o v \in Seq(S)
         /\ Len(s \o v) = Len(s) + Len(v)
         /\ Len(s) \in Nat /\ Len(v) \in Nat
         /\ \A k \in 1..Len(s) : (s \o v)[k] = s[k]
         /\ \A k \in 1..Len(v) : (s \o v)[Len(s) + k] = v[k]
         /\ ToSet(s \o v) = ToSet(s) \cup ToSet(v)
  <1>1. /\ s \o v \in Seq(S)
        /\ Len(s \o v) = Len(s) + Len(v)
        /\ Len(s) \in Nat /\ Len(v) \in Nat
        /\ \A k \in 1..Len(s) : (s \o v)[k] = s[k]
        /\ \A k \in 1..Len(v) : (s \o v)[Len(s) + k] = v[k]
    OBVIOUS
  <1>2. /\ DOMAIN (s \o v) = 1..(Len(s) + Len(v))
        /\ DOMAIN s = 1..Len(s) /\ DOMAIN v = 1..Len(v)
    OBVIOUS
  <1>3. ASSUME NEW e \in ToSet(s \o v) PROVE e \in ToSet(s) \cup ToSet(v)
    <2>1. PICK k \in 1..(Len(s) + Len(v)) : e = (s \o v)[k]
      BY <1>2 DEF ToSet
    <2>2. CASE k <= Len(s)
      BY <1>1, <1>2, <2>1, <2>2 DEF ToSet
    <2>3. CASE k > Len(s)
      <3>1. k - Len(s) \in 1..Len(v) /\ Len(s) + (k - Len(s)) = k
        BY <1>1, <2>3
      <3>2. e = v[k - Len(s)]
        BY <1>1, <2>1, <3>1
      <3>3. QED
        BY <1>2, <3>1, <3>2 DEF ToSet
    <2>4. QED
      BY <1>1, <2>2, <2>3
  <1>4. ASSUME NEW e \in ToSet(s) \cup ToSet(v) PROVE e \in ToSet(s \o v)
    <2>1. CASE e \in ToSet(s)
      <3>1. PICK k \in 1..Len(s) : e = s[k]
        BY <1>2, <2>1 DEF ToSet
      <3>2. k \in 1..(Len(s) + Len(v)) /\ (s \o v)[k] = e
        BY <1>1, <3>1
      <3>3. QED
        BY <1>2, <3>2 DEF ToSet
    <2>2. CASE e \in ToSet(v)
      <3>1. PICK k \in 1..Len(v) : e = v[k]
        BY <1>2, <2>2 DEF ToSet
      <3>2. Len(s) + k \in 1..(Len(s) + Len(v)) /\ (s \o v)[Len(s) + k] = e
        BY <1>1, <3>1
      <3>3. QED
        BY <1>2, <3>2 DEF ToSet
    <2>3. QED
      BY <2>1, <2>2
  <1>5. QED
    BY <1>1, <1>3, <1>4

(* What is in the sequences is in the whole, and nothing else is.          *)
LEMMA FlattenFacts ==
  ASSUME NEW S, NEW s \in Seq(Seq(S))
  PROVE  /\ FlattenSeq(s) \in Seq(S)
         /\ ToSet(FlattenSeq(s)) = UNION {ToSet(s[i]) : i \in DOMAIN s}
  <1>1. CASE Len(s) = 0
    <2>1. s = <<>> /\ FlattenSeq(s) = <<>>
      BY <1>1 DEF FlattenSeq
    <2>2. DOMAIN s = {} /\ ToSet(FlattenSeq(s)) = {}
      BY <2>1 DEF ToSet
    <2>3. FlattenSeq(s) \in Seq(S)
      <3>1. <<>> \in Seq(S)
        OBVIOUS
      <3>2. QED
        BY ONLY <2>1, <3>1
    <2>4. QED
      BY ONLY <2>2, <2>3
  <1>2. CASE Len(s) # 0
    <2> DEFINE n == Len(s)
               To(m) == UNION {ToSet(s[i]) : i \in 1..m}
    <2> HIDE DEF To
    <2>1. n \in Nat /\ DOMAIN s = 1..n /\ \A i \in 1..n : s[i] \in Seq(S)
      OBVIOUS
    <2>2. PICK f \in [1..n -> Seq(S)] : Joins(f, s) /\ FlattenSeq(s) = f[n]
      BY <1>2, FlattenIs
    <2> DEFINE P == {m \in 0..n : m # 0 => ToSet(f[m]) = To(m)}
    <2>3. 0 \in P
      BY <2>1
    <2>4. ASSUME NEW m \in 1..n, m - 1 \in P PROVE m \in P
      <3>1. CASE m = 1
        <4>1. f[1] = s[1]
          BY <2>2 DEF Joins
        <4>2. To(1) = ToSet(s[1])
          BY DEF To
        <4>3. QED
          BY <3>1, <4>1, <4>2
      <3>2. CASE m # 1
        <4>1. m \in 2..n /\ m - 1 \in 1..n /\ m - 1 # 0
          BY <2>1, <3>2
        <4>2. f[m] = f[m - 1] \o s[m]
          BY ONLY <2>2, <4>1 DEF Joins
        <4>3. ToSet(f[m - 1]) = To(m - 1)
          BY <2>4, <4>1
        <4>4. f[m - 1] \in Seq(S) /\ s[m] \in Seq(S)
          BY <2>1, <4>1
        <4>5. ToSet(f[m]) = ToSet(f[m - 1]) \cup ToSet(s[m])
          BY ONLY <4>2, <4>4, JoinFacts
        <4>6. To(m) = To(m - 1) \cup ToSet(s[m])
          <5>1. \A i \in 1..m : i \in 1..(m - 1) \/ i = m
            OBVIOUS
          <5>2. \A i \in 1..(m - 1) : i \in 1..m
            OBVIOUS
          <5>3. m \in 1..m
            OBVIOUS
          <5>4. QED
            BY ONLY <5>1, <5>2, <5>3 DEF To
        <4>7. ToSet(f[m]) = To(m) /\ m \in 0..n
          BY ONLY <4>3, <4>5, <4>6, <2>1, m \in 1..n
        <4>8. QED
          BY <4>7
      <3>3. QED
        BY <3>1, <3>2
    <2> HIDE DEF P
    <2>5. 0..n \subseteq P
      BY <2>1, <2>3, <2>4, BoundedInduction
    <2>6. n \in P /\ n # 0
      <3>1. n \in 0..n
        BY <2>1
      <3>2. QED
        BY ONLY <1>2, <2>5, <3>1
    <2>7. ToSet(f[n]) = To(n)
      BY ONLY <2>6 DEF P
    <2>8. f[n] \in Seq(S)
      <3>1. n \in 1..n
        BY <1>2, <2>1
      <3>2. QED
        BY ONLY <3>1, f \in [1..n -> Seq(S)]
    <2>9. QED
      BY ONLY <2>1, <2>2, <2>7, <2>8 DEF To
  <1>3. QED
    BY <1>1, <1>2

(* Sequences of one length w: where the elements are in the whole.         *)
LEMMA FlattenEven ==
  ASSUME NEW S, NEW s \in Seq(Seq(S)), NEW w \in {1, 2, 3, 5},
         \A i \in 1..Len(s) : Len(s[i]) = w
  PROVE  /\ Len(FlattenSeq(s)) = w * Len(s)
         /\ \A i \in 1..Len(s) : \A j \in 1..w : FlattenSeq(s)[w * (i - 1) + j] = s[i][j]
  <1>1. CASE Len(s) = 0
    <2>1. s = <<>> /\ FlattenSeq(s) = <<>>
      BY <1>1 DEF FlattenSeq
    <2>2. QED
      BY <2>1
  <1>2. CASE Len(s) # 0
    <2> DEFINE n == Len(s)
    <2>1. n \in Nat /\ DOMAIN s = 1..n /\ \A i \in 1..n : s[i] \in Seq(S)
      OBVIOUS
    <2>2. PICK f \in [1..n -> Seq(S)] : Joins(f, s) /\ FlattenSeq(s) = f[n]
      BY <1>2, FlattenIs
    <2> DEFINE Good(m) == /\ Len(f[m]) = w * m
                          /\ \A i \in 1..m : \A j \in 1..w : f[m][w * (i - 1) + j] = s[i][j]
               P == {m \in 0..n : m # 0 => Good(m)}
    <2>3. 0 \in P
      BY <2>1
    <2>4. ASSUME NEW m \in 1..n, m - 1 \in P PROVE m \in P
      <3>1. CASE m = 1
        <4>1. f[1] = s[1]
          BY <2>2 DEF Joins
        <4>2. \A i \in 1..1 : i = 1
          OBVIOUS
        <4>3. \A j \in 1..w : w * (1 - 1) + j = j
          OBVIOUS
        <4>4. Len(s[1]) = w /\ w * 1 = w
          BY <2>1, <3>1
        <4>5. Len(f[1]) = w * 1
          BY <4>1, <4>4
        <4>6. \A i \in 1..1 : \A j \in 1..w : f[1][w * (i - 1) + j] = s[i][j]
          BY <4>1, <4>2, <4>3
        <4>7. Good(m) /\ m \in 0..n
          BY ONLY <2>1, <3>1, <4>5, <4>6, m \in 1..n
        <4>8. QED
          BY ONLY <4>7
      <3>2. CASE m # 1
        <4>1. m \in 2..n /\ m - 1 \in 1..n /\ m - 1 # 0
          BY <2>1, <3>2
        <4>2. f[m] = f[m - 1] \o s[m]
          BY ONLY <2>2, <4>1 DEF Joins
        <4>3. Good(m - 1)
          BY <2>4, <4>1
        <4>4. f[m - 1] \in Seq(S) /\ s[m] \in Seq(S) /\ Len(s[m]) = w
          BY <2>1, <4>1
        <4>5. w * (m - 1) + w = w * m /\ w * (m - 1) \in Nat
          <5>1. CASE w = 1 BY <5>1
          <5>2. CASE w = 2 BY <5>2
          <5>3. CASE w = 3 BY <5>3
          <5>4. CASE w = 5 BY <5>4
          <5>5. QED
            BY <5>1, <5>2, <5>3, <5>4
        <4> DEFINE a == f[m - 1]
        <4>55. a \in Seq(S)
          BY <4>4
        <4> HIDE DEF a
        <4>56. /\ Len(a \o s[m]) = Len(a) + Len(s[m])
               /\ \A k \in 1..Len(a) : (a \o s[m])[k] = a[k]
               /\ \A k \in 1..Len(s[m]) : (a \o s[m])[Len(a) + k] = s[m][k]
          <5> DEFINE b == s[m]
          <5>1. b \in Seq(S)
            BY ONLY <4>4
          <5> HIDE DEF b
          <5>2. /\ Len(a \o b) = Len(a) + Len(b)
                /\ \A k \in 1..Len(a) : (a \o b)[k] = a[k]
                /\ \A k \in 1..Len(b) : (a \o b)[Len(a) + k] = b[k]
            BY ONLY <4>55, <5>1, JoinFacts, SMTT(30)
          <5>3. QED
            BY ONLY <5>2, Zenon DEF b
        <4>57. Len(a) = w * (m - 1)
          BY ONLY <4>3 DEF a
        <4>6. Len(f[m]) = w * m
          BY ONLY <4>2, <4>4, <4>5, <4>56, <4>57 DEF a
        <4>7. ASSUME NEW i \in 1..m, NEW j \in 1..w PROVE f[m][w * (i - 1) + j] = s[i][j]
          <5>1. CASE i = m
            BY ONLY <4>2, <4>4, <4>56, <4>57, <5>1, j \in 1..w DEF a
          <5>2. CASE i # m
            <6>1. i \in 1..(m - 1)
              BY <5>2
            <6>2. w * (i - 1) + j \in 1..(w * (m - 1))
              <7>1. CASE w = 1 BY <6>1, <7>1
              <7>2. CASE w = 2 BY <6>1, <7>2
              <7>3. CASE w = 3 BY <6>1, <7>3
              <7>4. CASE w = 5 BY <6>1, <7>4
              <7>5. QED
                BY <7>1, <7>2, <7>3, <7>4
            <6>3. f[m][w * (i - 1) + j] = f[m - 1][w * (i - 1) + j]
              BY ONLY <4>2, <4>56, <4>57, <6>2 DEF a
            <6>4. QED
              BY ONLY <4>3, <6>1, <6>3, j \in 1..w
          <5>3. QED
            BY <5>1, <5>2
        <4>8. QED
          BY <4>6, <4>7
      <3>3. QED
        BY <3>1, <3>2
    <2> HIDE DEF P
    <2>5. 0..n \subseteq P
      BY <2>1, <2>3, <2>4, BoundedInduction
    <2>6. n \in P /\ n # 0
      <3>1. n \in 0..n
        BY <2>1
      <3>2. QED
        BY ONLY <1>2, <2>5, <3>1
    <2>7. QED
      BY <2>1, <2>2, <2>6 DEF P
  <1>3. QED
    BY <1>1, <1>2
----------------------------------------------------------------------------
(* What a read gets: all it can, in one piece.                             *)
LEMMA GotIs ==
  ASSUME NEW mem, NEW a \in Nat, NEW size \in Nat
  PROVE  /\ Got(mem, a, size) \in 0..size
         /\ \A j \in 1..Got(mem, a, size) : a + j - 1 \in DOMAIN mem
         /\ (\A j \in 1..size : a + j - 1 \in DOMAIN mem) => Got(mem, a, size) = size
         /\ a \notin DOMAIN mem => Got(mem, a, size) = 0
         /\ a \in DOMAIN mem /\ size # 0 => Got(mem, a, size) # 0
  <1> DEFINE K == {k \in 1..size : a..(a + k - 1) \subseteq DOMAIN mem}
             T == {0} \cup K
  <1>1. T \subseteq 0..size /\ T # {}
    OBVIOUS
  <1>2. Got(mem, a, size) = Max(T)
    BY DEF Got
  <1>3. Max(T) \in T /\ \A y \in T : y <= Max(T)
    <2> HIDE DEF T
    <2>1. QED
      BY <1>1, MaxIsGreatest
  <1> DEFINE g == Got(mem, a, size)
  <1>4. g \in T /\ \A y \in T : y <= g
    BY <1>2, <1>3
  <1> HIDE DEF g
  <1>5. g \in 0..size
    BY <1>1, <1>4
  <1>6. \A j \in 1..g : a + j - 1 \in DOMAIN mem
    <2> SUFFICES ASSUME NEW j \in 1..g PROVE a + j - 1 \in DOMAIN mem
      OBVIOUS
    <2>1. g # 0
      BY <1>5
    <2>2. a..(a + g - 1) \subseteq DOMAIN mem
      BY <1>4, <2>1
    <2>3. a + j - 1 \in a..(a + g - 1)
      BY <1>5
    <2>4. QED
      BY <2>2, <2>3
  <1>7. ASSUME \A j \in 1..size : a + j - 1 \in DOMAIN mem PROVE g = size
    <2>1. CASE size = 0
      BY <1>5, <2>1
    <2>2. CASE size # 0
      <3>1. ASSUME NEW x \in a..(a + size - 1) PROVE x \in DOMAIN mem
        <4>1. x - a + 1 \in 1..size /\ a + (x - a + 1) - 1 = x
          OBVIOUS
        <4>2. QED
          BY <1>7, <4>1
      <3>2. size \in T
        BY <2>2, <3>1
      <3>3. QED
        BY <1>4, <1>5, <3>2
    <2>3. QED
      BY <2>1, <2>2
  <1>8. ASSUME a \notin DOMAIN mem PROVE g = 0
    <2>1. g # 0 => 1 \in 1..g /\ a + 1 - 1 = a
      BY <1>5
    <2>2. QED
      BY <1>6, <1>8, <2>1
  <1>9. ASSUME a \in DOMAIN mem, size # 0 PROVE g # 0
    <2>1. a..(a + 1 - 1) = {a} /\ 1 \in 1..size
      BY <1>9
    <2>2. 1 \in T
      BY <1>9, <2>1
    <2>3. QED
      BY <1>4, <1>5, <2>2
  <1>10. QED
    BY <1>5, <1>6, <1>7, <1>8, <1>9 DEF g

LEMMA ReadIs ==
  ASSUME NEW mem, IsMemory(mem), NEW a \in Nat, NEW size \in Nat
  PROVE  /\ ReadMemory(mem, a, size) \in Seq(Nat)
         /\ Len(ReadMemory(mem, a, size)) = size
         /\ DOMAIN ReadMemory(mem, a, size) = 1..size
         /\ \A i \in 1..size : ReadMemory(mem, a, size)[i] =
              IF i <= Got(mem, a, size) THEN mem[a + i - 1] ELSE 0
  <1> DEFINE r == ReadMemory(mem, a, size)
             g == Got(mem, a, size)
  <1>1. r = [i \in 1..size |-> IF i <= g THEN mem[a + i - 1] ELSE 0]
    BY DEF ReadMemory
  <1>2. g \in 0..size /\ \A j \in 1..g : a + j - 1 \in DOMAIN mem
    BY GotIs
  <1> HIDE DEF g, r
  <1>3. ASSUME NEW i \in 1..size PROVE (IF i <= g THEN mem[a + i - 1] ELSE 0) \in Nat
    <2>1. i <= g => a + i - 1 \in DOMAIN mem
      BY <1>2
    <2>2. QED
      BY <2>1 DEF IsMemory
  <1>4. r \in [1..size -> Nat]
    BY <1>1, <1>3
  <1>5. r \in Seq(Nat) /\ Len(r) = size
    BY <1>4, IsASeq, LenProperties
  <1>6. QED
    BY <1>1, <1>4, <1>5 DEF g, r

(* Names are read up to a NUL, or as far as they are known.                *)
LEMMA CStrType ==
  ASSUME NEW mem, IsMemory(mem), NEW a \in Nat, NEW limit \in Nat
  PROVE  /\ CStr(mem, a, limit) \in Seq(Nat)
         /\ Len(CStr(mem, a, limit)) <= limit
         /\ Len(CStr(mem, a, limit)) <= Got(mem, a, limit)
         /\ \A i \in 1..Len(CStr(mem, a, limit)) : CStr(mem, a, limit)[i] = mem[a + i - 1]
         /\ Len(CStr(mem, a, limit)) < Got(mem, a, limit) =>
              mem[a + Len(CStr(mem, a, limit))] = 0
         /\ \A i \in 1..Len(CStr(mem, a, limit)) : CStr(mem, a, limit)[i] # 0
  <1> DEFINE known == Got(mem, a, limit)
             text  == ReadMemory(mem, a, known)
             nuls  == {i \in 1..known : text[i] = 0}
             c == CStr(mem, a, limit)
  <1>1. c = IF nuls = {} THEN text ELSE SubSeq(text, 1, Min(nuls) - 1)
    BY DEF CStr
  <1>2. /\ known \in 0..limit /\ known \in Nat
        /\ \A j \in 1..known : a + j - 1 \in DOMAIN mem
    <2>1. known \in 0..limit /\ \A j \in 1..known : a + j - 1 \in DOMAIN mem
      BY GotIs
    <2> HIDE DEF known
    <2>2. QED
      BY <2>1
  <1>3. Got(mem, a, known) = known
    BY <1>2, GotIs
  <1> HIDE DEF known
  <1>4. /\ text \in Seq(Nat) /\ Len(text) = known
        /\ \A i \in 1..known : text[i] = mem[a + i - 1]
    BY <1>2, <1>3, ReadIs
  <1> HIDE DEF text
  <1>5. nuls # {} => Min(nuls) \in nuls /\ \A y \in nuls : Min(nuls) <= y
    <2>1. nuls \subseteq Nat
      OBVIOUS
    <2> HIDE DEF nuls
    <2>2. QED
      BY <2>1, MinIsLeast
  <1> HIDE DEF c
  <1>6. CASE nuls = {}
    BY <1>1, <1>2, <1>4, <1>6 DEF known, c
  <1>7. CASE nuls # {}
    <2> DEFINE m == Min(nuls)
    <2>1. m \in nuls /\ \A y \in nuls : m <= y
      BY <1>5, <1>7
    <2>2. c = SubSeq(text, 1, m - 1)
      BY <1>1, <1>7
    <2> HIDE DEF m
    <2>3. m \in 1..known /\ text[m] = 0 /\ \A i \in 1..(m - 1) : i \in 1..known /\ text[i] # 0
      BY <1>2, <2>1
    <2>4. /\ c \in Seq(Nat) /\ Len(c) = m - 1
          /\ \A i \in 1..(m - 1) : c[i] = text[i]
      BY <1>2, <1>4, <2>2, <2>3
    <2>5. mem[a + (m - 1)] = 0
      <3>1. a + m - 1 = a + (m - 1)
        BY <1>2, <2>3
      <3>2. QED
        BY <1>4, <2>3, <3>1
    <2>6. m - 1 <= limit /\ m - 1 <= known
      BY <1>2, <2>3
    <2>7. QED
      BY <1>4, <2>3, <2>4, <2>5, <2>6 DEF c, known
  <1>8. QED
    BY <1>6, <1>7

(* Does memory have what is known of the text, and the NUL behind it?      *)
HasText(mem, a, text) ==
  \A x \in 1..(Len(text) + 1) :
    a + x - 1 \in DOMAIN mem => mem[a + x - 1] = Append(text, 0)[x]

LEMMA CStrIsPrefix ==
  ASSUME NEW mem, IsMemory(mem), NEW a \in Nat, NEW limit \in Nat,
         NEW text \in Seq(Nat), HasText(mem, a, text)
  PROVE  IsPrefix(CStr(mem, a, limit), text)
  <1> DEFINE c == CStr(mem, a, limit)
             n == Len(text)
             g == Got(mem, a, limit)
  <1>1. /\ c \in Seq(Nat) /\ Len(c) \in Nat /\ Len(c) <= g
        /\ \A i \in 1..Len(c) : c[i] = mem[a + i - 1]
        /\ \A i \in 1..Len(c) : c[i] # 0
    BY CStrType, LenProperties
  <1>2. g \in Nat /\ \A j \in 1..g : a + j - 1 \in DOMAIN mem
    <2>1. g \in 0..limit /\ \A j \in 1..g : a + j - 1 \in DOMAIN mem
      BY GotIs
    <2> HIDE DEF g
    <2>2. QED
      BY <2>1
  <1>3. /\ n \in Nat
        /\ \A x \in 1..n : Append(text, 0)[x] = text[x]
        /\ Append(text, 0)[n + 1] = 0
    OBVIOUS
  <1> HIDE DEF c, g, n
  <1>4. \A x \in 1..Len(c) : x <= n + 1 => c[x] = Append(text, 0)[x]
    <2> SUFFICES ASSUME NEW x \in 1..Len(c), x <= n + 1 PROVE c[x] = Append(text, 0)[x]
      OBVIOUS
    <2>1. x \in 1..g /\ x \in 1..(n + 1)
      BY <1>1, <1>2, <1>3
    <2>2. a + x - 1 \in DOMAIN mem
      BY <1>2, <2>1
    <2>3. QED
      BY <1>1, <2>1, <2>2 DEF HasText, n
  <1>5. Len(c) <= n
    <2> SUFFICES ASSUME n + 1 <= Len(c) PROVE FALSE
      BY <1>1, <1>3
    <2>1. n + 1 \in 1..Len(c)
      BY <1>1, <1>3
    <2>2. c[n + 1] = Append(text, 0)[n + 1]
      <3>1. n + 1 <= n + 1
        BY ONLY <1>3
      <3>2. QED
        BY ONLY <1>4, <2>1, <3>1, Zenon
    <2>3. QED
      BY ONLY <1>1, <1>3, <2>1, <2>2
  <1>6. \A x \in 1..Len(c) : c[x] = text[x]
    <2> SUFFICES ASSUME NEW x \in 1..Len(c) PROVE c[x] = text[x]
      OBVIOUS
    <2>1. x \in 1..n /\ x <= n + 1
      BY ONLY <1>1, <1>3, <1>5, x \in 1..Len(c)
    <2>2. c[x] = Append(text, 0)[x]
      BY ONLY <1>4, <2>1, x \in 1..Len(c)
    <2>3. QED
      BY ONLY <1>3, <2>1, <2>2
  <1>7. QED
    <2> HIDE DEF c
    <2>1. SubSeq(c, 1, Len(c)) \in Seq(Nat) /\ SubSeq(text, 1, Len(c)) \in Seq(Nat)
          /\ Len(SubSeq(c, 1, Len(c))) = Len(c) /\ Len(SubSeq(text, 1, Len(c))) = Len(c)
          /\ \A x \in 1..Len(c) : SubSeq(c, 1, Len(c))[x] = c[x] /\ SubSeq(text, 1, Len(c))[x] = text[x]
      <3>1. c \in Seq(Nat) /\ text \in Seq(Nat) /\ Len(c) \in Nat /\ Len(text) \in Nat
            /\ Len(c) <= Len(text)
        BY <1>1, <1>5 DEF n
      <3>2. QED
        BY ONLY <3>1
    <2>2. SubSeq(c, 1, Len(c)) = SubSeq(text, 1, Len(c))
      BY <1>6, <2>1, SeqEqual
    <2>3. QED
      BY <1>5, <2>2 DEF IsPrefix, c, n

(* A text that is all known and that the limit has room for is read whole. *)
LEMMA PrefixGives ==
  ASSUME NEW S, NEW s \in Seq(S), NEW t \in Seq(S), IsPrefix(s, t)
  PROVE  /\ Len(s) \in Nat /\ Len(t) \in Nat /\ Len(s) <= Len(t)
         /\ \A k \in 1..Len(s) : s[k] = t[k]
         /\ Len(s) = Len(t) => s = t
  <1>1. Len(s) \in Nat /\ Len(t) \in Nat /\ Len(s) <= Len(t)
    BY DEF IsPrefix
  <1>2. SubSeq(s, 1, Len(s)) = SubSeq(t, 1, Len(s))
    BY DEF IsPrefix
  <1>3. \A k \in 1..Len(s) : SubSeq(s, 1, Len(s))[k] = s[k] /\ SubSeq(t, 1, Len(s))[k] = t[k]
    BY <1>1
  <1>4. \A k \in 1..Len(s) : s[k] = t[k]
    BY <1>2, <1>3
  <1>5. Len(s) = Len(t) => s = t
    BY <1>4, SeqEqual
  <1>6. QED
    BY <1>1, <1>4, <1>5

LEMMA GotReaches ==
  ASSUME NEW mem, NEW a \in Nat, NEW size \in Nat, NEW k \in 0..size,
         \A j \in 1..k : a + j - 1 \in DOMAIN mem
  PROVE  k <= Got(mem, a, size)
  <1> DEFINE T == {0} \cup {i \in 1..size : a..(a + i - 1) \subseteq DOMAIN mem}
  <1>1. T \subseteq 0..size /\ T # {}
    OBVIOUS
  <1>2. Got(mem, a, size) = Max(T)
    BY DEF Got
  <1>3. k \in T
    <2>1. ASSUME NEW x \in a..(a + k - 1) PROVE x \in DOMAIN mem
      <3>1. x - a + 1 \in 1..k /\ a + (x - a + 1) - 1 = x
        OBVIOUS
      <3>2. QED
        BY <3>1
    <2>2. QED
      BY <2>1
  <1> HIDE DEF T
  <1>4. QED
    BY <1>1, <1>2, <1>3, MaxIsGreatest

IsKnownText(mem, a, text) ==
  HasText(mem, a, text) /\ \A k \in 1..Len(text) : a + k - 1 \in DOMAIN mem

LEMMA CStrIsWhole ==
  ASSUME NEW mem, IsMemory(mem), NEW a \in Nat, NEW limit \in Nat,
         NEW text \in Seq(Nat), IsKnownText(mem, a, text),
         0 \notin ToSet(text), Len(text) <= limit
  PROVE  CStr(mem, a, limit) = text
  <1> DEFINE c == CStr(mem, a, limit)
             n == Len(text)
             g == Got(mem, a, limit)
             m == Len(c)
  <1>1. c \in Seq(Nat) /\ (m < g => mem[a + m] = 0)
    BY CStrType
  <1>2. IsPrefix(c, text)
    BY CStrIsPrefix DEF IsKnownText
  <1>3. m \in Nat /\ n \in Nat /\ m <= n /\ (m = n => c = text)
    <2> HIDE DEF c
    <2>1. c \in Seq(Nat) /\ text \in Seq(Nat)
      BY <1>1
    <2>2. /\ Len(c) \in Nat /\ Len(text) \in Nat /\ Len(c) <= Len(text)
          /\ Len(c) = Len(text) => c = text
      BY ONLY <1>2, <2>1, PrefixGives
    <2>3. QED
      BY <2>2
  <1>4. n <= g /\ g \in Nat
    <2>1. n \in 0..limit /\ \A j \in 1..n : a + j - 1 \in DOMAIN mem
      BY <1>3 DEF IsKnownText
    <2> HIDE DEF n
    <2>2. n <= g
      BY <2>1, GotReaches
    <2>3. g \in 0..limit
      BY GotIs
    <2>4. QED
      BY <2>2, <2>3
  <1>5. m = n
    <2> SUFFICES ASSUME m < n PROVE FALSE
      BY <1>3
    <2>1. m < g /\ m + 1 \in 1..n /\ m + 1 \in 1..(n + 1) /\ a + (m + 1) - 1 = a + m
      <3> HIDE DEF m, n, g
      <3>1. QED
        BY <1>3, <1>4
    <2>2. mem[a + m] = 0
      BY <1>1, <2>1
    <2>3. a + (m + 1) - 1 \in DOMAIN mem
      BY <2>1 DEF IsKnownText
    <2>4. mem[a + (m + 1) - 1] = Append(text, 0)[m + 1]
      BY <2>1, <2>3 DEF IsKnownText, HasText
    <2>5. Append(text, 0)[m + 1] = text[m + 1]
      <3>1. \A k \in 1..Len(text) : Append(text, 0)[k] = text[k]
        BY ONLY text \in Seq(Nat)
      <3>2. QED
        BY <2>1, <3>1, Zenon
    <2>6. text[m + 1] = 0
      BY <2>1, <2>2, <2>4, <2>5
    <2>7. text[m + 1] \in ToSet(text)
      <3> HIDE DEF m
      <3>1. DOMAIN text = 1..n
        OBVIOUS
      <3>2. QED
        BY <2>1, <3>1 DEF ToSet
    <2>8. QED
      BY <2>6, <2>7
  <1>6. QED
    BY <1>3, <1>5

LEMMA CStrIsThere ==
  ASSUME NEW mem, IsMemory(mem), NEW a \in DOMAIN mem, mem[a] # 0, NEW limit \in Nat \ {0}
  PROVE  CStr(mem, a, limit) # <<>>
  <1> SUFFICES ASSUME CStr(mem, a, limit) = <<>> PROVE FALSE
    OBVIOUS
  <1>1. a \in Nat /\ a + 0 = a
    BY DEF IsMemory
  <1>2. Len(CStr(mem, a, limit)) = 0
    OBVIOUS
  <1>3. Got(mem, a, limit) \in Nat /\ Got(mem, a, limit) # 0
    BY <1>1, GotIs
  <1>4. mem[a + 0] = 0
    BY <1>1, <1>2, <1>3, CStrType
  <1>5. QED
    BY <1>1, <1>4
----------------------------------------------------------------------------
(* A walk along a table ends, as there is only so much known.  The places  *)
(* it looks at are f's; E are those at which it may end.                   *)
LEMMA WalkEnds ==
  ASSUME NEW mem, IsMemory(mem), NEW E, NEW f \in [Nat -> Nat],
         \A i, j \in Nat : f[i] = f[j] => i = j,
         \A i \in Nat : i \notin E => f[i] \in DOMAIN mem
  PROVE  LET m == Min({i \in 0..Cardinality(DOMAIN mem) : i \in E})
         IN m \in Nat /\ m \in E /\ \A i \in 0..(m - 1) : i \notin E
  <1> DEFINE c == Cardinality(DOMAIN mem)
             T == {i \in 0..c : i \in E}
  <1>1. c \in Nat
    BY FS_CardinalityType DEF IsMemory
  <1> HIDE DEF c
  <1>2. T # {}
    <2> SUFFICES ASSUME T = {} PROVE FALSE
      OBVIOUS
    <2>1. \A i \in 0..c : i \in Nat /\ f[i] \in DOMAIN mem
      BY <1>1
    <2> DEFINE g == [i \in 0..c |-> f[i]]
    <2>2. g \in [0..c -> DOMAIN mem]
      BY <2>1
    <2>3. IsFiniteSet(0..c) /\ Cardinality(0..c) = c + 1
      BY <1>1, FS_Interval
    <2>4. IsFiniteSet(DOMAIN mem) /\ Cardinality(DOMAIN mem) < Cardinality(0..c)
      BY <1>1, <2>3 DEF IsMemory, c
    <2>5. \A i \in 0..c : g[i] = f[i]
      OBVIOUS
    <2> HIDE DEF g
    <2>6. \E x, y \in 0..c : x # y /\ g[x] = g[y]
      BY ONLY <2>2, <2>3, <2>4, FS_PigeonHole
    <2>7. QED
      BY <2>1, <2>5, <2>6
  <1>3. T \subseteq Nat
    BY <1>1
  <1>4. Min(T) \in T /\ \A y \in T : Min(T) <= y
    <2> HIDE DEF T
    <2>1. QED
      BY <1>2, <1>3, MinIsLeast
  <1> DEFINE m == Min(T)
  <1>5. m \in T /\ \A y \in T : m <= y
    BY <1>4
  <1> HIDE DEF m
  <1>6. m \in Nat /\ m \in E /\ m <= c
    BY <1>1, <1>5
  <1>7. \A i \in 0..(m - 1) : i \notin E
    <2> SUFFICES ASSUME NEW i \in 0..(m - 1), i \in E PROVE FALSE
      OBVIOUS
    <2>1. i \in T
      BY <1>1, <1>6
    <2>2. QED
      BY <1>5, <1>6, <2>1
  <1>8. QED
    BY <1>6, <1>7 DEF m, c
----------------------------------------------------------------------------
(* Where the parts of an image are, and what can be read of them.          *)
LEMMA ImageType ==
  ASSUME NEW image \in Images
  PROVE  /\ image.is64 \in BOOLEAN
         /\ image.sections \in Seq([exec : BOOLEAN, data : Seq(Nat), texts : Seq(Seq(Nat))])
         /\ image.exports \in Seq([name : Seq(Nat), rva : Nat])
         /\ image.imports \in
              Seq([dll : Seq(Nat), bound : BOOLEAN,
                   names : Seq([ordinal : BOOLEAN, text : Seq(Nat)])])
  <1>1. image \in Image
    BY PrepareAssumption
  <1>2. QED
    BY <1>1 DEF Image

LEMMA PutIs ==
  ASSUME NEW a \in Nat, NEW cells \in Seq(Nat)
  PROVE  /\ DOMAIN Put(a, cells) = a..(a + Len(cells) - 1)
         /\ \A i \in 1..Len(cells) : /\ a + i - 1 \in DOMAIN Put(a, cells)
                                     /\ Put(a, cells)[a + i - 1] = cells[i]
  <1>1. Len(cells) \in Nat
    OBVIOUS
  <1>2. DOMAIN Put(a, cells) = a..(a + Len(cells) - 1)
    BY DEF Put
  <1>3. ASSUME NEW i \in 1..Len(cells)
        PROVE  a + i - 1 \in DOMAIN Put(a, cells) /\ Put(a, cells)[a + i - 1] = cells[i]
    <2>1. a + i - 1 \in a..(a + Len(cells) - 1) /\ (a + i - 1) - a + 1 = i
      BY <1>1
    <2>2. QED
      BY <1>2, <2>1 DEF Put
  <1>4. QED
    BY <1>2, <1>3

LEMMA PartIs ==
  ASSUME NEW image \in Images, NEW p \in Parts(image), NEW x \in DOMAIN p
  PROVE  /\ x \in Nat /\ x < OrdinalFlag
         /\ x \in DOMAIN Mapped[image] /\ Mapped[image][x] = p[x]
  <1> DEFINE D == UNION {DOMAIN part : part \in Parts(image)}
             q == CHOOSE part \in Parts(image) : x \in DOMAIN part
  <1>1. Mapped[image] = [y \in D |-> (CHOOSE part \in Parts(image) : y \in DOMAIN part)[y]]
    BY DEF Mapped
  <1>2. x \in D
    OBVIOUS
  <1>3. DOMAIN Mapped[image] = D /\ Mapped[image][x] = q[x]
    <2> HIDE DEF D
    <2>1. QED
      BY <1>1, <1>2
  <1>4. q \in Parts(image) /\ x \in DOMAIN q
    BY Zenon
  <1>5. q[x] = p[x]
    <2> HIDE DEF q
    <2>1. x \in DOMAIN p \cap DOMAIN q
      BY <1>4
    <2>2. QED
      BY <1>4, <2>1, ImageAssumption
  <1>6. DOMAIN Mapped[image] \subseteq 0..(OrdinalFlag - 1) /\ OrdinalFlag \in Nat
    BY ImageAssumption, PeAssumption
  <1>7. QED
    BY <1>2, <1>3, <1>5, <1>6

(* An image at a base, with nothing else where its cells are.              *)
LEMMA CellIs ==
  ASSUME NEW mem, IsMemory(mem), NEW image \in Images, NEW b \in Nat,
         HasCells(mem, image, b), NEW p \in Parts(image), NEW x \in DOMAIN p
  PROVE  /\ b + x \in DOMAIN mem => mem[b + x] = p[x]
         /\ ReadMemory(mem, b + x, 1)[1] = IF b + x \in DOMAIN mem THEN p[x] ELSE 0
  <1>1. x \in Nat /\ x \in DOMAIN Mapped[image] /\ Mapped[image][x] = p[x]
    BY PartIs
  <1>2. b + x \in DOMAIN mem => mem[b + x] = p[x]
    BY <1>1 DEF HasCells
  <1> DEFINE a == b + x
  <1>3. a \in Nat /\ a + 1 - 1 = a /\ 1 \in Nat /\ 1 \in 1..1
    BY <1>1
  <1> HIDE DEF a
  <1>4. ReadMemory(mem, a, 1)[1] = IF 1 <= Got(mem, a, 1) THEN mem[a + 1 - 1] ELSE 0
    BY <1>3, ReadIs
  <1>5. Got(mem, a, 1) \in 0..1
    BY <1>3, GotIs
  <1>6. Got(mem, a, 1) # 0 <=> a \in DOMAIN mem
    <2>1. a \in DOMAIN mem => Got(mem, a, 1) # 0
      BY <1>3, GotIs
    <2>2. a \notin DOMAIN mem => Got(mem, a, 1) = 0
      BY <1>3, GotIs
    <2>3. QED
      BY <2>1, <2>2
  <1>7. QED
    BY <1>2, <1>3, <1>4, <1>5, <1>6 DEF a

(* A structure that is all in an image is known whole or not at all.       *)
LEMMA UncutIs ==
  ASSUME NEW mem, NEW image, NEW b, Uncut(mem, image, b),
         NEW cells \in Structures[image], cells \subseteq DOMAIN Mapped[image]
  PROVE  {x \in cells : b + x \in DOMAIN mem} \in {{}, cells}
  <1>1. cells \cap DOMAIN Mapped[image] = cells
    OBVIOUS
  <1>2. QED
    BY <1>1, Zenon DEF Uncut

(* A structure of n cells from a on, in a part.                            *)
IsStructure(image, p, a, n) ==
  /\ p \in Parts(image) /\ a \in Nat /\ n \in Nat \ {0}
  /\ a..(a + n - 1) \in Structures[image]
  /\ a..(a + n - 1) \subseteq DOMAIN p

LEMMA StructureIs ==
  ASSUME NEW mem, IsMemory(mem), NEW image \in Images, NEW b \in Nat,
         HasCells(mem, image, b), Uncut(mem, image, b),
         NEW p, NEW a, NEW n, IsStructure(image, p, a, n)
  PROVE  /\ b + a \in DOMAIN mem => \A i \in 1..n : ReadMemory(mem, b + a, n)[i] = p[a + i - 1]
         /\ b + a \notin DOMAIN mem => \A i \in 1..n : ReadMemory(mem, b + a, n)[i] = 0
  <1> DEFINE cells == a..(a + n - 1)
             known == {x \in cells : b + x \in DOMAIN mem}
  <1>0. /\ p \in Parts(image) /\ a \in Nat /\ n \in Nat \ {0}
        /\ cells \in Structures[image] /\ cells \subseteq DOMAIN p
    BY DEF IsStructure
  <1>1. cells \subseteq DOMAIN Mapped[image]
    BY <1>0, PartIs
  <1>3. known \in {{}, cells}
    BY <1>0, <1>1, UncutIs
  <1> DEFINE e == b + a
  <1>4. a \in cells /\ e \in Nat /\ n \in Nat
    BY <1>0
  <1>5. \A i \in 1..n : ReadMemory(mem, e, n)[i] =
          IF i <= Got(mem, e, n) THEN mem[e + i - 1] ELSE 0
    <2> HIDE DEF e
    <2>1. QED
      BY ONLY IsMemory(mem), <1>4, ReadIs
  <1>6. CASE e \in DOMAIN mem
    <2>1. known = cells
      BY <1>3, <1>4, <1>6
    <2>2. ASSUME NEW i \in 1..n
          PROVE  /\ e + i - 1 \in DOMAIN mem
                 /\ mem[e + i - 1] = p[a + i - 1]
      <3>1. a + i - 1 \in cells /\ e + i - 1 = b + (a + i - 1)
        BY <1>0
      <3>2. b + (a + i - 1) \in DOMAIN mem /\ a + i - 1 \in DOMAIN p
        BY <1>0, <2>1, <3>1
      <3>3. mem[b + (a + i - 1)] = p[a + i - 1]
        BY <1>0, <3>2, CellIs
      <3>4. QED
        BY <3>1, <3>2, <3>3
    <2> HIDE DEF e
    <2>3. Got(mem, e, n) = n
      BY <1>4, <2>2, GotIs
    <2>4. \A i \in 1..n : ReadMemory(mem, e, n)[i] = p[a + i - 1]
      BY ONLY <1>4, <1>5, <2>2, <2>3
    <2>5. QED
      BY <1>6, <2>4 DEF e
  <1>7. CASE e \notin DOMAIN mem
    <2> HIDE DEF e
    <2>1. Got(mem, e, n) = 0
      BY <1>4, <1>7, GotIs
    <2>2. \A i \in 1..n : ReadMemory(mem, e, n)[i] = 0
      BY ONLY <1>4, <1>5, <2>1
    <2>3. QED
      BY <1>7, <2>2 DEF e
  <1>8. QED
    BY <1>6, <1>7

----------------------------------------------------------------------------
(* The offsets of what an image has.                                       *)
LEMMA Bases ==
  /\ ExportDirAt \in Nat /\ ExportDirAt # 0 /\ ExportDirSize \in Nat /\ ExportDirSize # 0
  /\ FunctionsAt \in Nat /\ NamesAt \in Nat /\ OrdinalsAt \in Nat
  /\ ImportDirAt \in Nat /\ ImportDirAt # 0
  /\ \A c \in CodeAt : c \in Nat /\ c # 0 /\ c \notin Forwarders
  <1>1. QED
    BY LayoutAssumption

LEMMA Places ==
  ASSUME NEW image \in Images
  PROVE  /\ \A i \in 1..Len(image.exports) : NameAt(i) \in Nat
         /\ \A i \in 1..Len(image.imports) :
              /\ DllAt(i) \in Nat /\ LookupAt(i) \in Nat /\ SlotsAt(i) \in Nat
              /\ DllAt(i) # 0 /\ LookupAt(i) # 0 /\ SlotsAt(i) # 0
              /\ \A t \in 1..Len(image.imports[i].names) :
                   HintAt(i, t) \in Nat /\ HintAt(i, t) # 0
         /\ \A i \in 1..Len(image.sections) : DataAt(i) \in Nat
  <1>1. /\ DOMAIN image.exports = 1..Len(image.exports)
        /\ DOMAIN image.imports = 1..Len(image.imports)
        /\ DOMAIN image.sections = 1..Len(image.sections)
    BY ImageType
  <1>2. \A i \in DOMAIN image.exports : NameAt(i) \in Nat
    BY LayoutAssumption
  <1>3. \A i \in DOMAIN image.sections : DataAt(i) \in Nat
    BY LayoutAssumption
  <1>4. ASSUME NEW i \in 1..Len(image.imports)
        PROVE  /\ DllAt(i) \in Nat /\ LookupAt(i) \in Nat /\ SlotsAt(i) \in Nat
               /\ DllAt(i) # 0 /\ LookupAt(i) # 0 /\ SlotsAt(i) # 0
               /\ \A t \in 1..Len(image.imports[i].names) :
                    HintAt(i, t) \in Nat /\ HintAt(i, t) # 0
    <2>1. /\ {DllAt(i), LookupAt(i), SlotsAt(i)} \subseteq Nat \ {0}
          /\ \A t \in DOMAIN image.imports[i].names : HintAt(i, t) \in Nat \ {0}
      BY <1>1, LayoutAssumption
    <2>2. DOMAIN image.imports[i].names = 1..Len(image.imports[i].names)
      <3>1. image.imports[i].names \in Seq([ordinal : BOOLEAN, text : Seq(Nat)])
        <4>1. image.imports \in
                Seq([dll : Seq(Nat), bound : BOOLEAN,
                     names : Seq([ordinal : BOOLEAN, text : Seq(Nat)])])
          BY ImageType
        <4>2. image.imports[i] \in
                [dll : Seq(Nat), bound : BOOLEAN,
                 names : Seq([ordinal : BOOLEAN, text : Seq(Nat)])]
          BY <4>1, ElementOfSeq
        <4>3. QED
          BY ONLY <4>2
      <3>2. QED
        BY <3>1
    <2>3. QED
      BY <2>1, <2>2
  <1>5. QED
    BY <1>1, <1>2, <1>3, <1>4

(* The headers of an image.                                                *)
LEMMA OptionalHeaderIs ==
  ASSUME NEW image \in Images
  PROVE  LET opt   == OptionalHeader(image)
             magic == IF image.is64 THEN Magic64 ELSE Magic32
             first == Directories(magic)
         IN /\ opt \in Seq(Nat) /\ Len(opt) = first + 3 /\ first \in {2, 3}
            /\ opt[1] = magic
            /\ opt[first] = IF image.exports = <<>> THEN 0 ELSE ExportDirAt
            /\ opt[first + 1] = IF image.exports = <<>> THEN 0 ELSE ExportDirSize
            /\ opt[first + 2] = IF image.imports = <<>> THEN 0 ELSE ImportDirAt
            /\ opt[first + 3] = IF image.imports = <<>> THEN 0 ELSE 3 * (Len(image.imports) + 1)
  <1> DEFINE head == IF image.is64 THEN <<Magic64, 0>> ELSE <<Magic32>>
             e1 == IF image.exports = <<>> THEN 0 ELSE ExportDirAt
             e2 == IF image.exports = <<>> THEN 0 ELSE ExportDirSize
             i1 == IF image.imports = <<>> THEN 0 ELSE ImportDirAt
             i2 == IF image.imports = <<>> THEN 0 ELSE 3 * (Len(image.imports) + 1)
             magic == IF image.is64 THEN Magic64 ELSE Magic32
             first == Directories(magic)
  <1>1. OptionalHeader(image) = (head \o <<e1, e2>>) \o <<i1, i2>>
    BY DEF OptionalHeader
  <1>2. e1 \in Nat /\ e2 \in Nat /\ i1 \in Nat /\ i2 \in Nat
    <2>1. Len(image.imports) \in Nat
      BY ImageType
    <2>2. QED
      BY <2>1, Bases
  <1>3. /\ head \in Seq(Nat) /\ Len(head) = first - 1 /\ head[1] = magic /\ first \in {2, 3}
    <2>1. CASE image.is64
      BY <2>1 DEF Magic64, Directories
    <2>2. CASE ~image.is64
      BY <2>2 DEF Magic32, Magic64, Directories
    <2>3. QED
      BY <2>1, <2>2
  <1> HIDE DEF head, e1, e2, i1, i2, first
  <1> DEFINE x == <<e1, e2>>
             y == <<i1, i2>>
             front == head \o x
  <1>4. /\ x \in Seq(Nat) /\ Len(x) = 2 /\ x[1] = e1 /\ x[2] = e2
        /\ y \in Seq(Nat) /\ Len(y) = 2 /\ y[1] = i1 /\ y[2] = i2
    BY <1>2
  <1> HIDE DEF x, y
  <1>5. /\ front \in Seq(Nat) /\ Len(front) = first + 1
        /\ \A k \in 1..(first - 1) : front[k] = head[k]
        /\ front[first] = e1 /\ front[first + 1] = e2
    <2>1. /\ front \in Seq(Nat) /\ Len(front) = Len(head) + Len(x)
          /\ \A k \in 1..Len(head) : front[k] = head[k]
          /\ \A k \in 1..Len(x) : front[Len(head) + k] = x[k]
      <3>1. head \in Seq(Nat) /\ x \in Seq(Nat)
        BY <1>3, <1>4
      <3>2. QED
        BY ONLY <3>1, JoinFacts
    <2> HIDE DEF front
    <2>2. front[Len(head) + 1] = x[1] /\ front[Len(head) + 2] = x[2]
      BY ONLY <2>1, <1>4
    <2>3. QED
      BY ONLY <1>3, <1>4, <2>1, <2>2
  <1> HIDE DEF front
  <1>6. /\ front \o y \in Seq(Nat) /\ Len(front \o y) = first + 3
        /\ \A k \in 1..(first + 1) : (front \o y)[k] = front[k]
        /\ (front \o y)[first + 2] = i1 /\ (front \o y)[first + 3] = i2
    <2>1. /\ front \o y \in Seq(Nat) /\ Len(front \o y) = Len(front) + Len(y)
          /\ \A k \in 1..Len(front) : (front \o y)[k] = front[k]
          /\ \A k \in 1..Len(y) : (front \o y)[Len(front) + k] = y[k]
      <3>1. front \in Seq(Nat) /\ y \in Seq(Nat)
        BY <1>4, <1>5
      <3>2. QED
        BY ONLY <3>1, JoinFacts
    <2>2. (front \o y)[Len(front) + 1] = y[1] /\ (front \o y)[Len(front) + 2] = y[2]
      BY ONLY <2>1, <1>4
    <2>3. QED
      BY ONLY <1>3, <1>4, <1>5, <2>1, <2>2
  <1>7. OptionalHeader(image) = front \o y
    BY <1>1 DEF front, x, y
  <1>8. /\ 1 \in 1..(first - 1) /\ 1 \in 1..(first + 1)
        /\ first \in 1..(first + 1) /\ first + 1 \in 1..(first + 1)
    BY <1>3
  <1>9. /\ OptionalHeader(image)[1] = magic
        /\ OptionalHeader(image)[first] = e1
        /\ OptionalHeader(image)[first + 1] = e2
    BY ONLY <1>3, <1>5, <1>6, <1>7, <1>8
  <1>10. /\ OptionalHeader(image) \in Seq(Nat) /\ Len(OptionalHeader(image)) = first + 3
         /\ OptionalHeader(image)[first + 2] = i1
         /\ OptionalHeader(image)[first + 3] = i2
    BY ONLY <1>6, <1>7
  <1>11. QED
    BY ONLY <1>3, <1>9, <1>10 DEF first, e1, e2, i1, i2

(* The header of a section.                                                *)
SectionHeader(image, i) ==
  <<i, DataAt(i), Len(image.sections[i].data), 0, IF image.sections[i].exec THEN 1 ELSE 0>>

LEMMA HeaderCellsAre ==
  ASSUME NEW image \in Images
  PROVE  LET h == HeaderCells(image)
             L == Len(OptionalHeader(image))
             n == Len(image.sections)
         IN /\ h \in Seq(Nat) /\ L \in Nat /\ n \in Nat
            /\ Len(h) = 7 + L + 5 * n
            /\ h[1] = DosMagic /\ h[2] = 4 /\ h[5] = NtMagic /\ h[6] = n /\ h[7] = L
            /\ \A k \in 1..L : h[7 + k] = OptionalHeader(image)[k]
            /\ \A i \in 1..n : \A j \in 1..5 :
                 h[7 + L + 5 * (i - 1) + j] = SectionHeader(image, i)[j]
  <1> DEFINE opt == OptionalHeader(image)
             L == Len(opt)
             n == Len(image.sections)
             top == <<DosMagic, 4, 0, 0, NtMagic, n, L>>
             s == [i \in DOMAIN image.sections |-> SectionHeader(image, i)]
             flat == FlattenSeq(s)
             front == top \o opt
             h == HeaderCells(image)
  <1>1. opt \in Seq(Nat)
    BY OptionalHeaderIs
  <1>2. n \in Nat /\ DOMAIN image.sections = 1..n
        /\ \A i \in 1..n : /\ Len(image.sections[i].data) \in Nat
                           /\ image.sections[i].exec \in BOOLEAN
    <2>1. image.sections \in Seq([exec : BOOLEAN, data : Seq(Nat), texts : Seq(Seq(Nat))])
      BY ImageType
    <2>2. n \in Nat /\ DOMAIN image.sections = 1..n
      BY <2>1
    <2>3. ASSUME NEW i \in 1..n
          PROVE  /\ Len(image.sections[i].data) \in Nat
                 /\ image.sections[i].exec \in BOOLEAN
      <3>1. image.sections[i] \in [exec : BOOLEAN, data : Seq(Nat), texts : Seq(Seq(Nat))]
        BY <2>1, <2>3, ElementOfSeq
      <3>2. image.sections[i].data \in Seq(Nat)
        BY <3>1
      <3>3. QED
        BY <3>1, <3>2
    <2>4. QED
      BY <2>2, <2>3
  <1>3. h = front \o flat
    BY DEF HeaderCells, SectionHeader
  <1> HIDE DEF opt, n, h
  <1>4. L \in Nat
    BY <1>1
  <1> HIDE DEF L
  <1>5. /\ top \in Seq(Nat) /\ Len(top) = 7
        /\ top[1] = DosMagic /\ top[2] = 4 /\ top[5] = NtMagic /\ top[6] = n /\ top[7] = L
    BY <1>2, <1>4 DEF DosMagic, NtMagic
  <1> HIDE DEF top
  <1>6. ASSUME NEW i \in 1..n
        PROVE  SectionHeader(image, i) \in Seq(Nat) /\ Len(SectionHeader(image, i)) = 5
    <2> DEFINE len == Len(image.sections[i].data)
               e == IF image.sections[i].exec THEN 1 ELSE 0
    <2>1. len \in Nat /\ e \in Nat /\ i \in Nat /\ DataAt(i) \in Nat
      BY <1>2, Places
    <2>2. SectionHeader(image, i) = <<i, DataAt(i), len, 0, e>>
      BY DEF SectionHeader
    <2> HIDE DEF len, e
    <2>3. QED
      BY ONLY <2>1, <2>2
  <1>7. s \in Seq(Seq(Nat)) /\ Len(s) = n /\ \A i \in 1..n : s[i] = SectionHeader(image, i)
    <2>1. s \in [1..n -> Seq(Nat)]
      BY <1>2, <1>6
    <2>2. \A i \in 1..n : s[i] = SectionHeader(image, i)
      BY <1>2
    <2> HIDE DEF s
    <2>3. QED
      BY <1>2, <2>1, <2>2
  <1> HIDE DEF s
  <1>8. /\ flat \in Seq(Nat) /\ Len(flat) = 5 * n
        /\ \A i \in 1..n : \A j \in 1..5 : flat[5 * (i - 1) + j] = SectionHeader(image, i)[j]
    <2>1. flat \in Seq(Nat)
      BY <1>7, FlattenFacts
    <2>2. \A i \in 1..Len(s) : Len(s[i]) = 5
      BY <1>6, <1>7
    <2>3. /\ Len(flat) = 5 * Len(s)
          /\ \A i \in 1..Len(s) : \A j \in 1..5 : flat[5 * (i - 1) + j] = s[i][j]
      <3>1. 5 \in {1, 2, 3, 5}
        OBVIOUS
      <3>2. QED
        <4>1. s \in Seq(Seq(Nat))
          BY <1>7
        <4>2. QED
          BY ONLY <4>1, <2>2, <3>1, FlattenEven
    <2>4. QED
      BY <1>7, <2>1, <2>3
  <1> HIDE DEF flat
  <1>9. /\ front \in Seq(Nat) /\ Len(front) = 7 + L
        /\ \A k \in 1..7 : front[k] = top[k]
        /\ \A k \in 1..L : front[7 + k] = opt[k]
    <2>1. top \in Seq(Nat) /\ opt \in Seq(Nat)
      BY <1>1, <1>5
    <2>2. /\ front \in Seq(Nat) /\ Len(front) = Len(top) + Len(opt)
          /\ \A k \in 1..Len(top) : front[k] = top[k]
          /\ \A k \in 1..Len(opt) : front[Len(top) + k] = opt[k]
      BY ONLY <2>1, JoinFacts
    <2> HIDE DEF front
    <2>3. QED
      BY ONLY <1>5, <2>2 DEF L
  <1> HIDE DEF front
  <1>10. /\ h \in Seq(Nat) /\ Len(h) = 7 + L + 5 * n
         /\ \A k \in 1..(7 + L) : h[k] = front[k]
         /\ \A k \in 1..(5 * n) : h[7 + L + k] = flat[k]
    <2>1. front \in Seq(Nat) /\ flat \in Seq(Nat)
      BY <1>8, <1>9
    <2>2. /\ h \in Seq(Nat) /\ Len(h) = Len(front) + Len(flat)
          /\ \A k \in 1..Len(front) : h[k] = front[k]
          /\ \A k \in 1..Len(flat) : h[Len(front) + k] = flat[k]
      BY ONLY <1>3, <2>1, JoinFacts
    <2>3. QED
      BY ONLY <1>8, <1>9, <2>2
  <1>11. h[1] = DosMagic /\ h[2] = 4 /\ h[5] = NtMagic /\ h[6] = n /\ h[7] = L
    <2>1. \A k \in 1..7 : k \in 1..(7 + L)
      BY <1>4
    <2>2. \A k \in 1..7 : h[k] = top[k]
      BY <1>9, <1>10, <2>1
    <2>3. QED
      BY <1>5, <2>2
  <1>12. \A k \in 1..L : h[7 + k] = opt[k]
    <2>1. \A k \in 1..L : 7 + k \in 1..(7 + L)
      BY <1>4
    <2>2. QED
      BY <1>9, <1>10, <2>1
  <1>13. ASSUME NEW i \in 1..n, NEW j \in 1..5
         PROVE  h[7 + L + 5 * (i - 1) + j] = SectionHeader(image, i)[j]
    <2>1. 5 * (i - 1) + j \in 1..(5 * n) /\ 7 + L + (5 * (i - 1) + j) = 7 + L + 5 * (i - 1) + j
      BY <1>2, <1>4
    <2>2. h[7 + L + (5 * (i - 1) + j)] = flat[5 * (i - 1) + j]
      BY <1>10, <2>1
    <2>3. QED
      BY <1>8, <2>1, <2>2
  <1>14. QED
    BY <1>2, <1>4, <1>10, <1>11, <1>12, <1>13 DEF opt, L, n, h

LEMMA StructuresAre ==
  ASSUME NEW image \in Images
  PROVE  LET L == Len(OptionalHeader(image))
             cells == Structures[image]
         IN /\ 0..1 \in cells /\ 4..6 \in cells /\ ExportDirAt..(ExportDirAt + 4) \in cells
            /\ 7..(7 + L - 1) \in cells
            /\ \A i \in 0..(Len(image.sections) - 1) :
                 (7 + L + 5 * i)..(7 + L + 5 * i + 4) \in cells
            /\ \A i \in 0..Len(image.imports) : (ImportDirAt + 3 * i)..(ImportDirAt + 3 * i + 2) \in cells
  BY DEF Structures

(* What readNTHeaders finds if it finds anything.                          *)
HeadersOf(image, b) ==
  [ok |-> TRUE, is64 |-> image.is64, sections |-> Len(image.sections),
   table |-> b + (7 + Len(OptionalHeader(image))),
   exports |-> [rva |-> IF image.exports = <<>> THEN 0 ELSE ExportDirAt,
                size |-> IF image.exports = <<>> THEN 0 ELSE ExportDirSize],
   imports |-> [rva |-> IF image.imports = <<>> THEN 0 ELSE ImportDirAt,
                size |-> IF image.imports = <<>> THEN 0 ELSE 3 * (Len(image.imports) + 1)]]

LEMMA HeadersAre ==
  ASSUME NEW mem, IsMemory(mem), NEW image \in Images, NEW b \in Nat,
         HasCells(mem, image, b), Uncut(mem, image, b)
  PROVE  /\ Headers(mem, b) \in {NoHeaders, HeadersOf(image, b)}
         /\ IsWhole(mem, image, b) => Headers(mem, b) = HeadersOf(image, b)
  <1> DEFINE h == HeaderCells(image)
             p == Put(0, h)
             L == Len(OptionalHeader(image))
             magic == IF image.is64 THEN Magic64 ELSE Magic32
             first == Directories(magic)
             dos == ReadMemory(mem, b, 2)
             head == ReadMemory(mem, b + 4, 3)
             mag == ReadMemory(mem, b + 7, 1)[1]
             dirs == ReadMemory(mem, b + 7, first + 3)
             e == [rva |-> IF image.exports = <<>> THEN 0 ELSE ExportDirAt,
                   size |-> IF image.exports = <<>> THEN 0 ELSE ExportDirSize]
             m == [rva |-> IF image.imports = <<>> THEN 0 ELSE ImportDirAt,
                   size |-> IF image.imports = <<>> THEN 0 ELSE 3 * (Len(image.imports) + 1)]
  <1>1. /\ h \in Seq(Nat) /\ L \in Nat /\ Len(h) \in Nat /\ Len(h) >= 7 + L
        /\ h[1] = DosMagic /\ h[2] = 4 /\ h[5] = NtMagic
        /\ h[6] = Len(image.sections) /\ h[7] = L
        /\ \A k \in 1..L : h[7 + k] = OptionalHeader(image)[k]
    <2> DEFINE n == Len(image.sections)
    <2>1. /\ h \in Seq(Nat) /\ L \in Nat /\ n \in Nat
          /\ Len(h) = 7 + L + 5 * n
          /\ h[1] = DosMagic /\ h[2] = 4 /\ h[5] = NtMagic /\ h[6] = n /\ h[7] = L
          /\ \A k \in 1..L : h[7 + k] = OptionalHeader(image)[k]
      BY HeaderCellsAre
    <2> HIDE DEF h, L, n
    <2>2. Len(h) \in Nat /\ Len(h) >= 7 + L
      BY <2>1
    <2>3. QED
      BY <2>1, <2>2 DEF n
  <1>2. p \in Parts(image)
    BY DEF Parts
  <1> HIDE DEF h, L
  <1>3. /\ DOMAIN p = 0..(Len(h) - 1)
        /\ \A i \in 1..Len(h) : 0 + i - 1 \in DOMAIN p /\ p[0 + i - 1] = h[i]
    <2>1. DOMAIN p = 0..(0 + Len(h) - 1)
      BY <1>1, PutIs
    <2>2. \A i \in 1..Len(h) : 0 + i - 1 \in DOMAIN p /\ p[0 + i - 1] = h[i]
      BY <1>1, PutIs
    <2>3. Len(h) \in Nat
      BY <1>1
    <2> HIDE DEF p
    <2>4. QED
      BY <2>1, <2>2, <2>3
  <1> HIDE DEF p
  <1>4. \A i \in 1..(7 + L) : i - 1 \in DOMAIN p /\ p[i - 1] = h[i]
    <2>1. \A i \in 1..(7 + L) : i \in 1..Len(h) /\ 0 + i - 1 = i - 1
      BY <1>1
    <2>2. QED
      BY <1>3, <2>1
  <1>5. /\ L = first + 3 /\ first \in {2, 3}
        /\ OptionalHeader(image)[1] = magic
        /\ OptionalHeader(image)[first] = e.rva /\ OptionalHeader(image)[first + 1] = e.size
        /\ OptionalHeader(image)[first + 2] = m.rva /\ OptionalHeader(image)[first + 3] = m.size
    BY OptionalHeaderIs DEF L
  <1>55. L >= 5 /\ L \in Nat /\ Len(h) >= 7 + L /\ Len(h) \in Nat
    BY <1>1, <1>5
  <1>56. /\ 0 \in DOMAIN p /\ 1 \in DOMAIN p /\ p[0] = h[1] /\ p[1] = h[2]
         /\ 4 \in DOMAIN p /\ 5 \in DOMAIN p /\ 6 \in DOMAIN p /\ 7 \in DOMAIN p
         /\ p[4] = h[5] /\ p[5] = h[6] /\ p[6] = h[7] /\ p[7] = h[8]
    <2>1. \A i \in 1..8 : i \in 1..(7 + L)
      BY <1>55
    <2>2. \A i \in 1..8 : i - 1 \in DOMAIN p /\ p[i - 1] = h[i]
      BY <1>4, <2>1
    <2>3. /\ 1 \in 1..8 /\ 2 \in 1..8 /\ 5 \in 1..8 /\ 6 \in 1..8 /\ 7 \in 1..8 /\ 8 \in 1..8
          /\ 1 - 1 = 0 /\ 2 - 1 = 1 /\ 5 - 1 = 4 /\ 6 - 1 = 5 /\ 7 - 1 = 6 /\ 8 - 1 = 7
      OBVIOUS
    <2>4. QED
      BY ONLY <2>2, <2>3
  <1>6. /\ b \in DOMAIN mem => dos[1] = DosMagic /\ dos[2] = 4
        /\ b \notin DOMAIN mem => dos[1] = 0
    <2>1. 0..(0 + 2 - 1) = 0..1 /\ 0..1 \in Structures[image]
      BY StructuresAre
    <2>2. 0..1 \subseteq DOMAIN p /\ p[0] = h[1] /\ p[1] = h[2]
      <3>1. \A x \in 0..1 : x = 0 \/ x = 1
        OBVIOUS
      <3>2. QED
        BY ONLY <1>56, <3>1
    <2>3. IsStructure(image, p, 0, 2)
      BY ONLY <1>2, <2>1, <2>2 DEF IsStructure
    <2>4. /\ b + 0 \in DOMAIN mem => \A i \in 1..2 : ReadMemory(mem, b + 0, 2)[i] = p[0 + i - 1]
          /\ b + 0 \notin DOMAIN mem => \A i \in 1..2 : ReadMemory(mem, b + 0, 2)[i] = 0
      BY <2>3, StructureIs
    <2>5. b + 0 = b /\ 0 + 1 - 1 = 0 /\ 0 + 2 - 1 = 1 /\ 1 \in 1..2 /\ 2 \in 1..2
      OBVIOUS
    <2>6. QED
      BY <1>1, <2>2, <2>4, <2>5
  <1>7. /\ b + 4 \in DOMAIN mem =>
             head[1] = NtMagic /\ head[2] = Len(image.sections) /\ head[3] = L
        /\ b + 4 \notin DOMAIN mem => head[1] = 0
    <2>1. 4..(4 + 3 - 1) = 4..6 /\ 4..6 \in Structures[image]
      BY StructuresAre
    <2>2. 4..6 \subseteq DOMAIN p /\ p[4] = h[5] /\ p[5] = h[6] /\ p[6] = h[7]
      <3>1. \A x \in 4..6 : x = 4 \/ x = 5 \/ x = 6
        OBVIOUS
      <3>2. QED
        BY ONLY <1>56, <3>1
    <2>3. IsStructure(image, p, 4, 3)
      BY ONLY <1>2, <2>1, <2>2 DEF IsStructure
    <2>4. /\ b + 4 \in DOMAIN mem => \A i \in 1..3 : ReadMemory(mem, b + 4, 3)[i] = p[4 + i - 1]
          /\ b + 4 \notin DOMAIN mem => \A i \in 1..3 : ReadMemory(mem, b + 4, 3)[i] = 0
      BY <2>3, StructureIs
    <2>5. /\ 4 + 1 - 1 = 4 /\ 4 + 2 - 1 = 5 /\ 4 + 3 - 1 = 6
          /\ 1 \in 1..3 /\ 2 \in 1..3 /\ 3 \in 1..3
      OBVIOUS
    <2>6. QED
      BY <1>1, <2>2, <2>4, <2>5
  <1>8. mag = IF b + 7 \in DOMAIN mem THEN magic ELSE 0
    <2>1. 1 \in 1..L /\ 7 + 1 = 8
      BY <1>55
    <2>2. 7 \in DOMAIN p /\ p[7] = magic
      BY <1>1, <1>5, <1>56, <2>1
    <2>3. QED
      BY <1>2, <2>2, CellIs
  <1>9. b + 7 \in DOMAIN mem =>
          /\ dirs[first] = e.rva /\ dirs[first + 1] = e.size
          /\ dirs[first + 2] = m.rva /\ dirs[first + 3] = m.size
    <2>1. 7..(7 + L - 1) \in Structures[image]
      BY StructuresAre DEF L
    <2>2. 7..(7 + L - 1) \subseteq DOMAIN p /\ \A k \in 1..L : p[7 + k - 1] = h[7 + k]
      <3>1. \A k \in 1..L : 7 + k \in 1..(7 + L)
        BY <1>1
      <3>2. 7..(7 + L - 1) \subseteq 0..(Len(h) - 1)
        BY <1>1
      <3>3. QED
        BY <1>3, <1>4, <3>1, <3>2
    <2>3. L \in Nat \ {0}
      BY <1>5
    <2>31. IsStructure(image, p, 7, L)
      BY ONLY <1>2, <2>1, <2>2, <2>3 DEF IsStructure
    <2>4. b + 7 \in DOMAIN mem => \A i \in 1..L : ReadMemory(mem, b + 7, L)[i] = p[7 + i - 1]
      BY <2>31, StructureIs
    <2>5. /\ first \in 1..L /\ first + 1 \in 1..L
          /\ first + 2 \in 1..L /\ first + 3 \in 1..L
      BY <1>5
    <2>6. b + 7 \in DOMAIN mem => \A i \in 1..L : dirs[i] = OptionalHeader(image)[i]
      BY <1>1, <1>5, <2>2, <2>4
    <2>7. QED
      BY ONLY <1>5, <2>5, <2>6
  <1> HIDE DEF e, m, magic, first
  <1> HIDE DEF p
  <1>10. ASSUME b \notin DOMAIN mem \/ b + 4 \notin DOMAIN mem \/ b + 7 \notin DOMAIN mem
         PROVE  Headers(mem, b) = NoHeaders
    <2>1. DosMagic # 0 /\ NtMagic # 0 /\ 0 \notin {Magic32, Magic64}
      BY DEF DosMagic, NtMagic, Magic32, Magic64
    <2>2. CASE b \notin DOMAIN mem
      BY <1>6, <2>1, <2>2 DEF Headers
    <2>3. CASE b \in DOMAIN mem /\ b + 4 \notin DOMAIN mem
      BY <1>6, <1>7, <2>1, <2>3 DEF Headers
    <2>4. CASE b \in DOMAIN mem /\ b + 4 \in DOMAIN mem /\ b + 7 \notin DOMAIN mem
      <3>1. dos[2] = 4 /\ mag = 0 /\ b + 4 + 3 = b + 7
        BY <1>6, <1>8, <2>4
      <3>2. QED
        BY <2>1, <3>1 DEF Headers
    <2>5. QED
      BY <1>10, <2>2, <2>3, <2>4
  <1>11. ASSUME b \in DOMAIN mem, b + 4 \in DOMAIN mem, b + 7 \in DOMAIN mem
         PROVE  Headers(mem, b) = HeadersOf(image, b)
    <2>1. /\ dos[1] = DosMagic /\ dos[2] = 4
          /\ head[1] = NtMagic /\ head[2] = Len(image.sections) /\ head[3] = L
          /\ mag = magic /\ b + 4 + 3 = b + 7
      BY <1>6, <1>7, <1>8, <1>11
    <2>2. magic \in {Magic32, Magic64} /\ (magic = Magic64 <=> image.is64)
      BY ImageType DEF magic, Magic32, Magic64
    <2>3. Headers(mem, b) =
            [ok |-> TRUE, is64 |-> magic = Magic64,
             sections |-> head[2], table |-> b + 7 + head[3],
             exports |-> [rva |-> dirs[first], size |-> dirs[first + 1]],
             imports |-> [rva |-> dirs[first + 2], size |-> dirs[first + 3]]]
      BY <2>1, <2>2 DEF Headers, first
    <2>4. /\ (magic = Magic64) = image.is64
          /\ b + 7 + head[3] = b + (7 + L)
      <3>1. (magic = Magic64) = image.is64
        BY <2>2, ImageType, Zenon
      <3>2. b + 7 + head[3] = b + (7 + L)
        BY <1>55, <2>1
      <3>3. QED
        BY <3>1, <3>2
    <2>5. /\ [rva |-> dirs[first], size |-> dirs[first + 1]] = [rva |-> e.rva, size |-> e.size]
          /\ [rva |-> dirs[first + 2], size |-> dirs[first + 3]] = [rva |-> m.rva, size |-> m.size]
      BY <1>9, <1>11
    <2>6. [rva |-> e.rva, size |-> e.size] = e /\ [rva |-> m.rva, size |-> m.size] = m
      BY DEF e, m
    <2>7. Headers(mem, b) =
            [ok |-> TRUE, is64 |-> image.is64,
             sections |-> Len(image.sections), table |-> b + (7 + L), exports |-> e, imports |-> m]
      BY ONLY <2>1, <2>3, <2>4, <2>5, <2>6, Zenon
    <2>8. QED
      BY <2>7, Zenon DEF HeadersOf, e, m, L
  <1>12. ASSUME IsWhole(mem, image, b)
         PROVE  b \in DOMAIN mem /\ b + 4 \in DOMAIN mem /\ b + 7 \in DOMAIN mem
    <2>1. 0 \in DOMAIN p /\ 4 \in DOMAIN p /\ 7 \in DOMAIN p
      BY <1>56
    <2>2. b + 0 \in DOMAIN mem /\ b + 4 \in DOMAIN mem /\ b + 7 \in DOMAIN mem
      BY <1>2, <1>12, <2>1, PartIs DEF IsWhole
    <2>3. QED
      BY <2>2
  <1>13. QED
    BY <1>10, <1>11, <1>12

(* Of a structure that is known in part, each cell is read right or as 0.  *)
LEMMA PartIsRead ==
  ASSUME NEW mem, IsMemory(mem), NEW image \in Images, NEW b \in Nat,
         HasCells(mem, image, b), NEW p \in Parts(image), NEW a \in Nat, NEW n \in Nat,
         a..(a + n - 1) \subseteq DOMAIN p, NEW i \in 1..n
  PROVE  ReadMemory(mem, b + a, n)[i] \in {0, p[a + i - 1]}
  <1> DEFINE e == b + a
             x == a + i - 1
  <1>1. e \in Nat /\ x \in a..(a + n - 1) /\ e + i - 1 = b + x
    OBVIOUS
  <1> HIDE DEF e, x
  <1>2. x \in DOMAIN p
    BY <1>1 DEF x
  <1>3. b + x \in DOMAIN mem => mem[b + x] = p[x]
    BY <1>2, CellIs
  <1>4. ReadMemory(mem, e, n)[i] = IF i <= Got(mem, e, n) THEN mem[e + i - 1] ELSE 0
    BY <1>1, ReadIs
  <1>5. i <= Got(mem, e, n) => e + i - 1 \in DOMAIN mem
    <2>1. Got(mem, e, n) \in 0..n /\ \A j \in 1..Got(mem, e, n) : e + j - 1 \in DOMAIN mem
      BY <1>1, GotIs
    <2>2. i <= Got(mem, e, n) => i \in 1..Got(mem, e, n)
      BY <2>1
    <2>3. QED
      BY <2>1, <2>2
  <1>6. ReadMemory(mem, e, n)[i] \in {0, p[x]}
    BY <1>1, <1>3, <1>4, <1>5
  <1>7. QED
    BY <1>6 DEF e, x

(* What the headers say of the exports if they say anything, known in part *)
(* or not: nothing, or what is so.                                         *)
LEMMA HeadersInPart ==
  ASSUME NEW mem, IsMemory(mem), NEW image \in Images, NEW b \in Nat,
         HasCells(mem, image, b), Headers(mem, b).ok
  PROVE  /\ Headers(mem, b).is64 = image.is64
         /\ ~Absent(Headers(mem, b).exports) =>
              /\ image.exports # <<>>
              /\ Headers(mem, b).exports.rva = ExportDirAt
              /\ Headers(mem, b).exports.size = ExportDirSize
  <1> DEFINE h == HeaderCells(image)
             p == Put(0, h)
             L == Len(OptionalHeader(image))
             magic == IF image.is64 THEN Magic64 ELSE Magic32
             first == Directories(magic)
             nt == ReadMemory(mem, b, 2)[2]
             head == ReadMemory(mem, b + nt, 3)
             opt == b + nt + 3
             mag == ReadMemory(mem, opt, 1)[1]
             dirs == ReadMemory(mem, opt, Directories(mag) + 3)
  <1>1. /\ h \in Seq(Nat) /\ L \in Nat /\ Len(h) \in Nat /\ Len(h) >= 7 + L
        /\ h[1] = DosMagic /\ h[2] = 4
        /\ \A k \in 1..L : h[7 + k] = OptionalHeader(image)[k]
    <2> DEFINE n == Len(image.sections)
    <2>1. /\ h \in Seq(Nat) /\ L \in Nat /\ n \in Nat
          /\ Len(h) = 7 + L + 5 * n
          /\ h[1] = DosMagic /\ h[2] = 4
          /\ \A k \in 1..L : h[7 + k] = OptionalHeader(image)[k]
      BY HeaderCellsAre
    <2> HIDE DEF h, L, n
    <2>2. Len(h) \in Nat /\ Len(h) >= 7 + L
      BY <2>1
    <2>3. QED
      BY <2>1, <2>2
  <1>2. p \in Parts(image)
    BY DEF Parts
  <1>3. /\ L = first + 3 /\ first \in {2, 3}
        /\ OptionalHeader(image)[1] = magic
        /\ OptionalHeader(image)[first] = IF image.exports = <<>> THEN 0 ELSE ExportDirAt
        /\ OptionalHeader(image)[first + 1] = IF image.exports = <<>> THEN 0 ELSE ExportDirSize
    BY OptionalHeaderIs
  <1> HIDE DEF h, L
  <1>4. \A i \in 1..Len(h) : i - 1 \in DOMAIN p /\ p[i - 1] = h[i]
    <2>1. \A i \in 1..Len(h) : 0 + i - 1 \in DOMAIN p /\ p[0 + i - 1] = h[i]
      BY <1>1, PutIs
    <2>2. \A i \in 1..Len(h) : 0 + i - 1 = i - 1
      BY <1>1
    <2>3. QED
      BY ONLY <2>1, <2>2
  <1> HIDE DEF p, magic, first
  <1>5. /\ 0 \in DOMAIN p /\ p[0] = DosMagic /\ 1 \in DOMAIN p /\ p[1] = 4
        /\ 7 \in DOMAIN p /\ p[7] = magic
    <2>1. /\ 1 \in 1..Len(h) /\ 2 \in 1..Len(h) /\ 8 \in 1..Len(h) /\ 1 \in 1..L
          /\ 1 - 1 = 0 /\ 2 - 1 = 1 /\ 8 - 1 = 7 /\ 7 + 1 = 8
      <3>1. L \in Nat /\ L >= 1
        BY ONLY <1>3
      <3>2. Len(h) \in Nat /\ Len(h) >= 8
        BY ONLY <1>1, <3>1
      <3>3. QED
        BY ONLY <3>1, <3>2
    <2>2. h[8] = magic
      BY ONLY <1>1, <1>3, <2>1
    <2>3. /\ 0 \in DOMAIN p /\ p[0] = h[1] /\ 1 \in DOMAIN p /\ p[1] = h[2]
          /\ 7 \in DOMAIN p /\ p[7] = h[8]
      BY ONLY <1>4, <2>1
    <2>4. h[1] = DosMagic /\ h[2] = 4
      BY ONLY <1>1
    <2>5. QED
      BY ONLY <2>2, <2>3, <2>4
  <1>6. Headers(mem, b) # NoHeaders
    BY DEF NoHeaders
  <1>7. /\ ReadMemory(mem, b, 2)[1] = DosMagic /\ head[1] = NtMagic /\ mag \in {Magic32, Magic64}
        /\ Headers(mem, b) =
            [ok |-> TRUE, is64 |-> mag = Magic64,
             sections |-> head[2], table |-> opt + head[3],
             exports |-> [rva |-> dirs[Directories(mag)], size |-> dirs[Directories(mag) + 1]],
             imports |-> [rva |-> dirs[Directories(mag) + 2], size |-> dirs[Directories(mag) + 3]]]
    BY <1>6, Zenon DEF Headers
  <1>8. nt \in {0, 4}
    <2>1. 0..(0 + 2 - 1) \subseteq DOMAIN p
      <3>1. \A x \in 0..(0 + 2 - 1) : x = 0 \/ x = 1
        OBVIOUS
      <3>2. QED
        BY ONLY <1>5, <3>1
    <2>2. 2 \in 1..2 /\ 0 \in Nat /\ 2 \in Nat /\ b + 0 = b /\ 0 + 2 - 1 = 1
      OBVIOUS
    <2>3. ReadMemory(mem, b + 0, 2)[2] \in {0, p[0 + 2 - 1]}
      BY <1>2, <2>1, <2>2, PartIsRead
    <2>4. QED
      BY <1>5, <2>2, <2>3
  <1>9. nt = 4
    <2> SUFFICES ASSUME nt = 0 PROVE FALSE
      BY <1>8
    <2>1. head = ReadMemory(mem, b, 3)
      <3>1. nt = 0 => b + nt = b
        BY ONLY b \in Nat
      <3>2. QED
        BY <3>1
    <2>2. head[1] = ReadMemory(mem, b, 1)[1]
      <3>1. 1 \in 1..3 /\ 1 \in 1..1 /\ 3 \in Nat /\ 1 \in Nat
        OBVIOUS
      <3>2. /\ ReadMemory(mem, b, 3)[1] = IF 1 <= Got(mem, b, 3) THEN mem[b + 1 - 1] ELSE 0
            /\ ReadMemory(mem, b, 1)[1] = IF 1 <= Got(mem, b, 1) THEN mem[b + 1 - 1] ELSE 0
        BY <3>1, ReadIs
      <3>3. /\ Got(mem, b, 3) \in Nat /\ Got(mem, b, 1) \in Nat
            /\ b \in DOMAIN mem => Got(mem, b, 3) # 0 /\ Got(mem, b, 1) # 0
            /\ b \notin DOMAIN mem => Got(mem, b, 3) = 0 /\ Got(mem, b, 1) = 0
        <4>1. ASSUME NEW size \in {1, 3}
              PROVE  /\ Got(mem, b, size) \in Nat
                     /\ b \in DOMAIN mem => Got(mem, b, size) # 0
                     /\ b \notin DOMAIN mem => Got(mem, b, size) = 0
          <5>1. size \in Nat /\ size # 0
            OBVIOUS
          <5>2. Got(mem, b, size) \in 0..size
            BY ONLY <5>1, b \in Nat, GotIs
          <5>3. b \in DOMAIN mem => Got(mem, b, size) # 0
            BY ONLY <5>1, b \in Nat, GotIs
          <5>4. b \notin DOMAIN mem => Got(mem, b, size) = 0
            BY ONLY <5>1, b \in Nat, GotIs
          <5>5. QED
            BY <5>1, <5>2, <5>3, <5>4
        <4>2. QED
          BY <4>1
      <3>4. QED
        BY ONLY <2>1, <3>2, <3>3
    <2>3. b + 0 = b
      OBVIOUS
    <2>4. ReadMemory(mem, b + 0, 1)[1] = IF b + 0 \in DOMAIN mem THEN p[0] ELSE 0
      BY <1>2, <1>5, CellIs
    <2>5. head[1] \in {0, DosMagic}
      BY <1>5, <2>2, <2>3, <2>4
    <2>6. QED
      BY ONLY <1>7, <2>5 DEF NtMagic, DosMagic
  <1>10. opt = b + 7
    BY <1>9
  <1>11. mag = magic
    <2>1. ReadMemory(mem, b + 7, 1)[1] = IF b + 7 \in DOMAIN mem THEN p[7] ELSE 0
      BY <1>2, <1>5, CellIs
    <2>2. mag \in {0, magic}
      BY <1>5, <1>10, <2>1
    <2>3. QED
      BY ONLY <1>7, <2>2 DEF Magic32, Magic64
  <1>12. Headers(mem, b).is64 = image.is64
    <2>1. magic = Magic64 <=> image.is64
      BY DEF magic, Magic32, Magic64
    <2>2. (magic = Magic64) = image.is64
      BY <2>1, ImageType, Zenon
    <2>3. Headers(mem, b).is64 = (mag = Magic64)
      BY <1>7
    <2>4. QED
      BY ONLY <1>11, <2>2, <2>3
  <1>13. ASSUME NEW k \in 1..L
         PROVE  ReadMemory(mem, b + 7, L)[k] \in {0, OptionalHeader(image)[k]}
    <2>1. 7..(7 + L - 1) \subseteq DOMAIN p
      <3>1. \A x \in 7..(7 + L - 1) : x + 1 \in 1..Len(h) /\ x + 1 - 1 = x
        BY <1>1
      <3>2. QED
        BY ONLY <1>4, <3>1
    <2>2. ReadMemory(mem, b + 7, L)[k] \in {0, p[7 + k - 1]}
      BY <1>1, <1>2, <2>1, PartIsRead
    <2>3. 7 + k \in 1..Len(h) /\ 7 + k - 1 = 7 + k - 1
      BY <1>1
    <2>4. p[7 + k - 1] = OptionalHeader(image)[k]
      BY ONLY <1>1, <1>4, <2>3, k \in 1..L
    <2>5. QED
      BY ONLY <2>2, <2>4
  <1>14. /\ Headers(mem, b).exports.rva \in {0, OptionalHeader(image)[first]}
         /\ Headers(mem, b).exports.size \in {0, OptionalHeader(image)[first + 1]}
    <2>1. first \in 1..L /\ first + 1 \in 1..L
      BY <1>3
    <2>2. dirs = ReadMemory(mem, b + 7, L) /\ Directories(mag) = first
      BY <1>3, <1>10, <1>11 DEF first
    <2>3. /\ Headers(mem, b).exports.rva = ReadMemory(mem, b + 7, L)[first]
          /\ Headers(mem, b).exports.size = ReadMemory(mem, b + 7, L)[first + 1]
      BY <1>7, <2>2
    <2>4. QED
      BY <1>13, <2>1, <2>3
  <1>15. ASSUME ~Absent(Headers(mem, b).exports)
         PROVE  /\ image.exports # <<>>
                /\ Headers(mem, b).exports.rva = ExportDirAt
                /\ Headers(mem, b).exports.size = ExportDirSize
    <2>1. Headers(mem, b).exports.rva # 0 /\ Headers(mem, b).exports.size # 0
      BY <1>15 DEF Absent
    <2>2. QED
      BY ONLY <1>3, <1>14, <2>1
  <1>16. ~Absent(Headers(mem, b).exports) => /\ image.exports # <<>>
                                             /\ Headers(mem, b).exports.rva = ExportDirAt
                                             /\ Headers(mem, b).exports.size = ExportDirSize
    BY ONLY <1>15
  <1>17. QED
    BY ONLY <1>12, <1>16, Zenon
----------------------------------------------------------------------------
(* The parsers, whatever is in memory.                                     *)
LEMMA CellType ==
  ASSUME NEW mem, IsMemory(mem), NEW a \in Nat, NEW size \in Nat, NEW i \in 1..size
  PROVE  ReadMemory(mem, a, size)[i] \in Nat
  <1>1. ReadMemory(mem, a, size) \in Seq(Nat) /\ Len(ReadMemory(mem, a, size)) = size
    BY ReadIs
  <1>2. QED
    BY ONLY <1>1, i \in 1..size, ElementOfSeq

HeadersRecord ==
  [ok : BOOLEAN, is64 : BOOLEAN, sections : Nat, table : Nat,
   exports : [rva : Nat, size : Nat], imports : [rva : Nat, size : Nat]]

LEMMA HeadersType ==
  ASSUME NEW mem, IsMemory(mem), NEW b \in Nat
  PROVE  Headers(mem, b) \in HeadersRecord
  <1> DEFINE nt == ReadMemory(mem, b, 2)[2]
             head == ReadMemory(mem, b + nt, 3)
             opt == b + nt + 3
             magic == ReadMemory(mem, opt, 1)[1]
             first == Directories(magic)
             dirs == ReadMemory(mem, opt, first + 3)
  <1>1. nt \in Nat
    <2>1. 2 \in 1..2 /\ 2 \in Nat
      OBVIOUS
    <2>2. QED
      BY ONLY <2>1, IsMemory(mem), b \in Nat, CellType
  <1> HIDE DEF nt
  <1>2. b + nt \in Nat /\ opt \in Nat
    BY <1>1
  <1>3. head[2] \in Nat /\ head[3] \in Nat
    <2> DEFINE e == b + nt
    <2>1. e \in Nat /\ 2 \in 1..3 /\ 3 \in 1..3 /\ 3 \in Nat
      BY <1>2
    <2> HIDE DEF e
    <2>2. ReadMemory(mem, e, 3)[2] \in Nat /\ ReadMemory(mem, e, 3)[3] \in Nat
      BY ONLY <2>1, IsMemory(mem), CellType
    <2>3. QED
      BY <2>2 DEF e
  <1> HIDE DEF opt
  <1>4. first \in {2, 3}
    BY DEF Directories
  <1> HIDE DEF first
  <1>5. /\ dirs[first] \in Nat /\ dirs[first + 1] \in Nat
        /\ dirs[first + 2] \in Nat /\ dirs[first + 3] \in Nat
    <2> DEFINE size == first + 3
    <2>1. /\ size \in Nat /\ first \in 1..size /\ first + 1 \in 1..size
          /\ first + 2 \in 1..size /\ first + 3 \in 1..size
      BY <1>4
    <2> HIDE DEF size
    <2>2. \A i \in 1..size : ReadMemory(mem, opt, size)[i] \in Nat
      BY ONLY <1>2, <2>1, IsMemory(mem), CellType
    <2>3. QED
      BY ONLY <2>1, <2>2 DEF size
  <1> HIDE DEF head, magic, dirs
  <1> DEFINE found ==
        [ok |-> TRUE, is64 |-> magic = Magic64,
         sections |-> head[2], table |-> opt + head[3],
         exports |-> [rva |-> dirs[first], size |-> dirs[first + 1]],
         imports |-> [rva |-> dirs[first + 2], size |-> dirs[first + 3]]]
  <1>6. Headers(mem, b) \in {NoHeaders, found}
    BY Zenon DEF Headers, nt, head, opt, magic, first, dirs
  <1>7. NoHeaders \in HeadersRecord
    BY DEF NoHeaders, HeadersRecord
  <1>8. found \in HeadersRecord
    <2>1. opt + head[3] \in Nat
      BY <1>2, <1>3
    <2>2. (magic = Magic64) \in BOOLEAN
      BY Zenon
    <2>3. QED
      BY ONLY <1>3, <1>5, <2>1, <2>2, Zenon DEF HeadersRecord
  <1>9. QED
    BY ONLY <1>6, <1>7, <1>8

(* The walk along the names of an export directory.                        *)
ExportEnds(mem, b, i) ==
  LET dir == ExportDirectory(mem, b) IN
  \/ i >= dir[2]
  \/ Unreadable(mem, b + dir[4] + i)
  \/ Unreadable(mem, b + dir[5] + i)

CellAt(mem, a) == ReadMemory(mem, a, 1)[1]

OrdinalAt(mem, b, i) == CellAt(mem, b + ExportDirectory(mem, b)[5] + i)
CodeOf(mem, b, i) == CellAt(mem, b + ExportDirectory(mem, b)[3] + OrdinalAt(mem, b, i))
NameOf(mem, b, i) ==
  CStr(mem, b + CellAt(mem, b + ExportDirectory(mem, b)[4] + i), MaxName)

ExportEntry(mem, b, i) ==
  IF /\ OrdinalAt(mem, b, i) < ExportDirectory(mem, b)[1]
     /\ IsOwnCode(Headers(mem, b).exports, CodeOf(mem, b, i))
     /\ NameOf(mem, b, i) # <<>>
    THEN <<[va |-> b + CodeOf(mem, b, i), name |-> NameOf(mem, b, i)]>>
    ELSE <<>>

ExportCount(mem, b) ==
  Min({i \in 0..Cardinality(DOMAIN mem) : ExportEnds(mem, b, i)})

LEMMA ExportListIs ==
  ASSUME NEW mem, NEW b
  PROVE  ExportList(mem, b) =
           IF ~ExportsOk(mem, b) \/ Absent(Headers(mem, b).exports) THEN <<>>
           ELSE FlattenSeq([i \in 1..ExportCount(mem, b) |-> ExportEntry(mem, b, i - 1)])
  BY Zenon DEF ExportList, ExportCount, ExportEnds, ExportEntry, OrdinalAt, CodeOf, NameOf, CellAt,
     FirstEnd

LEMMA DirectoryType ==
  ASSUME NEW mem, IsMemory(mem), NEW b \in Nat
  PROVE  \A k \in 1..5 : ExportDirectory(mem, b)[k] \in Nat
  <1>1. Headers(mem, b).exports.rva \in Nat
    BY HeadersType DEF HeadersRecord
  <1> DEFINE a == b + Headers(mem, b).exports.rva
  <1>2. a \in Nat /\ 5 \in Nat
    BY <1>1
  <1> HIDE DEF a
  <1>3. \A k \in 1..5 : ReadMemory(mem, a, 5)[k] \in Nat
    BY ONLY <1>2, IsMemory(mem), CellType
  <1>4. QED
    BY <1>3 DEF ExportDirectory, a

LEMMA ExportCountIs ==
  ASSUME NEW mem, IsMemory(mem), NEW b \in Nat
  PROVE  /\ ExportCount(mem, b) \in Nat
         /\ ExportEnds(mem, b, ExportCount(mem, b))
         /\ \A i \in 0..(ExportCount(mem, b) - 1) : ~ExportEnds(mem, b, i)
  <1> DEFINE d4 == ExportDirectory(mem, b)[4]
             E == {i \in Nat : ExportEnds(mem, b, i)}
             f == [i \in Nat |-> b + d4 + i]
  <1>1. d4 \in Nat
    BY DirectoryType
  <1>2. /\ f \in [Nat -> Nat] /\ \A i \in Nat : f[i] = b + d4 + i
    BY <1>1
  <1>3. \A i \in Nat : i \notin E => f[i] \in DOMAIN mem
    BY <1>2 DEF ExportEnds, Unreadable
  <1>4. \A i, j \in Nat : f[i] = f[j] => i = j
    <2> HIDE DEF f, d4
    <2>1. QED
      BY <1>1, <1>2
  <1> DEFINE T == {i \in 0..Cardinality(DOMAIN mem) : i \in E}
             m == Min(T)
  <1>5. m \in Nat /\ m \in E /\ \A i \in 0..(m - 1) : i \notin E
    <2> HIDE DEF f, E
    <2>1. QED
      BY ONLY <1>2, <1>3, <1>4, IsMemory(mem), WalkEnds
  <1>6. m = ExportCount(mem, b)
    <2>1. Cardinality(DOMAIN mem) \in Nat
      BY FS_CardinalityType DEF IsMemory
    <2>2. \A i \in 0..Cardinality(DOMAIN mem) : i \in Nat
      BY <2>1
    <2>3. T = {i \in 0..Cardinality(DOMAIN mem) : ExportEnds(mem, b, i)}
      BY <2>2
    <2>4. QED
      BY <2>3 DEF ExportCount
  <1>7. \A i \in 0..(m - 1) : ~ExportEnds(mem, b, i)
    <2>1. \A i \in 0..(m - 1) : i \in Nat
      BY <1>5
    <2> HIDE DEF m
    <2>2. QED
      BY <1>5, <2>1
  <1>8. QED
    BY ONLY <1>5, <1>6, <1>7

LEMMA CellAtType ==
  ASSUME NEW mem, IsMemory(mem), NEW a \in Nat
  PROVE  CellAt(mem, a) \in Nat
  <1>1. 1 \in 1..1 /\ 1 \in Nat
    OBVIOUS
  <1>2. QED
    BY ONLY <1>1, IsMemory(mem), a \in Nat, CellType DEF CellAt

ExportRecord == [va : Nat, name : Seq(Nat)]

(* A name that is reported is one.                                         *)
IsName(name) == Len(name) \in 1..MaxName

LEMMA ExportEntryType ==
  ASSUME NEW mem, IsMemory(mem), NEW b \in Nat, NEW i \in Nat
  PROVE  /\ ExportEntry(mem, b, i) \in Seq(ExportRecord)
         /\ \A e \in ToSet(ExportEntry(mem, b, i)) : IsName(e.name)
  <1> DEFINE d == ExportDirectory(mem, b)
             o == OrdinalAt(mem, b, i)
             c == CodeOf(mem, b, i)
             n == NameOf(mem, b, i)
             e == [va |-> b + c, name |-> n]
  <1>1. \A k \in 1..5 : d[k] \in Nat
    BY DirectoryType
  <1>2. d[3] \in Nat /\ d[4] \in Nat /\ d[5] \in Nat
    BY <1>1
  <1> HIDE DEF d
  <1>3. o \in Nat
    <2>1. b + d[5] + i \in Nat
      BY <1>2
    <2>2. QED
      BY <2>1, CellAtType DEF OrdinalAt, d
  <1> HIDE DEF o
  <1>4. c \in Nat
    <2>1. b + d[3] + o \in Nat
      BY <1>2, <1>3
    <2>2. QED
      BY <2>1, CellAtType DEF CodeOf, d, o
  <1> HIDE DEF c
  <1>5. n \in Seq(Nat) /\ Len(n) <= MaxName
    <2>1. b + d[4] + i \in Nat /\ MaxName \in Nat
      BY <1>2, PeAssumption
    <2>2. CellAt(mem, b + d[4] + i) \in Nat
      BY <2>1, CellAtType
    <2>3. b + CellAt(mem, b + d[4] + i) \in Nat
      BY <2>2
    <2>4. QED
      BY <2>1, <2>3, CStrType DEF NameOf, d
  <1> HIDE DEF n
  <1>6. e \in ExportRecord
    <2>1. b + c \in Nat
      BY <1>4
    <2>2. QED
      BY <2>1, <1>5 DEF ExportRecord
  <1>7. n # <<>> => IsName(n)
    <2>1. Len(n) \in Nat /\ (n # <<>> => Len(n) # 0) /\ MaxName \in Nat
      BY <1>5, PeAssumption
    <2>2. QED
      BY <1>5, <2>1 DEF IsName
  <1>8. e.name = n
    OBVIOUS
  <1> HIDE DEF e
  <1>9. CASE ExportEntry(mem, b, i) = <<>>
    BY <1>9 DEF ToSet
  <1>10. CASE n # <<>> /\ ExportEntry(mem, b, i) = <<e>>
    <2>1. <<e>> \in Seq(ExportRecord) /\ ToSet(<<e>>) = {e}
      BY <1>6 DEF ToSet
    <2>2. QED
      BY <1>7, <1>8, <1>10, <2>1
  <1>11. QED
    BY <1>9, <1>10 DEF ExportEntry, e, n, c

LEMMA ExportListFacts ==
  ASSUME NEW mem, IsMemory(mem), NEW b \in Nat
  PROVE  /\ ExportList(mem, b) \in Seq(ExportRecord)
         /\ ~(~ExportsOk(mem, b) \/ Absent(Headers(mem, b).exports)) =>
              ToSet(ExportList(mem, b)) =
                UNION {ToSet(ExportEntry(mem, b, i - 1)) : i \in 1..ExportCount(mem, b)}
         /\ \A e \in ToSet(ExportList(mem, b)) :
              /\ ExportsOk(mem, b) /\ ~Absent(Headers(mem, b).exports)
              /\ IsName(e.name)
  <1> DEFINE m == ExportCount(mem, b)
             s == [i \in 1..m |-> ExportEntry(mem, b, i - 1)]
  <1>1. m \in Nat
    BY ExportCountIs
  <1> HIDE DEF m
  <1>2. ASSUME NEW i \in 1..m
        PROVE  /\ ExportEntry(mem, b, i - 1) \in Seq(ExportRecord)
               /\ \A e \in ToSet(ExportEntry(mem, b, i - 1)) : IsName(e.name)
    <2>1. i - 1 \in Nat
      OBVIOUS
    <2>2. QED
      BY <2>1, ExportEntryType
  <1>3. /\ s \in Seq(Seq(ExportRecord)) /\ DOMAIN s = 1..m
        /\ \A i \in 1..m : s[i] = ExportEntry(mem, b, i - 1)
    <2>1. s \in [1..m -> Seq(ExportRecord)]
      BY <1>2
    <2>2. s \in Seq(Seq(ExportRecord))
      BY <1>1, <2>1
    <2>3. QED
      BY <2>2
  <1> DEFINE none == ~ExportsOk(mem, b) \/ Absent(Headers(mem, b).exports)
  <1>4. ExportList(mem, b) = IF none THEN <<>> ELSE FlattenSeq(s)
    BY ExportListIs DEF m
  <1> HIDE DEF s, none
  <1>5. /\ FlattenSeq(s) \in Seq(ExportRecord)
        /\ ToSet(FlattenSeq(s)) = UNION {ToSet(s[i]) : i \in DOMAIN s}
    BY <1>3, FlattenFacts
  <1>6. UNION {ToSet(s[i]) : i \in DOMAIN s} =
          UNION {ToSet(ExportEntry(mem, b, i - 1)) : i \in 1..m}
    BY <1>3
  <1>7. \A e \in ToSet(FlattenSeq(s)) : IsName(e.name)
    BY <1>2, <1>5, <1>6
  <1>8. CASE none
    <2>1. ExportList(mem, b) = <<>>
      BY <1>4, <1>8
    <2>2. ExportList(mem, b) \in Seq(ExportRecord) /\ ToSet(ExportList(mem, b)) = {}
      BY <2>1 DEF ToSet
    <2>3. QED
      BY <1>8, <2>2 DEF none
  <1>9. CASE ~none
    <2>1. ExportList(mem, b) = FlattenSeq(s)
      BY <1>4, <1>9
    <2>2. ExportList(mem, b) \in Seq(ExportRecord)
      BY <1>5, <2>1
    <2>3. ToSet(ExportList(mem, b)) =
            UNION {ToSet(ExportEntry(mem, b, i - 1)) : i \in 1..ExportCount(mem, b)}
      BY <1>5, <1>6, <2>1 DEF m
    <2>4. ExportsOk(mem, b) /\ ~Absent(Headers(mem, b).exports)
      BY <1>9 DEF none
    <2>5. QED
      BY <1>7, <2>1, <2>2, <2>3, <2>4
  <1>10. QED
    BY <1>8, <1>9
----------------------------------------------------------------------------
(* What an image exports.                                                  *)
Lies(image, x, value) == \E p \in Parts(image) : x \in DOMAIN p /\ p[x] = value

LEMMA LyingCell ==
  ASSUME NEW mem, IsMemory(mem), NEW image \in Images, NEW b \in Nat,
         HasCells(mem, image, b), NEW x, NEW value, Lies(image, x, value)
  PROVE  /\ CellAt(mem, b + x) = IF b + x \in DOMAIN mem THEN value ELSE 0
         /\ b + x \in DOMAIN mem => mem[b + x] = value
         /\ IsWhole(mem, image, b) => b + x \in DOMAIN mem
  <1>1. PICK p \in Parts(image) : x \in DOMAIN p /\ p[x] = value
    BY DEF Lies
  <1>2. QED
    BY <1>1, CellIs, PartIs DEF CellAt, IsWhole

LEMMA PutLies ==
  ASSUME NEW image \in Images, NEW a \in Nat, NEW cells \in Seq(Nat),
         Put(a, cells) \in Parts(image)
  PROVE  \A i \in 1..Len(cells) : Lies(image, a + i - 1, cells[i])
  BY PutIs DEF Lies

ExportsType(image) ==
  /\ Len(image.exports) \in Nat
  /\ DOMAIN image.exports = 1..Len(image.exports)
  /\ \A i \in 1..Len(image.exports) :
       /\ image.exports[i].rva \in Nat
       /\ image.exports[i].name \in Seq(Nat)
       /\ image.exports[i].name # <<>>
       /\ 0 \notin ToSet(image.exports[i].name)
       /\ image.exports[i].rva \in {0} \cup Forwarders \cup CodeAt

LEMMA ExportsAreTyped ==
  ASSUME NEW image \in Images
  PROVE  ExportsType(image)
  <1>1. image.exports \in Seq([name : Seq(Nat), rva : Nat])
    BY ImageType
  <1>2. Len(image.exports) \in Nat /\ DOMAIN image.exports = 1..Len(image.exports)
    BY <1>1
  <1>3. ASSUME NEW i \in 1..Len(image.exports)
        PROVE  /\ image.exports[i] \in [name : Seq(Nat), rva : Nat]
               /\ image.exports[i] \in ToSet(image.exports)
    BY <1>1, <1>2, <1>3, ElementOfSeq DEF ToSet
  <1>4. QED
    BY <1>2, <1>3, ImageAssumption DEF ExportsType

ExportsLie(image) ==
  LET n == Len(image.exports) IN
  /\ \A i \in 0..(n - 1) :
       /\ Lies(image, FunctionsAt + i, image.exports[n - i].rva)
       /\ Lies(image, NamesAt + i, NameAt(i + 1))
       /\ Lies(image, OrdinalsAt + i, n - i - 1)
  /\ \A i \in 1..n : \A k \in 1..(Len(image.exports[i].name) + 1) :
       Lies(image, NameAt(i) + k - 1, Append(image.exports[i].name, 0)[k])

LEMMA ExportPartsLie ==
  ASSUME NEW image \in Images
  PROVE  ExportsLie(image)
  <1> DEFINE n == Len(image.exports)
             codes == [i \in 1..n |-> image.exports[n + 1 - i].rva]
             names == [i \in 1..n |-> NameAt(i)]
             ords == [i \in 1..n |-> n - i]
  <1>1. n \in Nat /\ ExportsType(image)
    BY ExportsAreTyped DEF ExportsType
  <1>2. /\ Put(FunctionsAt, codes) \in Parts(image) /\ Put(NamesAt, names) \in Parts(image)
        /\ Put(OrdinalsAt, ords) \in Parts(image)
        /\ \A i \in 1..n : Put(NameAt(i), Append(image.exports[i].name, 0)) \in Parts(image)
    BY DEF Parts, ExportParts
  <1>3. \A i \in 1..n : n + 1 - i \in 1..n /\ image.exports[n + 1 - i].rva \in Nat
    BY <1>1 DEF ExportsType
  <1>4. codes \in Seq(Nat) /\ Len(codes) = n
    <2>1. codes \in [1..n -> Nat]
      BY <1>3
    <2>2. QED
      BY <1>1, <2>1
  <1>5. names \in Seq(Nat) /\ Len(names) = n /\ ords \in Seq(Nat) /\ Len(ords) = n
    <2>1. names \in [1..n -> Nat] /\ ords \in [1..n -> Nat]
      BY Places
    <2>2. QED
      BY <1>1, <2>1
  <1>6. /\ \A i \in 1..n : Lies(image, FunctionsAt + i - 1, codes[i])
        /\ \A i \in 1..n : Lies(image, NamesAt + i - 1, names[i])
        /\ \A i \in 1..n : Lies(image, OrdinalsAt + i - 1, ords[i])
    <2> HIDE DEF codes, names, ords
    <2>1. FunctionsAt \in Nat /\ NamesAt \in Nat /\ OrdinalsAt \in Nat
      BY Bases
    <2>2. QED
      BY <1>2, <1>4, <1>5, <2>1, PutLies
  <1>7. ASSUME NEW i \in 0..(n - 1)
        PROVE  /\ Lies(image, FunctionsAt + i, image.exports[n - i].rva)
               /\ Lies(image, NamesAt + i, NameAt(i + 1))
               /\ Lies(image, OrdinalsAt + i, n - i - 1)
    <2>1. /\ i + 1 \in 1..n /\ FunctionsAt + (i + 1) - 1 = FunctionsAt + i /\ NamesAt + (i + 1) - 1 = NamesAt + i
          /\ OrdinalsAt + (i + 1) - 1 = OrdinalsAt + i /\ n + 1 - (i + 1) = n - i /\ n - (i + 1) = n - i - 1
      <3>1. n \in Nat
        BY <1>1
      <3> HIDE DEF n
      <3>2. QED
        BY ONLY <3>1, i \in 0..(n - 1)
    <2>2. /\ codes[i + 1] = image.exports[n - i].rva
          /\ names[i + 1] = NameAt(i + 1)
          /\ ords[i + 1] = n - i - 1
      BY <2>1
    <2> HIDE DEF codes, names, ords, n
    <2>3. /\ Lies(image, FunctionsAt + (i + 1) - 1, codes[i + 1])
          /\ Lies(image, NamesAt + (i + 1) - 1, names[i + 1])
          /\ Lies(image, OrdinalsAt + (i + 1) - 1, ords[i + 1])
      BY ONLY <1>6, <2>1
    <2>4. QED
      BY ONLY <2>1, <2>2, <2>3
  <1>8. ASSUME NEW i \in 1..n, NEW k \in 1..(Len(image.exports[i].name) + 1)
        PROVE  Lies(image, NameAt(i) + k - 1, Append(image.exports[i].name, 0)[k])
    <2> DEFINE text == Append(image.exports[i].name, 0)
               a == NameAt(i)
    <2>1. image.exports[i].name \in Seq(Nat)
      BY <1>1 DEF ExportsType
    <2>2. text \in Seq(Nat) /\ Len(text) = Len(image.exports[i].name) + 1 /\ a \in Nat
      BY <2>1, Places
    <2>3. Put(a, text) \in Parts(image)
      BY <1>2
    <2> HIDE DEF text, a
    <2>4. \A j \in 1..Len(text) : Lies(image, a + j - 1, text[j])
      BY ONLY <2>2, <2>3, image \in Images, PutLies
    <2>5. Lies(image, a + k - 1, text[k])
      BY <2>2, <2>4
    <2>6. QED
      BY <2>5 DEF text, a
  <1>9. QED
    BY <1>7, <1>8 DEF ExportsLie

(* The directory as the linker put it.                                     *)
DirectoryCells(image) ==
  <<Len(image.exports), Len(image.exports), FunctionsAt, NamesAt, OrdinalsAt>>

LEMMA DirectoryLies ==
  ASSUME NEW image \in Images
  PROVE  LET p == Put(ExportDirAt, DirectoryCells(image)) IN
         /\ p \in Parts(image)
         /\ DOMAIN p = ExportDirAt..(ExportDirAt + 4)
         /\ \A i \in 1..5 : p[ExportDirAt + i - 1] = DirectoryCells(image)[i]
         /\ ExportDirAt..(ExportDirAt + 4) \subseteq DOMAIN Mapped[image]
  <1> DEFINE n == Len(image.exports)
             cells == DirectoryCells(image)
             p == Put(ExportDirAt, cells)
  <1>1. n \in Nat
    BY ExportsAreTyped DEF ExportsType
  <1>2. p \in Parts(image)
    BY DEF Parts, ExportParts, DirectoryCells
  <1> HIDE DEF n
  <1>3. cells \in Seq(Nat) /\ Len(cells) = 5
    BY <1>1, Bases DEF DirectoryCells, n
  <1> HIDE DEF cells
  <1>4. /\ DOMAIN p = ExportDirAt..(ExportDirAt + 4)
        /\ \A i \in 1..5 : p[ExportDirAt + i - 1] = cells[i]
    <2>1. /\ DOMAIN p = ExportDirAt..(ExportDirAt + Len(cells) - 1)
          /\ \A i \in 1..Len(cells) : p[ExportDirAt + i - 1] = cells[i]
      <3>1. ExportDirAt \in Nat /\ cells \in Seq(Nat)
        BY <1>3, Bases
      <3>2. QED
        BY ONLY <3>1, PutIs
    <2>2. ExportDirAt + 5 - 1 = ExportDirAt + 4
      BY Bases
    <2> HIDE DEF p
    <2>3. QED
      BY ONLY <1>3, <2>1, <2>2
  <1> HIDE DEF p
  <1>5. ExportDirAt..(ExportDirAt + 4) \subseteq DOMAIN Mapped[image]
    BY <1>2, <1>4, PartIs
  <1>6. QED
    BY <1>2, <1>4, <1>5 DEF p, cells

(* The directory, if all of it can be read.                                *)
LEMMA DirectoryIs ==
  ASSUME NEW mem, IsMemory(mem), NEW image \in Images, NEW b \in Nat,
         HasCells(mem, image, b), ~Torn(mem, image, b),
         Headers(mem, b).exports.rva = ExportDirAt,
         image.exports # <<>>, b + ExportDirAt \in DOMAIN mem
  PROVE  LET d == ExportDirectory(mem, b)
             n == Len(image.exports)
         IN d[1] = n /\ d[2] = n /\ d[3] = FunctionsAt /\ d[4] = NamesAt /\ d[5] = OrdinalsAt
  <1> DEFINE cells == DirectoryCells(image)
             p == Put(ExportDirAt, cells)
             a == b + ExportDirAt
             d == ReadMemory(mem, a, 5)
  <1>1. /\ p \in Parts(image) /\ DOMAIN p = ExportDirAt..(ExportDirAt + 4)
        /\ \A i \in 1..5 : p[ExportDirAt + i - 1] = cells[i]
    BY DirectoryLies
  <1> HIDE DEF p, cells
  <1>2. a \in Nat /\ 5 \in Nat
    BY Bases
  <1>3. ASSUME NEW i \in 1..5 PROVE a + i - 1 \in DOMAIN mem /\ mem[a + i - 1] = cells[i]
    <2> DEFINE x == ExportDirAt + i - 1
    <2>1. x \in ExportDirAt..(ExportDirAt + 4) /\ a + i - 1 = b + x
      BY Bases
    <2> HIDE DEF x
    <2>2. b + x \in DOMAIN mem
      BY <2>1 DEF Torn
    <2>3. mem[b + x] = p[x]
      <3>1. x \in DOMAIN p
        BY ONLY <1>1, <2>1, Zenon
      <3>2. QED
        BY <1>1, <2>2, <3>1, CellIs, Zenon
    <2>4. p[x] = cells[i]
      BY <1>1 DEF x
    <2>5. a + i - 1 \in DOMAIN mem
      BY ONLY <2>1, <2>2
    <2>6. mem[a + i - 1] = cells[i]
      BY ONLY <2>1, <2>3, <2>4
    <2>7. QED
      BY ONLY <2>5, <2>6
  <1> HIDE DEF a
  <1>4. Got(mem, a, 5) = 5
    BY ONLY <1>2, <1>3, GotIs
  <1>5. \A i \in 1..5 : d[i] = IF i <= Got(mem, a, 5) THEN mem[a + i - 1] ELSE 0
    BY ONLY IsMemory(mem), <1>2, ReadIs
  <1>6. \A i \in 1..5 : d[i] = cells[i]
    BY ONLY <1>3, <1>4, <1>5
  <1>7. ExportDirectory(mem, b) = d
    BY DEF ExportDirectory, a
  <1> HIDE DEF d
  <1>8. QED
    BY <1>6, <1>7 DEF cells, DirectoryCells

(* An image is at a base, and no structure of it is known in part; or its  *)
(* export directory is not; or all of it is known.                         *)
Shows(mem, image, b) ==
  /\ IsMemory(mem) /\ image \in Images /\ b \in Nat
  /\ HasCells(mem, image, b) /\ Uncut(mem, image, b)

ShowsExports(mem, image, b) ==
  /\ IsMemory(mem) /\ image \in Images /\ b \in Nat
  /\ HasCells(mem, image, b) /\ ~Torn(mem, image, b)

IsKnown(mem, image, b) ==
  IsMemory(mem) /\ image \in Images /\ b \in Nat /\ IsWhole(mem, image, b)

LEMMA ShowsBoth ==
  ASSUME NEW mem, NEW image, NEW b, Shows(mem, image, b)
  PROVE  ShowsExports(mem, image, b)
  <1> DEFINE cells == ExportDirAt..(ExportDirAt + 4)
  <1>0. /\ IsMemory(mem) /\ image \in Images /\ b \in Nat
        /\ HasCells(mem, image, b) /\ Uncut(mem, image, b)
    BY DEF Shows
  <1>1. cells \in Structures[image] /\ cells \subseteq DOMAIN Mapped[image]
    BY <1>0, StructuresAre, DirectoryLies
  <1>2. ExportDirAt \in cells
    BY Bases
  <1> HIDE DEF cells
  <1>3. {x \in cells : b + x \in DOMAIN mem} \in {{}, cells}
    BY ONLY <1>0, <1>1, UncutIs
  <1>4. b + ExportDirAt \in DOMAIN mem => \A x \in cells : b + x \in DOMAIN mem
    BY <1>2, <1>3
  <1>5. ~Torn(mem, image, b)
    BY <1>4 DEF Torn, cells
  <1>6. QED
    BY <1>0, <1>5 DEF ShowsExports

LEMMA KnownShows ==
  ASSUME NEW mem, NEW image, NEW b, IsKnown(mem, image, b)
  PROVE  /\ Shows(mem, image, b) /\ ShowsExports(mem, image, b)
         /\ Headers(mem, b) = HeadersOf(image, b)
  <1>1. IsMemory(mem) /\ image \in Images /\ b \in Nat /\ HasCells(mem, image, b)
    BY DEF IsKnown, IsWhole
  <1>2. Uncut(mem, image, b)
    <2>1. \A x \in DOMAIN Mapped[image] : b + x \in DOMAIN mem
      BY DEF IsKnown, IsWhole
    <2>2. ASSUME NEW used, used \subseteq DOMAIN Mapped[image]
          PROVE  {x \in used : b + x \in DOMAIN mem} = used
      BY <2>1, <2>2
    <2>3. QED
      BY <2>2 DEF Uncut
  <1>3. Shows(mem, image, b)
    BY <1>1, <1>2 DEF Shows
  <1>4. QED
    BY <1>1, <1>2, <1>3, HeadersAre, ShowsBoth DEF IsKnown

(* The directory is there and can be read.                                 *)
Exporting(mem, image, b) ==
  /\ Headers(mem, b).ok /\ Headers(mem, b).is64 = image.is64
  /\ Headers(mem, b).exports.rva = ExportDirAt /\ Headers(mem, b).exports.size = ExportDirSize
  /\ image.exports # <<>>
  /\ b + ExportDirAt \in DOMAIN mem

LEMMA ExportsAreRead ==
  ASSUME NEW mem, NEW image, NEW b, ShowsExports(mem, image, b)
  PROVE  Exporting(mem, image, b) <=>
           ExportsOk(mem, b) /\ ~Absent(Headers(mem, b).exports)
  <1>0. /\ IsMemory(mem) /\ image \in Images /\ b \in Nat
        /\ HasCells(mem, image, b) /\ ~Torn(mem, image, b)
    BY DEF ShowsExports
  <1>1. ASSUME Exporting(mem, image, b)
        PROVE  ExportsOk(mem, b) /\ ~Absent(Headers(mem, b).exports)
    BY <1>1, Bases DEF Exporting, ExportsOk, Absent, Unreadable
  <1>2. ASSUME ExportsOk(mem, b), ~Absent(Headers(mem, b).exports)
        PROVE  Exporting(mem, image, b)
    <2>1. Headers(mem, b).ok
      BY <1>2 DEF ExportsOk
    <2>2. /\ Headers(mem, b).is64 = image.is64
          /\ image.exports # <<>>
          /\ Headers(mem, b).exports.rva = ExportDirAt
          /\ Headers(mem, b).exports.size = ExportDirSize
      BY <1>0, <1>2, <2>1, HeadersInPart
    <2>3. b + ExportDirAt \in DOMAIN mem
      BY <1>2, <2>2 DEF ExportsOk, Unreadable
    <2>4. QED
      BY <2>1, <2>2, <2>3 DEF Exporting
  <1>3. QED
    BY <1>1, <1>2

LEMMA KnownExporting ==
  ASSUME NEW mem, NEW image, NEW b, IsKnown(mem, image, b), image.exports # <<>>
  PROVE  Exporting(mem, image, b)
  <1>0. /\ IsMemory(mem) /\ image \in Images /\ b \in Nat
        /\ \A x \in DOMAIN Mapped[image] : b + x \in DOMAIN mem
    BY DEF IsKnown, IsWhole
  <1>1. ExportDirAt \in DOMAIN Mapped[image]
    <2>1. ExportDirAt \in ExportDirAt..(ExportDirAt + 4)
      BY Bases
    <2>2. QED
      BY <1>0, <2>1, DirectoryLies
  <1>2. b + ExportDirAt \in DOMAIN mem
    BY <1>0, <1>1
  <1>3. /\ Headers(mem, b).ok /\ Headers(mem, b).is64 = image.is64
        /\ Headers(mem, b).exports.rva = ExportDirAt
        /\ Headers(mem, b).exports.size = ExportDirSize
    BY KnownShows DEF HeadersOf
  <1>4. QED
    BY <1>2, <1>3 DEF Exporting

(* What an entry of the directory says.                                    *)
LEMMA EntryIs ==
  ASSUME NEW mem, NEW image, NEW b, ShowsExports(mem, image, b), Exporting(mem, image, b),
         NEW i \in 0..(Len(image.exports) - 1),
         b + NamesAt + i \in DOMAIN mem, b + OrdinalsAt + i \in DOMAIN mem
  PROVE  LET export == image.exports[i + 1] IN
         /\ OrdinalAt(mem, b, i) < ExportDirectory(mem, b)[1]
         /\ CodeOf(mem, b, i) \in {0, export.rva}
         /\ IsWhole(mem, image, b) => CodeOf(mem, b, i) = export.rva
         /\ IsPrefix(NameOf(mem, b, i), export.name)
         /\ IsWhole(mem, image, b) => NameOf(mem, b, i) # <<>>
         /\ IsOwnCode(Headers(mem, b).exports, CodeOf(mem, b, i)) =>
              CodeOf(mem, b, i) = export.rva /\ export.rva \in CodeAt
         /\ export.rva \in CodeAt => IsOwnCode(Headers(mem, b).exports, export.rva)
  <1> DEFINE n == Len(image.exports)
             d == ExportDirectory(mem, b)
             name == image.exports[i + 1].name
             rva == image.exports[i + 1].rva
             a == NameAt(i + 1)
  <1>0. /\ IsMemory(mem) /\ image \in Images /\ b \in Nat
        /\ HasCells(mem, image, b) /\ ~Torn(mem, image, b)
        /\ Headers(mem, b).exports.rva = ExportDirAt
        /\ Headers(mem, b).exports.size = ExportDirSize
        /\ image.exports # <<>> /\ b + ExportDirAt \in DOMAIN mem
    BY DEF ShowsExports, Exporting
  <1>1. /\ n \in Nat /\ i + 1 \in 1..n /\ i \in Nat
        /\ rva \in Nat /\ name \in Seq(Nat) /\ name # <<>> /\ 0 \notin ToSet(name)
        /\ rva \in {0} \cup Forwarders \cup CodeAt
    <2>1. ExportsType(image)
      BY <1>0, ExportsAreTyped
    <2>2. n \in Nat /\ i + 1 \in 1..n /\ i \in Nat
      BY <2>1 DEF ExportsType
    <2>3. QED
      BY <2>1, <2>2 DEF ExportsType
  <1>2. d[1] = n /\ d[2] = n /\ d[3] = FunctionsAt /\ d[4] = NamesAt /\ d[5] = OrdinalsAt
    BY <1>0, DirectoryIs
  <1>3. ExportsLie(image)
    BY <1>0, ExportPartsLie
  <1> HIDE DEF n, d, name, rva
  <1>4. /\ Lies(image, NamesAt + i, a) /\ Lies(image, OrdinalsAt + i, n - i - 1)
        /\ Lies(image, FunctionsAt + (n - i - 1), rva)
    <2>1. n - i - 1 \in 0..(n - 1) /\ n - (n - i - 1) = i + 1 /\ i \in 0..(n - 1)
      BY <1>1
    <2>2. QED
      BY <1>3, <2>1 DEF ExportsLie, n, rva
  <1>5. \A k \in 1..(Len(name) + 1) : Lies(image, a + k - 1, Append(name, 0)[k])
    BY <1>1, <1>3 DEF ExportsLie, n, name
  <1> HIDE DEF a
  <1>6. OrdinalAt(mem, b, i) = n - i - 1
    <2>1. b + OrdinalsAt + i = b + (OrdinalsAt + i)
      BY <1>0, <1>1, Bases
    <2>2. CellAt(mem, b + (OrdinalsAt + i)) = n - i - 1
      BY <1>0, <1>4, <2>1, LyingCell
    <2>3. QED
      BY <1>2, <2>1, <2>2 DEF OrdinalAt, d
  <1>7. CellAt(mem, b + d[4] + i) = a
    <2>1. b + NamesAt + i = b + (NamesAt + i)
      BY <1>0, <1>1, Bases
    <2>2. CellAt(mem, b + (NamesAt + i)) = a
      BY <1>0, <1>4, <2>1, LyingCell
    <2>3. QED
      BY <1>2, <2>1, <2>2
  <1>8. /\ CodeOf(mem, b, i) \in {0, rva}
        /\ IsWhole(mem, image, b) => CodeOf(mem, b, i) = rva
    <2> DEFINE x == FunctionsAt + (n - i - 1)
    <2>1. b + FunctionsAt + (n - i - 1) = b + x
      BY <1>0, <1>1, Bases
    <2> HIDE DEF x
    <2>2. Lies(image, x, rva)
      BY <1>4 DEF x
    <2>3. /\ CellAt(mem, b + x) = IF b + x \in DOMAIN mem THEN rva ELSE 0
          /\ IsWhole(mem, image, b) => b + x \in DOMAIN mem
      BY <1>0, <2>2, LyingCell
    <2>4. CodeOf(mem, b, i) = CellAt(mem, b + x)
      BY <1>2, <1>6, <2>1 DEF CodeOf, d
    <2>5. QED
      BY <2>3, <2>4
  <1>9. a \in Nat /\ b + a \in Nat /\ Len(name) \in Nat
    <2>1. NameAt(i + 1) \in Nat
      BY <1>0, <1>1, Places DEF n
    <2>2. QED
      BY <1>0, <1>1, <2>1 DEF a
  <1>10. NameOf(mem, b, i) = CStr(mem, b + a, MaxName)
    BY <1>7 DEF NameOf, d
  <1>11. HasText(mem, b + a, name)
    <2> SUFFICES ASSUME NEW k \in 1..(Len(name) + 1), (b + a) + k - 1 \in DOMAIN mem
                 PROVE  mem[(b + a) + k - 1] = Append(name, 0)[k]
      BY DEF HasText
    <2> DEFINE x == a + k - 1
               value == Append(name, 0)[k]
    <2>1. (b + a) + k - 1 = b + x
      BY <1>0, <1>9
    <2>2. Lies(image, x, value)
      BY <1>5
    <2> HIDE DEF x, value
    <2>3. b + x \in DOMAIN mem => mem[b + x] = value
      BY <1>0, <2>2, LyingCell
    <2>4. QED
      BY <2>1, <2>3 DEF value
  <1>12. MaxName \in Nat \ {0}
    BY PeAssumption
  <1>13. IsPrefix(NameOf(mem, b, i), name)
    <2> DEFINE x == b + a
    <2>1. x \in Nat /\ HasText(mem, x, name)
      BY <1>9, <1>11
    <2> HIDE DEF x
    <2>2. IsPrefix(CStr(mem, x, MaxName), name)
      BY <1>0, <1>1, <1>12, <2>1, CStrIsPrefix
    <2>3. QED
      BY <1>10, <2>2 DEF x
  <1>14. IsWhole(mem, image, b) => NameOf(mem, b, i) # <<>>
    <2> SUFFICES ASSUME IsWhole(mem, image, b) PROVE NameOf(mem, b, i) # <<>>
      OBVIOUS
    <2>1. Len(name) # 0 /\ Append(name, 0)[1] = name[1] /\ name[1] # 0
      BY <1>1 DEF ToSet
    <2>2. 1 \in 1..(Len(name) + 1) /\ a + 1 - 1 = a
      BY <1>9
    <2>3. Lies(image, a, name[1])
      BY <1>5, <2>1, <2>2
    <2> DEFINE x == b + a
               value == name[1]
    <2> HIDE DEF value
    <2>4. x \in DOMAIN mem /\ mem[x] = value
      BY <1>0, <2>3, LyingCell DEF value
    <2> HIDE DEF x
    <2>5. mem[x] # 0
      BY <2>1, <2>4 DEF value
    <2>6. CStr(mem, x, MaxName) # <<>>
      BY <1>0, <1>12, <2>4, <2>5, CStrIsThere
    <2>7. QED
      BY <1>10, <2>6 DEF x
  <1>15. Headers(mem, b).exports.rva = ExportDirAt /\ Headers(mem, b).exports.size = ExportDirSize
    BY <1>0
  <1>16. \A c : IsOwnCode(Headers(mem, b).exports, c) <=> c # 0 /\ c \notin Forwarders
    BY <1>15 DEF IsOwnCode, Forwarders
  <1>17. /\ IsOwnCode(Headers(mem, b).exports, CodeOf(mem, b, i)) =>
              CodeOf(mem, b, i) = rva /\ rva \in CodeAt
         /\ rva \in CodeAt => IsOwnCode(Headers(mem, b).exports, rva)
    <2>1. ASSUME IsOwnCode(Headers(mem, b).exports, CodeOf(mem, b, i))
          PROVE  CodeOf(mem, b, i) = rva /\ rva \in CodeAt
      <3>1. CodeOf(mem, b, i) # 0 /\ CodeOf(mem, b, i) \notin Forwarders
        BY ONLY <1>16, <2>1
      <3>2. CodeOf(mem, b, i) = rva
        BY ONLY <1>8, <3>1
      <3>3. QED
        BY ONLY <1>1, <3>1, <3>2
    <2>2. rva \in CodeAt => rva # 0 /\ rva \notin Forwarders
      BY ONLY Bases
    <2>3. QED
      BY ONLY <1>16, <2>1, <2>2
  <1>18. OrdinalAt(mem, b, i) < d[1]
    BY <1>1, <1>2, <1>6
  <1>19. QED
    BY <1>8, <1>13, <1>14, <1>17, <1>18 DEF n, d, name, rva

(* What is listed is exported, at its address and with its name, of which  *)
(* the end may be missing.                                                 *)
IsListedAs(image, b, e, i) ==
  /\ image.exports[i].rva \in CodeAt
  /\ e.va = b + image.exports[i].rva
  /\ IsPrefix(e.name, image.exports[i].name)

IsListed(image, b, e) == \E i \in DOMAIN image.exports : IsListedAs(image, b, e, i)

LEMMA EntryIsListed ==
  ASSUME NEW mem, NEW image, NEW b, ShowsExports(mem, image, b), Exporting(mem, image, b),
         NEW j \in 1..ExportCount(mem, b), NEW e \in ToSet(ExportEntry(mem, b, j - 1))
  PROVE  j \in DOMAIN image.exports /\ IsListedAs(image, b, e, j)
  <1> DEFINE i == j - 1
             n == Len(image.exports)
  <1>0. IsMemory(mem) /\ image \in Images /\ b \in Nat
    BY DEF ShowsExports
  <1>1. ExportCount(mem, b) \in Nat /\ i \in 0..(ExportCount(mem, b) - 1) /\ i \in Nat
        /\ i + 1 = j
    BY <1>0, ExportCountIs
  <1>2. ~ExportEnds(mem, b, i)
    BY <1>0, <1>1, ExportCountIs
  <1>3. n \in Nat /\ DOMAIN image.exports = 1..n
    BY <1>0, ExportsAreTyped DEF ExportsType
  <1> HIDE DEF n, i
  <1>4. LET d == ExportDirectory(mem, b) IN d[2] = n /\ d[4] = NamesAt /\ d[5] = OrdinalsAt
    BY <1>0, DirectoryIs DEF Exporting, ShowsExports, n
  <1>5. i \in 0..(n - 1) /\ b + NamesAt + i \in DOMAIN mem /\ b + OrdinalsAt + i \in DOMAIN mem
    BY <1>1, <1>2, <1>3, <1>4 DEF ExportEnds, Unreadable
  <1> DEFINE export == image.exports[i + 1]
  <1>6. /\ IsPrefix(NameOf(mem, b, i), export.name)
        /\ IsOwnCode(Headers(mem, b).exports, CodeOf(mem, b, i)) =>
             CodeOf(mem, b, i) = export.rva /\ export.rva \in CodeAt
    BY <1>5, EntryIs DEF n
  <1>7. /\ IsOwnCode(Headers(mem, b).exports, CodeOf(mem, b, i))
        /\ e = [va |-> b + CodeOf(mem, b, i), name |-> NameOf(mem, b, i)]
    <2>1. e \in ToSet(ExportEntry(mem, b, i))
      BY DEF i
    <2>2. ExportEntry(mem, b, i) # <<>>
      BY <2>1 DEF ToSet
    <2>3. /\ IsOwnCode(Headers(mem, b).exports, CodeOf(mem, b, i))
          /\ ExportEntry(mem, b, i) =
               <<[va |-> b + CodeOf(mem, b, i), name |-> NameOf(mem, b, i)]>>
      BY ONLY <2>2, Zenon DEF ExportEntry
    <2>4. QED
      BY <2>1, <2>3 DEF ToSet
  <1>8. /\ i + 1 \in DOMAIN image.exports /\ e.va = b + export.rva
        /\ export.rva \in CodeAt /\ IsPrefix(e.name, export.name)
    BY <1>3, <1>5, <1>6, <1>7
  <1>9. QED
    BY <1>1, <1>8 DEF IsListedAs

LEMMA ExportsAreSound ==
  ASSUME NEW mem, NEW image, NEW b, ShowsExports(mem, image, b),
         NEW e \in ToSet(ExportList(mem, b))
  PROVE  Headers(mem, b).is64 = image.is64 /\ IsListed(image, b, e)
  <1>0. IsMemory(mem) /\ image \in Images /\ b \in Nat
    BY DEF ShowsExports
  <1>1. /\ ExportsOk(mem, b) /\ ~Absent(Headers(mem, b).exports)
        /\ ToSet(ExportList(mem, b)) =
              UNION {ToSet(ExportEntry(mem, b, i - 1)) : i \in 1..ExportCount(mem, b)}
    BY <1>0, ExportListFacts
  <1>2. Exporting(mem, image, b)
    BY <1>1, ExportsAreRead
  <1>3. PICK j \in 1..ExportCount(mem, b) : e \in ToSet(ExportEntry(mem, b, j - 1))
    BY <1>1
  <1>4. j \in DOMAIN image.exports /\ IsListedAs(image, b, e, j)
    BY <1>2, <1>3, EntryIsListed
  <1>5. Headers(mem, b).is64 = image.is64
    BY <1>2 DEF Exporting
  <1>6. QED
    BY <1>4, <1>5 DEF IsListed

(* And if all of the image is known, all of its functions are listed.      *)
LEMMA ExportsAreComplete ==
  ASSUME NEW mem, NEW image, NEW b, IsKnown(mem, image, b),
         NEW j \in DOMAIN image.exports, image.exports[j].rva \in CodeAt
  PROVE  \E e \in ToSet(ExportList(mem, b)) : e.va = b + image.exports[j].rva
  <1> DEFINE n == Len(image.exports)
             i == j - 1
             m == ExportCount(mem, b)
             export == image.exports[j]
  <1>0. /\ IsMemory(mem) /\ image \in Images /\ b \in Nat
        /\ HasCells(mem, image, b) /\ IsWhole(mem, image, b)
        /\ ShowsExports(mem, image, b) /\ ~Torn(mem, image, b)
    BY KnownShows DEF IsKnown, IsWhole, ShowsExports
  <1>1. n \in Nat /\ DOMAIN image.exports = 1..n /\ ExportsType(image)
    BY <1>0, ExportsAreTyped DEF ExportsType
  <1>2. n # 0 /\ image.exports # <<>>
    BY <1>1
  <1>3. Exporting(mem, image, b)
    BY <1>2, KnownExporting
  <1>4. LET d == ExportDirectory(mem, b) IN d[2] = n /\ d[4] = NamesAt /\ d[5] = OrdinalsAt
    BY <1>0, <1>3, DirectoryIs DEF Exporting
  <1> HIDE DEF n
  <1>5. ASSUME NEW k \in 0..(n - 1)
        PROVE  b + NamesAt + k \in DOMAIN mem /\ b + OrdinalsAt + k \in DOMAIN mem
    <2>1. Lies(image, NamesAt + k, NameAt(k + 1)) /\ Lies(image, OrdinalsAt + k, n - k - 1)
      BY <1>0, ExportPartsLie DEF ExportsLie, n
    <2>2. b + (NamesAt + k) \in DOMAIN mem /\ b + (OrdinalsAt + k) \in DOMAIN mem
      BY <1>0, <2>1, LyingCell
    <2>3. b + (NamesAt + k) = b + NamesAt + k /\ b + (OrdinalsAt + k) = b + OrdinalsAt + k
      BY <1>0, <1>1, Bases
    <2>4. QED
      BY <2>2, <2>3
  <1>6. m \in Nat /\ ExportEnds(mem, b, m)
    BY <1>0, ExportCountIs
  <1> HIDE DEF m
  <1>7. m >= n
    <2> SUFFICES ASSUME m < n PROVE FALSE
      BY <1>1, <1>6
    <2>1. m \in 0..(n - 1)
      BY <1>1, <1>6
    <2>2. b + NamesAt + m \in DOMAIN mem /\ b + OrdinalsAt + m \in DOMAIN mem
      BY <1>5, <2>1
    <2>3. QED
      BY <1>1, <1>4, <1>6, <2>2 DEF ExportEnds, Unreadable
  <1>8. j \in 1..m /\ i \in 0..(n - 1) /\ i + 1 = j
    BY <1>1, <1>6, <1>7
  <1> HIDE DEF i
  <1>9. /\ OrdinalAt(mem, b, i) < ExportDirectory(mem, b)[1]
        /\ CodeOf(mem, b, i) = export.rva
        /\ NameOf(mem, b, i) # <<>>
        /\ IsOwnCode(Headers(mem, b).exports, CodeOf(mem, b, i))
    <2>1. b + NamesAt + i \in DOMAIN mem /\ b + OrdinalsAt + i \in DOMAIN mem
      BY <1>5, <1>8
    <2>2. image.exports[i + 1] = export
      BY <1>8
    <2>3. i \in 0..(Len(image.exports) - 1)
      BY <1>8 DEF n
    <2>4. LET x == image.exports[i + 1] IN
            /\ OrdinalAt(mem, b, i) < ExportDirectory(mem, b)[1]
            /\ CodeOf(mem, b, i) = x.rva
            /\ NameOf(mem, b, i) # <<>>
            /\ x.rva \in CodeAt => IsOwnCode(Headers(mem, b).exports, x.rva)
      BY ONLY <1>0, <1>3, <2>1, <2>3, EntryIs
    <2>5. QED
      BY <2>2, <2>4
  <1> DEFINE e == [va |-> b + CodeOf(mem, b, i), name |-> NameOf(mem, b, i)]
  <1>10. ExportEntry(mem, b, i) = <<e>>
    BY <1>9 DEF ExportEntry
  <1>11. e \in ToSet(ExportEntry(mem, b, i)) /\ e.va = b + export.rva
    BY <1>9, <1>10 DEF ToSet
  <1> HIDE DEF e
  <1>12. i = j - 1
    BY DEF i
  <1>13. e \in ToSet(ExportList(mem, b))
    <2>1. ToSet(ExportList(mem, b)) =
            UNION {ToSet(ExportEntry(mem, b, k - 1)) : k \in 1..ExportCount(mem, b)}
      BY <1>0, <1>3, ExportListFacts, ExportsAreRead
    <2>2. e \in ToSet(ExportEntry(mem, b, j - 1)) /\ j \in 1..ExportCount(mem, b)
      BY <1>8, <1>11, <1>12 DEF m
    <2>3. QED
      BY ONLY <2>1, <2>2
  <1>14. QED
    BY <1>11, <1>13
----------------------------------------------------------------------------
(* What an image exports, as it is to be reported.                         *)
LEMMA ExportsInAre ==
  ASSUME NEW image \in Images, NEW b \in Nat
  PROVE  /\ ExportsIn(image, b) \in Seq(ExportRecord)
         /\ \A e : e \in ToSet(ExportsIn(image, b)) <=>
              \E i \in DOMAIN image.exports :
                /\ image.exports[i].rva \in CodeAt
                /\ e = [va |-> b + image.exports[i].rva, name |-> image.exports[i].name]
  <1> DEFINE Record(i) == [va |-> b + image.exports[i].rva, name |-> image.exports[i].name]
             s == [i \in DOMAIN image.exports |->
                     IF image.exports[i].rva \in CodeAt THEN <<Record(i)>> ELSE <<>>]
             n == Len(image.exports)
  <1>1. n \in Nat /\ DOMAIN image.exports = 1..n /\ ExportsType(image)
    BY ExportsAreTyped DEF ExportsType
  <1>2. ASSUME NEW i \in 1..n
        PROVE  /\ Record(i) \in ExportRecord
               /\ s[i] \in Seq(ExportRecord)
               /\ ToSet(s[i]) = IF image.exports[i].rva \in CodeAt THEN {Record(i)} ELSE {}
    <2>1. image.exports[i].rva \in Nat /\ image.exports[i].name \in Seq(Nat)
      BY <1>1 DEF ExportsType
    <2>2. Record(i) \in ExportRecord
      BY <2>1 DEF ExportRecord
    <2> DEFINE r == Record(i)
    <2>3. s[i] = IF image.exports[i].rva \in CodeAt THEN <<r>> ELSE <<>>
      BY <1>1
    <2> HIDE DEF r, s
    <2>4. <<r>> \in Seq(ExportRecord) /\ <<>> \in Seq(ExportRecord)
          /\ ToSet(<<r>>) = {r} /\ ToSet(<<>>) = {}
      BY <2>2 DEF ToSet, r
    <2>5. QED
      BY <2>2, <2>3, <2>4 DEF r
  <1>3. s \in Seq(Seq(ExportRecord)) /\ DOMAIN s = 1..n
    <2>1. DOMAIN s = 1..n
      BY <1>1
    <2>2. s \in [1..n -> Seq(ExportRecord)]
      <3>1. s = [i \in 1..n |-> s[i]]
        BY <1>1
      <3> HIDE DEF s
      <3>2. QED
        BY <1>2, <3>1
    <2> HIDE DEF s
    <2>3. QED
      BY <1>1, <2>1, <2>2
  <1>4. ExportsIn(image, b) = FlattenSeq(s)
    BY DEF ExportsIn
  <1> HIDE DEF s
  <1>5. /\ FlattenSeq(s) \in Seq(ExportRecord)
        /\ ToSet(FlattenSeq(s)) = UNION {ToSet(s[i]) : i \in DOMAIN s}
    BY <1>3, FlattenFacts
  <1>6. \A e : e \in ToSet(FlattenSeq(s)) <=>
          \E i \in 1..n : image.exports[i].rva \in CodeAt /\ e = Record(i)
    <2> HIDE DEF Record, n
    <2>1. \A e : e \in ToSet(FlattenSeq(s)) <=> \E i \in 1..n : e \in ToSet(s[i])
      BY ONLY <1>3, <1>5
    <2>2. \A i \in 1..n : \A e : e \in ToSet(s[i]) <=>
            image.exports[i].rva \in CodeAt /\ e = Record(i)
      BY ONLY <1>2
    <2>3. QED
      BY ONLY <2>1, <2>2
  <1>7. QED
    BY <1>1, <1>4, <1>5, <1>6
----------------------------------------------------------------------------
(* The map of call targets.                                                *)
MemoryOf(l) == trace.memory[trace.loads[l].at]

Listed(l) == ToSet(ExportList(MemoryOf(l), ModuleOf(l).base))

(* What the map has for va is what load l shows there.                     *)
TakenFrom(l, va) ==
  \E e \in Listed(l) :
    /\ e.va = va
    /\ resolved[va] = [module |-> ModuleOf(l).stem, api |-> e.name,
                       is64 |-> Headers(MemoryOf(l), ModuleOf(l).base).is64]

(* The map keeps of each address what the first load that shows it says.   *)
MapInv ==
  /\ trace \in Traces
  /\ next \in 1..(Len(trace.loads) + 1)
  /\ pc \notin {"loads", "sweep"} => next = 1 /\ resolved = <<>>
  /\ pc = "sweep" => next = Len(trace.loads) + 1
  /\ \A va \in DOMAIN resolved : \E l \in 1..(next - 1) : TakenFrom(l, va)
  /\ \A l \in 1..(next - 1) : \A e \in Listed(l) :
       /\ e.va \in DOMAIN resolved
       /\ \E k \in 1..l : TakenFrom(k, e.va)

LEMMA TraceType ==
  ASSUME NEW t \in Traces
  PROVE  /\ t.modules \in Seq(Module) /\ t.loads \in Seq(Load)
         /\ \A l \in DOMAIN t.loads :
              /\ t.loads[l].module \in DOMAIN t.modules
              /\ t.loads[l].at \in 0..End
              /\ t.modules[t.loads[l].module] \in Module
         /\ \A p \in 0..End : IsMemory(t.memory[p])
  <1>1. /\ t.modules \in Seq(Module) /\ t.loads \in Seq(Load)
        /\ \A l \in DOMAIN t.loads : t.loads[l].module \in DOMAIN t.modules
        /\ \A p \in 0..End : IsMemory(t.memory[p])
    BY PrepareAssumption
  <1>2. ASSUME NEW l \in DOMAIN t.loads
        PROVE  /\ t.loads[l].at \in 0..End
               /\ t.modules[t.loads[l].module] \in Module
    <2>1. t.loads[l] \in Load
      BY <1>1
    <2>2. t.modules[t.loads[l].module] \in Module
      BY <1>1
    <2>3. QED
      BY <2>1, <2>2 DEF Load
  <1>3. QED
    BY <1>1, <1>2

LEMMA ModuleType ==
  ASSUME NEW m \in Module
  PROVE  m.stem \in STRING /\ m.base \in Nat /\ m.image \in Images
  BY DEF Module

LEMMA LoadFacts ==
  ASSUME trace \in Traces, NEW l \in DOMAIN trace.loads
  PROVE  /\ IsMemory(MemoryOf(l))
         /\ ModuleOf(l) \in Module
         /\ ModuleOf(l).base \in Nat /\ ModuleOf(l).image \in Images
         /\ HasCells(MemoryOf(l), ModuleOf(l).image, ModuleOf(l).base)
  <1>1. /\ trace.loads[l].at \in 0..End
        /\ trace.modules[trace.loads[l].module] \in Module
        /\ IsMemory(trace.memory[trace.loads[l].at])
    BY TraceType
  <1>2. trace.loads[l] \in ToSet(trace.loads)
    BY DEF ToSet
  <1>3. QED
    BY <1>1, <1>2, ModuleType, ImageAssumption DEF MemoryOf, ModuleOf

LEMMA MapInit == Init => MapInv
  <1> SUFFICES ASSUME Init PROVE MapInv
    OBVIOUS
  <1>1. trace \in Traces /\ next = 1 /\ resolved = <<>> /\ pc = "identify"
    BY DEF Init
  <1>2. Len(trace.loads) \in Nat
    BY <1>1, TraceType
  <1>3. DOMAIN resolved = {}
    BY <1>1
  <1>4. QED
    BY <1>1, <1>2, <1>3 DEF MapInv

(* An address that is new to the map.                                      *)
LEMMA TargetIs ==
  ASSUME NEW module, NEW mem, IsMemory(mem), module.base \in Nat,
         NEW va \in ShownBy(module, mem)
  PROVE  \E e \in ToSet(ExportList(mem, module.base)) :
           /\ e.va = va
           /\ TargetAt(module, mem, va) =
                [module |-> module.stem, api |-> e.name,
                 is64 |-> Headers(mem, module.base).is64]
  <1> DEFINE exports == ExportList(mem, module.base)
             I == {i \in DOMAIN exports : exports[i].va = va}
             first == Min(I)
  <1>1. exports \in Seq(ExportRecord)
    BY ExportListFacts
  <1> HIDE DEF exports
  <1>2. I # {} /\ I \subseteq Nat
    BY <1>1 DEF ShownBy, ToSet, exports
  <1>3. first \in I
    <2> HIDE DEF I
    <2>1. QED
      BY <1>2, MinIsLeast, Zenon
  <1>4. /\ exports[first] \in ToSet(exports) /\ exports[first].va = va
    BY <1>3 DEF ToSet
  <1>5. TargetAt(module, mem, va) =
          [module |-> module.stem, api |-> exports[first].name,
           is64 |-> Headers(mem, module.base).is64]
    BY Zenon DEF TargetAt, BaseName, exports
  <1>6. QED
    BY <1>4, <1>5 DEF exports
----------------------------------------------------------------------------
(* TakenFrom depends on the trace and on the map at that address only.     *)
LEMMA TakenStays ==
  ASSUME UNCHANGED trace, NEW l, NEW va, TakenFrom(l, va), resolved'[va] = resolved[va]
  PROVE  TakenFrom(l, va)'
  BY Zenon DEF TakenFrom, Listed, MemoryOf, ModuleOf

(* A load adds to the map what is not in it.                               *)
LEMMA LoadStep ==
  ASSUME MapInv, ResolveLoad
  PROVE  MapInv'
  <1>0. PICK n : n = next
    OBVIOUS
  <1> DEFINE new == ShownBy(ModuleOf(n), MemoryOf(n))
  <1>1. /\ UNCHANGED trace /\ UNCHANGED pc /\ pc = "loads" /\ next' = n + 1
        /\ n \in DOMAIN trace.loads
        /\ resolved' = WithExports(resolved, ModuleOf(n), MemoryOf(n))
    BY <1>0 DEF ResolveLoad, ModuleOf, MemoryOf
  <1>2. /\ trace \in Traces /\ n \in 1..(Len(trace.loads) + 1)
        /\ trace.loads \in Seq(Load)
    BY <1>0, TraceType DEF MapInv
  <1>3. /\ IsMemory(MemoryOf(n)) /\ ModuleOf(n).base \in Nat
    BY <1>1, <1>2, LoadFacts
  <1>4. /\ DOMAIN resolved' = DOMAIN resolved \cup new
        /\ \A va \in DOMAIN resolved : resolved'[va] = resolved[va]
        /\ \A va \in new \ DOMAIN resolved :
             resolved'[va] = TargetAt(ModuleOf(n), MemoryOf(n), va)
    BY ONLY <1>1, Zenon DEF WithExports, new
  <1>5. \A va : va \in new <=> \E e \in Listed(n) : e.va = va
    BY DEF ShownBy, Listed
  <1>6. ASSUME NEW va \in new \ DOMAIN resolved
        PROVE  TakenFrom(n, va)'
    <2>1. \E e \in ToSet(ExportList(MemoryOf(n), ModuleOf(n).base)) :
            /\ e.va = va
            /\ TargetAt(ModuleOf(n), MemoryOf(n), va) =
                 [module |-> ModuleOf(n).stem, api |-> e.name,
                  is64 |-> Headers(MemoryOf(n), ModuleOf(n).base).is64]
      BY <1>3, <1>6, TargetIs
    <2>2. resolved'[va] = TargetAt(ModuleOf(n), MemoryOf(n), va)
      BY <1>4, <1>6
    <2>3. QED
      BY <1>1, <2>1, <2>2, Zenon DEF TakenFrom, Listed, MemoryOf, ModuleOf
  <1> HIDE DEF new
  <1>7. n \in Nat /\ n <= Len(trace.loads) /\ Len(trace.loads) \in Nat /\ n >= 1
    BY <1>1, <1>2
  <1>8. (\A va \in DOMAIN resolved : \E l \in 1..(next - 1) : TakenFrom(l, va))'
    <2> SUFFICES ASSUME NEW va \in DOMAIN resolved'
                 PROVE  \E l \in 1..n : TakenFrom(l, va)'
      BY <1>1, <1>7
    <2>1. CASE va \in DOMAIN resolved
      <3>1. PICK l \in 1..(n - 1) : TakenFrom(l, va)
        BY <1>0, <2>1 DEF MapInv
      <3>2. TakenFrom(l, va)'
        BY <1>1, <1>4, <2>1, <3>1, TakenStays
      <3>3. QED
        BY <1>7, <3>2
    <2>2. CASE va \notin DOMAIN resolved
      <3>1. TakenFrom(n, va)'
        BY <1>4, <1>6, <2>2
      <3>2. n \in 1..n
        BY <1>7
      <3>3. QED
        BY <3>1, <3>2
    <2>3. QED
      BY <2>1, <2>2
  <1>9. ASSUME NEW l \in 1..n, NEW e \in Listed(l)
        PROVE  e.va \in DOMAIN resolved' /\ \E k \in 1..l : TakenFrom(k, e.va)'
    <2>1. CASE l \in 1..(n - 1)
      <3>1. /\ e.va \in DOMAIN resolved
            /\ \E k \in 1..l : TakenFrom(k, e.va)
        BY <1>0, <1>9, <2>1 DEF MapInv
      <3>2. PICK k \in 1..l : TakenFrom(k, e.va)
        BY <3>1
      <3>3. TakenFrom(k, e.va)'
        BY <1>1, <1>4, <3>1, <3>2, TakenStays
      <3>4. QED
        BY <1>4, <3>1, <3>3
    <2>2. CASE l = n
      <3>1. e.va \in new
        BY <1>5, <1>9, <2>2
      <3>2. CASE e.va \in DOMAIN resolved
        <4>1. PICK k \in 1..(n - 1) : TakenFrom(k, e.va)
          BY <1>0, <3>2 DEF MapInv
        <4>2. TakenFrom(k, e.va)'
          BY <1>1, <1>4, <3>2, <4>1, TakenStays
        <4>3. k \in 1..l
          BY <1>7, <2>2
        <4>4. QED
          BY <1>4, <3>2, <4>2, <4>3
      <3>3. CASE e.va \notin DOMAIN resolved
        <4>1. l \in 1..l
          BY <1>7, <2>2
        <4>2. QED
          <5>1. TakenFrom(l, e.va)'
            BY <1>6, <2>2, <3>1, <3>3
          <5>2. e.va \in DOMAIN resolved'
            BY <1>4, <3>1
          <5>3. QED
            BY <4>1, <5>1, <5>2
      <3>4. QED
        BY <3>2, <3>3
    <2>3. QED
      BY <1>7, <2>1, <2>2
  <1>10. (\A l \in 1..(next - 1) : \A e \in Listed(l) :
            /\ e.va \in DOMAIN resolved
            /\ \E k \in 1..l : TakenFrom(k, e.va))'
    <2>1. \A l : Listed(l)' = Listed(l)
      BY <1>1 DEF Listed, MemoryOf, ModuleOf
    <2>2. 1..(next' - 1) = 1..n
      BY <1>1, <1>7
    <2>3. QED
      BY <1>9, <2>1, <2>2
  <1>11. /\ trace' \in Traces /\ next' \in 1..(Len(trace'.loads) + 1)
         /\ pc' = "loads"
    BY <1>1, <1>2, <1>7
  <1>12. QED
    BY <1>8, <1>10, <1>11 DEF MapInv

LEMMA MapStep == MapInv /\ [Next]_vars => MapInv'
  <1> SUFFICES ASSUME MapInv, [Next]_vars PROVE MapInv'
    OBVIOUS
  <1> DEFINE Keeps == UNCHANGED <<trace, next, resolved>>
             Moves == /\ pc' \notin {"loads", "sweep"} => pc \notin {"loads", "sweep"}
                      /\ pc' = "sweep" => next = Len(trace.loads) + 1
  <1>1. ASSUME Keeps, Moves PROVE MapInv'
    <2>1. \A l : Listed(l)' = Listed(l)
      BY <1>1 DEF Listed, MemoryOf, ModuleOf
    <2>2. \A l, va : TakenFrom(l, va)' <=> TakenFrom(l, va)
      BY <1>1 DEF TakenFrom, Listed, MemoryOf, ModuleOf
    <2>3. QED
      BY <1>1, <2>1, <2>2 DEF MapInv
  <1>2. next \notin DOMAIN trace.loads => next = Len(trace.loads) + 1
    <2>1. trace.loads \in Seq(Load) /\ next \in 1..(Len(trace.loads) + 1)
      BY TraceType DEF MapInv
    <2>2. QED
      BY <2>1
  <1>3. CASE IdentifyMain
    BY <1>1, <1>3 DEF IdentifyMain, MapInv
  <1>4. CASE ParseLast
    BY <1>1, <1>4 DEF ParseLast, MapInv
  <1>5. CASE ParseMin
    BY <1>1, <1>5 DEF ParseMin, MapInv
  <1>6. CASE FindStrings
    BY <1>1, <1>6 DEF FindStrings, MapInv
  <1>7. CASE BeginResolving
    BY <1>1, <1>7 DEF BeginResolving, MapInv
  <1>8. CASE ResolveLoad
    BY <1>8, LoadStep
  <1>9. CASE EndResolving
    <2>1. Keeps /\ pc = "loads" /\ pc' = "sweep" /\ next \notin DOMAIN trace.loads
      BY <1>9 DEF EndResolving
    <2> HIDE DEF Keeps
    <2>2. QED
      BY <1>1, <1>2, <2>1
  <1>10. CASE UNCHANGED vars
    <2>1. Keeps /\ pc' = pc
      BY <1>10 DEF vars
    <2>2. pc = "sweep" => next = Len(trace.loads) + 1
      BY DEF MapInv
    <2> HIDE DEF Keeps
    <2>3. QED
      BY <1>1, <2>1, <2>2
  <1>11. QED
    BY <1>3, <1>4, <1>5, <1>6, <1>7, <1>8, <1>9, <1>10 DEF Next

(* What is taken from a load whose export directory is not torn is a       *)
(* function of the module it loads.                                        *)
LEMMA TakenIsOwned ==
  ASSUME MapInv, NEW l \in DOMAIN trace.loads, NEW va, ~InMemory(l, Torn), TakenFrom(l, va)
  PROVE  va \in Functions(l) /\ Owns(l, va)
  <1> DEFINE mem == MemoryOf(l)
             image == ModuleOf(l).image
             b == ModuleOf(l).base
  <1>1. ShowsExports(mem, image, b)
    <2>1. IsMemory(mem) /\ image \in Images /\ b \in Nat /\ HasCells(mem, image, b)
      BY LoadFacts DEF MapInv
    <2>2. ~Torn(mem, image, b)
      BY DEF InMemory, MemoryOf
    <2>3. QED
      BY <2>1, <2>2 DEF ShowsExports
  <1> HIDE DEF mem, image, b
  <1>2. PICK e \in ToSet(ExportList(mem, b)) :
          /\ e.va = va
          /\ resolved[va] = [module |-> ModuleOf(l).stem, api |-> e.name,
                             is64 |-> Headers(mem, b).is64]
    BY DEF TakenFrom, Listed, mem, b
  <1>3. Headers(mem, b).is64 = image.is64 /\ IsListed(image, b, e)
    BY <1>1, <1>2, ExportsAreSound
  <1>4. PICK i \in DOMAIN image.exports :
          /\ image.exports[i].rva \in CodeAt
          /\ e.va = b + image.exports[i].rva
          /\ IsPrefix(e.name, image.exports[i].name)
    BY <1>3 DEF IsListed, IsListedAs
  <1> DEFINE export == [va |-> b + image.exports[i].rva, name |-> image.exports[i].name]
  <1>5. export \in ToSet(ExportsIn(image, b))
    <2>1. image \in Images /\ b \in Nat
      BY <1>1 DEF ShowsExports
    <2>2. QED
      BY <1>4, <2>1, ExportsInAre
  <1>6. /\ export.va = va /\ IsPrefix(resolved[va].api, export.name)
        /\ resolved[va].module = ModuleOf(l).stem /\ resolved[va].is64 = image.is64
    BY <1>2, <1>3, <1>4
  <1> HIDE DEF export
  <1>7. QED
    BY <1>5, <1>6 DEF Functions, Owns, image, b

(* What is taken from any load has its module's name and bitness: headers  *)
(* that are known in part are right about the latter or not taken at all.  *)
LEMMA TakenIsNamed ==
  ASSUME MapInv, NEW l \in DOMAIN trace.loads, NEW va, TakenFrom(l, va)
  PROVE  /\ resolved[va].module = ModuleOf(l).stem
         /\ resolved[va].is64 = ModuleOf(l).image.is64
  <1> DEFINE mem == MemoryOf(l)
             image == ModuleOf(l).image
             b == ModuleOf(l).base
  <1>1. IsMemory(mem) /\ image \in Images /\ b \in Nat /\ HasCells(mem, image, b)
    BY LoadFacts DEF MapInv
  <1> HIDE DEF mem, image, b
  <1>2. PICK e \in ToSet(ExportList(mem, b)) :
          resolved[va] = [module |-> ModuleOf(l).stem, api |-> e.name,
                          is64 |-> Headers(mem, b).is64]
    BY DEF TakenFrom, Listed, mem, b
  <1>3. Headers(mem, b).ok
    BY <1>1, <1>2, ExportListFacts DEF ExportsOk
  <1>4. Headers(mem, b).is64 = image.is64
    BY <1>1, <1>3, HeadersInPart
  <1>5. resolved[va].module = ModuleOf(l).stem /\ resolved[va].is64 = Headers(mem, b).is64
    BY <1>2
  <1>6. QED
    BY <1>4, <1>5 DEF image

(* A function of a module that can be read is listed.                      *)
LEMMA FunctionIsListed ==
  ASSUME MapInv, NEW l \in DOMAIN trace.loads, InMemory(l, IsWhole),
         NEW va \in Functions(l)
  PROVE  \E e \in Listed(l) : e.va = va
  <1> DEFINE mem == MemoryOf(l)
             image == ModuleOf(l).image
             b == ModuleOf(l).base
  <1>1. IsMemory(mem) /\ image \in Images /\ b \in Nat /\ HasCells(mem, image, b)
    BY LoadFacts DEF MapInv
  <1>2. IsKnown(mem, image, b)
    BY <1>1 DEF IsKnown, InMemory, MemoryOf
  <1>3. \E export \in ToSet(ExportsIn(image, b)) : export.va = va
    BY DEF Functions
  <1> HIDE DEF mem, image, b
  <1>4. PICK j \in DOMAIN image.exports :
          image.exports[j].rva \in CodeAt /\ va = b + image.exports[j].rva
    BY <1>1, <1>3, ExportsInAre
  <1>5. \E e \in ToSet(ExportList(mem, b)) : e.va = b + image.exports[j].rva
    BY <1>2, <1>4, ExportsAreComplete
  <1>6. QED
    BY <1>4, <1>5 DEF Listed, mem, b

(* Where an address of the map is from.                                    *)
IsFunctionOf(l, va) ==
  \/ va \in Functions(l) /\ Owns(l, va)
  \/ /\ InMemory(l, Torn)
     /\ resolved[va].module = ModuleOf(l).stem
     /\ resolved[va].is64 = ModuleOf(l).image.is64

LEMMA MapServes == MapInv => TargetsResolveToOwner
  <1> SUFFICES ASSUME MapInv, pc = "sweep"
               PROVE  /\ \A va \in DOMAIN resolved :
                           \E l \in DOMAIN trace.loads : IsFunctionOf(l, va)
                      /\ \A l \in DOMAIN trace.loads : InMemory(l, IsWhole) =>
                           \A va \in Functions(l) :
                             /\ va \in DOMAIN resolved
                             /\ \/ Owns(l, va)
                                \/ \E k \in 1..(l - 1) : va \in Functions(k) \/ InMemory(k, Torn)
    BY Zenon DEF TargetsResolveToOwner, Prepared, IsFunctionOf
  <1>1. /\ trace.loads \in Seq(Load) /\ DOMAIN trace.loads = 1..(next - 1)
        /\ next \in Nat
    BY TraceType DEF MapInv
  <1>2. ASSUME NEW va \in DOMAIN resolved
        PROVE  \E l \in DOMAIN trace.loads : IsFunctionOf(l, va)
    <2>1. PICK l \in DOMAIN trace.loads : TakenFrom(l, va)
      BY <1>1 DEF MapInv
    <2>2. CASE InMemory(l, Torn)
      BY <2>1, <2>2, TakenIsNamed DEF IsFunctionOf
    <2>3. CASE ~InMemory(l, Torn)
      BY <2>1, <2>3, TakenIsOwned DEF IsFunctionOf
    <2>4. QED
      BY <2>2, <2>3
  <1>3. ASSUME NEW l \in DOMAIN trace.loads, InMemory(l, IsWhole), NEW va \in Functions(l)
        PROVE  /\ va \in DOMAIN resolved
               /\ \/ Owns(l, va)
                  \/ \E k \in 1..(l - 1) : va \in Functions(k) \/ InMemory(k, Torn)
    <2>1. PICK e \in Listed(l) : e.va = va
      BY <1>3, FunctionIsListed
    <2>2. va \in DOMAIN resolved /\ \E k \in 1..l : TakenFrom(k, va)
      BY <1>1, <2>1 DEF MapInv
    <2>3. PICK k \in 1..l : TakenFrom(k, va)
      BY <2>2
    <2>4. k \in DOMAIN trace.loads /\ (k = l \/ k \in 1..(l - 1))
      <3>1. l \in 1..(next - 1)
        BY <1>1
      <3>2. k \in 1..(next - 1) /\ (k = l \/ k \in 1..(l - 1))
        BY ONLY <1>1, <3>1, k \in 1..l
      <3>3. QED
        BY <1>1, <3>2
    <2>5. CASE k = l
      <3>1. ~InMemory(l, Torn)
        <4>1. IsKnown(MemoryOf(l), ModuleOf(l).image, ModuleOf(l).base)
          BY <1>3, LoadFacts DEF MapInv, IsKnown, InMemory, MemoryOf
        <4>2. QED
          BY <4>1, KnownShows DEF ShowsExports, InMemory, MemoryOf
      <3>2. QED
        BY <2>2, <2>3, <2>5, <3>1, TakenIsOwned
    <2>6. CASE k \in 1..(l - 1)
      BY <2>2, <2>3, <2>4, <2>6, TakenIsOwned
    <2>7. QED
      BY <2>4, <2>5, <2>6
  <1>4. QED
    BY <1>2, <1>3

(* Whatever address the map has is a function of a module that had it      *)
(* there, under its name and with that module's bitness, or it came with a *)
(* module whose export directory was known in part, under that module's    *)
(* name and with its bitness; and a function of a module that can be read  *)
(* is in the map, as its own unless a module loaded before was at that     *)
(* address or had such a directory (ttdutils.cpp:37-66), for every set of  *)
(* images, trace, memory and layout.                                       *)
THEOREM TargetsFound == Spec => []TargetsResolveToOwner
  <1>1. Spec => []MapInv
    BY MapInit, MapStep, PTL DEF Spec
  <1>2. QED
    BY <1>1, MapServes, PTL
----------------------------------------------------------------------------
(* Sections.                                                               *)
LEMMA PrefixIf ==
  ASSUME NEW S, NEW s \in Seq(S), NEW t \in Seq(S), Len(s) <= Len(t),
         \A k \in 1..Len(s) : s[k] = t[k]
  PROVE  IsPrefix(s, t)
  <1>1. /\ SubSeq(s, 1, Len(s)) \in Seq(S) /\ SubSeq(t, 1, Len(s)) \in Seq(S)
        /\ Len(SubSeq(s, 1, Len(s))) = Len(s) /\ Len(SubSeq(t, 1, Len(s))) = Len(s)
        /\ \A k \in 1..Len(s) : SubSeq(s, 1, Len(s))[k] = s[k] /\ SubSeq(t, 1, Len(s))[k] = t[k]
    OBVIOUS
  <1>2. SubSeq(s, 1, Len(s)) = SubSeq(t, 1, Len(s))
    BY <1>1, SeqEqual
  <1>3. QED
    BY <1>2 DEF IsPrefix

(* A walk by equal steps.                                                  *)
LEMMA EvenWalkEnds ==
  ASSUME NEW mem, IsMemory(mem), NEW E, NEW a \in Nat, NEW w \in {1, 2, 3, 5},
         \A i \in Nat : i \notin E => a + w * i \in DOMAIN mem
  PROVE  LET m == Min({i \in 0..Cardinality(DOMAIN mem) : i \in E})
         IN m \in Nat /\ m \in E /\ \A i \in 0..(m - 1) : i \notin E
  <1> DEFINE f == [i \in Nat |-> a + w * i]
  <1>1. \A i \in Nat : w * i \in Nat
    OBVIOUS
  <1>2. f \in [Nat -> Nat] /\ \A i \in Nat : f[i] = a + w * i
    BY <1>1
  <1> HIDE DEF f
  <1>3. \A i, j \in Nat : f[i] = f[j] => i = j
    <2> SUFFICES ASSUME NEW i \in Nat, NEW j \in Nat, f[i] = f[j] PROVE i = j
      OBVIOUS
    <2>1. a + w * i = a + w * j
      BY <1>2
    <2>2. CASE w = 1
      BY <2>1, <2>2
    <2>3. CASE w = 2
      BY <2>1, <2>3
    <2>4. CASE w = 3
      BY <2>1, <2>4
    <2>5. CASE w = 5
      BY <2>1, <2>5
    <2>6. QED
      BY <2>2, <2>3, <2>4, <2>5
  <1>4. \A i \in Nat : i \notin E => f[i] \in DOMAIN mem
    BY <1>2
  <1>5. QED
    BY ONLY <1>2, <1>3, <1>4, IsMemory(mem), WalkEnds

SectionEnds(mem, b, i) ==
  i >= Headers(mem, b).sections \/ Unreadable(mem, Headers(mem, b).table + 5 * i)

SectionCount(mem, b) ==
  Min({i \in 0..Cardinality(DOMAIN mem) : SectionEnds(mem, b, i)})

LEMMA SectionCountIs ==
  ASSUME NEW mem, IsMemory(mem), NEW b \in Nat
  PROVE  /\ SectionCount(mem, b) \in Nat
         /\ SectionEnds(mem, b, SectionCount(mem, b))
         /\ \A i \in 0..(SectionCount(mem, b) - 1) : ~SectionEnds(mem, b, i)
  <1> DEFINE a == Headers(mem, b).table
             E == {i \in Nat : SectionEnds(mem, b, i)}
             c == Cardinality(DOMAIN mem)
             m == Min({i \in 0..c : i \in E})
  <1>1. a \in Nat
    BY HeadersType DEF HeadersRecord
  <1>2. \A i \in Nat : i \notin E => a + 5 * i \in DOMAIN mem
    BY DEF SectionEnds, Unreadable
  <1>3. m \in Nat /\ m \in E /\ \A i \in 0..(m - 1) : i \notin E
    <2> HIDE DEF E, a
    <2>1. 5 \in {1, 2, 3, 5}
      OBVIOUS
    <2>2. QED
      BY ONLY <1>1, <1>2, <2>1, IsMemory(mem), EvenWalkEnds
  <1>4. m = SectionCount(mem, b)
    <2>1. c \in Nat
      BY FS_CardinalityType DEF IsMemory
    <2>2. {i \in 0..c : i \in E} = {i \in 0..c : SectionEnds(mem, b, i)}
      BY <2>1
    <2>3. QED
      BY <2>2 DEF SectionCount
  <1>5. \A i \in 0..(m - 1) : ~SectionEnds(mem, b, i)
    <2>1. \A i \in 0..(m - 1) : i \in Nat
      BY <1>3
    <2> HIDE DEF m
    <2>2. QED
      BY <1>3, <2>1
  <1>6. QED
    BY ONLY <1>3, <1>4, <1>5

(* The headers that are read, whatever is in memory.                       *)
LEMMA SectionHeadersFacts ==
  ASSUME NEW mem, IsMemory(mem), NEW b \in Nat
  PROVE  /\ SectionHeaders(mem, b) \in Seq(Seq(Nat))
         /\ Len(SectionHeaders(mem, b)) = SectionCount(mem, b)
         /\ \A i \in 1..SectionCount(mem, b) :
              /\ SectionHeaders(mem, b)[i] =
                   ReadMemory(mem, Headers(mem, b).table + 5 * (i - 1), 5)
              /\ Len(SectionHeaders(mem, b)[i]) = 5
  <1> DEFINE m == SectionCount(mem, b)
             a == Headers(mem, b).table
             s == [i \in 1..m |-> ReadMemory(mem, a + 5 * (i - 1), 5)]
  <1>1. m \in Nat /\ a \in Nat
    BY SectionCountIs, HeadersType DEF HeadersRecord
  <1>2. SectionHeaders(mem, b) = s
    BY Zenon DEF SectionHeaders, FirstEnd, SectionCount, SectionEnds
  <1> HIDE DEF m, a
  <1>3. ASSUME NEW i \in 1..m
        PROVE  /\ ReadMemory(mem, a + 5 * (i - 1), 5) \in Seq(Nat)
               /\ Len(ReadMemory(mem, a + 5 * (i - 1), 5)) = 5
    <2> DEFINE x == a + 5 * (i - 1)
    <2>1. x \in Nat /\ 5 \in Nat
      BY <1>1
    <2> HIDE DEF x
    <2>2. ReadMemory(mem, x, 5) \in Seq(Nat) /\ Len(ReadMemory(mem, x, 5)) = 5
      BY ONLY <2>1, IsMemory(mem), ReadIs
    <2>3. QED
      BY <2>2 DEF x
  <1>4. s \in [1..m -> Seq(Nat)] /\ \A i \in 1..m : s[i] = ReadMemory(mem, a + 5 * (i - 1), 5)
    BY <1>3
  <1> HIDE DEF s
  <1>5. s \in Seq(Seq(Nat)) /\ Len(s) = m
    BY <1>1, <1>4
  <1>6. QED
    BY <1>2, <1>3, <1>4, <1>5 DEF m, a

SectionRecord == [name : Nat, va : Nat]

LEMMA SectionListFacts ==
  ASSUME NEW mem, IsMemory(mem), NEW b \in Nat
  PROVE  /\ SectionList(mem, b) \in Seq(SectionRecord)
         /\ Len(SectionList(mem, b)) = SectionCount(mem, b)
         /\ \A i \in 1..SectionCount(mem, b) :
              SectionList(mem, b)[i] =
                [name |-> SectionHeaders(mem, b)[i][1], va |-> b + SectionHeaders(mem, b)[i][2]]
  <1> DEFINE m == SectionCount(mem, b)
             h == SectionHeaders(mem, b)
             Record(i) == [name |-> h[i][1], va |-> b + h[i][2]]
             s == [i \in DOMAIN h |-> Record(i)]
  <1>1. m \in Nat /\ h \in Seq(Seq(Nat)) /\ Len(h) = m /\ \A i \in 1..m : Len(h[i]) = 5
    BY SectionCountIs, SectionHeadersFacts
  <1>2. SectionList(mem, b) = s
    BY DEF SectionList
  <1> HIDE DEF m, h
  <1>3. DOMAIN h = 1..m
    BY <1>1
  <1>4. \A i \in 1..m : Record(i) \in SectionRecord
    <2> SUFFICES ASSUME NEW i \in 1..m PROVE Record(i) \in SectionRecord
      OBVIOUS
    <2>1. h[i] \in Seq(Nat) /\ Len(h[i]) = 5
      BY <1>1, <1>3, ElementOfSeq
    <2>2. h[i][1] \in Nat /\ h[i][2] \in Nat
      BY <2>1
    <2>3. QED
      BY <2>2 DEF SectionRecord
  <1>5. s \in [1..m -> SectionRecord] /\ \A i \in 1..m : s[i] = Record(i)
    BY <1>3, <1>4
  <1> HIDE DEF s
  <1>6. s \in Seq(SectionRecord) /\ Len(s) = m
    <2>1. m \in Nat /\ s \in [1..m -> SectionRecord]
      BY <1>1, <1>5
    <2>2. QED
      BY ONLY <2>1
  <1>7. QED
    BY <1>2, <1>5, <1>6 DEF m, h

(* What is read of a section header that is there.                         *)
LEMMA SectionHeaderIs ==
  ASSUME NEW mem, NEW image, NEW b, Shows(mem, image, b),
         Headers(mem, b) = HeadersOf(image, b),
         NEW i \in 1..Len(image.sections), Headers(mem, b).table + 5 * (i - 1) \in DOMAIN mem
  PROVE  LET header == ReadMemory(mem, Headers(mem, b).table + 5 * (i - 1), 5)
         IN header[1] = i /\ header[2] = DataAt(i)
  <1> DEFINE h == HeaderCells(image)
             p == Put(0, h)
             L == Len(OptionalHeader(image))
             n == Len(image.sections)
             a == 7 + L + 5 * (i - 1)
  <1>0. IsMemory(mem) /\ image \in Images /\ b \in Nat
        /\ HasCells(mem, image, b) /\ Uncut(mem, image, b)
    BY DEF Shows
  <1>1. /\ h \in Seq(Nat) /\ L \in Nat /\ n \in Nat /\ Len(h) = 7 + L + 5 * n
        /\ \A j \in 1..5 : h[7 + L + 5 * (i - 1) + j] = SectionHeader(image, i)[j]
    BY <1>0, HeaderCellsAre
  <1>2. p \in Parts(image)
    BY DEF Parts
  <1>3. Headers(mem, b).table = b + (7 + L)
    BY DEF HeadersOf
  <1>4. 7 + L + 5 * (i - 1)..(7 + L + 5 * (i - 1) + 4) \in Structures[image]
    <2>1. i - 1 \in 0..(n - 1)
      BY <1>1
    <2>2. QED
      BY <1>0, <2>1, StructuresAre
  <1> HIDE DEF h, L, n
  <1>5. /\ a \in Nat /\ a + 5 - 1 = a + 4 /\ a + 5 <= Len(h)
        /\ b + (7 + L) + 5 * (i - 1) = b + a
    <2>1. i \in 1..n
      BY DEF n
    <2> DEFINE len == Len(h)
    <2>2. len = 7 + L + 5 * n /\ L \in Nat /\ n \in Nat
      BY <1>1
    <2> HIDE DEF len
    <2>3. QED
      BY ONLY <1>0, <2>1, <2>2 DEF len
  <1>6. a..(a + 5 - 1) \in Structures[image]
    BY <1>4, <1>5
  <1> HIDE DEF a
  <1>7. /\ a..(a + 5 - 1) \subseteq DOMAIN p
        /\ \A j \in 1..5 : p[a + j - 1] = h[a + j]
    <2>1. /\ DOMAIN p = 0..(0 + Len(h) - 1)
          /\ \A k \in 1..Len(h) : p[0 + k - 1] = h[k]
      <3>1. 0 \in Nat
        OBVIOUS
      <3>2. QED
        BY ONLY <1>1, <3>1, PutIs
    <2> HIDE DEF p
    <2>2. Len(h) \in Nat
      BY <1>1
    <2>3. a..(a + 5 - 1) \subseteq 0..(0 + Len(h) - 1)
      BY ONLY <1>5, <2>2
    <2>4. \A j \in 1..5 : a + j \in 1..Len(h) /\ 0 + (a + j) - 1 = a + j - 1
      BY ONLY <1>5, <2>2
    <2>5. QED
      BY ONLY <2>1, <2>3, <2>4
  <1> HIDE DEF p
  <1>8. IsStructure(image, p, a, 5)
    <2>1. 5 \in Nat \ {0}
      OBVIOUS
    <2>2. QED
      BY ONLY <1>2, <1>5, <1>6, <1>7, <2>1 DEF IsStructure
  <1>9. b + a \in DOMAIN mem
    BY <1>3, <1>5
  <1>10. \A j \in 1..5 : ReadMemory(mem, b + a, 5)[j] = p[a + j - 1]
    BY <1>0, <1>8, <1>9, StructureIs
  <1>11. \A j \in 1..5 : ReadMemory(mem, b + a, 5)[j] = SectionHeader(image, i)[j]
    <2>1. \A j \in 1..5 : h[a + j] = SectionHeader(image, i)[j]
      BY <1>1 DEF a
    <2>2. QED
      BY ONLY <1>7, <1>10, <2>1
  <1>12. SectionHeader(image, i)[1] = i /\ SectionHeader(image, i)[2] = DataAt(i)
    BY DEF SectionHeader
  <1>13. ReadMemory(mem, Headers(mem, b).table + 5 * (i - 1), 5) = ReadMemory(mem, b + a, 5)
    BY <1>3, <1>5
  <1>14. QED
    BY <1>11, <1>12, <1>13

LEMMA SectionsInAre ==
  ASSUME NEW image \in Images, NEW b \in Nat
  PROVE  /\ SectionsIn(image, b) \in Seq(SectionRecord)
         /\ Len(SectionsIn(image, b)) = Len(image.sections)
         /\ \A i \in 1..Len(image.sections) :
              SectionsIn(image, b)[i] = [name |-> i, va |-> b + DataAt(i)]
  <1> DEFINE n == Len(image.sections)
             s == SectionsIn(image, b)
  <1>1. n \in Nat /\ DOMAIN image.sections = 1..n
    <2>1. image.sections \in Seq([exec : BOOLEAN, data : Seq(Nat), texts : Seq(Seq(Nat))])
      BY ImageType
    <2>2. QED
      BY <2>1
  <1> HIDE DEF n
  <1>2. \A i \in 1..n : b + DataAt(i) \in Nat
    BY Places DEF n
  <1>3. s = [i \in 1..n |-> [name |-> i, va |-> b + DataAt(i)]]
    BY <1>1 DEF SectionsIn
  <1> HIDE DEF s
  <1>4. \A i \in 1..n : s[i] = [name |-> i, va |-> b + DataAt(i)] /\ s[i] \in SectionRecord
    BY <1>2, <1>3 DEF SectionRecord
  <1>5. s \in [1..n -> SectionRecord]
    BY <1>3, <1>4
  <1>6. s \in Seq(SectionRecord) /\ Len(s) = n
    BY <1>1, <1>5
  <1>7. QED
    BY <1>4, <1>6 DEF s, n

LEMMA SectionsAreSound ==
  ASSUME NEW mem, NEW image, NEW b, Shows(mem, image, b)
  PROVE  IsPrefix(SectionList(mem, b), SectionsIn(image, b))
  <1> DEFINE m == SectionCount(mem, b)
             n == Len(image.sections)
             s == SectionList(mem, b)
             t == SectionsIn(image, b)
  <1>0. IsMemory(mem) /\ image \in Images /\ b \in Nat
        /\ HasCells(mem, image, b) /\ Uncut(mem, image, b)
    BY DEF Shows
  <1>1. /\ s \in Seq(SectionRecord) /\ Len(s) = m
        /\ \A i \in 1..m : s[i] = [name |-> SectionHeaders(mem, b)[i][1],
                                   va |-> b + SectionHeaders(mem, b)[i][2]]
    BY <1>0, SectionListFacts
  <1>2. /\ t \in Seq(SectionRecord) /\ Len(t) = n
        /\ \A i \in 1..n : t[i] = [name |-> i, va |-> b + DataAt(i)]
    BY <1>0, SectionsInAre
  <1>3. m \in Nat /\ n \in Nat /\ \A i \in 0..(m - 1) : ~SectionEnds(mem, b, i)
    <2>1. n \in Nat
      BY <1>0, HeaderCellsAre
    <2>2. QED
      BY ONLY <1>0, <2>1, SectionCountIs
  <1>4. Headers(mem, b) \in {NoHeaders, HeadersOf(image, b)}
    BY <1>0, HeadersAre
  <1>5. \A i \in 1..m : SectionHeaders(mem, b)[i] =
                          ReadMemory(mem, Headers(mem, b).table + 5 * (i - 1), 5)
    BY <1>0, SectionHeadersFacts
  <1>6. ASSUME NEW i \in 1..m
        PROVE  /\ i < Headers(mem, b).sections + 1
               /\ Headers(mem, b).table + 5 * (i - 1) \in DOMAIN mem
    <2>1. i - 1 \in 0..(m - 1)
      BY <1>3
    <2>2. ~SectionEnds(mem, b, i - 1)
      BY <1>3, <2>1
    <2>3. Headers(mem, b).sections \in Nat
      BY <1>0, HeadersType DEF HeadersRecord
    <2>4. QED
      BY <1>3, <2>2, <2>3 DEF SectionEnds, Unreadable
  <1>7. CASE Headers(mem, b) = NoHeaders
    <2>1. Headers(mem, b).sections = 0
      BY <1>7 DEF NoHeaders
    <2>2. m = 0
      BY <1>3, <1>6, <2>1
    <2>3. Len(s) <= Len(t) /\ \A k \in 1..Len(s) : s[k] = t[k]
      BY ONLY <1>1, <1>2, <1>3, <2>2
    <2> HIDE DEF s, t
    <2>4. QED
      BY <1>1, <1>2, <2>3, PrefixIf DEF s, t
  <1>8. CASE Headers(mem, b) = HeadersOf(image, b)
    <2>1. Headers(mem, b).sections = n
      BY <1>8 DEF HeadersOf
    <2>2. \A i \in 1..m : i \in 1..n
      BY <1>3, <1>6, <2>1
    <2>3. ASSUME NEW i \in 1..m PROVE s[i] = t[i]
      <3>1. i \in 1..Len(image.sections)
        BY <2>2
      <3>2. SectionHeaders(mem, b)[i][1] = i /\ SectionHeaders(mem, b)[i][2] = DataAt(i)
        BY <1>5, <1>6, <1>8, <3>1, SectionHeaderIs
      <3>3. QED
        BY <1>1, <1>2, <3>1, <3>2
    <2>4. Len(s) <= Len(t)
      BY <1>1, <1>2, <1>3, <2>2
    <2> HIDE DEF s, t, m, n
    <2>5. QED
      BY <1>1, <1>2, <2>3, <2>4, PrefixIf DEF s, t
  <1>9. QED
    BY <1>4, <1>7, <1>8
----------------------------------------------------------------------------
(* Imports, whatever is in memory.                                         *)
LEMMA FlattenOf ==
  ASSUME NEW S, NEW m \in Nat, NEW f \in [1..m -> Seq(S)]
  PROVE  /\ FlattenSeq(f) \in Seq(S)
         /\ \A e : e \in ToSet(FlattenSeq(f)) <=> \E i \in 1..m : e \in ToSet(f[i])
  <1>1. f \in Seq(Seq(S)) /\ DOMAIN f = 1..m
    OBVIOUS
  <1>2. /\ FlattenSeq(f) \in Seq(S)
        /\ ToSet(FlattenSeq(f)) = UNION {ToSet(f[i]) : i \in DOMAIN f}
    BY <1>1, FlattenFacts
  <1>3. QED
    BY ONLY <1>1, <1>2

ImportRecord == [dll : Seq(Nat), name : Seq(Nat), va : Nat]

ThunkAt(mem, table, w, t) == ReadMemory(mem, table + t * w, w)
ThunkEnds(mem, table, w, t) == ThunkAt(mem, table, w, t) = [i \in 1..w |-> 0]
ThunkCount(mem, table, w) ==
  Min({t \in 0..Cardinality(DOMAIN mem) : ThunkEnds(mem, table, w, t)})
TableOf(b, desc) == b + IF desc[1] # 0 THEN desc[1] ELSE desc[3]
ImportName(mem, b, thunk, w) ==
  IF thunk[w] >= OrdinalFlag THEN <<Hash, (thunk[1] % OrdinalFlag) % OrdinalRange>>
  ELSE CStr(mem, b + (thunk[1] % OrdinalFlag) + 1, MaxName)
ImportEntry(mem, b, desc, w, t) ==
  LET name == ImportName(mem, b, ThunkAt(mem, TableOf(b, desc), w, t), w) IN
  IF name = <<>> THEN <<>>
  ELSE <<[dll |-> CStr(mem, b + desc[2], MaxDll), name |-> name,
          va |-> b + desc[3] + t * w]>>

DescAt(mem, b, i) == ReadMemory(mem, b + Headers(mem, b).imports.rva + 3 * i, 3)
DescEnds(mem, b, i) ==
  \/ Unreadable(mem, b + Headers(mem, b).imports.rva + 3 * i)
  \/ DescAt(mem, b, i)[2] = 0 /\ DescAt(mem, b, i)[3] = 0
DescCount(mem, b) == Min({i \in 0..Cardinality(DOMAIN mem) : DescEnds(mem, b, i)})

LEMMA ImportsOfIs ==
  ASSUME NEW mem, NEW b, NEW pe, NEW desc
  PROVE  ImportsOf(mem, b, pe, desc) =
           IF TableOf(b, desc) = b THEN <<>>
           ELSE FlattenSeq([t \in 1..ThunkCount(mem, TableOf(b, desc), ThunkWidth(pe)) |->
                              ImportEntry(mem, b, desc, ThunkWidth(pe), t - 1)])
  BY Zenon DEF ImportsOf, TableOf, ThunkCount, ThunkEnds, ThunkAt, ImportEntry, ImportName,
     FirstEnd

LEMMA ImportListIs ==
  ASSUME NEW mem, NEW b
  PROVE  ImportList(mem, b) =
           IF ~Headers(mem, b).ok \/ Absent(Headers(mem, b).imports) THEN <<>>
           ELSE FlattenSeq([i \in 1..DescCount(mem, b) |->
                              ImportsOf(mem, b, Headers(mem, b), DescAt(mem, b, i - 1))])
  BY Zenon DEF ImportList, DescCount, DescEnds, DescAt, FirstEnd

LEMMA ThunkType ==
  ASSUME NEW mem, IsMemory(mem), NEW table \in Nat, NEW w \in {1, 2}, NEW t \in Nat
  PROVE  /\ table + w * t = table + t * w /\ table + t * w \in Nat
         /\ ThunkAt(mem, table, w, t)[1] \in Nat /\ ThunkAt(mem, table, w, t)[w] \in Nat
         /\ table + t * w \notin DOMAIN mem => ThunkEnds(mem, table, w, t)
  <1> DEFINE a == table + t * w
  <1>1. table + w * t = a /\ a \in Nat /\ w \in Nat /\ 1 \in 1..w /\ w \in 1..w
    OBVIOUS
  <1> HIDE DEF a
  <1>2. ReadMemory(mem, a, w)[1] \in Nat /\ ReadMemory(mem, a, w)[w] \in Nat
    BY ONLY <1>1, IsMemory(mem), CellType
  <1>3. ASSUME a \notin DOMAIN mem
        PROVE  ReadMemory(mem, a, w) = [i \in 1..w |-> 0]
    <2>1. Got(mem, a, w) = 0
      BY ONLY <1>1, <1>3, GotIs
    <2>2. \A i \in 1..w : ~(i <= Got(mem, a, w))
      BY <2>1
    <2>3. QED
      BY <2>2 DEF ReadMemory
  <1>4. QED
    BY <1>1, <1>2, <1>3 DEF ThunkAt, ThunkEnds, a

LEMMA ThunkCountIs ==
  ASSUME NEW mem, IsMemory(mem), NEW table \in Nat, NEW w \in {1, 2}
  PROVE  /\ ThunkCount(mem, table, w) \in Nat
         /\ ThunkEnds(mem, table, w, ThunkCount(mem, table, w))
         /\ \A t \in 0..(ThunkCount(mem, table, w) - 1) : ~ThunkEnds(mem, table, w, t)
  <1> DEFINE E == {t \in Nat : ThunkEnds(mem, table, w, t)}
             c == Cardinality(DOMAIN mem)
             m == Min({t \in 0..c : t \in E})
  <1>1. \A t \in Nat : t \notin E => table + w * t \in DOMAIN mem
    BY ThunkType
  <1>2. m \in Nat /\ m \in E /\ \A t \in 0..(m - 1) : t \notin E
    <2> HIDE DEF E
    <2>1. w \in {1, 2, 3, 5}
      OBVIOUS
    <2>2. QED
      BY ONLY <1>1, <2>1, table \in Nat, IsMemory(mem), EvenWalkEnds
  <1>3. m = ThunkCount(mem, table, w)
    <2>1. c \in Nat
      BY FS_CardinalityType DEF IsMemory
    <2>2. {t \in 0..c : t \in E} = {t \in 0..c : ThunkEnds(mem, table, w, t)}
      BY <2>1
    <2>3. QED
      BY <2>2 DEF ThunkCount
  <1>4. \A t \in 0..(m - 1) : ~ThunkEnds(mem, table, w, t)
    <2>1. \A t \in 0..(m - 1) : t \in Nat
      BY <1>2
    <2> HIDE DEF m
    <2>2. QED
      BY <1>2, <2>1
  <1>5. QED
    BY ONLY <1>2, <1>3, <1>4

LEMMA DescType ==
  ASSUME NEW mem, IsMemory(mem), NEW b \in Nat, NEW i \in Nat
  PROVE  /\ Headers(mem, b).imports.rva \in Nat
         /\ \A k \in 1..3 : DescAt(mem, b, i)[k] \in Nat
  <1>1. Headers(mem, b).imports.rva \in Nat
    BY HeadersType DEF HeadersRecord
  <1> DEFINE a == b + Headers(mem, b).imports.rva + 3 * i
  <1>2. a \in Nat /\ 3 \in Nat
    BY <1>1
  <1> HIDE DEF a
  <1>3. \A k \in 1..3 : ReadMemory(mem, a, 3)[k] \in Nat
    BY ONLY <1>2, IsMemory(mem), CellType
  <1>4. QED
    BY <1>1, <1>3 DEF DescAt, a

LEMMA DescCountIs ==
  ASSUME NEW mem, IsMemory(mem), NEW b \in Nat
  PROVE  /\ DescCount(mem, b) \in Nat
         /\ DescEnds(mem, b, DescCount(mem, b))
         /\ \A i \in 0..(DescCount(mem, b) - 1) : ~DescEnds(mem, b, i)
  <1> DEFINE a == b + Headers(mem, b).imports.rva
             E == {i \in Nat : DescEnds(mem, b, i)}
             c == Cardinality(DOMAIN mem)
             m == Min({i \in 0..c : i \in E})
  <1>1. a \in Nat
    <2>1. Headers(mem, b).imports.rva \in Nat
      BY HeadersType DEF HeadersRecord
    <2>2. QED
      BY <2>1
  <1>2. \A i \in Nat : i \notin E => a + 3 * i \in DOMAIN mem
    BY DEF DescEnds, Unreadable
  <1>3. m \in Nat /\ m \in E /\ \A i \in 0..(m - 1) : i \notin E
    <2> HIDE DEF E, a
    <2>1. 3 \in {1, 2, 3, 5}
      OBVIOUS
    <2>2. QED
      BY ONLY <1>1, <1>2, <2>1, IsMemory(mem), EvenWalkEnds
  <1>4. m = DescCount(mem, b)
    <2>1. c \in Nat
      BY FS_CardinalityType DEF IsMemory
    <2>2. {i \in 0..c : i \in E} = {i \in 0..c : DescEnds(mem, b, i)}
      BY <2>1
    <2>3. QED
      BY <2>2 DEF DescCount
  <1>5. \A i \in 0..(m - 1) : ~DescEnds(mem, b, i)
    <2>1. \A i \in 0..(m - 1) : i \in Nat
      BY <1>3
    <2> HIDE DEF m
    <2>2. QED
      BY <1>3, <2>1
  <1>6. QED
    BY ONLY <1>3, <1>4, <1>5

LEMMA ImportEntryType ==
  ASSUME NEW mem, IsMemory(mem), NEW b \in Nat, NEW desc,
         desc[1] \in Nat, desc[2] \in Nat, desc[3] \in Nat, NEW w \in {1, 2}, NEW t \in Nat
  PROVE  ImportEntry(mem, b, desc, w, t) \in Seq(ImportRecord)
  <1> DEFINE table == TableOf(b, desc)
             thunk == ThunkAt(mem, table, w, t)
             name == ImportName(mem, b, thunk, w)
             dll == CStr(mem, b + desc[2], MaxDll)
             va == b + desc[3] + t * w
             e == [dll |-> dll, name |-> name, va |-> va]
  <1>1. table \in Nat
    BY DEF TableOf
  <1> HIDE DEF table
  <1>2. thunk[1] \in Nat
    BY <1>1, ThunkType
  <1> HIDE DEF thunk
  <1>3. /\ MaxName \in Nat /\ MaxDll \in Nat
        /\ OrdinalFlag \in Nat \ {0} /\ OrdinalRange \in Nat \ {0}
    BY PeAssumption
  <1>4. thunk[1] % OrdinalFlag \in Nat
    BY ONLY <1>2, <1>3
  <1>5. name \in Seq(Nat)
    <2> DEFINE low == thunk[1] % OrdinalFlag
               x == b + low + 1
    <2>1. low \in Nat /\ x \in Nat
      BY <1>4
    <2> HIDE DEF low, x
    <2>2. CStr(mem, x, MaxName) \in Seq(Nat)
      BY <1>3, <2>1, CStrType
    <2>3. <<Hash, low % OrdinalRange>> \in Seq(Nat)
      <3>1. low % OrdinalRange \in Nat
        BY ONLY <1>3, <2>1
      <3>2. QED
        BY <3>1 DEF Hash
    <2>4. name = <<Hash, low % OrdinalRange>> \/ name = CStr(mem, x, MaxName)
      BY Zenon DEF ImportName, low, x
    <2>5. QED
      BY <2>2, <2>3, <2>4
  <1> HIDE DEF name
  <1>6. dll \in Seq(Nat)
    <2> DEFINE x == b + desc[2]
    <2>1. x \in Nat
      OBVIOUS
    <2> HIDE DEF x
    <2>2. CStr(mem, x, MaxDll) \in Seq(Nat)
      BY <1>3, <2>1, CStrType
    <2>3. QED
      BY <2>2 DEF x
  <1> HIDE DEF dll
  <1>7. va \in Nat
    OBVIOUS
  <1> HIDE DEF va
  <1>8. e \in ImportRecord
    BY <1>5, <1>6, <1>7 DEF ImportRecord
  <1> HIDE DEF e
  <1>9. <<e>> \in Seq(ImportRecord) /\ <<>> \in Seq(ImportRecord)
    BY <1>8
  <1>10. ImportEntry(mem, b, desc, w, t) = <<e>> \/ ImportEntry(mem, b, desc, w, t) = <<>>
    BY Zenon DEF ImportEntry, e, name, thunk, table, dll, va
  <1>11. QED
    BY <1>9, <1>10

IsWidth(pe) == ThunkWidth(pe) \in {1, 2}

LEMMA ImportsOfFacts ==
  ASSUME NEW mem, IsMemory(mem), NEW b \in Nat, NEW desc,
         desc[1] \in Nat, desc[2] \in Nat, desc[3] \in Nat, NEW pe, IsWidth(pe)
  PROVE  /\ ImportsOf(mem, b, pe, desc) \in Seq(ImportRecord)
         /\ \A e \in ToSet(ImportsOf(mem, b, pe, desc)) :
              \E t \in 0..(ThunkCount(mem, TableOf(b, desc), ThunkWidth(pe)) - 1) :
                e \in ToSet(ImportEntry(mem, b, desc, ThunkWidth(pe), t))
  <1> DEFINE w == ThunkWidth(pe)
             table == TableOf(b, desc)
             m == ThunkCount(mem, table, w)
             f == [t \in 1..m |-> ImportEntry(mem, b, desc, w, t - 1)]
             s == ImportsOf(mem, b, pe, desc)
  <1>1. w \in {1, 2} /\ table \in Nat
    BY DEF IsWidth, TableOf
  <1>2. s = IF table = b THEN <<>> ELSE FlattenSeq(f)
    BY ImportsOfIs
  <1> HIDE DEF w, table, s
  <1>3. m \in Nat
    BY <1>1, ThunkCountIs
  <1> HIDE DEF m
  <1>4. \A t \in 1..m : t - 1 \in Nat /\ t - 1 \in 0..(m - 1)
    BY <1>3
  <1>5. \A t \in 1..m : ImportEntry(mem, b, desc, w, t - 1) \in Seq(ImportRecord)
    BY <1>1, <1>4, ImportEntryType
  <1>6. /\ f \in [1..m -> Seq(ImportRecord)]
        /\ \A t \in 1..m : f[t] = ImportEntry(mem, b, desc, w, t - 1)
    BY <1>5
  <1> HIDE DEF f
  <1>7. /\ FlattenSeq(f) \in Seq(ImportRecord)
        /\ \A e : e \in ToSet(FlattenSeq(f)) <=> \E t \in 1..m : e \in ToSet(f[t])
    BY ONLY <1>3, <1>6, FlattenOf
  <1>8. /\ s \in Seq(ImportRecord)
        /\ \A e \in ToSet(s) : \E t \in 1..m : e \in ToSet(f[t])
    <2>1. <<>> \in Seq(ImportRecord) /\ ToSet(<<>>) = {}
      BY DEF ToSet
    <2>2. QED
      BY <1>2, <1>7, <2>1
  <1>9. \A e \in ToSet(s) : \E t \in 0..(m - 1) : e \in ToSet(ImportEntry(mem, b, desc, w, t))
    <2> SUFFICES ASSUME NEW e \in ToSet(s)
                 PROVE  \E t \in 0..(m - 1) : e \in ToSet(ImportEntry(mem, b, desc, w, t))
      OBVIOUS
    <2>1. PICK t \in 1..m : e \in ToSet(f[t])
      BY <1>8
    <2>2. e \in ToSet(ImportEntry(mem, b, desc, w, t - 1))
      BY <1>6, <2>1
    <2>3. QED
      BY <1>4, <2>2
  <1>10. QED
    BY <1>8, <1>9 DEF s, m, w, table

LEMMA ImportListFacts ==
  ASSUME NEW mem, IsMemory(mem), NEW b \in Nat
  PROVE  /\ ImportList(mem, b) \in Seq(ImportRecord)
         /\ \A e \in ToSet(ImportList(mem, b)) :
              /\ Headers(mem, b).ok /\ ~Absent(Headers(mem, b).imports)
              /\ \E i \in 0..(DescCount(mem, b) - 1) :
                   e \in ToSet(ImportsOf(mem, b, Headers(mem, b), DescAt(mem, b, i)))
  <1> DEFINE pe == Headers(mem, b)
             m == DescCount(mem, b)
             f == [i \in 1..m |-> ImportsOf(mem, b, pe, DescAt(mem, b, i - 1))]
             s == ImportList(mem, b)
             none == ~pe.ok \/ Absent(pe.imports)
  <1>1. IsWidth(pe)
    BY DEF IsWidth, ThunkWidth
  <1>2. s = IF none THEN <<>> ELSE FlattenSeq(f)
    BY ImportListIs
  <1>3. m \in Nat
    BY DescCountIs
  <1> HIDE DEF m, pe, s, none
  <1>4. \A i \in 1..m : i - 1 \in Nat /\ i - 1 \in 0..(m - 1)
    BY <1>3
  <1>5. ASSUME NEW i \in 1..m
        PROVE  ImportsOf(mem, b, pe, DescAt(mem, b, i - 1)) \in Seq(ImportRecord)
    <2> DEFINE desc == DescAt(mem, b, i - 1)
    <2>1. desc[1] \in Nat /\ desc[2] \in Nat /\ desc[3] \in Nat
      BY <1>4, DescType
    <2> HIDE DEF desc
    <2>2. ImportsOf(mem, b, pe, desc) \in Seq(ImportRecord)
      BY ONLY <1>1, <2>1, IsMemory(mem), b \in Nat, ImportsOfFacts
    <2>3. QED
      BY <2>2 DEF desc
  <1>6. /\ f \in [1..m -> Seq(ImportRecord)]
        /\ \A i \in 1..m : f[i] = ImportsOf(mem, b, pe, DescAt(mem, b, i - 1))
    BY <1>5
  <1> HIDE DEF f
  <1>7. /\ FlattenSeq(f) \in Seq(ImportRecord)
        /\ \A e : e \in ToSet(FlattenSeq(f)) <=> \E i \in 1..m : e \in ToSet(f[i])
    BY ONLY <1>3, <1>6, FlattenOf
  <1>8. /\ s \in Seq(ImportRecord)
        /\ \A e \in ToSet(s) : ~none /\ \E i \in 1..m : e \in ToSet(f[i])
    <2>1. <<>> \in Seq(ImportRecord) /\ ToSet(<<>>) = {}
      BY DEF ToSet
    <2>2. QED
      BY <1>2, <1>7, <2>1
  <1>9. \A e \in ToSet(s) :
          \E i \in 0..(m - 1) : e \in ToSet(ImportsOf(mem, b, pe, DescAt(mem, b, i)))
    <2> SUFFICES ASSUME NEW e \in ToSet(s)
                 PROVE  \E i \in 0..(m - 1) : e \in ToSet(ImportsOf(mem, b, pe, DescAt(mem, b, i)))
      OBVIOUS
    <2>1. PICK i \in 1..m : e \in ToSet(f[i])
      BY <1>8
    <2>2. e \in ToSet(ImportsOf(mem, b, pe, DescAt(mem, b, i - 1)))
      BY <1>6, <2>1
    <2>3. QED
      BY <1>4, <2>2
  <1>10. QED
    BY <1>8, <1>9 DEF s, m, pe, none
----------------------------------------------------------------------------
(* What an image imports.                                                  *)
ImportsType(image) ==
  /\ Len(image.imports) \in Nat
  /\ DOMAIN image.imports = 1..Len(image.imports)
  /\ \A i \in 1..Len(image.imports) :
       /\ image.imports[i].dll \in Seq(Nat)
       /\ 0 \notin ToSet(image.imports[i].dll)
       /\ image.imports[i].bound \in BOOLEAN
       /\ Len(image.imports[i].names) \in Nat
       /\ DOMAIN image.imports[i].names = 1..Len(image.imports[i].names)
       /\ \A t \in 1..Len(image.imports[i].names) :
            /\ image.imports[i].names[t].ordinal \in BOOLEAN
            /\ image.imports[i].names[t].text \in Seq(Nat)
            /\ image.imports[i].names[t].ordinal =>
                 /\ Len(image.imports[i].names[t].text) = 1
                 /\ image.imports[i].names[t].text[1] < OrdinalRange
            /\ ~image.imports[i].names[t].ordinal =>
                 /\ image.imports[i].names[t].text # <<>>
                 /\ 0 \notin ToSet(image.imports[i].names[t].text)

LEMMA ImportsAreTyped ==
  ASSUME NEW image \in Images
  PROVE  ImportsType(image)
  <1> DEFINE Name == [ordinal : BOOLEAN, text : Seq(Nat)]
             Import == [dll : Seq(Nat), bound : BOOLEAN, names : Seq(Name)]
             imports == image.imports
  <1>1. imports \in Seq(Import)
    BY ImageType
  <1>2. \A import \in ToSet(imports) : \A name \in ToSet(import.names) :
          /\ name.ordinal => Len(name.text) = 1 /\ name.text[1] < OrdinalRange
          /\ ~name.ordinal => name.text # <<>> /\ 0 \notin ToSet(name.text)
    BY ImageAssumption
  <1>6. \A import \in ToSet(imports) : 0 \notin ToSet(import.dll)
    BY ImageAssumption
  <1> HIDE DEF imports
  <1>3. Len(imports) \in Nat /\ DOMAIN imports = 1..Len(imports)
    BY <1>1
  <1>4. ASSUME NEW i \in 1..Len(imports)
        PROVE  /\ imports[i].dll \in Seq(Nat)
               /\ 0 \notin ToSet(imports[i].dll)
               /\ imports[i].bound \in BOOLEAN
               /\ Len(imports[i].names) \in Nat
               /\ DOMAIN imports[i].names = 1..Len(imports[i].names)
               /\ \A t \in 1..Len(imports[i].names) :
                    /\ imports[i].names[t].ordinal \in BOOLEAN
                    /\ imports[i].names[t].text \in Seq(Nat)
                    /\ imports[i].names[t].ordinal =>
                         /\ Len(imports[i].names[t].text) = 1
                         /\ imports[i].names[t].text[1] < OrdinalRange
                    /\ ~imports[i].names[t].ordinal =>
                         /\ imports[i].names[t].text # <<>>
                         /\ 0 \notin ToSet(imports[i].names[t].text)
    <2> DEFINE import == imports[i]
               names == import.names
    <2>1. import \in Import /\ import \in ToSet(imports)
      BY <1>1, <1>3, ElementOfSeq DEF ToSet
    <2>2. import.dll \in Seq(Nat) /\ import.bound \in BOOLEAN /\ names \in Seq(Name)
      BY <2>1
    <2>3. \A name \in ToSet(names) :
            /\ name.ordinal => Len(name.text) = 1 /\ name.text[1] < OrdinalRange
            /\ ~name.ordinal => name.text # <<>> /\ 0 \notin ToSet(name.text)
      BY <1>2, <2>1
    <2>9. 0 \notin ToSet(import.dll)
      BY <1>6, <2>1
    <2> HIDE DEF names, import
    <2>4. Len(names) \in Nat /\ DOMAIN names = 1..Len(names)
      BY <2>2
    <2>5. \A t \in 1..Len(names) : names[t] \in Name /\ names[t] \in ToSet(names)
      BY <2>2, <2>4, ElementOfSeq DEF ToSet
    <2>6. Len(names) \in Nat
      BY <2>4
    <2>7. ASSUME NEW t \in 1..Len(names)
          PROVE  /\ names[t].ordinal \in BOOLEAN
                 /\ names[t].text \in Seq(Nat)
                 /\ names[t].ordinal => Len(names[t].text) = 1 /\ names[t].text[1] < OrdinalRange
                 /\ ~names[t].ordinal => names[t].text # <<>> /\ 0 \notin ToSet(names[t].text)
      BY <2>3, <2>5
    <2>8. QED
      BY <2>2, <2>4, <2>6, <2>7, <2>9 DEF names, import
  <1>5. QED
    BY <1>3, <1>4 DEF ImportsType, imports

LEMMA WidthIs ==
  ASSUME NEW image \in Images
  PROVE  Width(image) \in {1, 2}
  BY DEF Width

LowOf(image, i, t) ==
  IF image.imports[i].names[t].ordinal THEN image.imports[i].names[t].text[1]
  ELSE HintAt(i, t)

FlagOf(image, i, t) == IF image.imports[i].names[t].ordinal THEN OrdinalFlag ELSE 0

LEMMA ThunkOfIs ==
  ASSUME NEW image \in Images, NEW i \in 1..Len(image.imports),
         NEW t \in 1..Len(image.imports[i].names)
  PROVE  /\ ThunkOf(image, i, t) \in Seq(Nat) /\ Len(ThunkOf(image, i, t)) = Width(image)
         /\ LowOf(image, i, t) \in Nat /\ FlagOf(image, i, t) \in Nat
         /\ Width(image) = 2 => ThunkOf(image, i, t) = <<LowOf(image, i, t), FlagOf(image, i, t)>>
         /\ Width(image) = 1 => ThunkOf(image, i, t) = <<LowOf(image, i, t) + FlagOf(image, i, t)>>
  <1> DEFINE low == LowOf(image, i, t)
             flag == FlagOf(image, i, t)
             thunk == ThunkOf(image, i, t)
  <1>1. low \in Nat /\ flag \in Nat
    <2>1. ImportsType(image) /\ OrdinalFlag \in Nat
      BY ImportsAreTyped, PeAssumption
    <2>2. /\ image.imports[i].names[t].text \in Seq(Nat)
          /\ image.imports[i].names[t].ordinal => Len(image.imports[i].names[t].text) = 1
      BY <2>1 DEF ImportsType
    <2>3. i \in Nat /\ t \in Nat /\ HintAt(i, t) \in Nat
      BY Places
    <2>4. image.imports[i].names[t].ordinal => image.imports[i].names[t].text[1] \in Nat
      BY <2>2
    <2>5. QED
      BY <2>1, <2>3, <2>4 DEF LowOf, FlagOf
  <1>2. thunk = IF image.is64 THEN <<low, flag>> ELSE <<low + flag>>
    BY Zenon DEF ThunkOf, LowOf, FlagOf
  <1>3. Width(image) = IF image.is64 THEN 2 ELSE 1
    BY DEF Width
  <1> HIDE DEF low, flag, thunk
  <1>4. CASE image.is64
    BY <1>1, <1>2, <1>3, <1>4 DEF low, flag, thunk
  <1>5. CASE ~image.is64
    BY <1>1, <1>2, <1>3, <1>5 DEF low, flag, thunk
  <1>6. QED
    BY <1>4, <1>5

(* The table of thunks of import i, with its end.                          *)
Thunks(image, i) ==
  FlattenSeq([t \in DOMAIN image.imports[i].names |-> ThunkOf(image, i, t)])

Ended(image, i) == Thunks(image, i) \o [k \in 1..Width(image) |-> 0]

LEMMA EndedIs ==
  ASSUME NEW image \in Images, NEW i \in 1..Len(image.imports)
  PROVE  LET w == Width(image)
             n == Len(image.imports[i].names)
         IN /\ Ended(image, i) \in Seq(Nat) /\ Len(Ended(image, i)) = w * n + w
            /\ \A t \in 1..n : \A j \in 1..w :
                 Ended(image, i)[w * (t - 1) + j] = ThunkOf(image, i, t)[j]
            /\ \A j \in 1..w : Ended(image, i)[w * n + j] = 0
  <1> DEFINE w == Width(image)
             names == image.imports[i].names
             n == Len(names)
             f == [t \in DOMAIN names |-> ThunkOf(image, i, t)]
             flat == Thunks(image, i)
             zeros == [k \in 1..w |-> 0]
  <1>1. w \in {1, 2} /\ n \in Nat /\ DOMAIN names = 1..n
    BY WidthIs, ImportsAreTyped DEF ImportsType
  <1>2. \A t \in 1..n : ThunkOf(image, i, t) \in Seq(Nat) /\ Len(ThunkOf(image, i, t)) = w
    BY ThunkOfIs
  <1>3. flat = FlattenSeq(f)
    BY DEF Thunks
  <1>4. Ended(image, i) = flat \o zeros
    BY DEF Ended
  <1> HIDE DEF w, names, n, flat
  <1>5. f \in [1..n -> Seq(Nat)] /\ \A t \in 1..n : f[t] = ThunkOf(image, i, t)
    BY <1>1, <1>2
  <1> HIDE DEF f
  <1>6. f \in Seq(Seq(Nat)) /\ Len(f) = n
    BY <1>1, <1>5
  <1>7. /\ flat \in Seq(Nat) /\ Len(flat) = w * n
        /\ \A t \in 1..n : \A j \in 1..w : flat[w * (t - 1) + j] = ThunkOf(image, i, t)[j]
    <2>1. \A t \in 1..Len(f) : Len(f[t]) = w
      BY <1>2, <1>5, <1>6
    <2>2. w \in {1, 2, 3, 5}
      BY <1>1
    <2>3. /\ Len(FlattenSeq(f)) = w * Len(f)
          /\ \A t \in 1..Len(f) : \A j \in 1..w : FlattenSeq(f)[w * (t - 1) + j] = f[t][j]
      <3>1. f \in Seq(Seq(Nat))
        BY <1>6
      <3>2. CASE w = 1
        <4>1. 1 \in {1, 2, 3, 5} /\ \A t \in 1..Len(f) : Len(f[t]) = 1
          BY <2>1, <3>2
        <4>2. /\ Len(FlattenSeq(f)) = 1 * Len(f)
              /\ \A t \in 1..Len(f) : \A j \in 1..1 : FlattenSeq(f)[1 * (t - 1) + j] = f[t][j]
          BY ONLY <3>1, <4>1, FlattenEven
        <4>3. QED
          BY <3>2, <4>2
      <3>3. CASE w = 2
        <4>1. 2 \in {1, 2, 3, 5} /\ \A t \in 1..Len(f) : Len(f[t]) = 2
          BY <2>1, <3>3
        <4>2. /\ Len(FlattenSeq(f)) = 2 * Len(f)
              /\ \A t \in 1..Len(f) : \A j \in 1..2 : FlattenSeq(f)[2 * (t - 1) + j] = f[t][j]
          BY ONLY <3>1, <4>1, FlattenEven
        <4>3. QED
          BY <3>3, <4>2
      <3>4. QED
        BY <1>1, <3>2, <3>3
    <2>4. FlattenSeq(f) \in Seq(Nat)
      BY <1>6, FlattenFacts
    <2>5. QED
      BY ONLY <1>3, <1>5, <1>6, <2>3, <2>4
  <1>8. zeros \in Seq(Nat) /\ Len(zeros) = w /\ \A j \in 1..w : zeros[j] = 0
    BY <1>1
  <1> HIDE DEF zeros
  <1>9. /\ flat \o zeros \in Seq(Nat) /\ Len(flat \o zeros) = Len(flat) + Len(zeros)
        /\ \A k \in 1..Len(flat) : (flat \o zeros)[k] = flat[k]
        /\ \A k \in 1..Len(zeros) : (flat \o zeros)[Len(flat) + k] = zeros[k]
    <2>1. flat \in Seq(Nat) /\ zeros \in Seq(Nat)
      BY <1>7, <1>8
    <2>2. QED
      BY ONLY <2>1, JoinFacts
  <1>10. \A t \in 1..n : \A j \in 1..w : w * (t - 1) + j \in 1..(w * n)
    <2> SUFFICES ASSUME NEW t \in 1..n, NEW j \in 1..w PROVE w * (t - 1) + j \in 1..(w * n)
      OBVIOUS
    <2>1. CASE w = 1
      BY <1>1, <2>1
    <2>2. CASE w = 2
      BY <1>1, <2>2
    <2>3. QED
      BY <1>1, <2>1, <2>2
  <1> DEFINE ended == flat \o zeros
  <1> HIDE DEF ended
  <1>11. /\ ended \in Seq(Nat) /\ Len(ended) = w * n + w
         /\ \A t \in 1..n : \A j \in 1..w : ended[w * (t - 1) + j] = ThunkOf(image, i, t)[j]
         /\ \A j \in 1..w : ended[w * n + j] = 0
    BY ONLY <1>7, <1>8, <1>9, <1>10 DEF ended
  <1>12. QED
    BY <1>4, <1>11 DEF ended, w, n, names

(* The cells from a on are v's.                                            *)
CellsLie(image, a, n, v) == \A k \in 1..n : Lies(image, a + k - 1, v[k])

TextLies(image, a, text) ==
  \A k \in 1..(Len(text) + 1) : Lies(image, a + k - 1, Append(text, 0)[k])

InStructures(image, a, n) ==
  a \in Nat /\ n \in Nat \ {0} /\ a..(a + n - 1) \in Structures[image]

LEMMA StructureLies ==
  ASSUME NEW mem, NEW image, NEW b, Shows(mem, image, b),
         NEW a, NEW n, InStructures(image, a, n), NEW v, CellsLie(image, a, n, v)
  PROVE  /\ b + a \in DOMAIN mem => \A k \in 1..n : ReadMemory(mem, b + a, n)[k] = v[k]
         /\ b + a \notin DOMAIN mem => \A k \in 1..n : ReadMemory(mem, b + a, n)[k] = 0
  <1> DEFINE cells == a..(a + n - 1)
             known == {x \in cells : b + x \in DOMAIN mem}
             e == b + a
  <1>0. /\ IsMemory(mem) /\ image \in Images /\ b \in Nat
        /\ HasCells(mem, image, b) /\ Uncut(mem, image, b)
        /\ a \in Nat /\ n \in Nat \ {0} /\ cells \in Structures[image]
    BY DEF Shows, InStructures
  <1>2. \A x \in cells : x \in DOMAIN Mapped[image]
    <2> SUFFICES ASSUME NEW x \in cells PROVE x \in DOMAIN Mapped[image]
      OBVIOUS
    <2>1. x - a + 1 \in 1..n /\ a + (x - a + 1) - 1 = x
      BY <1>0
    <2>2. Lies(image, x, v[x - a + 1])
      BY <2>1 DEF CellsLie
    <2>3. PICK p \in Parts(image) : x \in DOMAIN p
      BY <2>2 DEF Lies
    <2>4. QED
      BY <1>0, <2>3, PartIs
  <1>3. known \in {{}, cells}
    BY <1>0, <1>2, UncutIs
  <1>4. a \in cells /\ e \in Nat /\ n \in Nat
    BY <1>0
  <1>5. \A k \in 1..n : ReadMemory(mem, e, n)[k] =
          IF k <= Got(mem, e, n) THEN mem[e + k - 1] ELSE 0
    <2> HIDE DEF e
    <2>1. QED
      BY ONLY <1>0, <1>4, ReadIs
  <1>6. CASE e \in DOMAIN mem
    <2>1. known = cells
      BY <1>3, <1>4, <1>6
    <2>2. ASSUME NEW k \in 1..n
          PROVE  e + k - 1 \in DOMAIN mem /\ mem[e + k - 1] = v[k]
      <3> DEFINE x == a + k - 1
      <3>1. x \in cells /\ e + k - 1 = b + x
        BY <1>0
      <3>2. Lies(image, x, v[k])
        BY DEF CellsLie
      <3>3. b + x \in DOMAIN mem
        BY <2>1, <3>1
      <3> HIDE DEF x
      <3>4. mem[b + x] = v[k]
        BY <1>0, <3>2, <3>3, LyingCell
      <3>5. QED
        BY <3>1, <3>3, <3>4
    <2> HIDE DEF e
    <2>3. Got(mem, e, n) = n
      BY <1>4, <2>2, GotIs
    <2>4. \A k \in 1..n : ReadMemory(mem, e, n)[k] = v[k]
      BY ONLY <1>4, <1>5, <2>2, <2>3
    <2>5. QED
      BY <1>6, <2>4 DEF e
  <1>7. CASE e \notin DOMAIN mem
    <2> HIDE DEF e
    <2>1. Got(mem, e, n) = 0
      BY <1>4, <1>7, GotIs
    <2>2. \A k \in 1..n : ReadMemory(mem, e, n)[k] = 0
      BY ONLY <1>4, <1>5, <2>1
    <2>3. QED
      BY <1>7, <2>2 DEF e
  <1>8. QED
    BY <1>6, <1>7

LEMMA TextIsThere ==
  ASSUME NEW mem, NEW image, NEW b, Shows(mem, image, b), NEW a \in Nat,
         NEW text \in Seq(Nat), TextLies(image, a, text)
  PROVE  /\ HasText(mem, b + a, text)
         /\ IsWhole(mem, image, b) => \A k \in 1..Len(text) : (b + a) + k - 1 \in DOMAIN mem
  <1> DEFINE e == b + a
  <1>0. IsMemory(mem) /\ image \in Images /\ b \in Nat /\ HasCells(mem, image, b) /\ e \in Nat
    BY DEF Shows
  <1>1. ASSUME NEW k \in 1..(Len(text) + 1)
        PROVE  /\ e + k - 1 \in DOMAIN mem => mem[e + k - 1] = Append(text, 0)[k]
               /\ IsWhole(mem, image, b) => e + k - 1 \in DOMAIN mem
    <2> DEFINE x == a + k - 1
               value == Append(text, 0)[k]
    <2>1. Len(text) \in Nat /\ k \in Nat
      OBVIOUS
    <2>2. e + k - 1 = b + x
      BY <1>0, <2>1
    <2>3. Lies(image, x, value)
      BY DEF TextLies
    <2> HIDE DEF x, value
    <2>4. /\ b + x \in DOMAIN mem => mem[b + x] = value
          /\ IsWhole(mem, image, b) => b + x \in DOMAIN mem
      BY <1>0, <2>3, LyingCell
    <2>5. QED
      BY <2>2, <2>4 DEF value
  <1>2. HasText(mem, e, text)
    BY <1>1 DEF HasText
  <1>3. \A k \in 1..Len(text) : k \in 1..(Len(text) + 1)
    OBVIOUS
  <1> HIDE DEF e
  <1>4. IsWhole(mem, image, b) => \A k \in 1..Len(text) : e + k - 1 \in DOMAIN mem
    BY <1>1, <1>3
  <1>5. QED
    BY <1>2, <1>4 DEF e

LEMMA TextRead ==
  ASSUME NEW mem, NEW image, NEW b, Shows(mem, image, b), NEW a \in Nat,
         NEW text \in Seq(Nat), TextLies(image, a, text), NEW limit \in Nat
  PROVE  IsPrefix(CStr(mem, b + a, limit), text)
  <1> DEFINE e == b + a
  <1>1. IsMemory(mem) /\ e \in Nat
    BY DEF Shows
  <1>2. HasText(mem, e, text)
    BY TextIsThere
  <1> HIDE DEF e
  <1>3. IsPrefix(CStr(mem, e, limit), text)
    BY <1>1, <1>2, CStrIsPrefix
  <1>4. QED
    BY <1>3 DEF e

LEMMA TextWhole ==
  ASSUME NEW mem, NEW image, NEW b, Shows(mem, image, b), IsWhole(mem, image, b),
         NEW a \in Nat, NEW text \in Seq(Nat), TextLies(image, a, text),
         0 \notin ToSet(text), NEW limit \in Nat, Len(text) <= limit
  PROVE  CStr(mem, b + a, limit) = text
  <1> DEFINE e == b + a
  <1>1. IsMemory(mem) /\ e \in Nat
    BY DEF Shows
  <1>2. HasText(mem, e, text) /\ \A k \in 1..Len(text) : e + k - 1 \in DOMAIN mem
    BY TextIsThere
  <1> HIDE DEF e
  <1>3. IsKnownText(mem, e, text)
    BY <1>2 DEF IsKnownText
  <1>4. CStr(mem, e, limit) = text
    BY <1>1, <1>3, CStrIsWhole
  <1>5. QED
    BY <1>4 DEF e

TableAt(image, i) == IF image.imports[i].bound THEN LookupAt(i) ELSE SlotsAt(i)

Descriptor(image, i) ==
  <<IF image.imports[i].bound THEN LookupAt(i) ELSE 0, DllAt(i), SlotsAt(i)>>

(* What the parts of import i put into memory.                             *)
ImportLies(image, i) ==
  LET import == image.imports[i] IN
  /\ CellsLie(image, ImportDirAt + 3 * (i - 1), 3, Descriptor(image, i))
  /\ TextLies(image, DllAt(i), import.dll)
  /\ CellsLie(image, TableAt(image, i), Len(Ended(image, i)), Ended(image, i))
  /\ \A t \in 1..Len(import.names) : ~import.names[t].ordinal =>
       /\ Lies(image, HintAt(i, t), 0)
       /\ TextLies(image, HintAt(i, t) + 1, import.names[t].text)

LEMMA DescriptorsLie ==
  ASSUME NEW image \in Images
  PROVE  /\ \A i \in 1..Len(image.imports) :
              CellsLie(image, ImportDirAt + 3 * (i - 1), 3, Descriptor(image, i))
         /\ CellsLie(image, ImportDirAt + 3 * Len(image.imports), 3, <<0, 0, 0>>)
  <1> DEFINE n == Len(image.imports)
             f == [i \in DOMAIN image.imports |-> Descriptor(image, i)]
             flat == FlattenSeq(f)
             zeros == <<0, 0, 0>>
             cells == flat \o zeros
  <1>1. n \in Nat /\ DOMAIN image.imports = 1..n
    BY ImportsAreTyped DEF ImportsType
  <1>2. Put(ImportDirAt, cells) \in Parts(image)
    BY DEF Parts, ImportParts, Descriptor
  <1> HIDE DEF n
  <1>3. \A i \in 1..n : Descriptor(image, i) \in Seq(Nat) /\ Len(Descriptor(image, i)) = 3
    <2> SUFFICES ASSUME NEW i \in 1..n
                 PROVE  Descriptor(image, i) \in Seq(Nat) /\ Len(Descriptor(image, i)) = 3
      OBVIOUS
    <2> DEFINE x == IF image.imports[i].bound THEN LookupAt(i) ELSE 0
               y == DllAt(i)
               z == SlotsAt(i)
    <2>1. x \in Nat /\ y \in Nat /\ z \in Nat
      BY Places DEF n
    <2>2. Descriptor(image, i) = <<x, y, z>>
      BY DEF Descriptor
    <2> HIDE DEF x, y, z
    <2>3. QED
      BY ONLY <2>1, <2>2
  <1>4. f \in [1..n -> Seq(Nat)] /\ \A i \in 1..n : f[i] = Descriptor(image, i)
    BY <1>1, <1>3
  <1> HIDE DEF f
  <1>5. f \in Seq(Seq(Nat)) /\ Len(f) = n
    BY <1>1, <1>4
  <1>6. /\ flat \in Seq(Nat) /\ Len(flat) = 3 * n
        /\ \A i \in 1..n : \A j \in 1..3 : flat[3 * (i - 1) + j] = Descriptor(image, i)[j]
    <2>1. f \in Seq(Seq(Nat)) /\ 3 \in {1, 2, 3, 5} /\ \A i \in 1..Len(f) : Len(f[i]) = 3
      BY <1>3, <1>4, <1>5
    <2>2. /\ Len(flat) = 3 * Len(f)
          /\ \A i \in 1..Len(f) : \A j \in 1..3 : flat[3 * (i - 1) + j] = f[i][j]
      BY ONLY <2>1, FlattenEven
    <2>3. flat \in Seq(Nat)
      BY <1>5, FlattenFacts
    <2>4. QED
      BY ONLY <1>4, <1>5, <2>2, <2>3
  <1> HIDE DEF flat
  <1>7. zeros \in Seq(Nat) /\ Len(zeros) = 3
    OBVIOUS
  <1>8. /\ cells \in Seq(Nat) /\ Len(cells) = Len(flat) + Len(zeros)
        /\ \A k \in 1..Len(flat) : cells[k] = flat[k]
        /\ \A k \in 1..Len(zeros) : cells[Len(flat) + k] = zeros[k]
    <2>1. flat \in Seq(Nat) /\ zeros \in Seq(Nat)
      BY <1>6, <1>7
    <2> HIDE DEF zeros
    <2>2. QED
      BY ONLY <2>1, JoinFacts
  <1> HIDE DEF cells, zeros
  <1>9. \A k \in 1..Len(cells) : Lies(image, ImportDirAt + k - 1, cells[k])
    <2>1. ImportDirAt \in Nat
      BY Bases
    <2>2. QED
      BY ONLY <1>2, <1>8, <2>1, image \in Images, PutLies
  <1>10. ASSUME NEW i \in 1..n
         PROVE  CellsLie(image, ImportDirAt + 3 * (i - 1), 3, Descriptor(image, i))
    <2> SUFFICES ASSUME NEW j \in 1..3
                 PROVE  Lies(image, ImportDirAt + 3 * (i - 1) + j - 1, Descriptor(image, i)[j])
      BY DEF CellsLie
    <2> DEFINE k == 3 * (i - 1) + j
    <2>1. k \in 1..(3 * n) /\ ImportDirAt + k - 1 = ImportDirAt + 3 * (i - 1) + j - 1
      BY <1>1, Bases
    <2>2. flat[k] = Descriptor(image, i)[j]
      BY <1>6
    <2> HIDE DEF k
    <2>3. k \in 1..Len(flat) /\ k \in 1..Len(cells)
      BY <1>1, <1>6, <1>7, <1>8, <2>1
    <2>4. Lies(image, ImportDirAt + k - 1, cells[k]) /\ cells[k] = flat[k]
      BY ONLY <1>8, <1>9, <2>3
    <2>5. QED
      BY ONLY <2>1, <2>2, <2>4
  <1>11. CellsLie(image, ImportDirAt + 3 * n, 3, zeros)
    <2> SUFFICES ASSUME NEW j \in 1..3
                 PROVE  Lies(image, ImportDirAt + 3 * n + j - 1, zeros[j])
      BY DEF CellsLie
    <2> DEFINE k == 3 * n + j
    <2>1. ImportDirAt + k - 1 = ImportDirAt + 3 * n + j - 1 /\ k = Len(flat) + j
      BY <1>1, <1>6, Bases
    <2>2. k \in 1..Len(cells) /\ j \in 1..Len(zeros)
      BY <1>1, <1>6, <1>7, <1>8
    <2> HIDE DEF k
    <2>3. Lies(image, ImportDirAt + k - 1, cells[k])
      BY ONLY <1>9, <2>2
    <2>4. cells[k] = zeros[j]
      BY ONLY <1>8, <2>1, <2>2
    <2>5. QED
      BY ONLY <2>1, <2>3, <2>4
  <1>12. QED
    BY <1>10, <1>11 DEF n, zeros

(* The parts of import i are parts of the image.                           *)
LEMMA PartsOfImport ==
  ASSUME NEW image \in Images, NEW i \in 1..Len(image.imports)
  PROVE  /\ Put(DllAt(i), Append(image.imports[i].dll, 0)) \in Parts(image)
         /\ Put(TableAt(image, i), Ended(image, i)) \in Parts(image)
         /\ \A t \in 1..Len(image.imports[i].names) : ~image.imports[i].names[t].ordinal =>
              Put(HintAt(i, t), <<0>> \o Append(image.imports[i].names[t].text, 0))
                \in Parts(image)
  <1> DEFINE import == image.imports[i]
             Zeros == [k \in 1..Width(image) |-> 0]
             Targets(j) == [k \in DOMAIN Thunks(image, j) |-> 9]
             Of(j) ==
               {Put(DllAt(j), Append(image.imports[j].dll, 0)),
                Put(SlotsAt(j),
                    (IF image.imports[j].bound THEN Targets(j) ELSE Thunks(image, j)) \o Zeros)}
               \cup {Put(LookupAt(j), Thunks(image, j) \o Zeros) :
                       x \in {image.imports[j].bound} \ {FALSE}}
               \cup {Put(HintAt(j, t), <<0>> \o Append(image.imports[j].names[t].text, 0)) :
                       t \in {u \in DOMAIN image.imports[j].names : ~image.imports[j].names[u].ordinal}}
  <1>1. UNION {Of(j) : j \in DOMAIN image.imports} \subseteq ImportParts(image)
    BY Zenon DEF ImportParts, Thunks
  <1>2. /\ i \in DOMAIN image.imports /\ import.bound \in BOOLEAN
        /\ DOMAIN import.names = 1..Len(import.names)
    BY ImportsAreTyped DEF ImportsType
  <1>3. ImportParts(image) \subseteq Parts(image)
    BY DEF Parts
  <1>4. Of(i) \subseteq Parts(image)
    <2> HIDE DEF Of
    <2>1. QED
      BY ONLY <1>1, <1>2, <1>3
  <1>5. Put(DllAt(i), Append(import.dll, 0)) \in Of(i)
    OBVIOUS
  <1>6. Put(TableAt(image, i), Ended(image, i)) \in Of(i)
    <2>1. CASE import.bound
      <3>1. TRUE \in {import.bound} \ {FALSE}
        BY <1>2, <2>1
      <3>2. TableAt(image, i) = LookupAt(i)
        BY <2>1 DEF TableAt
      <3>3. Put(LookupAt(i), Ended(image, i)) \in
              {Put(LookupAt(i), Thunks(image, i) \o Zeros) : x \in {import.bound} \ {FALSE}}
        BY <3>1 DEF Ended
      <3>4. QED
        BY <3>2, <3>3
    <2>2. CASE ~import.bound
      <3>1. TableAt(image, i) = SlotsAt(i)
        BY <2>2 DEF TableAt
      <3>2. QED
        BY <3>1, <2>2, Zenon DEF Ended
    <2>3. QED
      BY <2>1, <2>2
  <1>7. ASSUME NEW t \in 1..Len(import.names), ~import.names[t].ordinal
        PROVE  Put(HintAt(i, t), <<0>> \o Append(import.names[t].text, 0)) \in Of(i)
    <2>1. t \in {u \in DOMAIN import.names : ~import.names[u].ordinal}
      BY <1>2, <1>7
    <2>2. Put(HintAt(i, t), <<0>> \o Append(import.names[t].text, 0)) \in
            {Put(HintAt(i, u), <<0>> \o Append(import.names[u].text, 0)) :
               u \in {v \in DOMAIN import.names : ~import.names[v].ordinal}}
      BY <2>1
    <2>3. QED
      BY <2>2
  <1> HIDE DEF Of
  <1>8. QED
    BY <1>4, <1>5, <1>6, <1>7

LEMMA ImportPartsLie ==
  ASSUME NEW image \in Images, NEW i \in 1..Len(image.imports)
  PROVE  ImportLies(image, i)
  <1> DEFINE import == image.imports[i]
             table == TableAt(image, i)
             ended == Ended(image, i)
             Name(t) == import.names[t].text
  <1>1. /\ import.dll \in Seq(Nat) /\ Len(import.names) \in Nat
        /\ \A t \in 1..Len(import.names) : Name(t) \in Seq(Nat)
    <2>1. ImportsType(image)
      BY ImportsAreTyped
    <2>2. /\ import.dll \in Seq(Nat) /\ Len(import.names) \in Nat
          /\ \A t \in 1..Len(import.names) : Name(t) \in Seq(Nat)
      BY <2>1, Zenon DEF ImportsType
    <2>3. QED
      BY <2>2
  <1>2. CellsLie(image, ImportDirAt + 3 * (i - 1), 3, Descriptor(image, i))
    BY DescriptorsLie
  <1>3. TextLies(image, DllAt(i), import.dll)
    <2> DEFINE a == DllAt(i)
               cells == Append(import.dll, 0)
    <2>1. a \in Nat /\ cells \in Seq(Nat) /\ Len(cells) = Len(import.dll) + 1
      BY <1>1, Places
    <2>2. Put(a, cells) \in Parts(image)
      BY PartsOfImport
    <2> HIDE DEF a, cells
    <2>3. \A k \in 1..Len(cells) : Lies(image, a + k - 1, cells[k])
      BY ONLY <2>1, <2>2, image \in Images, PutLies
    <2>4. QED
      BY <2>1, <2>3 DEF TextLies, a, cells
  <1>4. CellsLie(image, table, Len(ended), ended)
    <2>1. table \in Nat
      BY Places DEF TableAt
    <2>2. ended \in Seq(Nat)
      BY EndedIs
    <2>3. Put(table, ended) \in Parts(image)
      BY PartsOfImport
    <2> HIDE DEF table, ended
    <2>4. \A k \in 1..Len(ended) : Lies(image, table + k - 1, ended[k])
      BY ONLY <2>1, <2>2, <2>3, image \in Images, PutLies
    <2>5. QED
      BY <2>4 DEF CellsLie
  <1>5. ASSUME NEW t \in 1..Len(import.names), ~import.names[t].ordinal
        PROVE  /\ Lies(image, HintAt(i, t), 0)
               /\ TextLies(image, HintAt(i, t) + 1, Name(t))
    <2> DEFINE a == HintAt(i, t)
               name == Name(t)
               text == Append(name, 0)
               cells == <<0>> \o text
    <2>1. a \in Nat /\ name \in Seq(Nat)
      BY <1>1, Places
    <2> HIDE DEF name
    <2>2. text \in Seq(Nat) /\ Len(text) = Len(name) + 1 /\ Len(name) \in Nat
      BY <2>1
    <2>3. Put(a, cells) \in Parts(image)
      BY <1>5, PartsOfImport DEF name
    <2> HIDE DEF a, text
    <2>4. /\ cells \in Seq(Nat) /\ Len(cells) = Len(text) + 1 /\ cells[1] = 0
          /\ \A k \in 1..Len(text) : cells[1 + k] = text[k]
      <3> DEFINE zero == <<0>>
      <3>1. zero \in Seq(Nat) /\ Len(zero) = 1 /\ zero[1] = 0
        OBVIOUS
      <3> HIDE DEF zero
      <3>2. /\ zero \o text \in Seq(Nat) /\ Len(zero \o text) = Len(zero) + Len(text)
            /\ Len(text) \in Nat
            /\ \A k \in 1..Len(zero) : (zero \o text)[k] = zero[k]
            /\ \A k \in 1..Len(text) : (zero \o text)[Len(zero) + k] = text[k]
        <4>1. zero \in Seq(Nat) /\ text \in Seq(Nat)
          BY <2>2, <3>1
        <4> HIDE DEF text
        <4>2. QED
          BY ONLY <4>1, JoinFacts
      <3> DEFINE joined == zero \o text
      <3> HIDE DEF joined
      <3>3. /\ joined \in Seq(Nat) /\ Len(joined) = Len(text) + 1 /\ joined[1] = 0
            /\ \A k \in 1..Len(text) : joined[1 + k] = text[k]
        BY ONLY <3>1, <3>2 DEF joined
      <3>4. QED
        BY <3>3 DEF joined, zero
    <2> HIDE DEF cells
    <2>5. \A k \in 1..Len(cells) : Lies(image, a + k - 1, cells[k])
      BY ONLY <2>1, <2>3, <2>4, image \in Images, PutLies
    <2>6. Lies(image, a, 0)
      <3>1. 1 \in 1..Len(cells) /\ a + 1 - 1 = a
        BY <2>1, <2>2, <2>4
      <3>2. Lies(image, a + 1 - 1, cells[1])
        BY ONLY <2>5, <3>1
      <3>3. QED
        BY ONLY <2>4, <3>1, <3>2
    <2>7. ASSUME NEW k \in 1..(Len(name) + 1)
          PROVE  Lies(image, a + 1 + k - 1, text[k])
      <3>1. k + 1 \in 1..Len(cells) /\ k \in 1..Len(text) /\ 1 + k = k + 1
        BY <2>2, <2>4
      <3>2. a + (k + 1) - 1 = a + 1 + k - 1
        BY <2>1
      <3>3. Lies(image, a + (k + 1) - 1, cells[k + 1]) /\ cells[1 + k] = text[k]
        BY ONLY <2>4, <2>5, <3>1
      <3>4. QED
        BY ONLY <3>1, <3>2, <3>3
    <2>8. QED
      BY <2>6, <2>7 DEF TextLies, a, text, name
  <1>6. QED
    BY <1>2, <1>3, <1>4, <1>5 DEF ImportLies

(* The image at the base is seen to have imports.                          *)
Importing(mem, image, b) ==
  /\ Shows(mem, image, b)
  /\ Headers(mem, b) = HeadersOf(image, b)
  /\ image.imports # <<>>

LEMMA ImportsAreRead ==
  ASSUME NEW mem, NEW image, NEW b, Shows(mem, image, b),
         Headers(mem, b).ok, ~Absent(Headers(mem, b).imports)
  PROVE  Importing(mem, image, b)
  <1>0. /\ IsMemory(mem) /\ image \in Images /\ b \in Nat
        /\ HasCells(mem, image, b) /\ Uncut(mem, image, b)
    BY DEF Shows
  <1>1. Headers(mem, b) \in {NoHeaders, HeadersOf(image, b)}
    BY <1>0, HeadersAre
  <1>2. Headers(mem, b) # NoHeaders
    BY DEF NoHeaders
  <1>3. Headers(mem, b) = HeadersOf(image, b)
    BY <1>1, <1>2
  <1>4. Headers(mem, b).imports.rva = IF image.imports = <<>> THEN 0 ELSE ImportDirAt
    BY <1>3 DEF HeadersOf
  <1>5. image.imports # <<>>
    BY <1>4 DEF Absent
  <1>6. QED
    BY <1>3, <1>5 DEF Importing

(* The descriptors that are walked along are the image's.                  *)
LEMMA DescriptorsAre ==
  ASSUME NEW mem, NEW image, NEW b, Importing(mem, image, b),
         NEW i \in 0..(DescCount(mem, b) - 1)
  PROVE  /\ i + 1 \in 1..Len(image.imports)
         /\ \A k \in 1..3 : DescAt(mem, b, i)[k] = Descriptor(image, i + 1)[k]
  <1> DEFINE n == Len(image.imports)
             m == DescCount(mem, b)
             A(j) == ImportDirAt + 3 * j
  <1>0. /\ Shows(mem, image, b) /\ IsMemory(mem) /\ image \in Images /\ b \in Nat
    BY DEF Importing, Shows
  <1>1. Headers(mem, b).imports.rva = ImportDirAt
    BY DEF Importing, HeadersOf
  <1>2. n \in Nat /\ m \in Nat
    BY <1>0, ImportsAreTyped, DescCountIs DEF ImportsType
  <1>3. /\ \A j \in 1..n : CellsLie(image, ImportDirAt + 3 * (j - 1), 3, Descriptor(image, j))
        /\ CellsLie(image, ImportDirAt + 3 * n, 3, <<0, 0, 0>>)
    BY <1>0, DescriptorsLie
  <1>4. \A j \in 0..n : (ImportDirAt + 3 * j)..(ImportDirAt + 3 * j + 2) \in Structures[image]
    BY <1>0, StructuresAre
  <1>5. \A j \in 0..(m - 1) : ~DescEnds(mem, b, j)
    BY <1>0, DescCountIs
  <1> HIDE DEF n, m
  <1>6. ASSUME NEW j \in 0..n
        PROVE  InStructures(image, A(j), 3) /\ A(j) \in Nat /\ b + ImportDirAt + 3 * j = b + A(j)
    <2>1. A(j) \in Nat /\ ImportDirAt + 3 * j + 2 = A(j) + 3 - 1 /\ b + ImportDirAt + 3 * j = b + A(j)
      BY <1>0, <1>2, Bases
    <2>2. A(j)..(ImportDirAt + 3 * j + 2) \in Structures[image]
      BY <1>4
    <2>3. QED
      BY <2>1, <2>2 DEF InStructures
  <1>7. ASSUME NEW j \in 0..(m - 1), j \in 0..n PROVE b + A(j) \in DOMAIN mem
    <2>1. ~DescEnds(mem, b, j)
      BY <1>5
    <2>2. b + ImportDirAt + 3 * j \in DOMAIN mem
      BY <1>1, <2>1 DEF DescEnds, Unreadable
    <2>3. QED
      BY <1>6, <1>7, <2>2
  <1>8. \A j \in 0..n : DescAt(mem, b, j) = ReadMemory(mem, b + A(j), 3)
    <2> SUFFICES ASSUME NEW j \in 0..n PROVE DescAt(mem, b, j) = ReadMemory(mem, b + A(j), 3)
      OBVIOUS
    <2>1. DescAt(mem, b, j) = ReadMemory(mem, b + ImportDirAt + 3 * j, 3)
      BY <1>1 DEF DescAt
    <2>2. b + ImportDirAt + 3 * j = b + A(j)
      BY <1>6
    <2>3. QED
      BY ONLY <2>1, <2>2
  <1>9. ~(n \in 0..(m - 1))
    <2> SUFFICES ASSUME n \in 0..(m - 1) PROVE FALSE
      OBVIOUS
    <2> DEFINE a == A(n)
               v == <<0, 0, 0>>
    <2>1. b + a \in DOMAIN mem /\ InStructures(image, a, 3) /\ CellsLie(image, a, 3, v)
      BY <1>2, <1>3, <1>6, <1>7
    <2>2. DescAt(mem, b, n) = ReadMemory(mem, b + a, 3)
      BY <1>2, <1>8
    <2>3. v[2] = 0 /\ v[3] = 0
      OBVIOUS
    <2> HIDE DEF a, v
    <2>4. \A k \in 1..3 : ReadMemory(mem, b + a, 3)[k] = v[k]
      BY ONLY <1>0, <2>1, StructureLies
    <2>5. DescAt(mem, b, n)[2] = 0 /\ DescAt(mem, b, n)[3] = 0
      BY <2>2, <2>3, <2>4
    <2>6. DescEnds(mem, b, n)
      BY <2>5 DEF DescEnds
    <2>7. QED
      BY <1>5, <2>6
  <1>10. i \in 0..(m - 1) /\ i \in 0..n /\ i + 1 \in 1..n /\ (i + 1) - 1 = i
    <2>1. i \in 0..(m - 1)
      BY DEF m
    <2>2. QED
      BY ONLY <1>2, <1>9, <2>1
  <1>11. \A k \in 1..3 : DescAt(mem, b, i)[k] = Descriptor(image, i + 1)[k]
    <2> DEFINE a == A(i)
               v == Descriptor(image, i + 1)
    <2>1. CellsLie(image, a, 3, v)
      <3>1. CellsLie(image, ImportDirAt + 3 * ((i + 1) - 1), 3, v)
        BY <1>3, <1>10
      <3>2. QED
        BY <1>10, <3>1
    <2>2. b + a \in DOMAIN mem /\ InStructures(image, a, 3)
      BY <1>6, <1>7, <1>10
    <2>3. DescAt(mem, b, i) = ReadMemory(mem, b + a, 3)
      BY <1>8, <1>10
    <2> HIDE DEF a, v
    <2>4. \A k \in 1..3 : ReadMemory(mem, b + a, 3)[k] = v[k]
      BY ONLY <1>0, <2>1, <2>2, StructureLies
    <2>5. QED
      BY <2>3, <2>4 DEF v
  <1>12. QED
    BY <1>10, <1>11 DEF n

(* Where thunk t of import i is, and what is there, its end included.      *)
ThunkPlace(image, i, t) == TableAt(image, i) + Width(image) * t

ThunkOrEnd(image, i, t) ==
  IF t < Len(image.imports[i].names) THEN ThunkOf(image, i, t + 1)
  ELSE [k \in 1..Width(image) |-> 0]

LEMMA ThunkStructures ==
  ASSUME NEW image \in Images, NEW i \in DOMAIN image.imports,
         NEW t \in 0..Len(image.imports[i].names)
  PROVE  \A table \in {LookupAt(i), SlotsAt(i)} :
           (table + Width(image) * t)..(table + Width(image) * t + Width(image) - 1)
             \in Structures[image]
  BY DEF Structures

LEMMA ThunksLie ==
  ASSUME NEW image \in Images, NEW i \in 1..Len(image.imports),
         NEW t \in 0..Len(image.imports[i].names)
  PROVE  /\ ThunkPlace(image, i, t) \in Nat
         /\ InStructures(image, ThunkPlace(image, i, t), Width(image))
         /\ CellsLie(image, ThunkPlace(image, i, t), Width(image), ThunkOrEnd(image, i, t))
  <1> DEFINE w == Width(image)
             n == Len(image.imports[i].names)
             at == TableAt(image, i)
             a == ThunkPlace(image, i, t)
             v == ThunkOrEnd(image, i, t)
             ended == Ended(image, i)
  <1>1. w \in {1, 2} /\ n \in Nat /\ i \in DOMAIN image.imports /\ i \in Nat
    BY WidthIs, ImportsAreTyped DEF ImportsType
  <1>2. at \in Nat /\ at \in {LookupAt(i), SlotsAt(i)}
    BY <1>1, Places DEF TableAt
  <1>3. a = at + w * t
    BY DEF ThunkPlace
  <1>4. v = IF t < n THEN ThunkOf(image, i, t + 1) ELSE [k \in 1..w |-> 0]
    BY DEF ThunkOrEnd
  <1>5. /\ Len(ended) = w * n + w
        /\ \A u \in 1..n : \A j \in 1..w : ended[w * (u - 1) + j] = ThunkOf(image, i, u)[j]
        /\ \A j \in 1..w : ended[w * n + j] = 0
    BY EndedIs
  <1>6. CellsLie(image, at, Len(ended), ended)
    BY ImportPartsLie DEF ImportLies
  <1>7. \A table \in {LookupAt(i), SlotsAt(i)} :
          (table + w * t)..(table + w * t + w - 1) \in Structures[image]
    BY <1>1, ThunkStructures
  <1>8. t \in 0..n /\ t \in Nat
    BY <1>1
  <1> HIDE DEF w, n, at, a, v, ended
  <1>9. (at + w * t)..(at + w * t + w - 1) \in Structures[image]
    BY <1>2, <1>7
  <1>10. a \in Nat /\ w \in Nat \ {0}
    <2>1. CASE w = 1
      BY <1>2, <1>3, <1>8, <2>1
    <2>2. CASE w = 2
      BY <1>2, <1>3, <1>8, <2>2
    <2>3. QED
      BY <1>1, <2>1, <2>2
  <1>11. InStructures(image, a, w)
    BY <1>3, <1>9, <1>10 DEF InStructures
  <1>12. CellsLie(image, a, w, v)
    <2> SUFFICES ASSUME NEW k \in 1..w PROVE Lies(image, a + k - 1, v[k])
      BY DEF CellsLie
    <2> DEFINE j == w * t + k
    <2>1. j \in 1..(w * n + w) /\ at + j - 1 = a + k - 1
      <3>1. CASE w = 1
        BY <1>1, <1>2, <1>3, <1>8, <3>1
      <3>2. CASE w = 2
        <4>1. k \in 1..2 /\ j = 2 * t + k /\ w * n = 2 * n /\ a = at + 2 * t
          BY <1>3, <3>2
        <4> HIDE DEF j
        <4>2. n \in Nat /\ t \in 0..n /\ at \in Nat
          BY <1>1, <1>2, <1>8
        <4>3. j \in 1..(2 * n + 2) /\ at + j - 1 = a + k - 1
          BY ONLY <4>1, <4>2
        <4>4. QED
          BY <3>2, <4>1, <4>3
      <3>3. QED
        BY <1>1, <3>1, <3>2
    <2>2. ended[j] = v[k]
      <3>1. CASE t < n
        <4>1. t + 1 \in 1..n /\ (t + 1) - 1 = t
          BY <1>1, <1>8, <3>1
        <4>2. ended[w * ((t + 1) - 1) + k] = ThunkOf(image, i, t + 1)[k]
          BY <1>5, <4>1
        <4>3. QED
          BY <1>4, <3>1, <4>1, <4>2
      <3>2. CASE t = n
        <4>1. ~(t < n)
          BY <1>1, <3>2
        <4>2. v[k] = 0
          BY <1>4, <4>1
        <4>3. QED
          BY <1>5, <3>2, <4>2
      <3>3. QED
        BY <1>1, <1>8, <3>1, <3>2
    <2> HIDE DEF j
    <2>3. Lies(image, at + j - 1, ended[j])
      BY <1>5, <1>6, <2>1 DEF CellsLie
    <2>4. QED
      BY <2>1, <2>2, <2>3
  <1>13. QED
    BY <1>10, <1>11, <1>12 DEF w, a, v

(* The thunks that are walked along are the import's.                      *)
LEMMA ThunksAre ==
  ASSUME NEW mem, NEW image, NEW b, Importing(mem, image, b),
         NEW i \in 1..Len(image.imports),
         NEW t \in 0..(ThunkCount(mem, b + TableAt(image, i), Width(image)) - 1)
  PROVE  /\ t + 1 \in 1..Len(image.imports[i].names)
         /\ \A k \in 1..Width(image) :
              ThunkAt(mem, b + TableAt(image, i), Width(image), t)[k] = ThunkOf(image, i, t + 1)[k]
  <1> DEFINE n == Len(image.imports[i].names)
             w == Width(image)
             table == b + TableAt(image, i)
             m == ThunkCount(mem, table, w)
             A(j) == ThunkPlace(image, i, j)
             V(j) == ThunkOrEnd(image, i, j)
  <1>0. /\ Shows(mem, image, b) /\ IsMemory(mem) /\ image \in Images /\ b \in Nat
    BY DEF Importing, Shows
  <1>1. w \in {1, 2} /\ n \in Nat /\ TableAt(image, i) \in Nat /\ table \in Nat
    <2>1. n \in Nat
      BY <1>0, ImportsAreTyped DEF ImportsType
    <2>2. TableAt(image, i) \in Nat
      BY <1>0, Places DEF TableAt
    <2>3. QED
      BY <1>0, <2>1, <2>2, WidthIs
  <1>2. \A j \in 0..n : A(j) \in Nat /\ InStructures(image, A(j), w) /\ CellsLie(image, A(j), w, V(j))
    BY <1>0, ThunksLie
  <1>3. \A j \in 0..n : A(j) = TableAt(image, i) + w * j
    BY DEF ThunkPlace
  <1>4. \A j \in 0..n : V(j) = IF j < n THEN ThunkOf(image, i, j + 1) ELSE [k \in 1..w |-> 0]
    BY DEF ThunkOrEnd
  <1>5. \A j \in 0..n : table + j * w = b + A(j)
    <2> SUFFICES ASSUME NEW j \in 0..n PROVE table + j * w = b + A(j)
      OBVIOUS
    <2> DEFINE at == TableAt(image, i)
    <2>1. A(j) = at + w * j /\ at \in Nat /\ table = b + at
      BY <1>1, <1>3
    <2> HIDE DEF at, table, A, w
    <2>2. CASE w = 1
      BY <1>0, <1>1, <2>1, <2>2
    <2>3. CASE w = 2
      BY <1>0, <1>1, <2>1, <2>3
    <2>4. QED
      BY <1>1, <2>2, <2>3
  <1> HIDE DEF table
  <1>6. m \in Nat /\ \A j \in 0..(m - 1) : ~ThunkEnds(mem, table, w, j)
    BY <1>0, <1>1, ThunkCountIs
  <1> HIDE DEF n, w, m, A, V
  <1>7. \A j \in 0..n : ThunkAt(mem, table, w, j) = ReadMemory(mem, b + A(j), w)
    BY <1>5 DEF ThunkAt
  <1>8. ASSUME NEW j \in 0..n, j \in 0..(m - 1)
        PROVE  \A k \in 1..w : ThunkAt(mem, table, w, j)[k] = V(j)[k]
    <2> DEFINE a == A(j)
               v == V(j)
               thunk == ThunkAt(mem, table, w, j)
    <2>1. InStructures(image, a, w) /\ CellsLie(image, a, w, v) /\ a \in Nat
      BY <1>2
    <2>2. thunk = ReadMemory(mem, b + a, w)
      BY <1>7
    <2>3. ~(thunk = [k \in 1..w |-> 0])
      BY <1>6, <1>8 DEF ThunkEnds
    <2> HIDE DEF a, v, thunk
    <2>4. /\ b + a \in DOMAIN mem => \A k \in 1..w : ReadMemory(mem, b + a, w)[k] = v[k]
          /\ b + a \notin DOMAIN mem => \A k \in 1..w : ReadMemory(mem, b + a, w)[k] = 0
      BY ONLY <1>0, <2>1, StructureLies
    <2>5. CASE b + a \notin DOMAIN mem
      <3>1. \A k \in 1..w : thunk[k] = 0
        BY <2>2, <2>4, <2>5
      <3> DEFINE e == b + a
      <3>2. e \in Nat /\ w \in Nat
        BY <1>0, <1>1, <2>1
      <3> HIDE DEF e
      <3>3. ReadMemory(mem, e, w) = [k \in 1..w |-> ReadMemory(mem, e, w)[k]]
        BY <3>2 DEF ReadMemory
      <3>4. thunk = [k \in 1..w |-> 0]
        BY <2>2, <3>1, <3>3 DEF e
      <3>5. QED
        BY <2>3, <3>4
    <2>6. CASE b + a \in DOMAIN mem
      BY <2>2, <2>4, <2>6 DEF v, thunk
    <2>7. QED
      BY <2>5, <2>6
  <1>9. ~(n \in 0..(m - 1))
    <2> SUFFICES ASSUME n \in 0..(m - 1) PROVE FALSE
      OBVIOUS
    <2> DEFINE thunk == ThunkAt(mem, table, w, n)
    <2>1. n \in 0..n /\ ~(n < n)
      BY <1>1
    <2>2. V(n) = [k \in 1..w |-> 0]
      BY <1>4, <2>1
    <2>3. \A k \in 1..w : thunk[k] = 0
      BY <1>8, <2>1, <2>2
    <2>4. thunk = [k \in 1..w |-> thunk[k]]
      BY <1>7, <2>1 DEF ReadMemory
    <2>5. thunk = [k \in 1..w |-> 0]
      <3> HIDE DEF thunk
      <3>1. QED
        BY <2>3, <2>4
    <2>6. QED
      BY <1>6, <2>5 DEF ThunkEnds
  <1>10. t \in 0..(m - 1) /\ t \in 0..n /\ t < n /\ t + 1 \in 1..n
    <2>1. t \in 0..(m - 1)
      BY DEF m, table, w
    <2>2. QED
      BY ONLY <1>1, <1>6, <1>9, <2>1
  <1>11. \A k \in 1..w : ThunkAt(mem, table, w, t)[k] = ThunkOf(image, i, t + 1)[k]
    <2>1. V(t) = ThunkOf(image, i, t + 1)
      BY <1>4, <1>10
    <2>2. QED
      BY <1>8, <1>10, <2>1
  <1>12. QED
    BY <1>10, <1>11 DEF n, w, table

(* What masking an ordinal's flag leaves of a thunk.                       *)
LEMMA FlagIsRemoved ==
  ASSUME NEW low \in Nat, NEW flag \in Nat \ {0}, low < flag
  PROVE  low % flag = low /\ (low + flag) % flag = low
  OBVIOUS

(* The name a thunk of the image stands for.                               *)
NameIn(image, i, t) ==
  IF image.imports[i].names[t].ordinal THEN <<Hash>> \o image.imports[i].names[t].text
  ELSE image.imports[i].names[t].text

IsThunk(image, i, t, thunk) ==
  \A k \in 1..Width(image) : thunk[k] = ThunkOf(image, i, t)[k]

LEMMA LowFits ==
  ASSUME NEW image \in Images, NEW i \in 1..Len(image.imports),
         NEW t \in 1..Len(image.imports[i].names)
  PROVE  LowOf(image, i, t) < OrdinalFlag
  <1> DEFINE name == image.imports[i].names[t]
             low == LowOf(image, i, t)
  <1>1. CASE name.ordinal
    <2>1. name.text[1] < OrdinalRange /\ name.text[1] \in Nat
      <3>1. ImportsType(image)
        BY ImportsAreTyped
      <3>2. QED
        BY ONLY <1>1, <3>1, i \in 1..Len(image.imports),
           t \in 1..Len(image.imports[i].names), SMTT(30) DEF ImportsType
    <2>2. OrdinalRange <= OrdinalFlag /\ OrdinalRange \in Nat /\ OrdinalFlag \in Nat
      BY PeAssumption
    <2>3. low = name.text[1]
      BY <1>1 DEF LowOf
    <2>4. QED
      BY ONLY <2>1, <2>2, <2>3
  <1>2. CASE ~name.ordinal
    <2>1. low = HintAt(i, t)
      BY <1>2 DEF LowOf
    <2>2. Lies(image, HintAt(i, t), 0)
      <3>1. ImportLies(image, i)
        BY ImportPartsLie
      <3>2. QED
        BY <1>2, <3>1, Zenon DEF ImportLies
    <2> HIDE DEF low
    <2>3. PICK p \in Parts(image) : low \in DOMAIN p
      BY <2>1, <2>2 DEF Lies
    <2>4. QED
      BY <2>3, PartIs DEF low
  <1>3. QED
    BY <1>1, <1>2

LEMMA PairJoined ==
  ASSUME NEW S, NEW x \in S, NEW y \in S
  PROVE  <<x>> \o <<y>> = <<x, y>>
  <1> DEFINE s == <<x>> \o <<y>>
             t == <<x, y>>
  <1>1. s \in Seq(S) /\ t \in Seq(S)
    OBVIOUS
  <1>2. Len(s) = 2 /\ s[1] = x /\ s[2] = y
    OBVIOUS
  <1>3. Len(t) = 2 /\ t[1] = x /\ t[2] = y
    OBVIOUS
  <1> HIDE DEF s, t
  <1>4. \A i \in 1..Len(s) : s[i] = t[i]
    BY <1>2, <1>3
  <1>5. s = t
    BY ONLY <1>1, <1>2, <1>3, <1>4, SeqEqual
  <1>6. QED
    BY <1>5 DEF s, t

LEMMA NameIs ==
  ASSUME NEW mem, NEW image, NEW b, Shows(mem, image, b),
         NEW i \in 1..Len(image.imports), NEW t \in 1..Len(image.imports[i].names),
         NEW thunk, IsThunk(image, i, t, thunk)
  PROVE  /\ IsPrefix(ImportName(mem, b, thunk, Width(image)), NameIn(image, i, t))
         /\ IsWhole(mem, image, b) /\ Len(image.imports[i].names[t].text) <= MaxName =>
              ImportName(mem, b, thunk, Width(image)) = NameIn(image, i, t)
  <1> DEFINE w == Width(image)
             name == image.imports[i].names[t]
             text == name.text
             low == LowOf(image, i, t)
             flag == FlagOf(image, i, t)
             F == OrdinalFlag
  <1>0. image \in Images /\ b \in Nat /\ F \in Nat \ {0} /\ MaxName \in Nat
    BY PeAssumption DEF Shows
  <1>1. /\ name.ordinal \in BOOLEAN /\ text \in Seq(Nat)
        /\ name.ordinal => Len(text) = 1
        /\ ~name.ordinal => 0 \notin ToSet(text)
    BY <1>0, ImportsAreTyped DEF ImportsType
  <1>2. w \in {1, 2} /\ low \in Nat /\ low < F
    BY <1>0, WidthIs, ThunkOfIs, LowFits
  <1>3. flag = IF name.ordinal THEN F ELSE 0
    BY DEF FlagOf
  <1>4. low = IF name.ordinal THEN text[1] ELSE HintAt(i, t)
    BY DEF LowOf
  <1>5. /\ w = 2 => thunk[1] = low /\ thunk[2] = flag
        /\ w = 1 => thunk[1] = low + flag
    <2>1. /\ w = 2 => ThunkOf(image, i, t) = <<low, flag>>
          /\ w = 1 => ThunkOf(image, i, t) = <<low + flag>>
      BY <1>0, ThunkOfIs
    <2>2. \A k \in 1..w : thunk[k] = ThunkOf(image, i, t)[k]
      BY DEF IsThunk
    <2> HIDE DEF w, low, flag
    <2>3. QED
      BY ONLY <2>1, <2>2
  <1>6. low % F = low /\ (low + F) % F = low
    <2> HIDE DEF low, F
    <2>1. QED
      BY <1>0, <1>2, FlagIsRemoved
  <1> HIDE DEF w, low, flag, F
  <1>7. thunk[1] % F = low /\ (thunk[w] >= F <=> name.ordinal)
    <2>1. low \in Nat /\ F \in Nat /\ F > 0 /\ low + 0 = low /\ low + F >= F
      BY <1>0, <1>2
    <2>2. CASE w = 2
      <3>1. thunk[1] % F = low /\ thunk[w] = flag
        BY <1>5, <1>6, <2>2
      <3>2. flag >= F <=> name.ordinal
        BY <1>1, <1>3, <2>1
      <3>3. QED
        BY <3>1, <3>2
    <2>3. CASE w = 1
      <3>1. thunk[1] = low + flag /\ thunk[w] = low + flag
        BY <1>5, <2>3
      <3>2. CASE name.ordinal
        <4>1. low + flag = low + F
          BY <1>3, <3>2
        <4>2. QED
          BY <1>6, <2>1, <3>1, <3>2, <4>1
      <3>3. CASE ~name.ordinal
        <4>1. low + flag = low
          BY <1>3, <2>1, <3>3
        <4>2. ~(low >= F)
          BY <1>2, <2>1
        <4>3. QED
          BY <1>6, <3>1, <3>3, <4>1, <4>2
      <3>4. QED
        BY <1>1, <3>2, <3>3
    <2>4. QED
      BY <1>2, <2>2, <2>3
  <1>8. ImportName(mem, b, thunk, w) =
          IF thunk[w] >= F THEN <<Hash, (thunk[1] % F) % OrdinalRange>>
          ELSE CStr(mem, b + (thunk[1] % F) + 1, MaxName)
    BY DEF ImportName, F
  <1>9. CASE name.ordinal
    <2>1. ImportName(mem, b, thunk, w) = <<Hash, low>>
      <3>1. low < OrdinalRange
        BY <1>0, <1>4, <1>9, ImportsAreTyped DEF ImportsType
      <3>2. low % OrdinalRange = low
        <4>1. low \in Nat /\ OrdinalRange \in Nat \ {0}
          BY <1>2, PeAssumption
        <4>2. QED
          BY ONLY <3>1, <4>1, FlagIsRemoved
      <3>3. ImportName(mem, b, thunk, w) = <<Hash, (thunk[1] % F) % OrdinalRange>>
        BY <1>7, <1>8, <1>9
      <3>4. thunk[1] % F = low
        BY <1>7
      <3>5. QED
        BY ONLY <3>2, <3>3, <3>4
    <2>2. NameIn(image, i, t) = <<Hash>> \o text
      BY <1>9 DEF NameIn
    <2> HIDE DEF name, text
    <2>3. <<Hash>> \o text = <<Hash, low>>
      <3>1. text \in Seq(Nat) /\ Len(text) = 1 /\ text[1] = low
        BY <1>1, <1>4, <1>9 DEF name, text
      <3>2. text = <<low>>
        BY ONLY <3>1
      <3>3. <<Hash>> \o <<low>> = <<Hash, low>>
        <4>1. Hash \in Nat /\ low \in Nat
          BY <1>2 DEF Hash
        <4>2. QED
          BY ONLY <4>1, PairJoined
      <3>4. QED
        BY <3>2, <3>3, Zenon
    <2> DEFINE both == <<Hash, low>>
    <2>4. both \in Seq(Nat) /\ Len(both) <= Len(both)
      BY <1>2 DEF Hash
    <2> HIDE DEF both
    <2>5. IsPrefix(both, both)
      BY <2>4, PrefixIf
    <2>6. QED
      BY <2>1, <2>2, <2>3, <2>5 DEF w, both
  <1>10. CASE ~name.ordinal
    <2> DEFINE a == low + 1
    <2>1. TextLies(image, HintAt(i, t) + 1, text)
      <3>1. ImportLies(image, i)
        BY <1>0, ImportPartsLie
      <3>2. QED
        BY <1>10, <3>1, Zenon DEF ImportLies
    <2>2. TextLies(image, a, text) /\ a \in Nat /\ b + a = b + low + 1
      <3>1. low = HintAt(i, t)
        BY <1>4, <1>10
      <3>2. a = HintAt(i, t) + 1
        BY ONLY <3>1
      <3>3. TextLies(image, a, text)
        BY <2>1, <3>2
      <3>4. a \in Nat /\ b + a = b + low + 1
        BY ONLY <1>0, <1>2
      <3>5. QED
        BY <3>3, <3>4
    <2> HIDE DEF a, text
    <2>3. IsPrefix(CStr(mem, b + a, MaxName), text)
      BY ONLY Shows(mem, image, b), <1>0, <1>1, <2>2, TextRead
    <2>4. ImportName(mem, b, thunk, w) = CStr(mem, b + low + 1, MaxName)
      BY <1>7, <1>8, <1>10
    <2>5. NameIn(image, i, t) = text
      BY <1>10 DEF NameIn, text
    <2>6. IsWhole(mem, image, b) /\ Len(text) <= MaxName => CStr(mem, b + a, MaxName) = text
      <3> SUFFICES ASSUME IsWhole(mem, image, b), Len(text) <= MaxName
                   PROVE  CStr(mem, b + a, MaxName) = text
        OBVIOUS
      <3>1. 0 \notin ToSet(text)
        BY <1>1, <1>10
      <3>2. QED
        BY ONLY Shows(mem, image, b), IsWhole(mem, image, b), Len(text) <= MaxName,
                <1>0, <1>1, <2>2, <3>1, TextWhole
    <2>7. QED
      BY <2>2, <2>3, <2>4, <2>5, <2>6 DEF w, text
  <1>11. QED
    BY <1>1, <1>9, <1>10

(* An import the report may list: one of the image's, by its address, its  *)
(* names as far as they are known.                                         *)
IsImported(image, b, e) ==
  \E i \in DOMAIN image.imports : \E t \in DOMAIN image.imports[i].names :
    /\ e.va = b + SlotsAt(i) + Width(image) * (t - 1)
    /\ IsPrefix(e.name, NameIn(image, i, t))
    /\ IsPrefix(e.dll, image.imports[i].dll)

LEMMA ImportsAreSound ==
  ASSUME NEW mem, NEW image, NEW b, Shows(mem, image, b), NEW e \in ToSet(ImportList(mem, b))
  PROVE  IsImported(image, b, e)
  <1> DEFINE pe == Headers(mem, b)
             w == Width(image)
  <1>0. IsMemory(mem) /\ image \in Images /\ b \in Nat
    BY DEF Shows
  <1>1. pe.ok /\ ~Absent(pe.imports)
    BY <1>0, ImportListFacts
  <1>2. PICK j \in 0..(DescCount(mem, b) - 1) : e \in ToSet(ImportsOf(mem, b, pe, DescAt(mem, b, j)))
    BY <1>0, ImportListFacts
  <1>3. Importing(mem, image, b)
    BY <1>1, ImportsAreRead
  <1> DEFINE i == j + 1
             desc == DescAt(mem, b, j)
             at == TableAt(image, i)
             names == image.imports[i].names
             dll == image.imports[i].dll
  <1>4. ThunkWidth(pe) = w
    <2>1. pe.is64 = image.is64
      BY <1>3 DEF Importing, HeadersOf
    <2>2. QED
      BY <2>1 DEF ThunkWidth, Width
  <1>5. i \in 1..Len(image.imports) /\ \A k \in 1..3 : desc[k] = Descriptor(image, i)[k]
    BY <1>3, DescriptorsAre
  <1>6. /\ i \in DOMAIN image.imports /\ i \in Nat /\ dll \in Seq(Nat)
        /\ Len(names) \in Nat /\ DOMAIN names = 1..Len(names)
        /\ image.imports[i].bound \in BOOLEAN
    <2>1. ImportsType(image)
      BY <1>0, ImportsAreTyped
    <2> HIDE DEF i
    <2>2. Len(names) \in Nat
      BY <1>5, <2>1 DEF ImportsType
    <2>3. QED
      BY <1>5, <2>1, <2>2 DEF ImportsType
  <1> HIDE DEF pe, w, i, desc
  <1>7. /\ desc[1] = IF image.imports[i].bound THEN LookupAt(i) ELSE 0
        /\ desc[2] = DllAt(i) /\ desc[3] = SlotsAt(i)
    BY <1>5 DEF Descriptor
  <1>8. TableOf(b, desc) = b + at
    <2>1. CASE image.imports[i].bound
      <3>1. desc[1] = LookupAt(i) /\ desc[1] # 0
        BY <1>0, <1>5, <1>7, <2>1, Places
      <3>2. QED
        BY <2>1, <3>1 DEF TableOf, TableAt
    <2>2. CASE ~image.imports[i].bound
      <3>1. desc[1] = 0 /\ desc[3] = SlotsAt(i)
        BY <1>7, <2>2
      <3>2. QED
        BY <2>2, <3>1 DEF TableOf, TableAt
    <2>3. QED
      BY <1>6, <2>1, <2>2
  <1>9. PICK u \in 0..(ThunkCount(mem, b + at, w) - 1) : e \in ToSet(ImportEntry(mem, b, desc, w, u))
    <2>1. desc[1] \in Nat /\ desc[2] \in Nat /\ desc[3] \in Nat
      BY <1>0, <1>5, <1>7, Places
    <2>2. IsWidth(pe)
      BY <1>0, <1>4, WidthIs DEF IsWidth, w
    <2>3. e \in ToSet(ImportsOf(mem, b, pe, desc))
      BY <1>2 DEF desc
    <2>4. \E u \in 0..(ThunkCount(mem, TableOf(b, desc), ThunkWidth(pe)) - 1) :
            e \in ToSet(ImportEntry(mem, b, desc, ThunkWidth(pe), u))
      BY ONLY <1>0, <2>1, <2>2, <2>3, ImportsOfFacts
    <2>5. QED
      BY <1>4, <1>8, <2>4
  <1> DEFINE t == u + 1
             thunk == ThunkAt(mem, b + at, w, u)
             name == ImportName(mem, b, thunk, w)
  <1>10. t \in 1..Len(names) /\ \A k \in 1..w : thunk[k] = ThunkOf(image, i, t)[k]
    BY <1>3, <1>5, ThunksAre DEF w
  <1>11. u \in Nat /\ t - 1 = u /\ w \in {1, 2}
    BY <1>0, WidthIs DEF w
  <1> HIDE DEF t, thunk, at
  <1>12. IsPrefix(name, NameIn(image, i, t))
    <2>1. IsThunk(image, i, t, thunk)
      BY <1>10 DEF IsThunk, w
    <2> HIDE DEF thunk
    <2>2. QED
      BY <1>5, <1>10, <2>1, NameIs DEF w
  <1> HIDE DEF name
  <1>13. IsPrefix(CStr(mem, b + desc[2], MaxDll), dll)
    <2> DEFINE a == DllAt(i)
    <2>1. ImportLies(image, i)
      BY <1>0, <1>5, ImportPartsLie
    <2>2. TextLies(image, a, dll)
      BY <2>1, Zenon DEF ImportLies
    <2>3. a \in Nat /\ MaxDll \in Nat /\ desc[2] = a
      <3>1. MaxDll \in Nat
        BY PeAssumption
      <3>2. a \in Nat
        BY <1>0, <1>5, Places
      <3>3. QED
        BY <1>7, <3>1, <3>2
    <2> HIDE DEF a, dll
    <2>4. IsPrefix(CStr(mem, b + a, MaxDll), dll)
      BY ONLY Shows(mem, image, b), <1>6, <2>2, <2>3, TextRead
    <2>5. QED
      BY <2>3, <2>4
  <1> DEFINE d == CStr(mem, b + desc[2], MaxDll)
             r == [dll |-> d, name |-> name, va |-> b + desc[3] + u * w]
  <1>14. e = r
    <2>1. ImportEntry(mem, b, desc, w, u) = IF name = <<>> THEN <<>> ELSE <<r>>
      BY <1>8, Zenon DEF ImportEntry, name, thunk
    <2> HIDE DEF r
    <2>2. ToSet(<<>>) = {} /\ ToSet(<<r>>) = {r}
      BY DEF ToSet
    <2>3. QED
      BY <1>9, <2>1, <2>2
  <1>15. e.va = b + SlotsAt(i) + w * (t - 1) /\ e.name = name /\ e.dll = d
    <2>1. b + desc[3] + u * w = b + SlotsAt(i) + w * (t - 1)
      <3>1. CASE w = 1
        BY <1>0, <1>6, <1>7, <1>11, <3>1
      <3>2. CASE w = 2
        BY <1>0, <1>6, <1>7, <1>11, <3>2
      <3>3. QED
        BY <1>11, <3>1, <3>2
    <2> HIDE DEF d
    <2>2. QED
      BY <1>14, <2>1
  <1> HIDE DEF d, r
  <1>16. t \in DOMAIN image.imports[i].names
    BY <1>6, <1>10
  <1>17. IsPrefix(e.name, NameIn(image, i, t)) /\ IsPrefix(e.dll, image.imports[i].dll)
    BY <1>12, <1>13, <1>15 DEF d
  <1>18. QED
    BY <1>6, <1>15, <1>16, <1>17 DEF IsImported, w

(* What an image has to say of its imports and exports is in its lists.    *)
ImportIn(image, b, i, t) ==
  [dll |-> image.imports[i].dll,
   va |-> b + SlotsAt(i) + Width(image) * (t - 1),
   name |-> NameIn(image, i, t)]

LEMMA ImportsInHave ==
  ASSUME NEW image \in Images, NEW b \in Nat, NEW i \in DOMAIN image.imports,
         NEW t \in DOMAIN image.imports[i].names
  PROVE  ImportIn(image, b, i, t) \in ToSet(ImportsIn(image, b))
  <1> DEFINE m == Len(image.imports)
             N(j) == Len(image.imports[j].names)
             S == {ImportIn(image, b, j, u) : j \in 1..m, u \in Nat}
             Row(j) == [u \in DOMAIN image.imports[j].names |-> ImportIn(image, b, j, u)]
             f == [j \in DOMAIN image.imports |-> Row(j)]
  <1>1. ImportsIn(image, b) = FlattenSeq(f)
    BY Zenon DEF ImportsIn, ImportIn, NameIn
  <1>2. ImportsType(image)
    BY ImportsAreTyped
  <1>3. m \in Nat /\ DOMAIN image.imports = 1..m
    BY <1>2 DEF ImportsType
  <1>4. \A j \in 1..m : N(j) \in Nat /\ DOMAIN image.imports[j].names = 1..N(j)
    BY <1>2 DEF ImportsType
  <1> HIDE DEF m, N
  <1>5. ASSUME NEW j \in 1..m PROVE Row(j) \in Seq(S)
    <2> DEFINE n == N(j)
    <2>1. n \in Nat /\ DOMAIN image.imports[j].names = 1..n
      BY <1>4
    <2> HIDE DEF n
    <2>2. n \in Nat /\ \A u \in 1..n : u \in Nat
      BY <2>1
    <2>3. \A u \in 1..n : ImportIn(image, b, j, u) \in S
      BY <2>2
    <2> HIDE DEF S
    <2>4. Row(j) \in [1..n -> S]
      BY <2>1, <2>3
    <2>5. QED
      BY <2>2, <2>4
  <1> HIDE DEF S
  <1>6. f \in [1..m -> Seq(S)] /\ \A j \in 1..m : f[j] = Row(j)
    BY <1>3, <1>5
  <1> HIDE DEF f
  <1>7. \A e : e \in ToSet(FlattenSeq(f)) <=> \E j \in 1..m : e \in ToSet(f[j])
    BY ONLY <1>3, <1>6, FlattenOf
  <1>8. ImportIn(image, b, i, t) \in ToSet(Row(i))
    BY DEF ToSet
  <1> HIDE DEF Row
  <1>9. QED
    BY <1>1, <1>3, <1>6, <1>7, <1>8

LEMMA ImportedIsIn ==
  ASSUME NEW image \in Images, NEW b \in Nat, NEW e, IsImported(image, b, e)
  PROVE  \E import \in ToSet(ImportsIn(image, b)) :
           /\ import.va = e.va
           /\ IsPrefix(e.name, import.name)
           /\ IsPrefix(e.dll, import.dll)
  <1>1. PICK i \in DOMAIN image.imports : \E t \in DOMAIN image.imports[i].names :
          /\ e.va = b + SlotsAt(i) + Width(image) * (t - 1)
          /\ IsPrefix(e.name, NameIn(image, i, t))
          /\ IsPrefix(e.dll, image.imports[i].dll)
    BY Zenon DEF IsImported
  <1>2. PICK t \in DOMAIN image.imports[i].names :
          /\ e.va = b + SlotsAt(i) + Width(image) * (t - 1)
          /\ IsPrefix(e.name, NameIn(image, i, t))
          /\ IsPrefix(e.dll, image.imports[i].dll)
    BY <1>1, Zenon
  <1> DEFINE import == ImportIn(image, b, i, t)
  <1>3. import \in ToSet(ImportsIn(image, b))
    BY ImportsInHave
  <1>4. /\ import.va = b + SlotsAt(i) + Width(image) * (t - 1)
        /\ import.name = NameIn(image, i, t) /\ import.dll = image.imports[i].dll
    BY Zenon DEF ImportIn
  <1> HIDE DEF import
  <1>5. import.va = e.va /\ IsPrefix(e.name, import.name) /\ IsPrefix(e.dll, import.dll)
    BY <1>2, <1>4, Zenon
  <1>6. QED
    BY <1>3, <1>5, Zenon

LEMMA ListedIsIn ==
  ASSUME NEW image \in Images, NEW b \in Nat, NEW e, IsListed(image, b, e)
  PROVE  \E export \in ToSet(ExportsIn(image, b)) :
           export.va = e.va /\ IsPrefix(e.name, export.name)
  <1>1. PICK i \in DOMAIN image.exports :
          /\ image.exports[i].rva \in CodeAt
          /\ e.va = b + image.exports[i].rva
          /\ IsPrefix(e.name, image.exports[i].name)
    BY DEF IsListed, IsListedAs
  <1> DEFINE export == [va |-> b + image.exports[i].rva, name |-> image.exports[i].name]
  <1>2. export \in ToSet(ExportsIn(image, b))
    BY <1>1, ExportsInAre
  <1>3. export.va = e.va /\ export.name = image.exports[i].name
    BY <1>1
  <1> HIDE DEF export
  <1>4. QED
    BY <1>1, <1>2, <1>3
----------------------------------------------------------------------------
(* What is in the report was found at one of the two ends of the trace: an *)
(* attempt replaces or adds to what the one before has left.               *)
Ends == {0, End}

ImportsAt(p) == ImportList(trace.memory[p], Main.base)
ExportsAt(p) == ExportList(trace.memory[p], Main.base)
SectionsAt(p) == SectionList(trace.memory[p], Main.base)

Fields == {"sample", "arch", "imports", "exports", "sections", "strings"}

ReportInv ==
  /\ trace \in Traces
  /\ DOMAIN report = Fields
  /\ pc \in {"last", "min", "strings"} => Programs # {}
  /\ \A x \in ToSet(report.imports) : \E p \in Ends : x \in ToSet(ImportsAt(p))
  /\ report.exports \in Seq(ExportRecord)
  /\ \A x \in ToSet(report.exports) : \E p \in Ends : x \in ToSet(ExportsAt(p))
  /\ report.sections # <<>> => \E p \in Ends : report.sections = SectionsAt(p)

LEMMA EndsFacts ==
  ASSUME trace \in Traces, NEW p \in Ends
  PROVE  p \in 0..End /\ IsMemory(trace.memory[p])
  <1>1. p \in 0..End
    BY PrepareAssumption DEF Ends
  <1>2. QED
    BY <1>1, TraceType

LEMMA MainIsModule ==
  ASSUME trace \in Traces, Programs # {}
  PROVE  Main.base \in Nat
  <1>1. trace.modules \in Seq(Module)
    BY TraceType
  <1>2. Programs \subseteq Nat /\ Programs \subseteq DOMAIN trace.modules
    BY <1>1 DEF Programs
  <1>3. Min(Programs) \in DOMAIN trace.modules
    BY <1>2, MinIsLeast
  <1>4. trace.modules[Min(Programs)] \in Module
    BY <1>1, <1>3
  <1>5. QED
    BY <1>4, ModuleType DEF Main

LEMMA MainIsProgram ==
  ASSUME trace \in Traces, Programs # {}
  PROVE  Main \in ToSet(trace.modules) /\ Main.ext = "exe"
  <1>1. trace.modules \in Seq(Module)
    BY TraceType
  <1>2. Programs \subseteq Nat
    BY <1>1 DEF Programs
  <1>3. Min(Programs) \in Programs
    BY <1>2, MinIsLeast
  <1>4. Min(Programs) \in DOMAIN trace.modules /\ trace.modules[Min(Programs)].ext = "exe"
    BY <1>3 DEF Programs
  <1>5. QED
    BY <1>4 DEF Main, ToSet

LEMMA ReportInit == Init => ReportInv
  <1> SUFFICES ASSUME Init PROVE ReportInv
    OBVIOUS
  <1>1. \E sample : report = [sample |-> sample, arch |-> "x64", imports |-> <<>>, exports |-> <<>>,
                              sections |-> <<>>, strings |-> <<>>]
    BY Zenon DEF Init
  <1>2. PICK sample : report = [sample |-> sample, arch |-> "x64", imports |-> <<>>, exports |-> <<>>,
                                sections |-> <<>>, strings |-> <<>>]
    BY <1>1, Zenon
  <1>3. trace \in Traces /\ pc = "identify"
    BY Zenon DEF Init
  <1>4. /\ DOMAIN report = Fields
        /\ report.imports = <<>> /\ report.exports = <<>> /\ report.sections = <<>>
    BY <1>2 DEF Fields
  <1>5. ToSet(<<>>) = {} /\ <<>> \in Seq(ExportRecord)
    BY DEF ToSet
  <1>6. QED
    BY <1>3, <1>4, <1>5 DEF ReportInv

LEMMA ParseStep ==
  ASSUME ReportInv, UNCHANGED trace, NEW p \in Ends, Programs # {}, Parse(p)
  PROVE  ReportInv'
  <1>1. /\ DOMAIN report' = DOMAIN report
        /\ DOMAIN report = Fields
    BY DEF Parse, ReportInv
  <1>2. /\ report'.imports = ImportsAt(p)
        /\ report'.exports = report.exports \o ExportsAt(p)
        /\ report'.sections = SectionsAt(p)
    <2>1. {"imports", "exports", "sections"} \subseteq DOMAIN report
      BY <1>1 DEF Fields
    <2> DEFINE imports == ImportsAt(p)
               sections == SectionsAt(p)
               exports == ExportsAt(p)
               arch == IF ExportsOk(trace.memory[p], Main.base)
                         THEN ArchOf(Headers(trace.memory[p], Main.base).is64) ELSE report.arch
    <2>2. report' = [report EXCEPT !.imports = imports, !.sections = sections,
                                   !.exports = @ \o exports, !.arch = arch]
      BY Zenon DEF Parse, ImportsAt, SectionsAt, ExportsAt
    <2> HIDE DEF imports, sections, exports, arch
    <2>3. /\ report'.imports = imports /\ report'.sections = sections
          /\ report'.exports = report.exports \o exports
      BY <2>1, <2>2
    <2>4. QED
      BY <2>3 DEF imports, sections, exports
  <1>3. trace \in Traces /\ IsMemory(trace.memory[p]) /\ Main.base \in Nat
    BY EndsFacts, MainIsModule DEF ReportInv
  <1>4. ExportsAt(p) \in Seq(ExportRecord)
    BY <1>3, ExportListFacts DEF ExportsAt
  <1>5. /\ report'.exports \in Seq(ExportRecord)
        /\ ToSet(report'.exports) = ToSet(report.exports) \cup ToSet(ExportsAt(p))
    <2> DEFINE s == report.exports
               v == ExportsAt(p)
    <2>1. s \in Seq(ExportRecord) /\ v \in Seq(ExportRecord)
      BY <1>4 DEF ReportInv
    <2>2. report'.exports = s \o v
      BY <1>2
    <2> HIDE DEF s, v
    <2>3. s \o v \in Seq(ExportRecord) /\ ToSet(s \o v) = ToSet(s) \cup ToSet(v)
      BY ONLY <2>1, JoinFacts
    <2>4. QED
      BY <2>2, <2>3 DEF s, v
  <1>6. /\ \A q : ImportsAt(q)' = ImportsAt(q) /\ ExportsAt(q)' = ExportsAt(q)
                  /\ SectionsAt(q)' = SectionsAt(q)
        /\ Programs' = Programs
    BY DEF ImportsAt, ExportsAt, SectionsAt, Main, Programs
  <1>7. trace' \in Traces
    BY <1>3
  <1>8. /\ \A x \in ToSet(report'.imports) : \E q \in Ends : x \in ToSet(ImportsAt(q)')
        /\ \A x \in ToSet(report'.exports) : \E q \in Ends : x \in ToSet(ExportsAt(q)')
        /\ \E q \in Ends : report'.sections = SectionsAt(q)'
    <2>1. \A x \in ToSet(report.exports) : \E q \in Ends : x \in ToSet(ExportsAt(q))
      BY DEF ReportInv
    <2>2. QED
      BY <1>2, <1>5, <1>6, <2>1
  <1>9. QED
    BY <1>1, <1>5, <1>6, <1>7, <1>8 DEF ReportInv

LEMMA ReportStep == ReportInv /\ [Next]_vars => ReportInv'
  <1> SUFFICES ASSUME ReportInv, [Next]_vars PROVE ReportInv'
    OBVIOUS
  <1> DEFINE Keeps == /\ UNCHANGED trace /\ DOMAIN report' = DOMAIN report
                      /\ report'.imports = report.imports
                      /\ report'.exports = report.exports
                      /\ report'.sections = report.sections
                      /\ pc' \in {"last", "min", "strings"} => Programs # {}
  <1>1. ASSUME Keeps PROVE ReportInv'
    <2>1. /\ \A q : ImportsAt(q)' = ImportsAt(q) /\ ExportsAt(q)' = ExportsAt(q)
                    /\ SectionsAt(q)' = SectionsAt(q)
          /\ Programs' = Programs
      BY <1>1 DEF ImportsAt, ExportsAt, SectionsAt, Main, Programs
    <2>2. QED
      BY <1>1, <2>1 DEF ReportInv
  <1>2. End \in Ends /\ 0 \in Ends
    BY DEF Ends
  <1>3. CASE IdentifyMain
    <2>1. CASE Programs = {}
      <3>1. Keeps
        BY <1>3, <2>1 DEF IdentifyMain
      <3>2. QED
        BY <1>1, <3>1
    <2>2. CASE Programs # {}
      <3> DEFINE sample == Main.stem
      <3>1. UNCHANGED trace /\ report' = [report EXCEPT !.sample = sample]
        BY <1>3, <2>2 DEF IdentifyMain
      <3> HIDE DEF sample
      <3>2. Keeps
        BY <2>2, <3>1
      <3>3. QED
        BY <1>1, <3>2
    <2>3. QED
      BY <2>1, <2>2
  <1>4. CASE ParseLast
    <2>1. UNCHANGED trace /\ Parse(End) /\ pc = "last"
      BY <1>4 DEF ParseLast
    <2>2. Programs # {}
      BY <2>1 DEF ReportInv
    <2>3. QED
      BY <1>2, <2>1, <2>2, ParseStep
  <1>5. CASE ParseMin
    <2>1. UNCHANGED trace /\ Parse(0) /\ pc = "min"
      BY <1>5 DEF ParseMin
    <2>2. Programs # {}
      BY <2>1 DEF ReportInv
    <2>3. QED
      BY <1>2, <2>1, <2>2, ParseStep
  <1>6. CASE FindStrings
    <2> DEFINE strings == StringList(trace.memory[End], Main.base)
    <2>1. /\ UNCHANGED trace /\ report' = [report EXCEPT !.strings = strings]
          /\ pc' = "resolve"
      BY <1>6 DEF FindStrings
    <2> HIDE DEF strings
    <2>2. Keeps
      BY <2>1
    <2>3. QED
      BY <1>1, <2>2
  <1>7. CASE BeginResolving
    <2>1. Keeps
      BY <1>7 DEF BeginResolving
    <2>2. QED
      BY <1>1, <2>1
  <1>8. CASE ResolveLoad
    <2>1. Keeps
      <3>1. UNCHANGED <<trace, pc, report>> /\ pc = "loads"
        BY <1>8 DEF ResolveLoad
      <3>2. QED
        BY <3>1
    <2>2. QED
      BY <1>1, <2>1
  <1>9. CASE EndResolving
    <2>1. Keeps
      BY <1>9 DEF EndResolving
    <2>2. QED
      BY <1>1, <2>1
  <1>10. CASE UNCHANGED vars
    <2>1. Keeps
      BY <1>10 DEF vars, ReportInv
    <2>2. QED
      BY <1>1, <2>1
  <1>11. QED
    BY <1>3, <1>4, <1>5, <1>6, <1>7, <1>8, <1>9, <1>10 DEF Next

LEMMA ReportServes == ReportInv => NothingInvented
  <1> SUFFICES ASSUME ReportInv, Prepared, Clean(0), Clean(End)
               PROVE  /\ \A i \in DOMAIN report.imports :
                           OfImages(LAMBDA image : \E import \in ToSet(ImportsIn(image, Main.base)) :
                             /\ import.va = report.imports[i].va
                             /\ IsPrefix(report.imports[i].name, import.name)
                             /\ IsPrefix(report.imports[i].dll, import.dll))
                      /\ \A i \in DOMAIN report.exports :
                           OfImages(LAMBDA image : \E export \in ToSet(ExportsIn(image, Main.base)) :
                             /\ export.va = report.exports[i].va
                             /\ IsPrefix(report.exports[i].name, export.name))
                      /\ OfImages(LAMBDA image : IsPrefix(report.sections, SectionsIn(image, Main.base)))
    BY Zenon DEF NothingInvented
  <1> DEFINE b == Main.base
  <1>1. trace \in Traces /\ b \in Nat /\ 0 \in Ends
    BY MainIsModule DEF ReportInv, Prepared, Ends
  <1>2. ASSUME NEW p \in Ends
        PROVE  \E image \in Images : Shows(trace.memory[p], image, b)
    <2>1. IsMemory(trace.memory[p])
      BY <1>1, <1>2, EndsFacts
    <2>2. Clean(p)
      BY <1>2 DEF Ends
    <2>3. PICK image \in Images : HasCells(trace.memory[p], image, b) /\ Uncut(trace.memory[p], image, b)
      BY <2>2 DEF Clean
    <2>4. QED
      BY <1>1, <2>1, <2>3 DEF Shows
  <1>3. ASSUME NEW i \in DOMAIN report.imports
        PROVE  OfImages(LAMBDA image : \E import \in ToSet(ImportsIn(image, b)) :
                 /\ import.va = report.imports[i].va
                 /\ IsPrefix(report.imports[i].name, import.name)
                 /\ IsPrefix(report.imports[i].dll, import.dll))
    <2> DEFINE e == report.imports[i]
    <2>1. e \in ToSet(report.imports)
      BY DEF ToSet
    <2>2. PICK p \in Ends : e \in ToSet(ImportList(trace.memory[p], b))
      BY <2>1 DEF ReportInv, ImportsAt
    <2>3. PICK image \in Images : Shows(trace.memory[p], image, b)
      BY <1>2
    <2>4. HasCells(trace.memory[p], image, b)
      BY <2>3 DEF Shows
    <2> HIDE DEF b, e
    <2>5. IsImported(image, b, e)
      BY <2>2, <2>3, ImportsAreSound
    <2>6. \E import \in ToSet(ImportsIn(image, b)) :
            /\ import.va = e.va /\ IsPrefix(e.name, import.name) /\ IsPrefix(e.dll, import.dll)
      BY <1>1, <2>5, ImportedIsIn
    <2>7. p \in {0, End}
      BY DEF Ends
    <2>8. QED
      BY <2>4, <2>6, <2>7, Zenon DEF OfImages, b, e
  <1>4. ASSUME NEW i \in DOMAIN report.exports
        PROVE  OfImages(LAMBDA image : \E export \in ToSet(ExportsIn(image, b)) :
                 /\ export.va = report.exports[i].va
                 /\ IsPrefix(report.exports[i].name, export.name))
    <2> DEFINE e == report.exports[i]
    <2>1. e \in ToSet(report.exports)
      BY DEF ToSet
    <2>2. PICK p \in Ends : e \in ToSet(ExportList(trace.memory[p], b))
      BY <2>1 DEF ReportInv, ExportsAt
    <2>3. PICK image \in Images : Shows(trace.memory[p], image, b)
      BY <1>2
    <2>4. HasCells(trace.memory[p], image, b)
      BY <2>3 DEF Shows
    <2> HIDE DEF b, e
    <2>5. IsListed(image, b, e)
      BY <2>2, <2>3, ShowsBoth, ExportsAreSound
    <2>6. \E export \in ToSet(ExportsIn(image, b)) :
            export.va = e.va /\ IsPrefix(e.name, export.name)
      BY <1>1, <2>5, ListedIsIn
    <2>7. p \in {0, End}
      BY DEF Ends
    <2>8. QED
      BY <2>4, <2>6, <2>7, Zenon DEF OfImages, b, e
  <1>5. OfImages(LAMBDA image : IsPrefix(report.sections, SectionsIn(image, b)))
    <2>1. PICK p \in Ends : report.sections = <<>> \/ report.sections = SectionList(trace.memory[p], b)
      BY <1>1 DEF ReportInv, SectionsAt
    <2>2. PICK image \in Images : Shows(trace.memory[p], image, b)
      BY <1>2
    <2>3. HasCells(trace.memory[p], image, b)
      BY <2>2 DEF Shows
    <2> HIDE DEF b
    <2>4. IsPrefix(report.sections, SectionsIn(image, b))
      <3>1. CASE report.sections = <<>>
        <4> DEFINE s == <<>>
                   t == SectionsIn(image, b)
        <4>1. t \in Seq(SectionRecord)
          BY <1>1, SectionsInAre
        <4>2. s \in Seq(SectionRecord) /\ Len(s) = 0
          OBVIOUS
        <4> HIDE DEF s, t
        <4>3. Len(s) <= Len(t) /\ \A k \in 1..Len(s) : s[k] = t[k]
          BY <4>1, <4>2
        <4>4. IsPrefix(s, t)
          BY ONLY <4>1, <4>2, <4>3, PrefixIf
        <4>5. QED
          BY <3>1, <4>4, Zenon DEF s, t
      <3>2. CASE report.sections = SectionList(trace.memory[p], b)
        <4>1. IsPrefix(SectionList(trace.memory[p], b), SectionsIn(image, b))
          BY <2>2, SectionsAreSound
        <4>2. QED
          BY <3>2, <4>1, Zenon
      <3>3. QED
        BY <2>1, <3>1, <3>2
    <2>5. p \in {0, End}
      BY DEF Ends
    <2>6. QED
      BY <2>3, <2>4, <2>5, Zenon DEF OfImages, b
  <1>6. QED
    BY <1>3, <1>4, <1>5, Zenon

(* If the structures of the images at the two ends of the trace are known  *)
(* or unknown as a whole, every import, export and section that is in the  *)
(* report (utils.cpp, try_parse) is one of those images', however little   *)
(* is known of them and whichever attempt it comes from.                   *)
THEOREM ReportIsOfImages == Spec => []NothingInvented
  <1>1. Spec => []ReportInv
    BY ReportInit, ReportStep, PTL DEF Spec
  <1>2. QED
    BY <1>1, ReportServes, PTL
----------------------------------------------------------------------------
(* What the loops over a section keep: a text, and texts, not too many.    *)
Found == {found \in Seq(Seq(Nat)) : Len(found) <= MaxStrings}

Scan == [cur : Seq(Nat), found : Found]

LEMMA KeptType ==
  ASSUME NEW s \in Scan, ~Enough(s.found)
  PROVE  Kept(s) \in Found
  <1>1. /\ s.cur \in Seq(Nat) /\ s.found \in Seq(Seq(Nat))
        /\ Len(s.found) \in Nat /\ Len(s.found) < MaxStrings /\ MaxStrings \in Nat
    BY PeAssumption DEF Scan, Found, Enough
  <1>2. CASE Len(s.cur) >= MinString
    <2> DEFINE x == s.found
               c == s.cur
    <2>1. Append(x, c) \in Seq(Seq(Nat)) /\ Len(Append(x, c)) = Len(x) + 1
      BY ONLY <1>1, AppendProperties
    <2>2. Kept(s) = Append(x, c)
      BY <1>2 DEF Kept
    <2> HIDE DEF x, c
    <2>3. Len(x) + 1 <= MaxStrings
      BY <1>1 DEF x
    <2>4. QED
      BY <2>1, <2>2, <2>3 DEF Found
  <1>3. CASE ~(Len(s.cur) >= MinString)
    BY <1>3 DEF Kept, Scan
  <1>4. QED
    BY <1>2, <1>3

LEMMA TurnType ==
  ASSUME NEW s \in Scan, NEW c \in Nat
  PROVE  Turn(s, c) \in Scan
  <1>1. CASE Enough(s.found)
    BY <1>1 DEF Turn
  <1>2. CASE ~Enough(s.found) /\ c # 0
    <2>1. s.cur \in Seq(Nat) /\ s.found \in Found
      BY DEF Scan
    <2>2. Append(s.cur, c) \in Seq(Nat)
      BY ONLY <2>1, c \in Nat, AppendProperties
    <2>3. Turn(s, c) = [s EXCEPT !.cur = Append(s.cur, c)]
      BY <1>2 DEF Turn
    <2>4. QED
      BY <2>1, <2>2, <2>3 DEF Scan
  <1>3. CASE ~Enough(s.found) /\ ~(c # 0)
    <2>1. Kept(s) \in Found
      BY <1>3, KeptType
    <2>2. Turn(s, c) = [cur |-> <<>>, found |-> Kept(s)]
      BY <1>3 DEF Turn
    <2>3. <<>> \in Seq(Nat)
      OBVIOUS
    <2>4. QED
      BY ONLY <2>1, <2>2, <2>3 DEF Scan
  <1>4. QED
    BY <1>1, <1>2, <1>3

LEMMA PassType ==
  ASSUME NEW chars \in Seq(Nat), NEW start \in Scan
  PROVE  Pass(chars, start) \in Scan
  <1> DEFINE n == Len(chars)
             Says(f) ==
               f = [p \in 0..n |-> IF p = 0 THEN start ELSE Turn(f[p - 1], chars[p])]
             scan == CHOOSE f : Says(f)
             step == [p \in 1..n |-> [s \in Scan |-> Turn(s, chars[p])]]
             last == scan[n]
  <1>1. n \in Nat /\ \A p \in 1..n : chars[p] \in Nat
    OBVIOUS
  <1>2. step \in [1..n -> [Scan -> Scan]]
    BY <1>1, TurnType
  <1>3. \A p \in 1..n : \A s \in Scan : step[p][s] = Turn(s, chars[p])
    OBVIOUS
  <1> HIDE DEF step, n
  <1>4. PICK h \in [0..n -> Scan] : Recurs(h, n, start, step)
    BY ONLY start \in Scan, <1>1, <1>2, RecursionExists
  <1>5. \E f : Says(f)
    <2> DEFINE r == [p \in 0..n |-> IF p = 0 THEN start ELSE Turn(h[p - 1], chars[p])]
    <2>1. h = [p \in 0..n |-> IF p = 0 THEN start ELSE step[p][h[p - 1]]]
      BY <1>4 DEF Recurs
    <2>2. ASSUME NEW p \in 0..n PROVE h[p] = r[p]
      <3>1. CASE p = 0
        BY <2>1, <3>1
      <3>2. CASE p # 0
        <4>1. p \in 1..n /\ p - 1 \in 0..n
          BY <1>1, <3>2
        <4>2. h[p - 1] \in Scan
          BY <4>1
        <4>3. h[p] = step[p][h[p - 1]]
          BY <2>1, <3>2
        <4>4. step[p][h[p - 1]] = Turn(h[p - 1], chars[p])
          BY <1>3, <4>1, <4>2
        <4>5. QED
          BY <3>2, <4>3, <4>4
      <3>3. QED
        BY <3>1, <3>2
    <2>3. h = [p \in 0..n |-> h[p]]
      OBVIOUS
    <2>4. h = r
      BY <2>2, <2>3
    <2>5. QED
      BY <2>4
  <1>6. Says(scan)
    BY <1>5, Zenon
  <1> HIDE DEF scan
  <1>7. \A p \in 0..n : scan[p] = IF p = 0 THEN start ELSE Turn(scan[p - 1], chars[p])
    BY <1>6
  <1>8. \A p \in 0..n : scan[p] \in Scan
    <2> DEFINE P == {p \in 0..n : scan[p] \in Scan}
    <2>1. 0 \in P
      BY <1>1, <1>7
    <2>2. ASSUME NEW p \in 1..n, p - 1 \in P PROVE p \in P
      <3>1. p \in 0..n /\ p # 0 /\ scan[p - 1] \in Scan
        BY <1>1, <2>2
      <3>2. scan[p] = Turn(scan[p - 1], chars[p])
        BY <1>7, <3>1
      <3>3. chars[p] \in Nat
        BY <1>1
      <3>4. Turn(scan[p - 1], chars[p]) \in Scan
        BY ONLY <3>1, <3>3, TurnType
      <3>5. QED
        BY <3>1, <3>2, <3>4
    <2> HIDE DEF P
    <2>3. 0..n \subseteq P
      BY ONLY <1>1, <2>1, <2>2, BoundedInduction
    <2>4. QED
      BY <2>3 DEF P
  <1>9. last \in Scan
    BY <1>1, <1>8
  <1>10. Pass(chars, start) =
           IF Enough(last.found) THEN last ELSE [last EXCEPT !.found = Kept(last)]
    BY Zenon DEF Pass, scan, n
  <1> HIDE DEF last
  <1>11. CASE Enough(last.found)
    BY <1>9, <1>10, <1>11
  <1>12. CASE ~Enough(last.found)
    <2>1. Kept(last) \in Found
      BY ONLY <1>9, <1>12, KeptType
    <2>2. Pass(chars, start) = [last EXCEPT !.found = Kept(last)]
      BY <1>10, <1>12
    <2>3. QED
      BY ONLY <1>9, <2>1, <2>2 DEF Scan
  <1>13. QED
    BY <1>11, <1>12

LEMMA BothPassesType ==
  ASSUME NEW buf \in Seq(Nat), NEW found \in Found
  PROVE  BothPasses(buf, found) \in Found
  <1> DEFINE bytes == [p \in DOMAIN buf |-> Char(buf[p])]
             pairs == PairsOf(buf)
             first == [cur |-> <<>>, found |-> found]
             ascii == Pass(bytes, first)
             second == [ascii EXCEPT !.cur = <<>>]
             n == Len(buf)
             h == n \div 2
  <1>1. n \in Nat /\ DOMAIN buf = 1..n /\ \A p \in 1..n : buf[p] \in Nat
    OBVIOUS
  <1>2. \A c \in Nat : Char(c) \in Nat
    BY DEF Char
  <1>3. bytes \in Seq(Nat)
    <2>1. bytes \in [1..n -> Nat]
      BY <1>1, <1>2
    <2> HIDE DEF bytes, n
    <2>2. QED
      BY ONLY <1>1, <2>1, IsASeq
  <1>4. pairs \in Seq(Nat)
    <2>1. h \in Nat /\ 2 * h <= n
      BY <1>1
    <2>2. pairs = [p \in 1..h |-> IF buf[2 * p] = 0 THEN Char(buf[2 * p - 1]) ELSE 0]
      BY DEF PairsOf
    <2> HIDE DEF h, pairs, n
    <2>3. ASSUME NEW p \in 1..h
          PROVE  (IF buf[2 * p] = 0 THEN Char(buf[2 * p - 1]) ELSE 0) \in Nat
      <3>1. 2 * p - 1 \in 1..n
        BY <1>1, <2>1
      <3>2. buf[2 * p - 1] \in Nat
        BY <1>1, <3>1
      <3>3. Char(buf[2 * p - 1]) \in Nat
        BY <1>2, <3>2
      <3>4. QED
        BY <3>3
    <2>4. pairs \in [1..h -> Nat]
      BY <2>2, <2>3
    <2>5. QED
      BY ONLY <2>1, <2>4, IsASeq
  <1>5. first \in Scan
    <2>1. <<>> \in Seq(Nat)
      OBVIOUS
    <2>2. QED
      BY <2>1 DEF Scan
  <1> HIDE DEF bytes, pairs, first
  <1>6. ascii \in Scan
    BY ONLY <1>3, <1>5, PassType
  <1> HIDE DEF ascii
  <1>7. second \in Scan
    <2>1. <<>> \in Seq(Nat)
      OBVIOUS
    <2>2. QED
      BY ONLY <1>6, <2>1 DEF Scan
  <1> HIDE DEF second
  <1>8. Pass(pairs, second) \in Scan
    BY ONLY <1>4, <1>7, PassType
  <1>9. BothPasses(buf, found) = Pass(pairs, second).found
    BY Zenon DEF BothPasses, second, ascii, first, bytes, pairs
  <1>10. QED
    BY ONLY <1>8, <1>9 DEF Scan

LEMMA SectionStringsType ==
  ASSUME NEW mem, IsMemory(mem), NEW b \in Nat, NEW header \in Seq(Nat), Len(header) = 5,
         NEW found \in Found
  PROVE  SectionStrings(mem, b, header, found) \in Found
  <1> DEFINE size == IF header[3] # 0 THEN header[3] ELSE header[4]
             a == b + header[2]
             buf == ReadMemory(mem, a, Got(mem, a, size))
  <1>1. SectionStrings(mem, b, header, found) \in {found, BothPasses(buf, found)}
    BY DEF SectionStrings
  <1>2. size \in Nat /\ a \in Nat
    <2>1. \A k \in 1..5 : header[k] \in Nat
      BY ONLY header \in Seq(Nat), Len(header) = 5, ElementOfSeq
    <2>2. header[2] \in Nat /\ header[3] \in Nat /\ header[4] \in Nat
      BY <2>1
    <2>3. QED
      BY <2>2
  <1> HIDE DEF size, a
  <1>3. Got(mem, a, size) \in Nat
    <2>1. Got(mem, a, size) \in 0..size
      BY ONLY <1>2, GotIs
    <2>2. QED
      BY <1>2, <2>1
  <1>4. buf \in Seq(Nat)
    BY ONLY <1>2, <1>3, IsMemory(mem), ReadIs
  <1> HIDE DEF buf
  <1>5. BothPasses(buf, found) \in Found
    BY ONLY <1>4, found \in Found, BothPassesType
  <1>6. QED
    BY ONLY <1>1, <1>5, found \in Found

(* And of the image: texts, and not too many.                              *)
LEMMA StringListType ==
  ASSUME NEW mem, IsMemory(mem), NEW b \in Nat
  PROVE  StringList(mem, b) \in Seq(Seq(Nat)) /\ Len(StringList(mem, b)) <= MaxStrings
  <1> DEFINE headers == SectionHeaders(mem, b)
             m == Len(headers)
             After(i, x) == SectionStrings(mem, b, headers[i], x)
             Says(f) == f = [i \in 0..m |-> IF i = 0 THEN <<>> ELSE After(i, f[i - 1])]
             found == CHOOSE f : Says(f)
             step == [i \in 1..m |-> [x \in Found |-> After(i, x)]]
  <1>1. /\ m \in Nat
        /\ \A i \in 1..m : headers[i] \in Seq(Nat) /\ Len(headers[i]) = 5
    <2> DEFINE c == SectionCount(mem, b)
    <2>1. c \in Nat /\ headers \in Seq(Seq(Nat)) /\ m = c /\ \A i \in 1..c : Len(headers[i]) = 5
      BY SectionCountIs, SectionHeadersFacts
    <2> HIDE DEF c, headers
    <2>2. QED
      BY <2>1
  <1> HIDE DEF headers, m
  <1>2. ASSUME NEW i \in 1..m, NEW x \in Found PROVE After(i, x) \in Found
    <2>1. headers[i] \in Seq(Nat) /\ Len(headers[i]) = 5
      BY <1>1
    <2>2. QED
      BY ONLY IsMemory(mem), b \in Nat, x \in Found, <2>1, SectionStringsType
  <1> HIDE DEF After
  <1>3. <<>> \in Found
    BY PeAssumption DEF Found
  <1>4. step \in [1..m -> [Found -> Found]]
    BY <1>2
  <1>5. \A i \in 1..m : \A x \in Found : step[i][x] = After(i, x)
    OBVIOUS
  <1> HIDE DEF step
  <1>6. PICK h \in [0..m -> Found] : Recurs(h, m, <<>>, step)
    BY ONLY <1>1, <1>3, <1>4, RecursionExists
  <1>7. \E f : Says(f)
    <2> DEFINE r == [i \in 0..m |-> IF i = 0 THEN <<>> ELSE After(i, h[i - 1])]
    <2>1. h = [i \in 0..m |-> IF i = 0 THEN <<>> ELSE step[i][h[i - 1]]]
      BY <1>6 DEF Recurs
    <2>2. ASSUME NEW i \in 0..m PROVE h[i] = r[i]
      <3>1. CASE i = 0
        BY <2>1, <3>1
      <3>2. CASE i # 0
        <4>1. i \in 1..m /\ i - 1 \in 0..m
          BY <1>1, <3>2
        <4>2. h[i - 1] \in Found
          BY <4>1
        <4>3. h[i] = step[i][h[i - 1]]
          BY <2>1, <3>2
        <4>4. step[i][h[i - 1]] = After(i, h[i - 1])
          BY <1>5, <4>1, <4>2
        <4>5. QED
          BY <3>2, <4>3, <4>4
      <3>3. QED
        BY <3>1, <3>2
    <2>3. h = [i \in 0..m |-> h[i]]
      OBVIOUS
    <2>4. h = r
      BY <2>2, <2>3
    <2>5. QED
      BY <2>4
  <1>8. Says(found)
    BY <1>7, Zenon
  <1> HIDE DEF found
  <1>9. \A i \in 0..m : found[i] = IF i = 0 THEN <<>> ELSE After(i, found[i - 1])
    BY <1>8
  <1>10. \A i \in 0..m : found[i] \in Found
    <2> DEFINE P == {i \in 0..m : found[i] \in Found}
    <2>1. 0 \in P
      BY <1>1, <1>3, <1>9
    <2>2. ASSUME NEW i \in 1..m, i - 1 \in P PROVE i \in P
      <3>1. i \in 0..m /\ i # 0 /\ found[i - 1] \in Found
        BY <1>1, <2>2
      <3>2. found[i] = After(i, found[i - 1])
        BY <1>9, <3>1
      <3>3. After(i, found[i - 1]) \in Found
        BY <1>2, <3>1
      <3>4. QED
        BY <3>1, <3>2, <3>3
    <2> HIDE DEF P
    <2>3. 0..m \subseteq P
      BY ONLY <1>1, <2>1, <2>2, BoundedInduction
    <2>4. QED
      BY <2>3 DEF P
  <1>11. StringList(mem, b) = found[m]
    BY Zenon DEF StringList, found, After, headers, m
  <1>12. found[m] \in Found
    BY <1>1, <1>10
  <1>13. QED
    BY <1>11, <1>12 DEF Found
----------------------------------------------------------------------------
(* What the report is made of.                                             *)
Stems == {NoSample} \cup {module.stem : module \in ToSet(trace.modules)}

ReportsOf(samples) ==
  [sample : samples, arch : {"x64", "x86"},
   imports : Seq([dll : Names, name : Names, va : Nat]),
   exports : Seq([name : Names, va : Nat]),
   sections : Seq([name : Nat, va : Nat]), strings : Seq(Names)]

(* The report and where it is come from: with MapInv, the types of all     *)
(* variables.                                                              *)
TypeInv ==
  /\ pc \in {"identify", "last", "min", "strings", "resolve", "loads", "sweep"}
  /\ pc \in {"last", "min", "strings"} => Programs # {}
  /\ cursor \in 0..End
  /\ report \in ReportsOf(Stems)
  /\ Len(report.strings) <= MaxStrings

LEMMA ListsAreTyped ==
  ASSUME trace \in Traces, Programs # {}, NEW p \in Ends
  PROVE  /\ ImportsAt(p) \in Seq([dll : Names, name : Names, va : Nat])
         /\ ExportsAt(p) \in Seq([name : Names, va : Nat])
         /\ SectionsAt(p) \in Seq([name : Nat, va : Nat])
         /\ ArchOf(Headers(trace.memory[p], Main.base).is64) \in {"x64", "x86"}
  <1>1. IsMemory(trace.memory[p]) /\ Main.base \in Nat
    BY EndsFacts, MainIsModule
  <1>2. [name : Names, va : Nat] = ExportRecord
    BY DEF ExportRecord, Names
  <1>3. [dll : Names, name : Names, va : Nat] = ImportRecord
    BY DEF ImportRecord, Names
  <1>4. ImportsAt(p) \in Seq(ImportRecord) /\ ExportsAt(p) \in Seq(ExportRecord)
        /\ SectionsAt(p) \in Seq(SectionRecord)
    BY <1>1, ImportListFacts, ExportListFacts, SectionListFacts
    DEF ImportsAt, ExportsAt, SectionsAt
  <1>5. ArchOf(Headers(trace.memory[p], Main.base).is64) \in {"x64", "x86"}
    BY DEF ArchOf
  <1>6. QED
    BY <1>2, <1>3, <1>4, <1>5 DEF SectionRecord

LEMMA TypeInit == Init => TypeInv
  <1> SUFFICES ASSUME Init PROVE TypeInv
    OBVIOUS
  <1> DEFINE sample == NoSample
             empty == [sample |-> sample, arch |-> "x64", imports |-> <<>>, exports |-> <<>>,
                       sections |-> <<>>, strings |-> <<>>]
  <1>1. pc = "identify" /\ cursor = 0 /\ report = empty
    BY Zenon DEF Init
  <1>2. sample \in Stems
    BY Zenon DEF Stems
  <1> HIDE DEF sample
  <1>3. empty \in ReportsOf(Stems) /\ Len(empty.strings) = 0
    BY <1>2 DEF ReportsOf
  <1> HIDE DEF empty
  <1>4. MaxStrings \in Nat /\ End \in Nat
    BY PeAssumption, PrepareAssumption
  <1>5. QED
    BY <1>1, <1>3, <1>4 DEF TypeInv

(* An attempt to read the image leaves a report.                           *)
LEMMA ParsedIsTyped ==
  ASSUME trace \in Traces, Programs # {}, NEW p \in Ends, Parse(p),
         report \in ReportsOf(Stems)
  PROVE  /\ report' \in ReportsOf(Stems) /\ report'.strings = report.strings
         /\ cursor' \in 0..End
  <1> DEFINE imports == ImportsAt(p)
             sections == SectionsAt(p)
             exports == ExportsAt(p)
             is == ArchOf(Headers(trace.memory[p], Main.base).is64)
             arch == IF ExportsOk(trace.memory[p], Main.base) THEN is ELSE report.arch
             all == report.exports \o exports
  <1>1. /\ report' = [report EXCEPT !.imports = imports, !.sections = sections,
                                    !.exports = all, !.arch = arch]
        /\ cursor' = p
    BY Zenon DEF Parse, ImportsAt, SectionsAt, ExportsAt
  <1>2. /\ imports \in Seq([dll : Names, name : Names, va : Nat])
        /\ exports \in Seq([name : Names, va : Nat])
        /\ sections \in Seq([name : Nat, va : Nat])
        /\ is \in {"x64", "x86"}
    BY ListsAreTyped
  <1> HIDE DEF imports, sections, exports, is
  <1>3. report.arch \in {"x64", "x86"} /\ report.exports \in Seq([name : Names, va : Nat])
    BY DEF ReportsOf
  <1>4. arch \in {"x64", "x86"} /\ all \in Seq([name : Names, va : Nat])
    BY <1>2, <1>3
  <1> HIDE DEF arch, all
  <1>5. report' \in ReportsOf(Stems) /\ report'.strings = report.strings
    BY <1>1, <1>2, <1>4 DEF ReportsOf
  <1>6. p \in 0..End
    BY EndsFacts
  <1>7. QED
    BY <1>1, <1>5, <1>6

LEMMA TypeStep == TypeInv /\ MapInv /\ [Next]_vars => TypeInv'
  <1> SUFFICES ASSUME TypeInv, MapInv, [Next]_vars PROVE TypeInv'
    OBVIOUS
  <1>1. /\ trace \in Traces /\ trace' = trace
        /\ Programs' = Programs /\ Stems' = Stems
    <2>1. trace' = trace
      BY Zenon DEF Next, IdentifyMain, ParseLast, ParseMin, FindStrings, BeginResolving,
         ResolveLoad, EndResolving, vars
    <2>2. Programs' = Programs
      BY <2>1 DEF Programs
    <2>3. Stems' = Stems
      BY <2>1, Zenon DEF Stems
    <2>4. QED
      BY <2>1, <2>2, <2>3 DEF MapInv
  <1>2. 0 \in 0..End /\ End \in 0..End /\ 0 \in Ends /\ End \in Ends
    BY PrepareAssumption DEF Ends
  <1>3. /\ report \in ReportsOf(Stems) /\ Len(report.strings) <= MaxStrings
        /\ cursor \in 0..End
    BY DEF TypeInv
  <1>4. CASE IdentifyMain
    <2>1. CASE Programs = {}
      <3>1. UNCHANGED <<report, cursor>> /\ pc' = "resolve"
        BY <1>4, <2>1 DEF IdentifyMain
      <3>2. QED
        BY <1>1, <1>3, <3>1 DEF TypeInv
    <2>2. CASE Programs # {}
      <3> DEFINE sample == Main.stem
      <3>1. /\ report' = [report EXCEPT !.sample = sample] /\ pc' = "last"
            /\ UNCHANGED cursor
        BY <1>4, <2>2 DEF IdentifyMain
      <3>2. sample \in Stems
        <4>1. Main \in ToSet(trace.modules)
          <5>1. trace.modules \in Seq(Module)
            BY <1>1, TraceType
          <5>2. Programs \subseteq Nat /\ Programs \subseteq DOMAIN trace.modules
            BY <5>1 DEF Programs
          <5>3. Min(Programs) \in DOMAIN trace.modules
            BY <2>2, <5>2, MinIsLeast
          <5>4. QED
            BY <5>3 DEF Main, ToSet
        <4>2. QED
          BY <4>1, Zenon DEF Stems
      <3> HIDE DEF sample
      <3>3. report' \in ReportsOf(Stems) /\ report'.strings = report.strings
        BY <1>3, <3>1, <3>2 DEF ReportsOf
      <3>4. QED
        BY <1>1, <1>3, <2>2, <3>1, <3>3 DEF TypeInv
    <2>3. QED
      BY <2>1, <2>2
  <1>5. ASSUME NEW p \in Ends, Parse(p), Programs # {}, pc' \in {"strings", "min"}
        PROVE  TypeInv'
    <2>1. /\ report' \in ReportsOf(Stems) /\ report'.strings = report.strings
          /\ cursor' \in 0..End
      BY <1>1, <1>3, <1>5, ParsedIsTyped
    <2>2. QED
      BY <1>1, <1>3, <1>5, <2>1 DEF TypeInv
  <1>6. CASE ParseLast
    <2>1. Parse(End) /\ pc = "last" /\ pc' = IF Parsed(End) THEN "strings" ELSE "min"
      BY <1>6 DEF ParseLast
    <2>2. pc' \in {"strings", "min"} /\ Programs # {}
      BY <2>1 DEF TypeInv
    <2>3. QED
      BY <1>2, <1>5, <2>1, <2>2
  <1>7. CASE ParseMin
    <2>1. Parse(0) /\ pc = "min" /\ pc' = "strings"
      BY <1>7 DEF ParseMin
    <2>2. Programs # {}
      BY <2>1 DEF TypeInv
    <2>3. QED
      BY <1>2, <1>5, <2>1, <2>2
  <1>8. CASE FindStrings
    <2> DEFINE strings == StringList(trace.memory[End], Main.base)
    <2>1. /\ report' = [report EXCEPT !.strings = strings] /\ cursor' = End
          /\ pc = "strings" /\ pc' = "resolve"
      BY <1>8 DEF FindStrings
    <2>2. strings \in Seq(Names) /\ Len(strings) <= MaxStrings
      <3>1. Programs # {}
        BY <2>1 DEF TypeInv
      <3>2. IsMemory(trace.memory[End]) /\ Main.base \in Nat
        BY <1>1, <1>2, <3>1, EndsFacts, MainIsModule
      <3>3. QED
        BY <3>2, StringListType DEF Names
    <2> HIDE DEF strings
    <2>3. report' \in ReportsOf(Stems) /\ report'.strings = strings
      BY <1>3, <2>1, <2>2 DEF ReportsOf
    <2>4. QED
      BY <1>1, <1>2, <2>1, <2>2, <2>3 DEF TypeInv
  <1>9. CASE BeginResolving
    <2>1. UNCHANGED report /\ cursor' = 0 /\ pc' = "loads"
      BY <1>9 DEF BeginResolving
    <2>2. QED
      BY <1>1, <1>2, <1>3, <2>1 DEF TypeInv
  <1>10. CASE ResolveLoad
    <2>1. /\ UNCHANGED <<report, pc>> /\ pc = "loads" /\ next \in DOMAIN trace.loads
          /\ cursor' = trace.loads[next].at
      BY <1>10 DEF ResolveLoad
    <2>2. cursor' \in 0..End
      BY <1>1, <2>1, TraceType
    <2>3. QED
      BY <1>1, <1>3, <2>1, <2>2 DEF TypeInv
  <1>11. CASE EndResolving
    <2>1. UNCHANGED <<report, cursor>> /\ pc' = "sweep"
      BY <1>11 DEF EndResolving
    <2>2. QED
      BY <1>1, <1>3, <2>1 DEF TypeInv
  <1>12. CASE UNCHANGED vars
    <2>1. UNCHANGED <<report, cursor, pc>>
      BY <1>12 DEF vars
    <2>2. QED
      BY <1>1, <2>1 DEF TypeInv
  <1>13. QED
    BY <1>4, <1>6, <1>7, <1>8, <1>9, <1>10, <1>11, <1>12 DEF Next

LEMMA TypesServe == TypeInv /\ MapInv => TypeOK
  <1> SUFFICES ASSUME TypeInv, MapInv PROVE TypeOK
    OBVIOUS
  <1>1. trace \in Traces /\ next \in 1..(Len(trace.loads) + 1) /\ trace.loads \in Seq(Load)
    BY TraceType DEF MapInv
  <1>2. ASSUME NEW va \in DOMAIN resolved
        PROVE  /\ resolved[va] \in [module : STRING, api : Names, is64 : BOOLEAN]
               /\ Len(resolved[va].api) \in 1..MaxName
    <2>1. PICK l \in 1..(next - 1) : TakenFrom(l, va)
      BY DEF MapInv
    <2>2. l \in DOMAIN trace.loads
      BY <1>1
    <2>3. /\ IsMemory(MemoryOf(l)) /\ ModuleOf(l) \in Module /\ ModuleOf(l).base \in Nat
      BY <1>1, <2>2, LoadFacts
    <2> DEFINE stem == ModuleOf(l).stem
               is64 == Headers(MemoryOf(l), ModuleOf(l).base).is64
    <2>4. PICK e \in ToSet(ExportList(MemoryOf(l), ModuleOf(l).base)) :
            resolved[va] = [module |-> stem, api |-> e.name, is64 |-> is64]
      BY <2>1 DEF TakenFrom, Listed
    <2>5. stem \in STRING /\ is64 \in BOOLEAN
      BY <2>3, ModuleType, HeadersType DEF HeadersRecord
    <2>6. e.name \in Names /\ IsName(e.name)
      <3> DEFINE s == ExportList(MemoryOf(l), ModuleOf(l).base)
      <3>1. s \in Seq(ExportRecord)
        BY <2>3, ExportListFacts
      <3>2. IsName(e.name)
        BY <2>3, <2>4, ExportListFacts
      <3> HIDE DEF s
      <3>3. e \in ToSet(s)
        BY <2>4 DEF s
      <3>4. e \in ExportRecord
        BY ONLY <3>1, <3>3, ElementOfSeq DEF ToSet
      <3>5. QED
        BY <3>2, <3>4 DEF ExportRecord, Names
    <2> DEFINE name == e.name
    <2>7. name \in Names /\ Len(name) \in 1..MaxName
      BY <2>6 DEF IsName
    <2>8. resolved[va] = [module |-> stem, api |-> name, is64 |-> is64]
      BY <2>4
    <2> HIDE DEF name, stem, is64
    <2>9. QED
      BY ONLY <2>5, <2>7, <2>8
  <1>3. report \in ReportsOf(Stems)
    BY DEF TypeInv
  <1>4. QED
    BY <1>1, <1>2, <1>3, Zenon DEF TypeOK, TypeInv, ReportsOf, Stems

(* Whatever is in memory, what is read of it is a report, with no more     *)
(* texts than it takes, and the map has for an address a name that is one. *)
THEOREM Typed == Spec => []TypeOK
  <1>1. Spec => []MapInv
    BY MapInit, MapStep, PTL DEF Spec
  <1>2. Spec => []TypeInv
    BY <1>1, TypeInit, TypeStep, PTL DEF Spec
  <1>3. QED
    BY <1>1, <1>2, TypesServe, PTL
----------------------------------------------------------------------------
(* What is read of an image that is all known.                             *)
LEMMA EmptyFlattened ==
  ASSUME NEW f, f = <<>>
  PROVE  FlattenSeq(f) = <<>>
  BY Zenon DEF FlattenSeq

LEMMA KnownSections ==
  ASSUME NEW mem, NEW image, NEW b, IsKnown(mem, image, b)
  PROVE  SectionList(mem, b) = SectionsIn(image, b)
  <1> DEFINE n == Len(image.sections)
             m == SectionCount(mem, b)
             s == SectionList(mem, b)
             t == SectionsIn(image, b)
             at == Headers(mem, b).table
  <1>0. /\ IsMemory(mem) /\ image \in Images /\ b \in Nat /\ HasCells(mem, image, b)
        /\ IsWhole(mem, image, b)
    BY DEF IsKnown, IsWhole
  <1>1. Shows(mem, image, b) /\ Headers(mem, b) = HeadersOf(image, b)
    BY KnownShows
  <1>2. IsPrefix(s, t)
    BY <1>1, SectionsAreSound
  <1>3. s \in Seq(SectionRecord) /\ Len(s) = m /\ t \in Seq(SectionRecord) /\ Len(t) = n
    BY <1>0, SectionListFacts, SectionsInAre
  <1>4. n \in Nat /\ m \in Nat /\ SectionEnds(mem, b, m)
    <2>1. n \in Nat
      BY <1>0, HeaderCellsAre
    <2>2. QED
      BY <1>0, <2>1, SectionCountIs
  <1>5. ASSUME NEW i \in 0..(n - 1) PROVE ~SectionEnds(mem, b, i)
    <2> DEFINE L == Len(OptionalHeader(image))
               h == HeaderCells(image)
               k == 7 + L + 5 * i + 1
    <2>1. h \in Seq(Nat) /\ L \in Nat /\ Len(h) = 7 + L + 5 * n
      BY <1>0, HeaderCellsAre
    <2>2. Put(0, h) \in Parts(image)
      BY DEF Parts
    <2> HIDE DEF h, L, n
    <2>3. k \in 1..Len(h) /\ 0 + k - 1 = 7 + L + 5 * i /\ 0 \in Nat /\ i \in Nat
      BY <1>4, <2>1
    <2>4. Lies(image, 0 + k - 1, h[k])
      <3> HIDE DEF k
      <3>1. QED
        BY ONLY <1>0, <2>1, <2>2, <2>3, PutLies
    <2>5. b + (7 + L + 5 * i) \in DOMAIN mem
      <3> DEFINE x == 7 + L + 5 * i
      <3>1. Lies(image, x, h[k])
        BY <2>3, <2>4
      <3> HIDE DEF x
      <3>2. b + x \in DOMAIN mem
        BY <1>0, <3>1, LyingCell
      <3>3. QED
        BY <3>2 DEF x
    <2>6. at = b + (7 + L) /\ Headers(mem, b).sections = n
      BY <1>1 DEF HeadersOf, L, n
    <2>7. at + 5 * i = b + (7 + L + 5 * i)
      BY <1>0, <2>1, <2>3, <2>6
    <2>8. QED
      BY <1>4, <2>5, <2>6, <2>7 DEF SectionEnds, Unreadable
  <1>6. m = n
    <2>1. m <= n
      <3> HIDE DEF s, t
      <3>1. Len(s) <= Len(t)
        BY ONLY <1>2, <1>3, PrefixGives
      <3>2. QED
        BY <1>3, <3>1
    <2> HIDE DEF m, n
    <2>2. QED
      BY <1>4, <1>5, <2>1
  <1> HIDE DEF s, t
  <1>7. Len(s) = Len(t)
    BY <1>3, <1>6
  <1>8. s = t
    BY ONLY <1>2, <1>3, <1>7, PrefixGives
  <1>9. QED
    BY <1>8 DEF s, t

(* The name at a place of the table is read whole.                         *)
LEMMA KnownName ==
  ASSUME NEW mem, NEW image, NEW b, IsKnown(mem, image, b), Fits(image),
         image.exports # <<>>, NEW i \in 0..(Len(image.exports) - 1)
  PROVE  /\ b + NamesAt + i \in DOMAIN mem /\ b + OrdinalsAt + i \in DOMAIN mem
         /\ NameOf(mem, b, i) = image.exports[i + 1].name
  <1> DEFINE a == NameAt(i + 1)
             text == image.exports[i + 1].name
             n == Len(image.exports)
  <1>0. /\ IsMemory(mem) /\ image \in Images /\ b \in Nat /\ HasCells(mem, image, b)
        /\ IsWhole(mem, image, b) /\ Shows(mem, image, b) /\ ShowsExports(mem, image, b)
    BY KnownShows DEF IsKnown, IsWhole
  <1>1. ExportsLie(image) /\ ExportsType(image)
    BY <1>0, ExportPartsLie, ExportsAreTyped
  <1>2. /\ n \in Nat /\ i \in Nat /\ i + 1 \in 1..n /\ a \in Nat
        /\ b + (NamesAt + i) = b + NamesAt + i /\ b + (OrdinalsAt + i) = b + OrdinalsAt + i
    <2>1. n \in Nat /\ b \in Nat
      BY <1>0, <1>1 DEF ExportsType
    <2>2. i \in 0..(n - 1)
      OBVIOUS
    <2> HIDE DEF n
    <2>3. /\ i \in Nat /\ i + 1 \in 1..n
          /\ b + (NamesAt + i) = b + NamesAt + i /\ b + (OrdinalsAt + i) = b + OrdinalsAt + i
      BY ONLY <2>1, <2>2, Bases
    <2>4. a \in Nat
      BY <1>0, <2>3, Places DEF n
    <2>5. QED
      BY <2>1, <2>3, <2>4
  <1>3. text \in Seq(Nat) /\ 0 \notin ToSet(text) /\ Len(text) <= MaxName /\ MaxName \in Nat
    <2>1. text \in Seq(Nat) /\ 0 \notin ToSet(text)
      BY <1>1, <1>2 DEF ExportsType
    <2>2. image.exports[i + 1] \in ToSet(image.exports)
      BY <1>1, <1>2 DEF ExportsType, ToSet
    <2>3. QED
      BY <2>1, <2>2, PeAssumption DEF Fits
  <1>4. Lies(image, NamesAt + i, a) /\ Lies(image, OrdinalsAt + i, n - i - 1)
    BY <1>1 DEF ExportsLie
  <1> HIDE DEF a
  <1>5. /\ b + (NamesAt + i) \in DOMAIN mem /\ b + (OrdinalsAt + i) \in DOMAIN mem
        /\ CellAt(mem, b + (NamesAt + i)) = a
    <2> DEFINE x == NamesAt + i
               y == OrdinalsAt + i
               v == n - i - 1
    <2>1. Lies(image, x, a) /\ Lies(image, y, v)
      BY <1>4
    <2> HIDE DEF x, y, v
    <2>2. b + x \in DOMAIN mem /\ b + y \in DOMAIN mem /\ CellAt(mem, b + x) = a
      BY <1>0, <2>1, LyingCell
    <2>3. QED
      BY <2>2 DEF x, y
  <1>6. ExportDirectory(mem, b)[4] = NamesAt
    <2>1. Exporting(mem, image, b)
      BY KnownExporting
    <2>2. QED
      BY <1>0, <2>1, DirectoryIs DEF Exporting, ShowsExports
  <1>7. NameOf(mem, b, i) = CStr(mem, b + a, MaxName)
    BY <1>2, <1>5, <1>6 DEF NameOf
  <1>8. TextLies(image, a, text)
    BY <1>1, <1>2 DEF ExportsLie, TextLies, a
  <1> HIDE DEF text
  <1>9. CStr(mem, b + a, MaxName) = text
    BY ONLY <1>0, <1>2, <1>3, <1>8, TextWhole
  <1>10. QED
    BY <1>2, <1>5, <1>7, <1>9 DEF text

LEMMA KnownEntry ==
  ASSUME NEW mem, NEW image, NEW b, IsKnown(mem, image, b), Fits(image),
         image.exports # <<>>, NEW i \in 0..(Len(image.exports) - 1)
  PROVE  ExportEntry(mem, b, i) =
           IF image.exports[i + 1].rva \in CodeAt
             THEN <<[va |-> b + image.exports[i + 1].rva, name |-> image.exports[i + 1].name]>>
             ELSE <<>>
  <1> DEFINE export == image.exports[i + 1]
             code == CodeOf(mem, b, i)
             own == IsOwnCode(Headers(mem, b).exports, code)
             small == OrdinalAt(mem, b, i) < ExportDirectory(mem, b)[1]
             name == NameOf(mem, b, i)
  <1>1. /\ b + NamesAt + i \in DOMAIN mem /\ b + OrdinalsAt + i \in DOMAIN mem
        /\ name = export.name
    BY KnownName
  <1>2. ShowsExports(mem, image, b) /\ Exporting(mem, image, b) /\ IsWhole(mem, image, b)
    BY KnownShows, KnownExporting DEF IsKnown
  <1>3. LET x == image.exports[i + 1] IN
          /\ OrdinalAt(mem, b, i) < ExportDirectory(mem, b)[1]
          /\ CodeOf(mem, b, i) = x.rva
          /\ NameOf(mem, b, i) # <<>>
          /\ IsOwnCode(Headers(mem, b).exports, CodeOf(mem, b, i)) => x.rva \in CodeAt
          /\ x.rva \in CodeAt => IsOwnCode(Headers(mem, b).exports, x.rva)
    BY ONLY i \in 0..(Len(image.exports) - 1), <1>1, <1>2, EntryIs
  <1>4. small /\ code = export.rva /\ name # <<>> /\ (own <=> export.rva \in CodeAt)
    BY <1>3
  <1>5. ExportEntry(mem, b, i) = IF small /\ own /\ name # <<>>
                                   THEN <<[va |-> b + code, name |-> name]>> ELSE <<>>
    BY Zenon DEF ExportEntry
  <1> HIDE DEF export, code, own, small, name
  <1>6. ExportEntry(mem, b, i) =
          IF export.rva \in CodeAt THEN <<[va |-> b + export.rva, name |-> export.name]>>
          ELSE <<>>
    BY <1>1, <1>4, <1>5
  <1>7. QED
    BY <1>6 DEF export

LEMMA KnownExports ==
  ASSUME NEW mem, NEW image, NEW b, IsKnown(mem, image, b), Fits(image)
  PROVE  /\ ExportList(mem, b) = ExportsIn(image, b)
         /\ ExportsOk(mem, b) /\ Headers(mem, b).is64 = image.is64
  <1> DEFINE n == Len(image.exports)
             m == ExportCount(mem, b)
             Entry(i) == IF image.exports[i].rva \in CodeAt
                           THEN <<[va |-> b + image.exports[i].rva, name |-> image.exports[i].name]>>
                           ELSE <<>>
             f == [i \in 1..m |-> ExportEntry(mem, b, i - 1)]
             g == [i \in DOMAIN image.exports |-> Entry(i)]
  <1>0. IsMemory(mem) /\ image \in Images /\ b \in Nat
    BY DEF IsKnown
  <1>1. /\ ShowsExports(mem, image, b) /\ HasCells(mem, image, b)
        /\ Headers(mem, b) = HeadersOf(image, b)
    BY KnownShows DEF IsKnown, IsWhole
  <1>2. n \in Nat /\ DOMAIN image.exports = 1..n /\ m \in Nat
    BY <1>0, ExportsAreTyped, ExportCountIs DEF ExportsType
  <1>3. ExportsIn(image, b) = FlattenSeq(g)
    BY DEF ExportsIn
  <1>4. /\ Headers(mem, b).ok /\ Headers(mem, b).is64 = image.is64
        /\ Absent(Headers(mem, b).exports) <=> image.exports = <<>>
    BY <1>1, Bases DEF HeadersOf, Absent
  <1>5. ASSUME image.exports = <<>>
        PROVE  ExportList(mem, b) = ExportsIn(image, b) /\ ExportsOk(mem, b)
    <2>1. ExportsOk(mem, b)
      BY <1>4, <1>5 DEF ExportsOk
    <2>2. ExportList(mem, b) = <<>>
      BY <1>4, <1>5, ExportListIs
    <2>3. g = <<>>
      BY <1>5
    <2> HIDE DEF g
    <2>4. FlattenSeq(g) = <<>>
      BY <2>3, EmptyFlattened
    <2>5. QED
      BY <1>3, <2>1, <2>2, <2>4
  <1>6. ASSUME image.exports # <<>>
        PROVE  ExportList(mem, b) = ExportsIn(image, b) /\ ExportsOk(mem, b)
    <2>1. Exporting(mem, image, b)
      BY <1>6, KnownExporting
    <2>2. ExportsOk(mem, b) /\ ~Absent(Headers(mem, b).exports)
      BY <1>1, <2>1, ExportsAreRead
    <2>3. ExportList(mem, b) = FlattenSeq(f)
      BY <2>2, ExportListIs
    <2>4. m = n
      <3>1. LET d == ExportDirectory(mem, b) IN d[2] = n /\ d[4] = NamesAt /\ d[5] = OrdinalsAt
        BY <1>0, <1>1, <1>6, <2>1, DirectoryIs DEF Exporting, ShowsExports
      <3>2. /\ ExportEnds(mem, b, m)
            /\ \A i \in 0..(m - 1) : ~ExportEnds(mem, b, i)
        BY <1>0, ExportCountIs
      <3>3. ExportEnds(mem, b, n)
        <4> HIDE DEF n
        <4>1. n >= n
          BY <1>2
        <4>2. QED
          BY <3>1, <4>1 DEF ExportEnds
      <3>4. ASSUME NEW i \in 0..(n - 1) PROVE ~ExportEnds(mem, b, i)
        <4>1. b + NamesAt + i \in DOMAIN mem /\ b + OrdinalsAt + i \in DOMAIN mem
          BY <1>6, KnownName
        <4>2. ~(i >= n)
          BY <1>2
        <4>3. QED
          BY <3>1, <4>1, <4>2 DEF ExportEnds, Unreadable
      <3> HIDE DEF m, n
      <3>5. m <= n /\ n <= m
        BY <1>2, <3>2, <3>3, <3>4
      <3>6. QED
        BY <1>2, <3>5
    <2>5. ASSUME NEW i \in 1..n PROVE ExportEntry(mem, b, i - 1) = Entry(i)
      <3>1. i - 1 \in 0..(n - 1) /\ (i - 1) + 1 = i
        BY <1>2
      <3> DEFINE j == i - 1
      <3> HIDE DEF j, n
      <3>2. j \in 0..(Len(image.exports) - 1) /\ j + 1 = i
        BY <3>1 DEF j, n
      <3>3. ExportEntry(mem, b, j) = Entry(j + 1)
        BY <1>6, <3>2, KnownEntry
      <3>4. QED
        BY <3>2, <3>3 DEF j
    <2> HIDE DEF Entry, n, m
    <2>6. f = g
      BY <1>2, <2>4, <2>5
    <2>7. QED
      BY <1>3, <2>2, <2>3, <2>6
  <1>7. QED
    BY <1>4, <1>5, <1>6
----------------------------------------------------------------------------
LEMMA SingletonsFlattened ==
  ASSUME NEW S, NEW n \in Nat, NEW r \in [1..n -> S]
  PROVE  FlattenSeq([t \in 1..n |-> <<r[t]>>]) = r
  <1> DEFINE f == [t \in 1..n |-> <<r[t]>>]
             s == FlattenSeq(f)
  <1>1. \A t \in 1..n : <<r[t]>> \in Seq(S) /\ Len(<<r[t]>>) = 1 /\ <<r[t]>>[1] = r[t]
    OBVIOUS
  <1>2. f \in Seq(Seq(S)) /\ Len(f) = n /\ \A t \in 1..n : f[t] = <<r[t]>>
    BY <1>1
  <1> HIDE DEF f
  <1>3. \A t \in 1..Len(f) : Len(f[t]) = 1
    BY <1>1, <1>2
  <1>4. 1 \in {1, 2, 3, 5}
    OBVIOUS
  <1>5. /\ Len(FlattenSeq(f)) = 1 * Len(f)
        /\ \A i \in 1..Len(f) : \A j \in 1..1 : FlattenSeq(f)[1 * (i - 1) + j] = f[i][j]
    <2>1. f \in Seq(Seq(S))
      BY <1>2
    <2>2. QED
      BY ONLY <1>3, <1>4, <2>1, FlattenEven
  <1>6. FlattenSeq(f) \in Seq(S)
    BY <1>2, FlattenFacts
  <1>7. Len(s) = n /\ \A i \in 1..n : s[i] = r[i]
    <2>1. Len(s) = n
      BY <1>2, <1>5
    <2>2. ASSUME NEW i \in 1..n PROVE s[i] = r[i]
      <3>1. 1 \in 1..1 /\ 1 * (i - 1) + 1 = i
        OBVIOUS
      <3>2. FlattenSeq(f)[1 * (i - 1) + 1] = f[i][1]
        BY <1>2, <1>5, <3>1
      <3>3. QED
        BY <1>1, <1>2, <3>1, <3>2
    <2>3. QED
      BY <2>1, <2>2
  <1> HIDE DEF s
  <1>8. r \in Seq(S) /\ Len(r) = n
    OBVIOUS
  <1>9. s = r
    <2>1. s \in Seq(S) /\ Len(s) = Len(r) /\ \A i \in 1..Len(s) : s[i] = r[i]
      BY <1>6, <1>7, <1>8 DEF s
    <2>2. QED
      BY ONLY <1>8, <2>1, SeqEqual
  <1>10. QED
    BY <1>9 DEF s, f

(* A structure of an image that is known is read as it is.                 *)
LEMMA KnownStructure ==
  ASSUME NEW mem, NEW image, NEW b, IsKnown(mem, image, b),
         NEW a, NEW n, InStructures(image, a, n), NEW v, CellsLie(image, a, n, v)
  PROVE  b + a \in DOMAIN mem /\ \A k \in 1..n : ReadMemory(mem, b + a, n)[k] = v[k]
  <1>0. /\ Shows(mem, image, b) /\ IsMemory(mem) /\ image \in Images /\ b \in Nat
        /\ HasCells(mem, image, b) /\ IsWhole(mem, image, b)
    BY KnownShows DEF IsKnown, IsWhole
  <1>1. Lies(image, a, v[1])
    <2>1. a \in Nat /\ 1 \in 1..n /\ a + 1 - 1 = a
      BY DEF InStructures
    <2>2. Lies(image, a + 1 - 1, v[1])
      BY <2>1 DEF CellsLie
    <2>3. QED
      BY <2>1, <2>2
  <1>2. b + a \in DOMAIN mem
    BY <1>0, <1>1, LyingCell
  <1>3. QED
    BY <1>0, <1>2, StructureLies

LEMMA KnownDescriptors ==
  ASSUME NEW mem, NEW image, NEW b, IsKnown(mem, image, b), image.imports # <<>>
  PROVE  /\ DescCount(mem, b) = Len(image.imports)
         /\ \A i \in 1..Len(image.imports) : \A k \in 1..3 :
              DescAt(mem, b, i - 1)[k] = Descriptor(image, i)[k]
  <1> DEFINE n == Len(image.imports)
             m == DescCount(mem, b)
             Zeros == <<0, 0, 0>>
  <1>0. /\ Shows(mem, image, b) /\ IsMemory(mem) /\ image \in Images /\ b \in Nat
        /\ Headers(mem, b) = HeadersOf(image, b)
    BY KnownShows DEF IsKnown
  <1>1. Headers(mem, b).imports.rva = ImportDirAt
    BY <1>0 DEF HeadersOf
  <1>2. n \in Nat /\ m \in Nat
    BY <1>0, ImportsAreTyped, DescCountIs DEF ImportsType
  <1>3. /\ \A j \in 1..n : CellsLie(image, ImportDirAt + 3 * (j - 1), 3, Descriptor(image, j))
        /\ CellsLie(image, ImportDirAt + 3 * n, 3, Zeros)
    BY <1>0, DescriptorsLie
  <1>4. \A j \in 0..n : (ImportDirAt + 3 * j)..(ImportDirAt + 3 * j + 2) \in Structures[image]
    BY <1>0, StructuresAre
  <1>5. DescEnds(mem, b, m) /\ \A j \in 0..(m - 1) : ~DescEnds(mem, b, j)
    BY <1>0, DescCountIs
  <1> HIDE DEF n, m, Zeros
  <1>6. ASSUME NEW j \in 0..n, NEW v, CellsLie(image, ImportDirAt + 3 * j, 3, v)
        PROVE  /\ b + ImportDirAt + 3 * j \in DOMAIN mem
               /\ \A k \in 1..3 : DescAt(mem, b, j)[k] = v[k]
    <2> DEFINE a == ImportDirAt + 3 * j
    <2>1. a \in Nat /\ ImportDirAt + 3 * j + 2 = a + 3 - 1 /\ b + ImportDirAt + 3 * j = b + a
      BY <1>0, <1>2, Bases
    <2>2. a..(ImportDirAt + 3 * j + 2) \in Structures[image]
      BY <1>4
    <2>3. InStructures(image, a, 3) /\ CellsLie(image, a, 3, v)
      BY <1>6, <2>1, <2>2 DEF InStructures
    <2>4. DescAt(mem, b, j) = ReadMemory(mem, b + a, 3)
      BY <1>1, <2>1 DEF DescAt
    <2> HIDE DEF a
    <2>5. b + a \in DOMAIN mem /\ \A k \in 1..3 : ReadMemory(mem, b + a, 3)[k] = v[k]
      BY <2>3, KnownStructure
    <2>6. QED
      BY <2>1, <2>4, <2>5
  <1>7. ASSUME NEW i \in 1..n
        PROVE  /\ b + ImportDirAt + 3 * (i - 1) \in DOMAIN mem
               /\ \A k \in 1..3 : DescAt(mem, b, i - 1)[k] = Descriptor(image, i)[k]
    <2> DEFINE j == i - 1
    <2>1. j \in 0..n
      BY <1>2
    <2>2. CellsLie(image, ImportDirAt + 3 * j, 3, Descriptor(image, i))
      BY <1>3
    <2> HIDE DEF j
    <2>3. /\ b + ImportDirAt + 3 * j \in DOMAIN mem
          /\ \A k \in 1..3 : DescAt(mem, b, j)[k] = Descriptor(image, i)[k]
      BY <1>6, <2>1, <2>2
    <2>4. QED
      BY <2>3 DEF j
  <1>8. DescEnds(mem, b, n)
    <2>1. n \in 0..n
      BY <1>2
    <2>2. \A k \in 1..3 : DescAt(mem, b, n)[k] = Zeros[k]
      BY <1>3, <1>6, <2>1
    <2>3. QED
      BY <2>2 DEF DescEnds, Zeros
  <1>9. ASSUME NEW j \in 0..(n - 1) PROVE ~DescEnds(mem, b, j)
    <2> DEFINE i == j + 1
    <2>1. i \in 1..n /\ i - 1 = j /\ DllAt(i) # 0
      <3>1. i \in 1..n /\ i - 1 = j
        BY <1>2
      <3>2. QED
        BY <1>0, <3>1, Places DEF n
    <2>2. Descriptor(image, i)[2] = DllAt(i)
      BY DEF Descriptor
    <2> HIDE DEF i
    <2>3. b + ImportDirAt + 3 * j \in DOMAIN mem /\ DescAt(mem, b, j)[2] # 0
      BY <1>7, <2>1, <2>2
    <2>4. QED
      BY <1>1, <2>3 DEF DescEnds, Unreadable
  <1>10. m = n
    BY <1>2, <1>5, <1>8, <1>9
  <1>11. QED
    BY <1>7, <1>10 DEF m, n

(* No thunk of an image looks like the end of its table.                   *)
LEMMA ThunkGoesOn ==
  ASSUME NEW image \in Images, NEW i \in 1..Len(image.imports),
         NEW t \in 1..Len(image.imports[i].names)
  PROVE  \E k \in 1..Width(image) : ThunkOf(image, i, t)[k] # 0
  <1> DEFINE w == Width(image)
             name == image.imports[i].names[t]
             low == LowOf(image, i, t)
             flag == FlagOf(image, i, t)
  <1>1. /\ w \in {1, 2} /\ low \in Nat /\ flag \in Nat
        /\ w = 2 => ThunkOf(image, i, t) = <<low, flag>>
        /\ w = 1 => ThunkOf(image, i, t) = <<low + flag>>
    BY WidthIs, ThunkOfIs
  <1>2. low # 0 \/ flag # 0
    <2>1. CASE name.ordinal
      BY <2>1, PeAssumption DEF FlagOf
    <2>2. CASE ~name.ordinal
      <3>1. Len(image.imports) \in Nat /\ Len(image.imports[i].names) \in Nat
        BY ImportsAreTyped DEF ImportsType
      <3>2. i \in Nat /\ t \in Nat
        BY <3>1
      <3>3. low = HintAt(i, t)
        BY <2>2 DEF LowOf
      <3> HIDE DEF low
      <3>4. QED
        BY <3>3, Places
    <2>3. QED
      BY <2>1, <2>2
  <1> HIDE DEF low, flag, w
  <1>3. CASE w = 1
    <2>1. ThunkOf(image, i, t)[1] = low + flag /\ low + flag # 0 /\ 1 \in 1..w
      BY <1>1, <1>2, <1>3
    <2>2. QED
      BY <2>1 DEF w
  <1>4. CASE w = 2
    <2>1. /\ ThunkOf(image, i, t)[1] = low /\ ThunkOf(image, i, t)[2] = flag
          /\ 1 \in 1..w /\ 2 \in 1..w
      BY <1>1, <1>4
    <2>2. QED
      BY <1>2, <2>1 DEF w
  <1>5. QED
    BY <1>1, <1>3, <1>4

LEMMA KnownThunks ==
  ASSUME NEW mem, NEW image, NEW b, IsKnown(mem, image, b),
         NEW i \in 1..Len(image.imports)
  PROVE  /\ ThunkCount(mem, b + TableAt(image, i), Width(image)) = Len(image.imports[i].names)
         /\ \A t \in 1..Len(image.imports[i].names) :
              IsThunk(image, i, t, ThunkAt(mem, b + TableAt(image, i), Width(image), t - 1))
  <1> DEFINE n == Len(image.imports[i].names)
             w == Width(image)
             at == TableAt(image, i)
             table == b + at
             m == ThunkCount(mem, table, w)
  <1>0. Shows(mem, image, b) /\ IsMemory(mem) /\ image \in Images /\ b \in Nat
    BY KnownShows DEF IsKnown
  <1>1. w \in {1, 2} /\ n \in Nat /\ at \in Nat /\ table \in Nat
    <2>1. n \in Nat
      BY <1>0, ImportsAreTyped DEF ImportsType
    <2>2. at \in Nat
      BY <1>0, Places DEF TableAt
    <2>3. QED
      BY <1>0, <2>1, <2>2, WidthIs
  <1>2. ASSUME NEW j \in 0..n
        PROVE  /\ table + j * w = b + ThunkPlace(image, i, j)
               /\ \A k \in 1..w : ThunkAt(mem, table, w, j)[k] = ThunkOrEnd(image, i, j)[k]
    <2> DEFINE a == ThunkPlace(image, i, j)
               v == ThunkOrEnd(image, i, j)
    <2>1. a = at + w * j
      BY DEF ThunkPlace
    <2>2. a \in Nat /\ InStructures(image, a, w) /\ CellsLie(image, a, w, v)
      BY <1>0, ThunksLie
    <2> HIDE DEF a, v, w, at, n
    <2>3. table + j * w = b + a
      <3>1. CASE w = 1
        BY <1>0, <1>1, <2>1, <3>1
      <3>2. CASE w = 2
        BY <1>0, <1>1, <2>1, <3>2
      <3>3. QED
        BY <1>1, <3>1, <3>2
    <2>4. \A k \in 1..w : ReadMemory(mem, b + a, w)[k] = v[k]
      BY <2>2, KnownStructure
    <2> HIDE DEF table
    <2>5. ThunkAt(mem, table, w, j) = ReadMemory(mem, b + a, w)
      BY <2>3 DEF ThunkAt
    <2>6. QED
      BY <2>3, <2>4, <2>5 DEF a, v
  <1> HIDE DEF table, m, n, w, at
  <1>3. \A j \in 0..n : ThunkOrEnd(image, i, j) =
                          IF j < n THEN ThunkOf(image, i, j + 1) ELSE [k \in 1..w |-> 0]
    BY DEF ThunkOrEnd, n, w
  <1>4. ThunkEnds(mem, table, w, n)
    <2> DEFINE thunk == ThunkAt(mem, table, w, n)
    <2>1. n \in 0..n /\ ~(n < n)
      BY <1>1
    <2>2. \A k \in 1..w : thunk[k] = 0
      BY <1>2, <1>3, <2>1
    <2>3. thunk = [k \in 1..w |-> thunk[k]]
      BY DEF ThunkAt, ReadMemory
    <2> HIDE DEF thunk
    <2>4. thunk = [k \in 1..w |-> 0]
      BY <2>2, <2>3
    <2>5. QED
      BY <2>4 DEF ThunkEnds, thunk
  <1>5. ASSUME NEW t \in 1..n
        PROVE  /\ IsThunk(image, i, t, ThunkAt(mem, table, w, t - 1))
               /\ ~ThunkEnds(mem, table, w, t - 1)
    <2> DEFINE j == t - 1
               thunk == ThunkAt(mem, table, w, j)
    <2>1. j \in 0..n /\ j < n /\ j + 1 = t
      BY <1>1
    <2> HIDE DEF j
    <2>2. \A k \in 1..w : thunk[k] = ThunkOf(image, i, t)[k]
      BY <1>2, <1>3, <2>1
    <2>3. \E k \in 1..w : ThunkOf(image, i, t)[k] # 0
      BY <1>0, ThunkGoesOn DEF w, n
    <2> HIDE DEF thunk
    <2>4. thunk # [k \in 1..w |-> 0]
      BY <2>2, <2>3
    <2>5. QED
      BY <2>2, <2>4 DEF IsThunk, ThunkEnds, thunk, j, w
  <1>6. m = n
    <2>1. m \in Nat /\ ThunkEnds(mem, table, w, m) /\ \A j \in 0..(m - 1) : ~ThunkEnds(mem, table, w, j)
      BY <1>0, <1>1, ThunkCountIs DEF m
    <2>2. n \in Nat
      BY <1>1
    <2>3. \A j \in 0..(n - 1) : ~ThunkEnds(mem, table, w, j)
      <3> SUFFICES ASSUME NEW j \in 0..(n - 1) PROVE ~ThunkEnds(mem, table, w, j)
        OBVIOUS
      <3>1. j + 1 \in 1..n /\ (j + 1) - 1 = j
        BY <2>2
      <3>2. ~ThunkEnds(mem, table, w, (j + 1) - 1)
        BY ONLY <1>5, <3>1
      <3>3. QED
        BY <3>1, <3>2
    <2>4. m <= n /\ n <= m
      BY ONLY <1>4, <2>1, <2>2, <2>3
    <2>5. QED
      BY <2>1, <2>2, <2>4
  <1>7. QED
    BY <1>5, <1>6 DEF m, n, w, table, at
RowOf(image, b, i) ==
  [t \in DOMAIN image.imports[i].names |-> ImportIn(image, b, i, t)]

IsDescriptor(image, i, desc) == \A k \in 1..3 : desc[k] = Descriptor(image, i)[k]

LEMMA DescriptorSays ==
  ASSUME NEW image \in Images, NEW i \in 1..Len(image.imports), NEW b \in Nat,
         NEW desc, IsDescriptor(image, i, desc)
  PROVE  /\ i \in Nat /\ desc[2] = DllAt(i) /\ desc[3] = SlotsAt(i)
         /\ TableOf(b, desc) = b + TableAt(image, i) /\ TableOf(b, desc) # b
  <1> DEFINE bound == image.imports[i].bound
  <1>1. i \in Nat /\ bound \in BOOLEAN
    <2>1. image.imports[i].bound \in BOOLEAN
      BY ImportsAreTyped, Zenon DEF ImportsType
    <2>2. i \in Nat
      BY ONLY i \in 1..Len(image.imports)
    <2>3. QED
      BY <2>1, <2>2 DEF bound
  <1>2. /\ desc[1] = IF bound THEN LookupAt(i) ELSE 0
        /\ desc[2] = DllAt(i) /\ desc[3] = SlotsAt(i)
    BY DEF IsDescriptor, Descriptor
  <1>3. TableAt(image, i) = IF bound THEN LookupAt(i) ELSE SlotsAt(i)
    BY DEF TableAt
  <1> HIDE DEF bound
  <1>4. CASE bound
    <2>1. desc[1] = LookupAt(i) /\ desc[1] # 0 /\ TableAt(image, i) = LookupAt(i)
      BY <1>1, <1>2, <1>3, <1>4, Places
    <2>2. TableOf(b, desc) = b + LookupAt(i)
      BY <2>1 DEF TableOf
    <2>3. QED
      BY <1>1, <1>2, <2>1, <2>2, Places
  <1>5. CASE ~bound
    <2>1. desc[1] = 0 /\ TableAt(image, i) = SlotsAt(i)
      BY <1>2, <1>3, <1>5
    <2>2. TableOf(b, desc) = b + SlotsAt(i)
      BY <1>2, <2>1 DEF TableOf
    <2>3. QED
      BY <1>1, <1>2, <2>1, <2>2, Places
  <1>6. QED
    BY <1>1, <1>4, <1>5

LEMMA NameInIsThere ==
  ASSUME NEW image \in Images, NEW i \in 1..Len(image.imports),
         NEW t \in 1..Len(image.imports[i].names)
  PROVE  NameIn(image, i, t) \in Seq(Nat) /\ NameIn(image, i, t) # <<>>
  <1> DEFINE name == image.imports[i].names[t]
             text == name.text
  <1>1. /\ name.ordinal \in BOOLEAN /\ text \in Seq(Nat)
        /\ name.ordinal => Len(text) = 1
        /\ ~name.ordinal => text # <<>>
    BY ImportsAreTyped DEF ImportsType
  <1>2. NameIn(image, i, t) = IF name.ordinal THEN <<Hash>> \o text ELSE text
    BY DEF NameIn
  <1> HIDE DEF name, text
  <1>3. <<Hash>> \in Seq(Nat) /\ Len(<<Hash>>) = 1
    BY DEF Hash
  <1> DEFINE hash == <<Hash>>
  <1> HIDE DEF hash
  <1>4. hash \in Seq(Nat) /\ Len(hash) = 1
    BY <1>3 DEF hash
  <1>5. hash \o text \in Seq(Nat) /\ Len(hash \o text) = 1 + Len(text) /\ Len(text) \in Nat
    BY ONLY <1>1, <1>4, JoinFacts
  <1> DEFINE both == hash \o text
  <1>6. NameIn(image, i, t) = IF name.ordinal THEN both ELSE text
    BY <1>2 DEF hash
  <1> HIDE DEF both
  <1>7. both \in Seq(Nat) /\ both # <<>>
    <2>1. both \in Seq(Nat) /\ Len(both) = 1 + Len(text)
      BY <1>5 DEF both
    <2>2. Len(both) # 0
      BY <1>5, <2>1
    <2>3. QED
      BY <2>1, <2>2
  <1>8. QED
    BY <1>1, <1>6, <1>7

LEMMA KnownImportEntry ==
  ASSUME NEW mem, NEW image, NEW b, IsKnown(mem, image, b), Fits(image),
         NEW i \in 1..Len(image.imports), NEW t \in 1..Len(image.imports[i].names),
         NEW desc, IsDescriptor(image, i, desc)
  PROVE  ImportEntry(mem, b, desc, Width(image), t - 1) = <<ImportIn(image, b, i, t)>>
  <1> DEFINE w == Width(image)
             u == t - 1
             import == image.imports[i]
             thunk == ThunkAt(mem, TableOf(b, desc), w, u)
             name == ImportName(mem, b, thunk, w)
             d == CStr(mem, b + desc[2], MaxDll)
             va == b + desc[3] + u * w
  <1>0. /\ Shows(mem, image, b) /\ IsMemory(mem) /\ image \in Images /\ b \in Nat
        /\ IsWhole(mem, image, b)
    BY KnownShows DEF IsKnown
  <1>1. /\ i \in Nat /\ desc[2] = DllAt(i) /\ desc[3] = SlotsAt(i)
        /\ TableOf(b, desc) = b + TableAt(image, i)
    BY <1>0, DescriptorSays
  <1>2. /\ i \in DOMAIN image.imports /\ t \in DOMAIN import.names /\ t \in Nat
        /\ import.dll \in Seq(Nat) /\ 0 \notin ToSet(import.dll)
    <2>1. ImportsType(image)
      BY <1>0, ImportsAreTyped
    <2>2. Len(import.names) \in Nat /\ DOMAIN import.names = 1..Len(import.names)
      BY <2>1 DEF ImportsType
    <2>3. t \in DOMAIN import.names /\ t \in Nat
      BY <2>2
    <2>4. QED
      BY <2>1, <2>3 DEF ImportsType
  <1>3. Len(import.dll) <= MaxDll /\ Len(import.names[t].text) <= MaxName /\ MaxDll \in Nat
    <2>1. import \in ToSet(image.imports)
      BY <1>2 DEF ToSet
    <2>2. import.names[t] \in ToSet(import.names)
      BY <1>2 DEF ToSet
    <2>3. QED
      BY <2>1, <2>2, PeAssumption DEF Fits
  <1>4. IsThunk(image, i, t, thunk)
    <2>1. IsThunk(image, i, t, ThunkAt(mem, b + TableAt(image, i), Width(image), t - 1))
      BY KnownThunks
    <2>2. QED
      BY <1>1, <2>1
  <1> HIDE DEF thunk
  <1>5. name = NameIn(image, i, t) /\ name # <<>>
    <2>1. name = NameIn(image, i, t)
      BY <1>0, <1>3, <1>4, NameIs
    <2>2. QED
      BY <1>0, <2>1, NameInIsThere
  <1>6. d = import.dll
    <2> DEFINE a == DllAt(i)
               dll == import.dll
    <2>1. ImportLies(image, i)
      BY <1>0, ImportPartsLie
    <2>2. TextLies(image, a, dll)
      BY <2>1, Zenon DEF ImportLies
    <2>3. a \in Nat
      BY <1>0, Places
    <2>4. desc[2] = a
      BY <1>1
    <2> HIDE DEF a, dll
    <2>5. dll \in Seq(Nat) /\ 0 \notin ToSet(dll) /\ Len(dll) <= MaxDll /\ MaxDll \in Nat
      BY <1>2, <1>3 DEF dll
    <2>6. CStr(mem, b + a, MaxDll) = dll
      BY ONLY <1>0, <2>2, <2>3, <2>5, TextWhole
    <2>7. QED
      BY <2>4, <2>6 DEF dll
  <1>7. va = b + SlotsAt(i) + w * (t - 1)
    <2>1. w \in {1, 2} /\ u \in Nat
      BY <1>0, <1>2, WidthIs
    <2> HIDE DEF w
    <2>2. CASE w = 1
      BY <1>0, <1>1, <1>2, <2>2
    <2>3. CASE w = 2
      BY <1>0, <1>1, <1>2, <2>3
    <2>4. QED
      BY <2>1, <2>2, <2>3
  <1>8. ImportEntry(mem, b, desc, w, u) =
          IF name = <<>> THEN <<>> ELSE <<[dll |-> d, name |-> name, va |-> va]>>
    BY Zenon DEF ImportEntry, thunk
  <1> HIDE DEF name, d, va
  <1>9. ImportIn(image, b, i, t) =
          [dll |-> import.dll, va |-> b + SlotsAt(i) + w * (t - 1), name |-> NameIn(image, i, t)]
    BY Zenon DEF ImportIn
  <1> DEFINE r == [dll |-> d, name |-> name, va |-> va]
  <1>10. r = ImportIn(image, b, i, t)
    BY <1>5, <1>6, <1>7, <1>9
  <1>11. ImportEntry(mem, b, desc, w, u) = <<r>>
    <2> HIDE DEF r
    <2>1. ImportEntry(mem, b, desc, w, u) = IF name = <<>> THEN <<>> ELSE <<r>>
      BY <1>8 DEF r
    <2>2. QED
      BY <1>5, <2>1
  <1> HIDE DEF r
  <1>12. QED
    BY <1>10, <1>11

LEMMA KnownImportsOf ==
  ASSUME NEW mem, NEW image, NEW b, IsKnown(mem, image, b), Fits(image),
         NEW i \in 1..Len(image.imports), NEW desc, IsDescriptor(image, i, desc)
  PROVE  ImportsOf(mem, b, Headers(mem, b), desc) = RowOf(image, b, i)
  <1> DEFINE n == Len(image.imports[i].names)
             w == Width(image)
             r == RowOf(image, b, i)
             f == [t \in 1..n |-> ImportEntry(mem, b, desc, w, t - 1)]
             S == {r[t] : t \in 1..n}
  <1>0. image \in Images /\ b \in Nat /\ Headers(mem, b) = HeadersOf(image, b)
    BY KnownShows DEF IsKnown
  <1>1. ThunkWidth(Headers(mem, b)) = w
    <2>1. Headers(mem, b).is64 = image.is64
      BY <1>0 DEF HeadersOf
    <2>2. QED
      BY <2>1 DEF ThunkWidth, Width
  <1>2. n \in Nat /\ DOMAIN image.imports[i].names = 1..n
    <2>1. n \in Nat /\ DOMAIN image.imports[i].names = 1..n
      BY <1>0, ImportsAreTyped DEF ImportsType
    <2> HIDE DEF n
    <2>2. QED
      BY <2>1
  <1>3. TableOf(b, desc) = b + TableAt(image, i) /\ TableOf(b, desc) # b
    BY <1>0, DescriptorSays
  <1>4. ThunkCount(mem, TableOf(b, desc), w) = n
    BY <1>3, KnownThunks
  <1>5. ImportsOf(mem, b, Headers(mem, b), desc) = FlattenSeq(f)
    BY <1>1, <1>3, <1>4, ImportsOfIs
  <1>6. r = [t \in 1..n |-> ImportIn(image, b, i, t)]
    BY <1>2 DEF RowOf
  <1>7. \A t \in 1..n : ImportEntry(mem, b, desc, w, t - 1) = <<r[t]>>
    <2> SUFFICES ASSUME NEW t \in 1..n PROVE ImportEntry(mem, b, desc, w, t - 1) = <<r[t]>>
      OBVIOUS
    <2>1. ImportEntry(mem, b, desc, w, t - 1) = <<ImportIn(image, b, i, t)>>
      BY KnownImportEntry, SMTT(30)
    <2> HIDE DEF r, n
    <2>2. r[t] = ImportIn(image, b, i, t)
      BY <1>6
    <2>3. QED
      BY <2>1, <2>2
  <1>8. r \in [1..n -> S]
    <2> HIDE DEF n
    <2>1. DOMAIN r = 1..n /\ r = [t \in 1..n |-> r[t]]
      BY <1>6
    <2> HIDE DEF r
    <2>2. QED
      BY <2>1
  <1> HIDE DEF r, n, S, w
  <1>9. f = [t \in 1..n |-> <<r[t]>>]
    BY <1>7
  <1>10. FlattenSeq(f) = r
    <2>1. FlattenSeq([t \in 1..n |-> <<r[t]>>]) = r
      BY ONLY <1>2, <1>8, SingletonsFlattened
    <2>2. QED
      BY <1>9, <2>1
  <1>11. QED
    BY <1>5, <1>10 DEF r

LEMMA KnownImports ==
  ASSUME NEW mem, NEW image, NEW b, IsKnown(mem, image, b), Fits(image)
  PROVE  ImportList(mem, b) = ImportsIn(image, b)
  <1> DEFINE n == Len(image.imports)
             pe == Headers(mem, b)
             f == [i \in 1..n |-> ImportsOf(mem, b, pe, DescAt(mem, b, i - 1))]
             g == [i \in DOMAIN image.imports |-> RowOf(image, b, i)]
  <1>0. image \in Images /\ b \in Nat /\ Headers(mem, b) = HeadersOf(image, b)
    BY KnownShows DEF IsKnown
  <1>1. DOMAIN image.imports = 1..n
    BY <1>0, ImportsAreTyped DEF ImportsType
  <1>2. ImportsIn(image, b) = FlattenSeq(g)
    BY Zenon DEF ImportsIn, RowOf, ImportIn, NameIn
  <1>3. pe.ok /\ (Absent(pe.imports) <=> image.imports = <<>>)
    BY <1>0, Bases DEF HeadersOf, Absent
  <1>4. CASE image.imports = <<>>
    <2>1. ImportList(mem, b) = <<>>
      BY <1>3, <1>4, ImportListIs
    <2>2. g = <<>>
      BY <1>4
    <2> HIDE DEF g
    <2>3. FlattenSeq(g) = <<>>
      BY <2>2, EmptyFlattened
    <2>4. QED
      BY <1>2, <2>1, <2>3
  <1>5. CASE image.imports # <<>>
    <2>1. /\ DescCount(mem, b) = n
          /\ \A i \in 1..n : IsDescriptor(image, i, DescAt(mem, b, i - 1))
      BY <1>5, KnownDescriptors DEF IsDescriptor
    <2>2. ImportList(mem, b) = FlattenSeq(f)
      BY <1>3, <1>5, <2>1, ImportListIs
    <2>3. \A i \in 1..n : ImportsOf(mem, b, pe, DescAt(mem, b, i - 1)) = RowOf(image, b, i)
      BY <2>1, KnownImportsOf
    <2> HIDE DEF n, pe
    <2>4. f = g
      BY <1>1, <2>3
    <2>5. QED
      BY <1>2, <2>2, <2>4
  <1>6. QED
    BY <1>4, <1>5
----------------------------------------------------------------------------
(* What the attempts leave in the report: all of the last one, and the     *)
(* exports of the first one before those of the second.                    *)
IsFrom(p) ==
  /\ report.imports = ImportsAt(p)
  /\ report.sections = SectionsAt(p)
  /\ ExportsOk(trace.memory[p], Main.base) =>
       report.arch = ArchOf(Headers(trace.memory[p], Main.base).is64)

HistoryInv ==
  /\ trace \in Traces
  /\ DOMAIN report = Fields
  /\ pc \in {"identify", "last"} => report.exports = <<>>
  /\ pc \in {"last", "min", "strings"} => Programs # {}
  /\ pc = "min" => ~Parsed(End) /\ report.exports = ExportsAt(End)
  /\ pc \in {"strings", "resolve", "loads", "sweep"} /\ Programs # {} =>
       \/ Parsed(End) /\ IsFrom(End) /\ report.exports = ExportsAt(End)
       \/ ~Parsed(End) /\ IsFrom(0) /\ report.exports = ExportsAt(End) \o ExportsAt(0)

LEMMA TraceStays ==
  ASSUME UNCHANGED trace
  PROVE  /\ Programs' = Programs /\ Main' = Main
         /\ Parsed(End)' <=> Parsed(End)
         /\ \A p : ImportsAt(p)' = ImportsAt(p) /\ ExportsAt(p)' = ExportsAt(p)
                   /\ SectionsAt(p)' = SectionsAt(p)
  BY DEF ImportsAt, ExportsAt, SectionsAt, Main, Programs, Parsed

(* A step that leaves these fields alone leaves what they are from.        *)
LEMMA FromStays ==
  ASSUME UNCHANGED trace, report'.imports = report.imports, report'.sections = report.sections,
         report'.arch = report.arch, NEW p, IsFrom(p)
  PROVE  IsFrom(p)'
  BY TraceStays DEF IsFrom

LEMMA ParseLeaves ==
  ASSUME trace \in Traces, Programs # {}, DOMAIN report = Fields, UNCHANGED trace,
         NEW p \in Ends, Parse(p)
  PROVE  /\ DOMAIN report' = Fields
         /\ report'.exports = report.exports \o ExportsAt(p)
         /\ IsFrom(p)'
         /\ ExportsAt(p) \in Seq(ExportRecord)
  <1>1. {"imports", "exports", "sections", "arch"} \subseteq DOMAIN report
    BY DEF Fields
  <1> DEFINE imports == ImportsAt(p)
             sections == SectionsAt(p)
             exports == ExportsAt(p)
             is == ArchOf(Headers(trace.memory[p], Main.base).is64)
             ok == ExportsOk(trace.memory[p], Main.base)
             arch == IF ok THEN is ELSE report.arch
  <1>2. report' = [report EXCEPT !.imports = imports, !.sections = sections,
                                 !.exports = @ \o exports, !.arch = arch]
    BY Zenon DEF Parse, ImportsAt, SectionsAt, ExportsAt
  <1> HIDE DEF imports, sections, exports, arch
  <1>3. /\ DOMAIN report' = DOMAIN report
        /\ report'.imports = imports /\ report'.sections = sections
        /\ report'.exports = report.exports \o exports /\ report'.arch = arch
    BY <1>1, <1>2
  <1>4. ok => report'.arch = is
    BY <1>3 DEF arch
  <1>5. /\ trace' = trace /\ Main' = Main /\ ImportsAt(p)' = ImportsAt(p)
        /\ SectionsAt(p)' = SectionsAt(p)
    BY TraceStays
  <1>6. IsFrom(p)'
    <2>1. report'.imports = ImportsAt(p)' /\ report'.sections = SectionsAt(p)'
      BY <1>3, <1>5 DEF imports, sections
    <2>2. ExportsOk(trace'.memory[p], Main'.base) =>
            report'.arch = ArchOf(Headers(trace'.memory[p], Main'.base).is64)
      BY <1>4, <1>5, Zenon
    <2>3. QED
      BY <2>1, <2>2 DEF IsFrom
  <1>7. exports \in Seq(ExportRecord)
    <2>1. IsMemory(trace.memory[p]) /\ Main.base \in Nat
      BY EndsFacts, MainIsModule
    <2>2. QED
      BY <2>1, ExportListFacts DEF exports, ExportsAt
  <1>8. QED
    BY <1>3, <1>6, <1>7 DEF exports

LEMMA HistoryInit == Init => HistoryInv
  <1> SUFFICES ASSUME Init PROVE HistoryInv
    OBVIOUS
  <1>1. ReportInv
    BY ReportInit
  <1>2. pc = "identify" /\ report.exports = <<>>
    <2>1. \E sample : report = [sample |-> sample, arch |-> "x64", imports |-> <<>>, exports |-> <<>>,
                                sections |-> <<>>, strings |-> <<>>]
      BY Zenon DEF Init
    <2>2. report.exports = <<>>
      BY <2>1
    <2>3. QED
      BY <2>2, Zenon DEF Init
  <1>3. QED
    BY <1>1, <1>2 DEF HistoryInv, ReportInv

LEMMA HistoryStep == HistoryInv /\ [Next]_vars => HistoryInv'
  <1> SUFFICES ASSUME HistoryInv, [Next]_vars PROVE HistoryInv'
    OBVIOUS
  <1>0. trace \in Traces /\ DOMAIN report = Fields
    BY DEF HistoryInv
  <1> DEFINE Keeps == /\ UNCHANGED trace /\ DOMAIN report' = DOMAIN report
                      /\ report'.imports = report.imports
                      /\ report'.exports = report.exports
                      /\ report'.sections = report.sections
                      /\ report'.arch = report.arch
  <1>1. ASSUME Keeps, pc \in {"strings", "resolve", "loads", "sweep"} \/ Programs = {},
               pc' \in {"resolve", "loads", "sweep"}
        PROVE  HistoryInv'
    <2>1. Programs' = Programs /\ (Parsed(End)' <=> Parsed(End))
          /\ ExportsAt(End)' = ExportsAt(End) /\ ExportsAt(0)' = ExportsAt(0)
      BY <1>1, TraceStays
    <2>2. \A p : IsFrom(p) => IsFrom(p)'
      BY <1>1, FromStays
    <2>3. Programs # {} =>
            \/ Parsed(End) /\ IsFrom(End) /\ report.exports = ExportsAt(End)
            \/ ~Parsed(End) /\ IsFrom(0) /\ report.exports = ExportsAt(End) \o ExportsAt(0)
      BY <1>1 DEF HistoryInv
    <2>4. Programs' # {} =>
            \/ Parsed(End)' /\ IsFrom(End)' /\ report'.exports = ExportsAt(End)'
            \/ ~Parsed(End)' /\ IsFrom(0)' /\ report'.exports = ExportsAt(End)' \o ExportsAt(0)'
      BY <1>1, <2>1, <2>2, <2>3
    <2>5. trace' \in Traces /\ DOMAIN report' = Fields
      BY <1>0, <1>1
    <2>6. pc' \notin {"identify", "last", "min", "strings"}
      BY <1>1
    <2>7. QED
      BY <2>4, <2>5, <2>6 DEF HistoryInv
  <1>2. CASE IdentifyMain
    <2>1. CASE Programs = {}
      <3>1. Keeps /\ pc' = "resolve"
        BY <1>2, <2>1 DEF IdentifyMain
      <3>2. QED
        BY <1>1, <2>1, <3>1
    <2>2. CASE Programs # {}
      <3> DEFINE sample == Main.stem
      <3>1. UNCHANGED trace /\ report' = [report EXCEPT !.sample = sample]
            /\ pc = "identify" /\ pc' = "last"
        BY <1>2, <2>2 DEF IdentifyMain
      <3> HIDE DEF sample
      <3>2. DOMAIN report' = Fields /\ report'.exports = <<>>
        BY <1>0, <3>1 DEF HistoryInv, Fields
      <3>3. trace' \in Traces /\ Programs' # {}
        BY <1>0, <2>2, <3>1, TraceStays
      <3>4. pc' \notin {"min", "strings", "resolve", "loads", "sweep"}
        BY <3>1
      <3>5. QED
        BY <3>2, <3>3, <3>4 DEF HistoryInv
    <2>3. QED
      BY <2>1, <2>2
  <1>3. CASE ParseLast
    <2>1. /\ UNCHANGED trace /\ Parse(End) /\ pc = "last"
          /\ pc' = IF Parsed(End) THEN "strings" ELSE "min"
      BY <1>3 DEF ParseLast
    <2>2. Programs # {} /\ report.exports = <<>>
      BY <2>1 DEF HistoryInv
    <2>3. End \in Ends
      BY DEF Ends
    <2>4. /\ DOMAIN report' = Fields
          /\ report'.exports = report.exports \o ExportsAt(End)
          /\ IsFrom(End)'
          /\ ExportsAt(End) \in Seq(ExportRecord)
      BY <1>0, <2>1, <2>2, <2>3, ParseLeaves
    <2>5. report'.exports = ExportsAt(End)
      <3>1. <<>> \o ExportsAt(End) = ExportsAt(End)
        BY <2>4, ConcatEmptySeq
      <3>2. QED
        BY <2>2, <2>4, <3>1, Zenon
    <2>6. /\ trace' \in Traces /\ Programs' # {}
          /\ Parsed(End)' <=> Parsed(End)
          /\ ExportsAt(End)' = ExportsAt(End)
      BY <1>0, <2>1, <2>2, TraceStays
    <2>7. CASE Parsed(End)
      <3>1. pc' = "strings"
        BY <2>1, <2>7
      <3>2. QED
        BY <2>4, <2>5, <2>6, <2>7, <3>1 DEF HistoryInv
    <2>8. CASE ~Parsed(End)
      <3>1. pc' = "min"
        BY <2>1, <2>8
      <3>2. QED
        BY <2>4, <2>5, <2>6, <2>8, <3>1 DEF HistoryInv
    <2>9. QED
      BY <2>7, <2>8
  <1>4. CASE ParseMin
    <2>1. UNCHANGED trace /\ Parse(0) /\ pc = "min" /\ pc' = "strings"
      BY <1>4 DEF ParseMin
    <2>2. Programs # {} /\ ~Parsed(End) /\ report.exports = ExportsAt(End)
      BY <2>1 DEF HistoryInv
    <2>3. 0 \in Ends
      BY DEF Ends
    <2>4. /\ DOMAIN report' = Fields
          /\ report'.exports = report.exports \o ExportsAt(0)
          /\ IsFrom(0)'
      BY <1>0, <2>1, <2>2, <2>3, ParseLeaves
    <2>5. /\ trace' \in Traces /\ Programs' # {}
          /\ Parsed(End)' <=> Parsed(End)
          /\ ExportsAt(End)' = ExportsAt(End) /\ ExportsAt(0)' = ExportsAt(0)
      BY <1>0, <2>1, <2>2, TraceStays
    <2>6. report'.exports = ExportsAt(End)' \o ExportsAt(0)'
      BY <2>2, <2>4, <2>5, Zenon
    <2>7. pc' \notin {"identify", "last", "min"}
      BY <2>1
    <2>8. QED
      BY <2>2, <2>4, <2>5, <2>6, <2>7 DEF HistoryInv
  <1>5. CASE FindStrings
    <2> DEFINE strings == StringList(trace.memory[End], Main.base)
    <2>1. /\ UNCHANGED trace /\ report' = [report EXCEPT !.strings = strings]
          /\ pc = "strings" /\ pc' = "resolve"
      BY <1>5 DEF FindStrings
    <2> HIDE DEF strings
    <2>2. Keeps
      BY <2>1
    <2>3. QED
      BY <1>1, <2>1, <2>2
  <1>6. CASE BeginResolving
    <2>1. Keeps /\ pc = "resolve" /\ pc' = "loads"
      BY <1>6 DEF BeginResolving
    <2>2. QED
      BY <1>1, <2>1
  <1>7. CASE ResolveLoad
    <2>1. UNCHANGED <<trace, pc, report>> /\ pc = "loads"
      BY <1>7 DEF ResolveLoad
    <2>2. Keeps /\ pc' = "loads"
      BY <2>1
    <2>3. QED
      BY <1>1, <2>1, <2>2
  <1>8. CASE EndResolving
    <2>1. Keeps /\ pc = "loads" /\ pc' = "sweep"
      BY <1>8 DEF EndResolving
    <2>2. QED
      BY <1>1, <2>1
  <1>9. CASE UNCHANGED vars
    <2>1. UNCHANGED <<trace, pc, report>>
      BY <1>9 DEF vars
    <2>2. /\ Programs' = Programs /\ (Parsed(End)' <=> Parsed(End))
          /\ ExportsAt(End)' = ExportsAt(End) /\ ExportsAt(0)' = ExportsAt(0)
      BY <2>1, TraceStays
    <2>3. \A p : IsFrom(p) => IsFrom(p)'
      BY <2>1, FromStays
    <2>4. QED
      BY <2>1, <2>2, <2>3 DEF HistoryInv
  <1>10. QED
    BY <1>2, <1>3, <1>4, <1>5, <1>6, <1>7, <1>8, <1>9 DEF Next

(* What is read of an image that is all known describes it.                *)
LEMMA FromDescribes ==
  ASSUME NEW p, IsFrom(p), NEW image, IsKnown(trace.memory[p], image, Main.base), Fits(image),
         report.exports = ExportsAt(p)
  PROVE  Describes(image)
  <1> DEFINE mem == trace.memory[p]
             b == Main.base
  <1>1. IsKnown(mem, image, b)
    OBVIOUS
  <1> HIDE DEF mem, b
  <1>2. /\ ImportList(mem, b) = ImportsIn(image, b)
        /\ SectionList(mem, b) = SectionsIn(image, b)
        /\ ExportList(mem, b) = ExportsIn(image, b)
        /\ ExportsOk(mem, b) /\ Headers(mem, b).is64 = image.is64
    BY <1>1, KnownImports, KnownSections, KnownExports
  <1>3. report.imports = ImportsIn(image, b) /\ report.sections = SectionsIn(image, b)
        /\ report.exports = ExportsIn(image, b)
    BY <1>2 DEF IsFrom, ImportsAt, SectionsAt, ExportsAt, mem, b
  <1>4. report.arch = ArchOf(image.is64)
    <2>1. ExportsOk(mem, b) => report.arch = ArchOf(Headers(mem, b).is64)
      BY DEF IsFrom, mem, b
    <2>2. QED
      BY <1>2, <2>1
  <1>5. QED
    BY <1>3, <1>4, Zenon DEF Describes, b

LEMMA WholeServes == HistoryInv => WholeImageIsReported
  <1> SUFFICES ASSUME HistoryInv, Prepared, NEW image \in Images, Fits(image)
               PROVE  /\ IsWhole(trace.memory[End], image, Main.base) /\ image.sections # <<>> =>
                           Describes(image)
                      /\ /\ ~Headers(trace.memory[End], Main.base).ok
                         /\ IsWhole(trace.memory[0], image, Main.base)
                         => Describes(image)
    BY Zenon DEF WholeImageIsReported
  <1> DEFINE b == Main.base
  <1>1. /\ trace \in Traces /\ Programs # {} /\ pc = "sweep" /\ b \in Nat
        /\ 0 \in Ends /\ End \in Ends
    BY MainIsModule DEF HistoryInv, Prepared, Ends
  <1>2. IsMemory(trace.memory[0]) /\ IsMemory(trace.memory[End])
    BY <1>1, EndsFacts
  <1>3. \/ Parsed(End) /\ IsFrom(End) /\ report.exports = ExportsAt(End)
        \/ ~Parsed(End) /\ IsFrom(0) /\ report.exports = ExportsAt(End) \o ExportsAt(0)
    BY <1>1 DEF HistoryInv
  <1>4. ASSUME IsWhole(trace.memory[End], image, b), image.sections # <<>>
        PROVE  Describes(image)
    <2>1. IsKnown(trace.memory[End], image, b)
      BY <1>1, <1>2, <1>4 DEF IsKnown
    <2>2. Parsed(End)
      <3>1. Headers(trace.memory[End], b).ok
        BY <2>1, KnownShows DEF HeadersOf
      <3>2. SectionList(trace.memory[End], b) # <<>>
        <4>1. SectionList(trace.memory[End], b) = SectionsIn(image, b)
          BY <2>1, KnownSections
        <4>2. DOMAIN SectionsIn(image, b) # {}
          <5>1. image.sections \in Seq([exec : BOOLEAN, data : Seq(Nat), texts : Seq(Seq(Nat))])
            BY ImageType
          <5>2. DOMAIN image.sections # {}
            <6> DEFINE sections == image.sections
                       S == [exec : BOOLEAN, data : Seq(Nat), texts : Seq(Seq(Nat))]
            <6>1. sections \in Seq(S) /\ sections # <<>>
              BY <1>4, <5>1
            <6> HIDE DEF sections, S
            <6>2. Len(sections) \in Nat \ {0} /\ DOMAIN sections = 1..Len(sections)
              BY ONLY <6>1, EmptySeq
            <6>3. QED
              BY <6>2 DEF sections
          <5>3. QED
            BY <5>2 DEF SectionsIn
        <4>3. QED
          BY <4>1, <4>2
      <3>3. QED
        BY <3>1, <3>2 DEF Parsed
    <2>3. QED
      BY <1>3, <2>1, <2>2, FromDescribes
  <1>5. ASSUME ~Headers(trace.memory[End], b).ok, IsWhole(trace.memory[0], image, b)
        PROVE  Describes(image)
    <2>1. IsKnown(trace.memory[0], image, b)
      BY <1>1, <1>2, <1>5 DEF IsKnown
    <2>2. ~Parsed(End)
      BY <1>5 DEF Parsed
    <2>3. ExportsAt(End) = <<>>
      <3>1. ~ExportsOk(trace.memory[End], b)
        BY <1>5 DEF ExportsOk
      <3>2. QED
        BY <3>1, ExportListIs DEF ExportsAt
    <2>4. <<>> \o ExportsAt(0) = ExportsAt(0)
      <3>1. ExportsAt(0) \in Seq(ExportRecord)
        BY <1>1, <1>2, ExportListFacts DEF ExportsAt
      <3>2. QED
        BY <3>1, ConcatEmptySeq
    <2>5. report.exports = ExportsAt(0)
      BY <1>3, <2>2, <2>3, <2>4
    <2>6. QED
      BY <1>3, <2>1, <2>2, <2>5, FromDescribes
  <1>6. QED
    BY <1>4, <1>5

(* The main module's image is reported as the linker made it, all of it    *)
(* and nothing else (utils.cpp, initializeReport, and the parsers of       *)
(* ttd_pe_utils.cpp): for every image, laid out in whatever way and loaded *)
(* anywhere, that is known at the end of the trace, or at its beginning if *)
(* the end shows no headers.                                               *)
THEOREM WholeIsReported == Spec => []WholeImageIsReported
  <1>1. Spec => []HistoryInv
    BY HistoryInit, HistoryStep, PTL DEF Spec
  <1>2. QED
    BY <1>1, WholeServes, PTL
----------------------------------------------------------------------------
(* Where the elements of a flattened sequence come from, if each of its    *)
(* sequences has one element at most: two of them, from two of these.      *)
IsOne(s, m, x) == \E u \in 1..m : s[u] = <<x>>

AreTwo(s, m, x, y) == \E u, w \in 1..m : u # w /\ s[u] = <<x>> /\ s[w] = <<y>>

Comes(v, s, m) ==
  /\ \A i \in 1..Len(v) : IsOne(s, m, v[i])
  /\ \A i, j \in 1..Len(v) : i # j => AreTwo(s, m, v[i], v[j])

LEMMA ComesOn ==
  ASSUME NEW S, NEW v \in Seq(S), NEW s, NEW m \in Nat \ {0}, Comes(v, s, m - 1),
         s[m] \in Seq(S), Len(s[m]) \in {0, 1}
  PROVE  Comes(v \o s[m], s, m)
  <1> DEFINE x == s[m]
             y == v \o x
             n == Len(v)
  <1>1. \A u \in 1..(m - 1) : u \in 1..m /\ u # m
    OBVIOUS
  <1>2. m \in 1..m
    OBVIOUS
  <1>3. \A e : IsOne(s, m - 1, e) => IsOne(s, m, e)
    BY ONLY <1>1 DEF IsOne
  <1>4. \A e, d : AreTwo(s, m - 1, e, d) => AreTwo(s, m, e, d)
    <2> SUFFICES ASSUME NEW e, NEW d, AreTwo(s, m - 1, e, d) PROVE AreTwo(s, m, e, d)
      OBVIOUS
    <2>1. PICK u \in 1..(m - 1), w \in 1..(m - 1) : u # w /\ s[u] = <<e>> /\ s[w] = <<d>>
      BY DEF AreTwo
    <2>2. u \in 1..m /\ w \in 1..m
      BY ONLY <1>1, u \in 1..(m - 1), w \in 1..(m - 1)
    <2>3. QED
      BY ONLY <2>1, <2>2 DEF AreTwo
  <1>5. /\ \A i \in 1..n : IsOne(s, m, v[i])
        /\ \A i, j \in 1..n : i # j => AreTwo(s, m, v[i], v[j])
    BY <1>3, <1>4 DEF Comes
  <1>6. CASE Len(x) = 0
    <2>1. x = <<>>
      BY <1>6, EmptySeq
    <2>2. y = v
      BY <2>1, ConcatEmptySeq
    <2>3. QED
      BY <1>5, <2>2 DEF Comes
  <1>7. CASE Len(x) = 1
    <2>1. x = <<x[1]>>
      BY <1>7
    <2>2. /\ y \in Seq(S) /\ Len(y) = n + 1 /\ n \in Nat
          /\ \A k \in 1..n : y[k] = v[k]
          /\ y[n + 1] = x[1]
      <3> HIDE DEF x
      <3>1. x \in Seq(S)
        BY DEF x
      <3>2. /\ v \o x \in Seq(S) /\ Len(v \o x) = Len(v) + Len(x) /\ Len(v) \in Nat
            /\ \A k \in 1..Len(v) : (v \o x)[k] = v[k]
            /\ \A k \in 1..Len(x) : (v \o x)[Len(v) + k] = x[k]
        BY ONLY v \in Seq(S), <3>1, JoinFacts
      <3>3. QED
        BY <1>7, <3>2
    <2> HIDE DEF y, n
    <2>3. s[m] = <<y[n + 1]>>
      BY <2>1, <2>2
    <2>4. \A i \in 1..n : \E u \in 1..(m - 1) : s[u] = <<y[i]>>
      <3> SUFFICES ASSUME NEW i \in 1..n PROVE \E u \in 1..(m - 1) : s[u] = <<y[i]>>
        OBVIOUS
      <3>1. IsOne(s, m - 1, v[i])
        BY DEF Comes, n
      <3>2. y[i] = v[i]
        BY <2>2
      <3>3. QED
        BY <3>1, <3>2 DEF IsOne
    <2>5. \A i \in 1..n : IsOne(s, m, y[i])
      BY <1>1, <2>4 DEF IsOne
    <2>6. IsOne(s, m, y[n + 1])
      BY <1>2, <2>3 DEF IsOne
    <2>7. \A i, j \in 1..n : i # j => AreTwo(s, m, y[i], y[j])
      BY ONLY <1>5, <2>2
    <2>8. \A i \in 1..n : AreTwo(s, m, y[i], y[n + 1]) /\ AreTwo(s, m, y[n + 1], y[i])
      <3> SUFFICES ASSUME NEW i \in 1..n
                   PROVE  AreTwo(s, m, y[i], y[n + 1]) /\ AreTwo(s, m, y[n + 1], y[i])
        OBVIOUS
      <3>1. PICK u \in 1..(m - 1) : s[u] = <<y[i]>>
        BY <2>4
      <3>2. u \in 1..m /\ u # m
        BY <1>1
      <3>3. QED
        BY ONLY <1>2, <2>3, <3>1, <3>2 DEF AreTwo
    <2>9. \A i \in 1..Len(y) : i \in 1..n \/ i = n + 1
      BY <2>2
    <2>10. \A i \in 1..Len(y) : IsOne(s, m, y[i])
      BY ONLY <2>5, <2>6, <2>9
    <2>11. \A i, j \in 1..Len(y) : i # j => AreTwo(s, m, y[i], y[j])
      BY ONLY <2>7, <2>8, <2>9
    <2>12. Comes(y, s, m)
      BY ONLY <2>10, <2>11 DEF Comes
    <2>13. QED
      BY <2>12 DEF y
  <1>8. QED
    BY <1>6, <1>7

LEMMA FlattenComes ==
  ASSUME NEW S, NEW s \in Seq(Seq(S)), \A i \in 1..Len(s) : Len(s[i]) \in {0, 1}
  PROVE  Comes(FlattenSeq(s), s, Len(s))
  <1> DEFINE n == Len(s)
  <1>1. n \in Nat /\ \A i \in 1..n : s[i] \in Seq(S)
    OBVIOUS
  <1>2. \A m : Comes(<<>>, s, m)
    BY DEF Comes
  <1>3. CASE n = 0
    <2>1. s = <<>>
      BY <1>3
    <2>2. FlattenSeq(s) = <<>>
      BY <2>1, EmptyFlattened
    <2>3. QED
      BY <1>2, <2>2
  <1>4. CASE n # 0
    <2>1. PICK f \in [1..n -> Seq(S)] : Joins(f, s) /\ FlattenSeq(s) = f[n]
      BY <1>4, FlattenIs
    <2> HIDE DEF n
    <2> DEFINE P == {m \in 0..n : m # 0 => Comes(f[m], s, m)}
    <2>2. 0 \in P
      BY <1>1
    <2>3. ASSUME NEW m \in 1..n, m - 1 \in P PROVE m \in P
      <3>0. /\ s[m] \in Seq(S) /\ Len(s[m]) \in {0, 1} /\ m \in Nat \ {0}
            /\ m \in 0..n
        BY <1>1 DEF n
      <3>1. CASE m = 1
        <4> DEFINE e == <<>>
        <4>1. f[1] = s[1]
          BY <2>1 DEF Joins
        <4>2. e \o s[m] = s[m]
          BY <3>0, ConcatEmptySeq
        <4>3. e \in Seq(S) /\ Comes(e, s, m - 1)
          BY <1>2
        <4> HIDE DEF e
        <4>4. Comes(e \o s[m], s, m)
          BY ONLY <3>0, <4>3, ComesOn
        <4>5. Comes(f[m], s, m)
          BY <3>1, <4>1, <4>2, <4>4
        <4>6. QED
          BY <3>0, <4>5
      <3>2. CASE m # 1
        <4>1. m \in 2..n /\ m - 1 \in 1..n /\ m - 1 # 0
          BY <1>1, <3>2
        <4>2. f[m] = f[m - 1] \o s[m]
          BY ONLY <2>1, <4>1 DEF Joins, n
        <4>3. Comes(f[m - 1], s, m - 1)
          BY <2>3, <4>1
        <4> DEFINE v == f[m - 1]
        <4>4. v \in Seq(S) /\ Comes(v, s, m - 1)
          BY <4>1, <4>3
        <4> HIDE DEF v
        <4>5. Comes(v \o s[m], s, m)
          BY ONLY <3>0, <4>4, ComesOn
        <4>6. Comes(f[m], s, m)
          BY <4>2, <4>5 DEF v
        <4>7. QED
          BY <3>0, <4>6
      <3>3. QED
        BY <3>1, <3>2
    <2> HIDE DEF P
    <2>4. 0..n \subseteq P
      BY <1>1, <2>2, <2>3, BoundedInduction
    <2>5. n \in P /\ n # 0
      <3>1. n \in 0..n
        BY <1>1
      <3>2. QED
        BY ONLY <1>4, <2>4, <3>1
    <2>6. Comes(f[n], s, n)
      BY ONLY <2>5 DEF P
    <2>7. QED
      BY <2>1, <2>6 DEF n
  <1>5. QED
    BY <1>3, <1>4

(* Two exports read that are the same are two of the image: two names of   *)
(* one function.                                                           *)
AreTwins(image, b, e) ==
  \E k, l \in DOMAIN image.exports :
    k # l /\ IsListedAs(image, b, e, k) /\ IsListedAs(image, b, e, l)

LEMMA TwinsListed ==
  ASSUME NEW mem, NEW image, NEW b, ShowsExports(mem, image, b),
         NEW i \in DOMAIN ExportList(mem, b), NEW j \in DOMAIN ExportList(mem, b),
         i # j, ExportList(mem, b)[i] = ExportList(mem, b)[j]
  PROVE  AreTwins(image, b, ExportList(mem, b)[i])
  <1> DEFINE v == ExportList(mem, b)
             e == v[i]
             m == ExportCount(mem, b)
             s == [u \in 1..m |-> ExportEntry(mem, b, u - 1)]
  <1>0. IsMemory(mem) /\ b \in Nat
    BY DEF ShowsExports
  <1>1. v \in Seq(ExportRecord) /\ DOMAIN v = 1..Len(v)
    BY <1>0, ExportListFacts
  <1>2. ExportsOk(mem, b) /\ ~Absent(Headers(mem, b).exports)
    <2>1. e \in ToSet(v)
      BY DEF ToSet
    <2>2. QED
      BY <1>0, <2>1, ExportListFacts
  <1>3. Exporting(mem, image, b)
    BY <1>2, ExportsAreRead
  <1>4. v = FlattenSeq(s)
    BY <1>2, ExportListIs
  <1>5. m \in Nat
    BY <1>0, ExportCountIs
  <1> HIDE DEF m
  <1>6. \A u \in 1..m : /\ ExportEntry(mem, b, u - 1) \in Seq(ExportRecord)
                        /\ Len(ExportEntry(mem, b, u - 1)) \in {0, 1}
    <2> SUFFICES ASSUME NEW u \in 1..m
                 PROVE  /\ ExportEntry(mem, b, u - 1) \in Seq(ExportRecord)
                        /\ Len(ExportEntry(mem, b, u - 1)) \in {0, 1}
      OBVIOUS
    <2>1. u - 1 \in Nat
      BY <1>5
    <2>2. ExportEntry(mem, b, u - 1) \in Seq(ExportRecord)
      BY <1>0, <2>1, ExportEntryType
    <2>3. \/ ExportEntry(mem, b, u - 1) = <<>>
          \/ \E x : ExportEntry(mem, b, u - 1) = <<x>>
      BY Zenon DEF ExportEntry
    <2>4. QED
      BY <2>2, <2>3
  <1>7. /\ s \in Seq(Seq(ExportRecord)) /\ Len(s) = m
        /\ \A u \in 1..m : s[u] = ExportEntry(mem, b, u - 1)
    BY <1>5, <1>6
  <1> HIDE DEF s
  <1>8. \A u \in 1..Len(s) : Len(s[u]) \in {0, 1}
    BY <1>6, <1>7
  <1>9. Comes(FlattenSeq(s), s, Len(s))
    BY ONLY <1>7, <1>8, FlattenComes
  <1>10. AreTwo(s, m, v[i], v[j])
    BY <1>1, <1>4, <1>7, <1>9 DEF Comes
  <1>11. PICK k, l \in 1..m : k # l /\ s[k] = <<e>> /\ s[l] = <<e>>
    BY <1>10 DEF AreTwo
  <1> HIDE DEF e
  <1>12. e \in ToSet(ExportEntry(mem, b, k - 1)) /\ e \in ToSet(ExportEntry(mem, b, l - 1))
    <2>1. e \in ToSet(<<e>>)
      BY DEF ToSet
    <2>2. QED
      BY <1>7, <1>11, <2>1
  <1>13. /\ k \in DOMAIN image.exports /\ IsListedAs(image, b, e, k)
         /\ l \in DOMAIN image.exports /\ IsListedAs(image, b, e, l)
    BY <1>3, <1>12, EntryIsListed DEF m
  <1>14. QED
    BY <1>11, <1>13 DEF AreTwins, e

LEMMA OnceServes == HistoryInv => ExportsListedOnce
  <1> DEFINE b == Main.base
             Stale == /\ ExportList(trace.memory[End], Main.base) # <<>>
                      /\ SectionList(trace.memory[End], Main.base) = <<>>
             Says(image, e) == \E k, l \in DOMAIN image.exports :
                                 /\ k # l /\ image.exports[k].rva = image.exports[l].rva
                                 /\ e.va = b + image.exports[k].rva
                                 /\ IsPrefix(e.name, image.exports[k].name)
                                 /\ IsPrefix(e.name, image.exports[l].name)
  <1> DEFINE Read == {End} \cup {q \in {0} : ~Parsed(End)}
  <1> SUFFICES ASSUME HistoryInv, Prepared,
                      NEW i \in DOMAIN report.exports, NEW j \in DOMAIN report.exports,
                      i # j, report.exports[i] = report.exports[j], ~Stale,
                      \A p \in Read : \A image \in Images :
                        HasCells(trace.memory[p], image, Main.base) =>
                          ~Torn(trace.memory[p], image, Main.base)
               PROVE  OfImages(LAMBDA image : Says(image, report.exports[i]))
    BY Zenon DEF ExportsListedOnce
  <1>1. trace \in Traces /\ b \in Nat /\ 0 \in Ends /\ End \in Ends
    BY MainIsModule DEF HistoryInv, Prepared, Ends
  <1>2. PICK p \in Ends : p \in Read /\ report.exports = ExportsAt(p)
    <2>1. pc = "sweep" /\ Programs # {}
      BY DEF Prepared
    <2>2. CASE Parsed(End)
      BY <1>1, <2>1, <2>2 DEF HistoryInv
    <2>3. CASE ~Parsed(End)
      <3>1. report.exports = ExportsAt(End) \o ExportsAt(0)
        BY <2>1, <2>3 DEF HistoryInv
      <3>2. ExportsAt(End) = <<>>
        <4>1. CASE Headers(trace.memory[End], b).ok
          BY <2>3, <4>1 DEF Parsed, ExportsAt
        <4>2. CASE ~Headers(trace.memory[End], b).ok
          <5>1. ~ExportsOk(trace.memory[End], b)
            BY <4>2 DEF ExportsOk
          <5>2. QED
            BY <5>1, ExportListIs DEF ExportsAt
        <4>3. QED
          BY <4>1, <4>2
      <3>3. ExportsAt(0) \in Seq(ExportRecord)
        <4>1. IsMemory(trace.memory[0])
          BY <1>1, EndsFacts
        <4>2. QED
          BY <1>1, <4>1, ExportListFacts DEF ExportsAt
      <3>4. <<>> \o ExportsAt(0) = ExportsAt(0)
        BY <3>3, ConcatEmptySeq
      <3>5. 0 \in Read
        BY <2>3
      <3>6. QED
        BY <1>1, <3>1, <3>2, <3>4, <3>5
    <2>4. QED
      BY <2>2, <2>3
  <1>3. PICK image \in Images : ShowsExports(trace.memory[p], image, b)
    <2>1. IsMemory(trace.memory[p]) /\ p \in {0, End}
      BY <1>1, EndsFacts DEF Ends
    <2>2. Headers(trace.memory[p], b).ok
      <3>1. report.exports[i] \in ToSet(ExportList(trace.memory[p], b))
        BY <1>2 DEF ExportsAt, ToSet
      <3>2. ExportsOk(trace.memory[p], b)
        BY <1>1, <2>1, <3>1, ExportListFacts
      <3>3. QED
        BY <3>2 DEF ExportsOk
    <2>3. Main \in ToSet(trace.modules) /\ Main.ext = "exe"
      BY MainIsProgram DEF HistoryInv, Prepared
    <2>4. PICK image \in Images : HasCells(trace.memory[p], image, b)
      BY <1>1, <2>1, <2>2, <2>3, ImageAssumption
    <2>5. ~Torn(trace.memory[p], image, b)
      BY <1>2, <2>4
    <2>6. QED
      BY <1>1, <2>1, <2>4, <2>5 DEF ShowsExports
  <1> DEFINE e == report.exports[i]
             mem == trace.memory[p]
  <1>4. /\ i \in DOMAIN ExportList(mem, b) /\ j \in DOMAIN ExportList(mem, b)
        /\ ExportList(mem, b)[i] = ExportList(mem, b)[j] /\ i # j
        /\ e = ExportList(mem, b)[i] /\ ShowsExports(mem, image, b)
    BY <1>2, <1>3 DEF ExportsAt
  <1>5. HasCells(mem, image, b)
    BY <1>3 DEF ShowsExports
  <1> HIDE DEF mem, b, e
  <1>6. AreTwins(image, b, e)
    BY ONLY <1>4, TwinsListed
  <1>7. PICK k, l \in DOMAIN image.exports :
          k # l /\ IsListedAs(image, b, e, k) /\ IsListedAs(image, b, e, l)
    BY <1>6 DEF AreTwins
  <1>8. Says(image, e)
    <2>1. \A u \in DOMAIN image.exports : image.exports[u].rva \in Nat
      <3>1. image \in Images
        BY <1>3 DEF ShowsExports
      <3>2. QED
        BY <3>1, ExportsAreTyped DEF ExportsType
    <2>2. /\ e.va = b + image.exports[k].rva /\ e.va = b + image.exports[l].rva
          /\ IsPrefix(e.name, image.exports[k].name)
          /\ IsPrefix(e.name, image.exports[l].name)
      BY <1>7, Zenon DEF IsListedAs
    <2>3. image.exports[k].rva = image.exports[l].rva
      BY <1>1, <2>1, <2>2
    <2>4. QED
      BY <1>7, <2>2, <2>3, Zenon
  <1>9. p \in {0, End}
    BY DEF Ends
  <1>10. QED
    BY <1>5, <1>8, <1>9, Zenon DEF OfImages, mem, b, e

(* No export is listed twice (utils.cpp:46-53, ttd_pe_utils.cpp), unless   *)
(* the attempt at the end of the trace found exports and no section, or    *)
(* the image has two names for one function and what is known of them      *)
(* begins alike, or the export directory was known in part where it was    *)
(* read: for any image and layout, and whatever is known of it.            *)
THEOREM ListedOnce == Spec => []ExportsListedOnce
  <1>1. Spec => []HistoryInv
    BY HistoryInit, HistoryStep, PTL DEF Spec
  <1>2. QED
    BY <1>1, OnceServes, PTL
============================================================================
