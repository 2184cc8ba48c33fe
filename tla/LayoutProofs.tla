---------------------------- MODULE LayoutProofs ----------------------------
(***************************************************************************)
(* That the x86 layouts the decoder uses are the ones the caller made,     *)
(* proved for signatures of any length and every parameter type.           *)
(***************************************************************************)
EXTENDS StackLayout, Induction

(* A running sum is what its recursion says: such a function exists, for   *)
(* one that is right so far can be made one longer.                        *)
Adds(f, n, first, bytes) ==
  f = [k \in 0..n |-> IF k = 0 THEN first ELSE f[k - 1] + bytes[k]]

LEMMA SumsExist ==
  ASSUME NEW first \in Nat, NEW bytes \in Seq(Nat), NEW m \in 0..Len(bytes)
  PROVE  \E f \in [0..m -> Nat] : Adds(f, m, first, bytes)
  <1> DEFINE S == {n \in Nat : n <= Len(bytes) =>
                     \E f \in [0..n -> Nat] : Adds(f, n, first, bytes)}
  <1>0. Len(bytes) \in Nat /\ \A k \in 1..Len(bytes) : bytes[k] \in Nat
    BY LenProperties, ElementOfSeq
  <1>1. 0 \in S
    <2> DEFINE e == [k \in 0..0 |-> first]
    <2>1. \A k \in 0..0 : k = 0
      OBVIOUS
    <2>2. e \in [0..0 -> Nat] /\ Adds(e, 0, first, bytes)
      BY <2>1 DEF Adds
    <2>3. QED
      BY <2>2
  <1>2. ASSUME NEW n \in Nat, n \in S PROVE n + 1 \in S
    <2> SUFFICES ASSUME n + 1 <= Len(bytes)
                 PROVE  \E f \in [0..(n + 1) -> Nat] : Adds(f, n + 1, first, bytes)
      OBVIOUS
    <2>1. PICK f \in [0..n -> Nat] : Adds(f, n, first, bytes)
      BY <1>0, <1>2
    <2> DEFINE g == [k \in 0..(n + 1) |-> IF k = n + 1 THEN f[n] + bytes[n + 1] ELSE f[k]]
    <2>2. \A k \in 0..(n + 1) : k = n + 1 \/ k \in 0..n
      OBVIOUS
    <2>3. g \in [0..(n + 1) -> Nat]
      BY <1>0, <2>2
    <2>4. g[n + 1] = f[n] + bytes[n + 1] /\ \A k \in 0..n : g[k] = f[k]
      OBVIOUS
    <2>5. \A k \in 0..n : f[k] = IF k = 0 THEN first ELSE f[k - 1] + bytes[k]
      BY <2>1 DEF Adds
    <2> HIDE DEF g
    <2>6. ASSUME NEW k \in 0..(n + 1)
          PROVE  g[k] = IF k = 0 THEN first ELSE g[k - 1] + bytes[k]
      <3>1. CASE k = n + 1
        BY <2>4, <3>1
      <3>2. CASE k \in 0..n
        <4>1. k # 0 => k - 1 \in 0..n
          BY <3>2
        <4>2. QED
          BY <2>4, <2>5, <3>2, <4>1
      <3>3. QED
        BY <2>2, <3>1, <3>2
    <2>7. Adds(g, n + 1, first, bytes)
      BY <2>3, <2>6 DEF Adds
    <2>8. QED
      BY <2>3, <2>7
  <1> HIDE DEF S
  <1>3. Nat \subseteq S
    BY <1>1, <1>2, SetInduction
  <1>4. m \in S
    BY <1>0, <1>3
  <1>5. QED
    BY <1>0, <1>4 DEF S

LEMMA SumsAre ==
  ASSUME NEW first \in Nat, NEW bytes \in Seq(Nat)
  PROVE  /\ Sums(first, bytes)[0] = first
         /\ \A k \in 1..Len(bytes) :
              Sums(first, bytes)[k] = Sums(first, bytes)[k - 1] + bytes[k]
         /\ \A k \in 0..Len(bytes) : Sums(first, bytes)[k] \in Nat
  <1> DEFINE n == Len(bytes)
             Eq(f) == f = [k \in 0..n |-> IF k = 0 THEN first ELSE f[k - 1] + bytes[k]]
             t == CHOOSE f : Eq(f)
             S == {k \in Nat : k <= n => t[k] \in Nat}
  <1>1. n \in Nat /\ \A k \in 1..n : bytes[k] \in Nat
    BY LenProperties, ElementOfSeq
  <1>2. \E f : Eq(f)
    <2>1. n \in 0..Len(bytes)
      BY <1>1
    <2>2. PICK f \in [0..n -> Nat] : Adds(f, n, first, bytes)
      BY <2>1, SumsExist
    <2>3. Eq(f)
      BY <2>2 DEF Adds
    <2>4. QED
      BY <2>3, Zenon
  <1>3. Sums(first, bytes) = t
    BY DEF Sums
  <1>4. Eq(t)
    BY <1>2, Zenon
  <1> HIDE DEF t, n
  <1>5. t[0] = first /\ \A k \in 1..n : t[k] = t[k - 1] + bytes[k]
    <2>1. \A k \in 0..n : t[k] = IF k = 0 THEN first ELSE t[k - 1] + bytes[k]
      BY <1>4
    <2>2. QED
      BY <1>1, <2>1
  <1>6. 0 \in S
    BY <1>5
  <1>7. ASSUME NEW k \in Nat, k \in S PROVE k + 1 \in S
    BY <1>1, <1>5, <1>7
  <1> HIDE DEF S
  <1>8. Nat \subseteq S
    BY <1>6, <1>7, SetInduction
  <1>9. \A k \in 0..n : t[k] \in Nat
    BY <1>1, <1>8 DEF S
  <1>10. QED
    BY <1>3, <1>5, <1>9 DEF n

(* A sum never falls, and what is added is between the two.                *)
LEMMA SumsGrow ==
  ASSUME NEW first \in Nat, NEW bytes \in Seq(Nat),
         NEW i \in 1..Len(bytes), NEW j \in 0..Len(bytes), i <= j
  PROVE  Sums(first, bytes)[i - 1] + bytes[i] <= Sums(first, bytes)[j]
  <1> DEFINE n == Len(bytes)
             t == Sums(first, bytes)
             S == {k \in Nat : i + k <= n => t[i - 1] + bytes[i] <= t[i + k]}
  <1>1. n \in Nat /\ (\A k \in 1..n : bytes[k] \in Nat) /\ i \in 1..n /\ j \in 0..n
    BY LenProperties, ElementOfSeq
  <1>2. /\ \A k \in 1..n : t[k] = t[k - 1] + bytes[k]
        /\ \A k \in 0..n : t[k] \in Nat
    BY SumsAre
  <1> HIDE DEF n, t
  <1>3. 0 \in S
    BY <1>1, <1>2
  <1>4. ASSUME NEW k \in Nat, k \in S PROVE k + 1 \in S
    <2>1. CASE i + (k + 1) <= n
      <3>1. i + k \in 0..n /\ i + k + 1 \in 1..n /\ (i + k + 1) - 1 = i + k
            /\ i - 1 \in 0..n /\ i + (k + 1) = i + k + 1
        BY <1>1, <2>1
      <3>2. t[i + k + 1] = t[i + k] + bytes[i + k + 1] /\ bytes[i + k + 1] \in Nat
            /\ t[i + k] \in Nat /\ t[i - 1] \in Nat /\ bytes[i] \in Nat
        BY <1>1, <1>2, <3>1
      <3>3. t[i - 1] + bytes[i] <= t[i + k]
        BY <1>4, <3>1
      <3>4. \A x, y, z \in Nat : x + y \in Nat /\ (x <= y => x <= y + z)
        OBVIOUS
      <3>5. t[i - 1] + bytes[i] \in Nat
        BY ONLY <3>2, <3>4, Zenon
      <3>6. t[i - 1] + bytes[i] <= t[i + k] + bytes[i + k + 1]
        BY ONLY <3>2, <3>3, <3>4, <3>5, Zenon
      <3>7. t[i - 1] + bytes[i] <= t[i + (k + 1)]
        BY ONLY <3>1, <3>2, <3>6, Zenon
      <3>8. QED
        BY <3>7
    <2>2. CASE ~(i + (k + 1) <= n)
      BY <2>2
    <2>3. QED
      BY <2>1, <2>2
  <1> HIDE DEF S
  <1>5. Nat \subseteq S
    BY <1>3, <1>4, SetInduction
  <1>6. j - i \in S /\ i + (j - i) = j
    BY <1>1, <1>5
  <1>7. QED
    BY <1>1, <1>6 DEF S, t, n
----------------------------------------------------------------------------
(* The inductive invariant: what a signature is made of.                   *)
SignatureOK == params \in Seq(ParamTypes) /\ hidden \in BOOLEAN

First == IF hidden THEN 1 ELSE 0

LEMMA ParamIs ==
  ASSUME SignatureOK
  PROVE  /\ Len(params) \in Nat /\ DOMAIN params = 1..Len(params)
         /\ \A i \in 1..Len(params) :
              /\ params[i] \in ParamTypes
              /\ params[i].pushed \in Nat
         /\ First \in {0, 1} /\ First = (IF hidden THEN 1 ELSE 0)
         /\ \A i \in 1..Len(params) : Slot(i) = i - 1 + First
  <1>1. Len(params) \in Nat /\ DOMAIN params = 1..Len(params)
        /\ \A i \in 1..Len(params) : params[i] \in ParamTypes
    BY LenProperties, ElementOfSeq DEF SignatureOK
  <1>2. \A p \in ParamTypes : p.pushed \in Nat
    BY LayoutAssumption
  <1>3. QED
    BY <1>1, <1>2 DEF First, Slot

(* Where the footprint is known it is what the caller pushes, and a read   *)
(* of the parameter stays within it.                                       *)
LEMMA FootprintIsPushed ==
  ASSUME NEW p \in ParamTypes
  PROVE  /\ Footprint(p) \in Nat
         /\ Footprint(p) # 0 => Footprint(p) = p.pushed /\ ReadWidth(p) <= p.pushed
  <1>1. /\ p.kind \in {"scalar", "float", "double", "struct", "pointer"}
        /\ p.size \in Nat
        /\ p.kind = "scalar" => p.size \in {1, 2, 4, 8}
    BY LayoutAssumption
  <1>2. /\ p.kind = "double" => p.pushed = 8
        /\ p.kind \in {"float", "pointer"} => p.pushed = 4
        /\ p.kind = "struct" /\ p.starred => p.pushed = 4
        /\ p.kind = "scalar" /\ p.size <= 4 => p.pushed = 4
    BY AbiAssumption DEF Word
  <1>3. ((8 + Word - 1) \div Word) * Word = 8 /\ ((4 + Word - 1) \div Word) * Word = 4
        /\ ((1 + Word - 1) \div Word) * Word = 4 /\ ((2 + Word - 1) \div Word) * Word = 4
    BY DEF Word
  <1>4. CASE p.kind = "double"
    <2>1. Footprint(p) = 8 /\ ReadWidth(p) = 8
      BY <1>3, <1>4 DEF Footprint, ReadWidth, IsByValueAggregate
    <2>2. QED
      BY <1>2, <1>4, <2>1
  <1>5. CASE p.kind \in {"float", "pointer"}
    <2>1. Footprint(p) = 4 /\ ReadWidth(p) = 4
      BY <1>3, <1>5 DEF Footprint, ReadWidth, IsByValueAggregate, Word
    <2>2. QED
      BY <1>2, <1>5, <2>1
  <1>6. CASE p.kind = "struct"
    <2>1. CASE p.starred
      <3>1. Footprint(p) = 4 /\ ReadWidth(p) = 4
        BY <1>3, <1>6, <2>1 DEF Footprint, ReadWidth, IsByValueAggregate, Word
      <3>2. QED
        BY <1>2, <1>6, <2>1, <3>1
    <2>2. CASE ~p.starred
      BY <1>6, <2>2 DEF Footprint, IsByValueAggregate
    <2>3. QED
      BY <2>1, <2>2
  <1>7. CASE p.kind = "scalar"
    <2>1. CASE p.size = 8
      BY <1>7, <2>1 DEF Footprint
    <2>2. CASE p.size \in {1, 2, 4}
      <3>1. Footprint(p) = ((p.size + Word - 1) \div Word) * Word /\ ReadWidth(p) = 4
        BY <1>7, <2>2 DEF Footprint, ReadWidth, IsByValueAggregate, Word
      <3>2. Footprint(p) = 4 /\ p.size <= 4
        BY <1>3, <2>2, <3>1
      <3>3. QED
        BY <1>2, <1>7, <3>1, <3>2
    <2>3. QED
      BY <1>1, <1>7, <2>1, <2>2
  <1>8. QED
    BY <1>1, <1>4, <1>5, <1>6, <1>7

(* What the walk adds for the slot of a parameter, and for the other one.  *)
LEMMA SlotBytesAre ==
  ASSUME SignatureOK
  PROVE  /\ \A s \in Nat : SlotBytes(s) \in Nat
         /\ \A i \in 1..Len(params) : SlotBytes(i - 1 + First) = Footprint(params[i])
         /\ hidden => SlotBytes(0) = Word
  <1>1. ASSUME NEW i \in 1..Len(params)
        PROVE  SlotBytes(i - 1 + First) = Footprint(params[i])
    <2> DEFINE s == i - 1 + First
               c == CHOOSE j \in DOMAIN params : Slot(j) = s
    <2>1. i \in DOMAIN params /\ Slot(i) = s
      BY ParamIs
    <2>2. c \in DOMAIN params /\ Slot(c) = s
      BY <2>1, Zenon
    <2> HIDE DEF c
    <2>3. c = i
      BY <2>2, ParamIs
    <2>4. SlotBytes(s) = Footprint(params[c])
      BY <2>1, Zenon DEF SlotBytes, c
    <2>5. QED
      BY <2>3, <2>4
  <1>2. ASSUME NEW s \in Nat PROVE SlotBytes(s) \in Nat
    <2>1. CASE \E i \in DOMAIN params : Slot(i) = s
      <3>1. PICK i \in 1..Len(params) : Slot(i) = s
        BY <2>1, ParamIs
      <3>2. SlotBytes(s) = Footprint(params[i])
        BY <1>1, <3>1, ParamIs
      <3>3. QED
        BY <3>2, ParamIs, FootprintIsPushed
    <2>2. CASE ~\E i \in DOMAIN params : Slot(i) = s
      BY <2>2 DEF SlotBytes, Word
    <2>3. QED
      BY <2>1, <2>2
  <1>3. ASSUME hidden PROVE SlotBytes(0) = Word
    <2>1. ~\E i \in DOMAIN params : Slot(i) = 0
      BY <1>3, ParamIs
    <2>2. QED
      BY <2>1 DEF SlotBytes
  <1>4. QED
    BY <1>1, <1>2, <1>3

(* The walk is where the caller was, parameter by parameter.               *)
LEMMA WalkIsTrue ==
  ASSUME SignatureOK, Accepted, NEW i \in 1..Len(params)
  PROVE  /\ Offset(i) = TrueOffset(i)
         /\ \A j \in 1..Len(params) : j > i => Offset(i) + ReadWidth(params[i]) <= TrueOffset(j)
  <1> DEFINE slots == [s \in 1..MaxParams |-> SlotBytes(s - 1)]
             pushes == [j \in DOMAIN params |-> params[j].pushed]
             start == IF hidden THEN Word ELSE 0
             R == Running
             P == Pushed
             n == Len(params)
             S == {k \in Nat : k < n => R[k + First] = P[k]}
  <1>1. MaxParams \in Nat /\ MaxParams > 0
    BY LayoutAssumption
  <1>2. slots \in Seq(Nat) /\ Len(slots) = MaxParams
    <2>1. \A s \in 1..MaxParams : SlotBytes(s - 1) \in Nat
      <3>1. \A s \in Nat : SlotBytes(s) \in Nat
        BY SlotBytesAre, Zenon
      <3>2. \A s \in 1..MaxParams : s - 1 \in Nat
        BY ONLY <1>1
      <3>3. QED
        BY ONLY <3>1, <3>2, Zenon
    <2>2. QED
      BY ONLY <1>1, <2>1, SMTT(30)
  <1>3. /\ pushes \in Seq(Nat) /\ Len(pushes) = n /\ n \in Nat
        /\ \A k \in 1..n : pushes[k] = params[k].pushed
    <2>1. \A j \in 1..n : params[j].pushed \in Nat
      BY ParamIs
    <2>2. DOMAIN params = 1..n /\ n \in Nat
      BY ParamIs
    <2>3. QED
      BY <2>1, <2>2, SeqDef
  <1>4. start \in Nat
    BY DEF Word
  <1>5. /\ R[0] = 0
        /\ \A k \in 1..MaxParams : R[k] = R[k - 1] + SlotBytes(k - 1)
    <2> DEFINE t == Sums(0, slots)
    <2>1. Running = t
      BY DEF Running
    <2>2. \A k \in 1..MaxParams : slots[k] = SlotBytes(k - 1)
      OBVIOUS
    <2> HIDE DEF slots
    <2>3. t[0] = 0 /\ \A k \in 1..MaxParams : t[k] = t[k - 1] + slots[k]
      BY <1>2, SumsAre
    <2>4. QED
      BY <2>1, <2>2, <2>3
  <1>6. /\ P = Sums(start, pushes) /\ P[0] = start
        /\ \A k \in 1..n : P[k] = P[k - 1] + params[k].pushed
        /\ \A k \in 0..n : P[k] \in Nat
        /\ \A k \in 1..n : \A j \in 0..n : k <= j => P[k - 1] + params[k].pushed <= P[j]
    <2>1. P = Sums(start, pushes)
      BY DEF Pushed
    <2> HIDE DEF pushes, start, P
    <2>2. /\ P[0] = start
          /\ \A k \in 1..n : P[k] = P[k - 1] + pushes[k]
          /\ \A k \in 0..n : P[k] \in Nat
      BY <1>3, <1>4, <2>1, SumsAre
    <2>3. \A k \in 1..n : \A j \in 0..n : k <= j => P[k - 1] + pushes[k] <= P[j]
      BY <1>3, <1>4, <2>1, SumsGrow
    <2>4. QED
      BY <1>3, <2>1, <2>2, <2>3
  <1>7. /\ \A k \in 1..n : k - 1 + First < MaxParams /\ Footprint(params[k]) # 0
        /\ First \in {0, 1} /\ First = (IF hidden THEN 1 ELSE 0)
    BY ParamIs DEF Accepted
  <1>8. \A k \in 1..n : /\ SlotBytes(k - 1 + First) = params[k].pushed
                        /\ ReadWidth(params[k]) <= params[k].pushed
                        /\ params[k].pushed \in Nat
    BY <1>7, ParamIs, SlotBytesAre, FootprintIsPushed
  <1> HIDE DEF slots, pushes, R, P, n
  <1>9. 0 \in S
    <2>1. CASE hidden
      <3>1. SlotBytes(0) = Word
        BY <2>1, SlotBytesAre
      <3>2. R[1] = R[0] + SlotBytes(0)
        <4>1. 1 \in 1..MaxParams /\ 1 - 1 = 0
          BY <1>1
        <4>2. QED
          BY <1>5, <4>1
      <3>3. R[1] = Word
        BY <1>5, <3>1, <3>2 DEF Word
      <3>4. QED
        BY <1>6, <1>7, <2>1, <3>3
    <2>2. CASE ~hidden
      BY <1>5, <1>6, <1>7, <2>2
    <2>3. QED
      BY <2>1, <2>2
  <1>10. ASSUME NEW k \in Nat, k \in S PROVE k + 1 \in S
    <2>1. CASE k + 1 < n
      <3>1. k + 1 \in 1..n /\ (k + 1) - 1 + First = k + First /\ k < n /\ (k + 1) - 1 = k
            /\ k + 2 \in 1..n /\ (k + 2) - 1 + First = (k + 1) + First
        BY <1>3, <1>7, <2>1
      <3>2. R[k + First] = P[k]
        BY <1>10, <3>1
      <3>3. k + 1 + First \in 1..MaxParams /\ (k + 1 + First) - 1 = k + First
        BY <1>1, <1>7, <3>1
      <3>4. R[k + 1 + First] = R[k + First] + SlotBytes(k + First)
        BY <1>5, <3>3
      <3>5. SlotBytes(k + First) = params[k + 1].pushed
        BY <1>8, <3>1
      <3>6. P[k + 1] = P[k] + params[k + 1].pushed
        BY <1>6, <3>1
      <3>7. QED
        BY <3>2, <3>4, <3>5, <3>6
    <2>2. CASE ~(k + 1 < n)
      BY <2>2
    <2>3. QED
      BY <2>1, <2>2
  <1> HIDE DEF S
  <1>11. Nat \subseteq S
    BY <1>9, <1>10, SetInduction
  <1>12. i \in 1..n /\ i - 1 \in Nat /\ i - 1 < n
    BY <1>3 DEF n
  <1>13. R[i - 1 + First] = P[i - 1]
    BY <1>11, <1>12 DEF S
  <1>14. Offset(i) = R[i - 1 + First] /\ TrueOffset(i) = P[i - 1]
    BY ParamIs DEF Offset, TrueOffset, R, P
  <1>15. ASSUME NEW j \in 1..n, j > i
         PROVE  Offset(i) + ReadWidth(params[i]) <= TrueOffset(j)
    <2>1. j - 1 \in 0..n /\ i <= j - 1 /\ TrueOffset(j) = P[j - 1]
      BY <1>3, <1>12, <1>15 DEF TrueOffset, P
    <2>2. P[i - 1] + params[i].pushed <= P[j - 1]
      BY <1>6, <1>12, <2>1
    <2>3. P[i - 1] \in Nat /\ P[j - 1] \in Nat /\ params[i].pushed \in Nat
          /\ ReadWidth(params[i]) <= params[i].pushed /\ ReadWidth(params[i]) \in Nat
      <3>1. ReadWidth(params[i]) \in Nat
        BY DEF ReadWidth, Word
      <3>2. i - 1 \in 0..n
        BY <1>3, <1>12
      <3>3. QED
        BY <1>6, <1>8, <1>12, <2>1, <3>1, <3>2
    <2>4. QED
      BY <1>13, <1>14, <2>1, <2>2, <2>3
  <1>16. QED
    BY <1>13, <1>14, <1>15 DEF n

(* Whatever signature the index has, if the decoder uses it on x86, every  *)
(* argument is read from where its caller put it.                          *)
THEOREM LayoutIsTrue == Spec => []AcceptedLayoutsAreTrue
  <1>1. Init => SignatureOK
    BY EmptySeq DEF Init, SignatureOK
  <1>2. SignatureOK /\ [Next]_vars => SignatureOK'
    BY AppendProperties DEF SignatureOK, Next, AddParam, vars
  <1>3. SignatureOK => AcceptedLayoutsAreTrue
    <2> SUFFICES ASSUME SignatureOK, Accepted, NEW i \in DOMAIN params
                 PROVE  /\ Offset(i) = TrueOffset(i)
                        /\ \A j \in DOMAIN params : j > i =>
                             Offset(i) + ReadWidth(params[i]) <= Offset(j)
      BY DEF AcceptedLayoutsAreTrue
    <2>1. DOMAIN params = 1..Len(params)
      BY ParamIs
    <2>2. \A j \in 1..Len(params) : Offset(j) = TrueOffset(j)
      BY WalkIsTrue
    <2>3. \A j \in 1..Len(params) : j > i => Offset(i) + ReadWidth(params[i]) <= TrueOffset(j)
      BY <2>1, WalkIsTrue
    <2>4. QED
      BY <2>1, <2>2, <2>3
  <1>4. QED
    BY <1>1, <1>2, <1>3, PTL DEF Spec
=============================================================================
