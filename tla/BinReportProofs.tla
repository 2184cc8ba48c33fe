-------------------------- MODULE BinReportProofs --------------------------
(***************************************************************************)
(* That the offsets of the binary report lead back to what was recorded,   *)
(* and that both reports say the same, proved for every report.            *)
(***************************************************************************)
EXTENDS JsonReport, Induction

(* Where the parameters of a call start is what the reader's recursion     *)
(* says: a function that satisfies the equation is the one.                *)
Follows(s, i, n) ==
  s = [k \in 1..n |-> IF k = 1 THEN calls[i].param_off
                      ELSE s[k - 1] + Extent(params[s[k - 1] + 1].bits)]

LEMMA StartsAre ==
  ASSUME NEW i, NEW n \in Nat, DOMAIN report[i].params = 1..n, NEW s, Follows(s, i, n)
  PROVE  Starts(i) = s
  <1> DEFINE Eq(f) == f = [k \in DOMAIN report[i].params |->
                             IF k = 1 THEN calls[i].param_off
                             ELSE f[k - 1] + Extent(params[f[k - 1] + 1].bits)]
             t == CHOOSE f : Eq(f)
  <1>0. s = [k \in 1..n |-> IF k = 1 THEN calls[i].param_off
                            ELSE s[k - 1] + Extent(params[s[k - 1] + 1].bits)]
    BY DEF Follows
  <1>1. Starts(i) = t
    BY DEF Starts
  <1>2. Eq(s)
    BY <1>0
  <1>3. Eq(t)
    BY <1>2, Zenon
  <1> HIDE DEF t
  <1>4. \A k \in 1..n : t[k] = s[k]
    <2> DEFINE S == {k \in Nat : k + 1 \in 1..n => t[k + 1] = s[k + 1]}
    <2>1. 0 \in S
      BY <1>2, <1>3
    <2>2. ASSUME NEW k \in Nat, k \in S PROVE k + 1 \in S
      <3>1. CASE k + 2 \in 1..n
        <4>1. t[k + 1] = s[k + 1]
          BY <2>2, <3>1
        <4>2. t[k + 2] = t[k + 1] + Extent(params[t[k + 1] + 1].bits)
          <5>1. \A j \in 1..n : t[j] = IF j = 1 THEN calls[i].param_off
                                       ELSE t[j - 1] + Extent(params[t[j - 1] + 1].bits)
            BY <1>3
          <5>2. k + 2 # 1 /\ (k + 2) - 1 = k + 1
            OBVIOUS
          <5>3. QED
            BY <3>1, <5>1, <5>2
        <4>3. s[k + 2] = s[k + 1] + Extent(params[s[k + 1] + 1].bits)
          BY <1>0, <3>1
        <4>4. QED
          BY <4>1, <4>2, <4>3
      <3>2. CASE k + 2 \notin 1..n
        BY <3>2
      <3>3. QED
        BY <3>1, <3>2
    <2> HIDE DEF S
    <2>3. Nat \subseteq S
      BY <2>1, <2>2, SetInduction
    <2>4. ASSUME NEW k \in 1..n PROVE t[k] = s[k]
      <3>1. k - 1 \in S /\ (k - 1) + 1 = k
        BY <2>3
      <3>2. QED
        BY <3>1 DEF S
    <2>5. QED
      BY <2>4
  <1>5. t = s
    BY <1>0, <1>3, <1>4
  <1>6. QED
    BY <1>1, <1>5
----------------------------------------------------------------------------
(* Regions only grow, and what is at an offset stays there.                *)
Grows(s, t) == Len(s) <= Len(t) /\ \A j \in 1..Len(s) : t[j] = s[j]

Named(table, off, name) ==
  off \in Nat /\ off + 1 \in 1..Len(table) /\ table[off + 1] = name

Held(bytes, off, data) ==
  /\ off \in Nat /\ off + Len(data) <= Len(bytes)
  /\ \A j \in 1..Len(data) : bytes[off + j] = data[j]

LEMMA GrowsTrans ==
  ASSUME NEW s, NEW t, NEW u, Len(s) \in Nat, Len(t) \in Nat, Len(u) \in Nat,
         Grows(s, t), Grows(t, u)
  PROVE  Grows(s, u)
  BY DEF Grows

LEMMA GrowsSame ==
  ASSUME NEW s, Len(s) \in Nat
  PROVE  Grows(s, s)
  BY DEF Grows

LEMMA ConcatGrows ==
  ASSUME NEW S, NEW s \in Seq(S), NEW t \in Seq(S)
  PROVE  /\ s \o t \in Seq(S) /\ Len(s \o t) = Len(s) + Len(t)
         /\ Len(s) \in Nat /\ Len(t) \in Nat /\ Len(s \o t) \in Nat
         /\ Grows(s, s \o t)
         /\ \A j \in 1..Len(t) : (s \o t)[Len(s) + j] = t[j]
  <1>1. /\ Len(s) \in Nat /\ Len(t) \in Nat
        /\ s \o t \in Seq(S) /\ Len(s \o t) = Len(s) + Len(t)
        /\ \A i \in 1..(Len(s) + Len(t)) :
             (s \o t)[i] = IF i <= Len(s) THEN s[i] ELSE t[i - Len(s)]
    BY ConcatProperties, LenProperties
  <1>2. Grows(s, s \o t)
    BY <1>1 DEF Grows
  <1>3. ASSUME NEW j \in 1..Len(t) PROVE (s \o t)[Len(s) + j] = t[j]
    <2>1. Len(s) + j \in 1..(Len(s) + Len(t)) /\ ~(Len(s) + j <= Len(s))
          /\ (Len(s) + j) - Len(s) = j
      BY <1>1
    <2>2. QED
      BY <1>1, <2>1
  <1>4. QED
    BY <1>1, <1>2, <1>3

(* What has just been put at the end is held there.                        *)
LEMMA ConcatHolds ==
  ASSUME NEW S, NEW s \in Seq(S), NEW t \in Seq(S)
  PROVE  Held(s \o t, Len(s), t)
  BY ConcatGrows DEF Held

LEMMA NamedStays ==
  ASSUME NEW s, NEW t, NEW off, NEW name, Len(s) \in Nat, Len(t) \in Nat,
         Grows(s, t), Named(s, off, name)
  PROVE  Named(t, off, name)
  BY DEF Grows, Named

LEMMA HeldStays ==
  ASSUME NEW s, NEW t, NEW off, NEW data, Len(s) \in Nat, Len(t) \in Nat, Len(data) \in Nat,
         Grows(s, t), Held(s, off, data)
  PROVE  Held(t, off, data)
  BY DEF Grows, Held

(* Reading what is held at an offset.                                      *)
LEMMA HeldIsRead ==
  ASSUME NEW S, NEW bytes \in Seq(S), NEW data \in Seq(S), NEW off, Held(bytes, off, data)
  PROVE  SubSeq(bytes, off + 1, off + Len(data)) = data
  <1>1. Len(bytes) \in Nat /\ Len(data) \in Nat /\ off \in Nat
    BY LenProperties DEF Held
  <1> DEFINE r == SubSeq(bytes, off + 1, off + Len(data))
  <1>2. \A i \in (off + 1)..(off + Len(data)) : bytes[i] \in S
    BY <1>1, ElementOfSeq DEF Held
  <1>3. /\ r \in Seq(S)
        /\ Len(r) = IF off + 1 <= off + Len(data) THEN off + Len(data) - (off + 1) + 1 ELSE 0
        /\ \A i \in 1..(off + Len(data) - (off + 1) + 1) : r[i] = bytes[(off + 1) + i - 1]
    BY <1>1, <1>2, SubSeqProperties
  <1> HIDE DEF r
  <1>4. Len(r) = Len(data)
    BY <1>1, <1>3
  <1>5. ASSUME NEW i \in 1..Len(r) PROVE r[i] = data[i]
    <2>1. i \in 1..(off + Len(data) - (off + 1) + 1) /\ (off + 1) + i - 1 = off + i
          /\ i \in 1..Len(data)
      BY <1>1, <1>4
    <2>2. r[i] = bytes[off + i]
      BY <1>3, <2>1
    <2>3. QED
      BY <2>1, <2>2 DEF Held
  <1>6. r = data
    BY <1>3, <1>4, <1>5, SeqEqual
  <1>7. QED
    BY <1>6 DEF r

LEMMA Limits == OffsetLimit \in Nat /\ OffsetLimit # 0 /\ SearchLimit \in Nat
  <1>1. OffsetLimit \in Nat \ {0} /\ SearchLimit \in Nat
    BY ReportAssumption, Zenon
  <1>2. QED
    BY <1>1

LEMMA U32Type ==
  ASSUME NEW n \in Nat
  PROVE  /\ U32(n) \in Offsets
         /\ n < OffsetLimit => U32(n) = n
  <1>1. OffsetLimit \in Nat /\ OffsetLimit > 0
    BY Limits
  <1>2. QED
    BY <1>1 DEF U32, Offsets

(* StringTable::add: the table grows by the name, or has it already.       *)
LEMMA TableGrows ==
  ASSUME NEW table \in Seq(Names), NEW name \in Names
  PROVE  /\ Added(table, name) \in Seq(Names)
         /\ Len(table) \in Nat /\ Len(Added(table, name)) \in Nat
         /\ Grows(table, Added(table, name))
         /\ \E i \in 1..Len(Added(table, name)) : Added(table, name)[i] = name
  <1>1. Len(table) \in Nat
    BY LenProperties
  <1>2. CASE Contains(table, name)
    BY <1>1, <1>2, GrowsSame DEF Added, Contains
  <1>3. CASE ~Contains(table, name)
    <2>1. /\ Append(table, name) \in Seq(Names)
          /\ Len(Append(table, name)) = Len(table) + 1
          /\ \A i \in 1..Len(table) : Append(table, name)[i] = table[i]
          /\ Append(table, name)[Len(table) + 1] = name
      BY <1>1, AppendProperties
    <2>2. Added(table, name) = Append(table, name)
      BY <1>3 DEF Added
    <2>3. QED
      BY <1>1, <2>1, <2>2 DEF Grows
  <1>4. QED
    BY <1>2, <1>3

LEMMA NameIsFound ==
  ASSUME NEW table \in Seq(Names), NEW name, \E i \in 1..Len(table) : table[i] = name
  PROVE  /\ StringOffset(table, name) \in Offsets
         /\ Len(table) <= OffsetLimit => Named(table, StringOffset(table, name), name)
  <1> DEFINE T == {i \in DOMAIN table : table[i] = name}
             m == Min(T)
  <1>1. DOMAIN table = 1..Len(table) /\ Len(table) \in Nat
    BY LenProperties
  <1>2. T \subseteq Nat /\ T # {} /\ T \subseteq 1..Len(table)
    BY <1>1
  <1>3. m \in T
    <2> HIDE DEF T
    <2>1. QED
      BY <1>2, MinIsLeast
  <1>4. m \in 1..Len(table) /\ table[m] = name /\ StringOffset(table, name) = U32(m - 1)
    BY <1>2, <1>3 DEF StringOffset
  <1> HIDE DEF m, T
  <1>5. m - 1 \in Nat
    BY <1>1, <1>4
  <1>6. U32(m - 1) \in Offsets
    BY <1>5, U32Type
  <1>7. ASSUME Len(table) <= OffsetLimit PROVE Named(table, U32(m - 1), name)
    <2>1. m - 1 < OffsetLimit
      BY <1>1, <1>4, <1>7, Limits
    <2>2. U32(m - 1) = m - 1
      BY <1>5, <2>1, U32Type
    <2>3. QED
      BY <1>1, <1>4, <1>5, <2>2 DEF Named
  <1>8. QED
    BY <1>4, <1>6, <1>7
----------------------------------------------------------------------------
(* Four pieces, each of one element or none, one behind the other.         *)
LEMMA FourPieces ==
  ASSUME NEW S, NEW a \in Seq(S), NEW b \in Seq(S), NEW c \in Seq(S), NEW d \in Seq(S),
         NEW t, t = a \o b \o c \o d
  PROVE  /\ t \in Seq(S)
         /\ Len(t) = Len(a) + Len(b) + Len(c) + Len(d)
         /\ \A j \in 1..Len(a) : t[j] = a[j]
         /\ \A j \in 1..Len(b) : t[Len(a) + j] = b[j]
         /\ \A j \in 1..Len(c) : t[Len(a) + Len(b) + j] = c[j]
         /\ \A j \in 1..Len(d) : t[Len(a) + Len(b) + Len(c) + j] = d[j]
  <1> DEFINE u == a \o b
             v == u \o c
  <1>1. /\ u \in Seq(S) /\ Len(u) = Len(a) + Len(b) /\ Grows(a, u)
        /\ Len(a) \in Nat /\ Len(b) \in Nat /\ Len(u) \in Nat
        /\ \A j \in 1..Len(b) : u[Len(a) + j] = b[j]
    BY ConcatGrows
  <1> HIDE DEF u
  <1>2. /\ v \in Seq(S) /\ Len(v) = Len(u) + Len(c) /\ Grows(u, v) /\ Len(v) \in Nat
        /\ Len(c) \in Nat /\ \A j \in 1..Len(c) : v[Len(u) + j] = c[j]
    <2>1. u \in Seq(S)
      BY <1>1
    <2>2. QED
      BY <2>1, ConcatGrows
  <1>0. t = v \o d
    BY DEF u
  <1> HIDE DEF v
  <1>3. /\ t \in Seq(S) /\ Len(t) = Len(v) + Len(d) /\ Grows(v, t)
        /\ Len(d) \in Nat /\ \A j \in 1..Len(d) : t[Len(v) + j] = d[j]
    <2>1. v \in Seq(S)
      BY <1>2
    <2>2. QED
      BY <1>0, <2>1, ConcatGrows
  <1>4. \A j \in 1..Len(a) : t[j] = a[j]
    BY <1>1, <1>2, <1>3 DEF Grows
  <1>5. ASSUME NEW j \in 1..Len(b) PROVE t[Len(a) + j] = b[j]
    <2>1. u[Len(a) + j] = b[j] /\ Len(a) + j \in 1..Len(u) /\ Len(a) + j \in 1..Len(v)
      BY <1>1, <1>2
    <2>2. QED
      BY <1>2, <1>3, <2>1 DEF Grows
  <1>6. ASSUME NEW j \in 1..Len(c) PROVE t[Len(a) + Len(b) + j] = c[j]
    <2>1. v[Len(u) + j] = c[j] /\ Len(u) + j \in 1..Len(v)
      BY <1>1, <1>2
    <2>2. t[Len(u) + j] = v[Len(u) + j]
      BY <1>3, <2>1 DEF Grows
    <2>3. QED
      BY <1>1, <2>1, <2>2
  <1>7. ASSUME NEW j \in 1..Len(d) PROVE t[Len(a) + Len(b) + Len(c) + j] = d[j]
    BY <1>1, <1>2, <1>3, <1>7
  <1>8. Len(t) = Len(a) + Len(b) + Len(c) + Len(d)
    BY <1>1, <1>2, <1>3
  <1>9. QED
    BY <1>3, <1>4, <1>5, <1>6, <1>7, <1>8

LEMMA DataType ==
  ASSUME NEW p \in Param, NEW part \in PartNames
  PROVE  /\ Data(p, part) \in Text /\ Len(Data(p, part)) \in Nat
         /\ Ahead(p, part) \in Text /\ Len(Ahead(p, part)) \in Nat
         /\ PartValue(p, part) \in Nat
  <1>1. /\ p.str \in Text /\ p.bytes \in Text /\ p.flags \in Text
        /\ p.deref \in Nat /\ p.bytes_total \in Nat
    BY DEF Param
  <1>2. <<>> \in Text
    BY EmptySeq DEF Text
  <1>3. part = "deref" \/ part = "str" \/ part = "bytes" \/ part = "flags"
    BY DEF PartNames
  <1>4. \A q \in {"deref", "str", "bytes", "flags"} : Data(p, q) \in Text
    BY <1>1, <1>2 DEF Data
  <1>5. Data(p, part) \in Text
    BY <1>3, <1>4
  <1>6. Ahead(p, part) \in Text
    <2>1. Data(p, "str") \o Data(p, "bytes") \in Text
      BY <1>4, ConcatProperties DEF Text
    <2>2. QED
      BY <1>2, <1>3, <1>4, <2>1 DEF Ahead
  <1>7. Len(p.bytes) \in Nat
    BY <1>1, LenProperties DEF Text
  <1>8. PartValue(p, part) \in Nat
    BY <1>1, <1>3, <1>7 DEF PartValue
  <1>9. QED
    BY <1>5, <1>6, <1>8, LenProperties DEF Text

(* The bits of a parameter record that announce a part, and the others.    *)
LEMMA BitIs ==
  ASSUME NEW p \in Param, NEW part \in PartNames
  PROVE  /\ part \in Bits(p) <=> Has(p, part)
         /\ part \in Optionals(p) <=> Has(p, part)
  <1>1. part \in Optionals(p) <=> Has(p, part)
    BY DEF Optionals
  <1>2. part \notin {"out", "at_return"}
    BY DEF PartNames
  <1>3. part \in Bits(p) <=> part \in Optionals(p)
    BY <1>2 DEF Bits
  <1>4. QED
    BY <1>1, <1>3

LEMMA MarksAre ==
  ASSUME NEW p \in Param
  PROVE  /\ Bits(p) \in SUBSET (Marks \cup PartNames)
         /\ "out" \in Bits(p) <=> p.is_out
         /\ "at_return" \in Bits(p) <=> p.from_return
  <1>1. Optionals(p) \subseteq PartNames
    BY DEF Optionals
  <1>2. "out" \notin Optionals(p) /\ "at_return" \notin Optionals(p)
        /\ "out" # "at_return"
    BY DEF PartNames, Optionals
  <1>3. Bits(p) \in SUBSET (Marks \cup PartNames)
    BY <1>1 DEF Bits, Marks
  <1>4. "out" \in Bits(p) <=> p.is_out
    BY <1>2 DEF Bits
  <1>5. "at_return" \in Bits(p) <=> p.from_return
    BY <1>2 DEF Bits
  <1>6. QED
    BY <1>3, <1>4, <1>5

(* The parts of a parameter: as many as it has, each at its place.         *)
LEMMA PartsAreThere ==
  ASSUME NEW p \in Param, NEW at \in Nat
  PROVE  /\ Parts(p, at) \in Seq(Unit)
         /\ Len(Parts(p, at)) + 1 = Extent(Bits(p))
         /\ \A part \in Optionals(p) :
              /\ Place(Bits(p), part) \in 1..Len(Parts(p, at))
              /\ Parts(p, at)[Place(Bits(p), part)] = OptionalPart(p, part, at)
  <1>1. ASSUME NEW part \in PartNames
        PROVE  /\ OptionalPart(p, part, at) \in Unit
               /\ Optional(p, part, at) \in Seq(Unit)
               /\ Len(Optional(p, part, at)) = One(Bits(p), part)
               /\ part \in Optionals(p) => Optional(p, part, at)[1] = OptionalPart(p, part, at)
    <2>1. /\ Len(Data(p, part)) \in Nat /\ Len(Ahead(p, part)) \in Nat
          /\ PartValue(p, part) \in Nat
      BY DataType
    <2>2. U32(at + Len(Ahead(p, part))) \in Offsets /\ 0 \in Offsets
      <3>1. at + Len(Ahead(p, part)) \in Nat
        BY <2>1
      <3>2. QED
        BY <3>1, U32Type, Limits DEF Offsets
    <2>0. "Unknown" \in Kinds
      BY ReportAssumption, Zenon
    <2>3. OptionalPart(p, part, at) \in Unit
      BY <2>0, <2>1, <2>2 DEF OptionalPart, Unit
    <2>4. /\ part \in Bits(p) <=> Has(p, part)
          /\ part \in Optionals(p) <=> Has(p, part)
      BY BitIs
    <2>5. CASE Has(p, part)
      <3> DEFINE r == OptionalPart(p, part, at)
      <3>1. Optional(p, part, at) = <<r>> /\ One(Bits(p), part) = 1
        BY <2>4, <2>5 DEF Optional, One
      <3> HIDE DEF r
      <3>2. \A x \in Unit : <<x>> \in Seq(Unit) /\ Len(<<x>>) = 1 /\ <<x>>[1] = x
        OBVIOUS
      <3>3. r \in Unit
        BY <2>3 DEF r
      <3>4. QED
        BY <2>3, <3>1, <3>2, <3>3 DEF r
    <2>6. CASE ~Has(p, part)
      <3>1. Optional(p, part, at) = <<>> /\ One(Bits(p), part) = 0
        BY <2>4, <2>6 DEF Optional, One
      <3>2. <<>> \in Seq(Unit) /\ Len(<<>>) = 0
        BY EmptySeq
      <3>3. QED
        BY <2>3, <2>4, <2>6, <3>1, <3>2
    <2>7. QED
      BY <2>5, <2>6
  <1>2. "deref" \in PartNames /\ "str" \in PartNames /\ "bytes" \in PartNames
        /\ "flags" \in PartNames
    BY DEF PartNames
  <1> DEFINE a == Optional(p, "deref", at)
             b == Optional(p, "str", at)
             c == Optional(p, "bytes", at)
             d == Optional(p, "flags", at)
             t == Parts(p, at)
  <1>3. t = a \o b \o c \o d
    BY DEF Parts
  <1>4. /\ a \in Seq(Unit) /\ b \in Seq(Unit) /\ c \in Seq(Unit) /\ d \in Seq(Unit)
        /\ Len(a) = One(Bits(p), "deref") /\ Len(b) = One(Bits(p), "str")
        /\ Len(c) = One(Bits(p), "bytes") /\ Len(d) = One(Bits(p), "flags")
        /\ "deref" \in Optionals(p) => a[1] = OptionalPart(p, "deref", at)
        /\ "str" \in Optionals(p) => b[1] = OptionalPart(p, "str", at)
        /\ "bytes" \in Optionals(p) => c[1] = OptionalPart(p, "bytes", at)
        /\ "flags" \in Optionals(p) => d[1] = OptionalPart(p, "flags", at)
    BY <1>1, <1>2
  <1> HIDE DEF a, b, c, d, t
  <1>5. /\ t \in Seq(Unit)
        /\ Len(t) = Len(a) + Len(b) + Len(c) + Len(d)
        /\ \A j \in 1..Len(a) : t[j] = a[j]
        /\ \A j \in 1..Len(b) : t[Len(a) + j] = b[j]
        /\ \A j \in 1..Len(c) : t[Len(a) + Len(b) + j] = c[j]
        /\ \A j \in 1..Len(d) : t[Len(a) + Len(b) + Len(c) + j] = d[j]
    <2>1. /\ a \in Seq(Unit) /\ b \in Seq(Unit) /\ c \in Seq(Unit) /\ d \in Seq(Unit)
          /\ t = a \o b \o c \o d
      BY <1>3, <1>4
    <2>2. QED
      BY ONLY <2>1, FourPieces, SMTT(60)
  <1>6. /\ \A part \in PartNames : One(Bits(p), part) \in {0, 1}
        /\ \A part \in Optionals(p) : One(Bits(p), part) = 1
    <2>1. \A part \in Optionals(p) : part \in Bits(p)
      BY DEF Bits
    <2>2. QED
      BY <2>1 DEF One
  <1>7. ASSUME NEW part \in Optionals(p)
        PROVE  /\ Place(Bits(p), part) \in 1..Len(t)
               /\ t[Place(Bits(p), part)] = OptionalPart(p, part, at)
    <2>1. CASE part = "deref"
      BY <1>2, <1>4, <1>5, <1>6, <2>1 DEF Place
    <2>2. CASE part = "str"
      BY <1>2, <1>4, <1>5, <1>6, <2>2 DEF Place
    <2>0. Len(a) \in {0, 1} /\ Len(b) \in {0, 1} /\ Len(c) \in {0, 1} /\ Len(d) \in {0, 1}
      BY <1>2, <1>4, <1>6
    <2>3. CASE part = "bytes"
      <3>1. Place(Bits(p), part) = Len(a) + Len(b) + 1
        BY <1>4, <2>0, <2>3 DEF Place
      <3>2. Len(c) = 1 /\ c[1] = OptionalPart(p, part, at)
        BY <1>4, <1>6, <2>3
      <3>3. t[Len(a) + Len(b) + 1] = c[1] /\ Len(a) + Len(b) + 1 \in 1..Len(t)
        BY ONLY <1>5, <2>0, <3>2
      <3>4. QED
        BY ONLY <3>1, <3>2, <3>3
    <2>4. CASE part = "flags"
      <3>1. Place(Bits(p), part) = Len(a) + Len(b) + Len(c) + 1
        BY <1>4, <2>0, <2>4 DEF Place
      <3>2. Len(d) = 1 /\ d[1] = OptionalPart(p, part, at)
        BY <1>4, <1>6, <2>4
      <3>3. t[Len(a) + Len(b) + Len(c) + 1] = d[1]
            /\ Len(a) + Len(b) + Len(c) + 1 \in 1..Len(t)
        BY ONLY <1>5, <2>0, <3>2
      <3>4. QED
        BY ONLY <3>1, <3>2, <3>3
    <2>5. QED
      BY <2>1, <2>2, <2>3, <2>4 DEF Optionals, PartNames
  <1>8. Len(t) + 1 = Extent(Bits(p))
    BY <1>2, <1>4, <1>5, <1>6 DEF Extent
  <1>9. QED
    BY <1>5, <1>7, <1>8 DEF t
----------------------------------------------------------------------------
(* The units at start say what p is: S, P and B stand for the strings, the *)
(* parameters and the blob.                                                *)
PartWritten(P, B, start, p, part) ==
  LET unit == P[start + 1 + Place(Bits(p), part)] IN
  /\ unit.part = part /\ unit.value = PartValue(p, part) /\ unit.len = Len(Data(p, part))
  /\ part # "deref" => Held(B, unit.off, Data(p, part))

Written(S, P, B, start, p) ==
  /\ start \in Nat /\ start + Extent(Bits(p)) <= Len(P)
  /\ P[start + 1].part = "fixed" /\ P[start + 1].bits = Bits(p) /\ P[start + 1].value = p.raw
  /\ P[start + 1].kind = p.kind
  /\ Named(S, P[start + 1].name, p.name) /\ Named(S, P[start + 1].type, p.type)
  /\ \A part \in Optionals(p) : PartWritten(P, B, start, p, part)

(* The first n parameters of a call start at s, one behind the other.      *)
Chain(s, n, ps, first) ==
  /\ s \in [1..n -> Nat]
  /\ \A k \in 1..n : s[k] = IF k = 1 THEN first ELSE s[k - 1] + Extent(Bits(ps[k - 1]))

Listed(S, P, B, s, n, ps, first) ==
  Chain(s, n, ps, first) /\ \A k \in 1..n : Written(S, P, B, s[k], ps[k])

(* What of a call record is there before its names are.                    *)
Begun(B, c, r) ==
  /\ c.ret = (IF r.has_ret THEN r.ret ELSE 0)
  /\ c.decoded = r.metadata /\ c.count = Len(r.params)
  /\ c.search_len <= Len(r.haystack)
  /\ c.search_off \in Nat /\ c.search_off + c.search_len <= Len(B)
  /\ \A j \in 1..c.search_len : B[c.search_off + j] = r.haystack[j]

(* What of a call record has nothing to refer to.                          *)
Stamped(c, r) ==
  /\ c.tid = U32(r.tid) /\ c.sequence = U32(r.position.sequence)
  /\ c.steps = U32(r.position.steps) /\ c.return_address = r.return_address

CallWritten(S, P, B, c, r) ==
  /\ Named(S, c.module, r.module) /\ Named(S, c.api, r.api)
  /\ Stamped(c, r)
  /\ Begun(B, c, r)
  /\ \E s : Listed(S, P, B, s, Len(r.params), r.params, c.param_off)

LEMMA ExtentBounds ==
  ASSUME NEW bits
  PROVE  /\ Extent(bits) \in 1..5
         /\ \A part \in PartNames : part \in bits =>
              Place(bits, part) \in 1..4 /\ Place(bits, part) < Extent(bits)
  <1>1. \A part \in PartNames : One(bits, part) \in {0, 1}
    BY DEF One
  <1>2. "deref" \in PartNames /\ "str" \in PartNames /\ "bytes" \in PartNames
        /\ "flags" \in PartNames
    BY DEF PartNames
  <1>3. Extent(bits) \in 1..5
    BY <1>1, <1>2 DEF Extent
  <1>4. ASSUME NEW part \in PartNames, part \in bits
        PROVE  Place(bits, part) \in 1..4 /\ Place(bits, part) < Extent(bits)
    <2>1. One(bits, part) = 1
      BY <1>4 DEF One
    <2>2. CASE part = "deref"
      BY <1>1, <1>2, <2>1, <2>2 DEF Place, Extent
    <2>3. CASE part = "str"
      BY <1>1, <1>2, <2>1, <2>3 DEF Place, Extent
    <2>4. CASE part = "bytes"
      BY <1>1, <1>2, <2>1, <2>4 DEF Place, Extent
    <2>5. CASE part = "flags"
      BY <1>1, <1>2, <2>1, <2>5 DEF Place, Extent
    <2>6. QED
      BY <2>2, <2>3, <2>4, <2>5 DEF PartNames
  <1>5. QED
    BY <1>3, <1>4

Later(S, P, B, S2, P2, B2) ==
  /\ Len(S) \in Nat /\ Len(P) \in Nat /\ Len(B) \in Nat
  /\ Len(S2) \in Nat /\ Len(P2) \in Nat /\ Len(B2) \in Nat
  /\ Grows(S, S2) /\ Grows(P, P2) /\ Grows(B, B2)

LEMMA WrittenStays ==
  ASSUME NEW S, NEW P, NEW B, NEW S2, NEW P2, NEW B2, Later(S, P, B, S2, P2, B2),
         NEW p \in Param, NEW start, Written(S, P, B, start, p)
  PROVE  Written(S2, P2, B2, start, p)
  <1>0. /\ Len(S) \in Nat /\ Len(P) \in Nat /\ Len(B) \in Nat
        /\ Len(S2) \in Nat /\ Len(P2) \in Nat /\ Len(B2) \in Nat
        /\ Grows(S, S2) /\ Grows(P, P2) /\ Grows(B, B2)
    BY DEF Later
  <1>1. start \in Nat /\ start + Extent(Bits(p)) <= Len(P) /\ Extent(Bits(p)) \in 1..5
    BY <1>0, ExtentBounds DEF Written
  <1>2. start + Extent(Bits(p)) <= Len(P2) /\ P2[start + 1] = P[start + 1]
    BY <1>0, <1>1 DEF Grows
  <1>3. ASSUME NEW part \in Optionals(p) PROVE PartWritten(P2, B2, start, p, part)
    <2>1. part \in PartNames
      BY DEF Optionals
    <2>2. Place(Bits(p), part) \in 1..4 /\ Place(Bits(p), part) < Extent(Bits(p))
      <3>1. part \in Bits(p)
        BY DEF Bits
      <3>2. QED
        BY <2>1, <3>1, ExtentBounds
    <2>3. start + 1 + Place(Bits(p), part) \in 1..Len(P)
      BY <1>1, <2>2
    <2>4. P2[start + 1 + Place(Bits(p), part)] = P[start + 1 + Place(Bits(p), part)]
      BY <1>0, <2>3 DEF Grows
    <2>5. PartWritten(P, B, start, p, part)
      BY DEF Written
    <2>6. Len(Data(p, part)) \in Nat
      BY <2>1, DataType
    <2>7. QED
      BY <1>0, <2>4, <2>5, <2>6, HeldStays DEF PartWritten
  <1>4. Named(S2, P2[start + 1].name, p.name) /\ Named(S2, P2[start + 1].type, p.type)
    BY <1>0, <1>2, NamedStays DEF Written
  <1>5. QED
    BY <1>1, <1>2, <1>3, <1>4 DEF Written

LEMMA BegunStays ==
  ASSUME NEW B, NEW B2, Len(B) \in Nat, Len(B2) \in Nat, Grows(B, B2),
         NEW r, NEW c \in BinCall, Begun(B, c, r)
  PROVE  Begun(B2, c, r)
  <1>1. c.search_len \in Nat
    BY Limits DEF BinCall
  <1>2. /\ c.search_off \in Nat /\ c.search_off + c.search_len <= Len(B)
        /\ \A j \in 1..c.search_len : B[c.search_off + j] = r.haystack[j]
    BY DEF Begun
  <1>3. c.search_off + c.search_len <= Len(B2)
    BY <1>1, <1>2 DEF Grows
  <1>4. ASSUME NEW j \in 1..c.search_len PROVE B2[c.search_off + j] = r.haystack[j]
    <2>1. c.search_off + j \in 1..Len(B)
      BY <1>1, <1>2
    <2>2. B2[c.search_off + j] = B[c.search_off + j]
      BY <2>1 DEF Grows
    <2>3. QED
      BY <1>2, <2>2
  <1>5. QED
    BY <1>3, <1>4 DEF Begun

LEMMA ListedStays ==
  ASSUME NEW S, NEW P, NEW B, NEW S2, NEW P2, NEW B2, Later(S, P, B, S2, P2, B2),
         NEW ps \in Seq(Param), NEW n \in 0..Len(ps), NEW s, NEW first,
         Listed(S, P, B, s, n, ps, first)
  PROVE  Listed(S2, P2, B2, s, n, ps, first)
  <1>1. ASSUME NEW k \in 1..n PROVE Written(S2, P2, B2, s[k], ps[k])
    <2>1. ps[k] \in Param
      BY LenProperties, ElementOfSeq
    <2>2. Written(S, P, B, s[k], ps[k])
      BY DEF Listed
    <2>3. QED
      BY <2>1, <2>2, WrittenStays
  <1>2. QED
    BY <1>1 DEF Listed

LEMMA CallWrittenStays ==
  ASSUME NEW S, NEW P, NEW B, NEW S2, NEW P2, NEW B2, Later(S, P, B, S2, P2, B2),
         NEW r \in CallRecord, NEW c \in BinCall, CallWritten(S, P, B, c, r)
  PROVE  CallWritten(S2, P2, B2, c, r)
  <1>1. r.params \in Seq(Param) /\ Len(r.params) \in 0..Len(r.params)
    <2>1. r.params \in Seq(Param)
      BY DEF CallRecord
    <2>2. Len(r.params) \in Nat
      BY <2>1, LenProperties
    <2>3. QED
      BY <2>1, <2>2
  <1>2. PICK s : Listed(S, P, B, s, Len(r.params), r.params, c.param_off)
    BY DEF CallWritten
  <1>3. Listed(S2, P2, B2, s, Len(r.params), r.params, c.param_off)
    BY <1>1, <1>2, ListedStays
  <1>4. Named(S2, c.module, r.module) /\ Named(S2, c.api, r.api)
    BY NamedStays DEF CallWritten, Later
  <1>5. Begun(B2, c, r)
    BY BegunStays DEF CallWritten, Later
  <1>6. Stamped(c, r)
    BY DEF CallWritten
  <1>7. QED
    BY <1>3, <1>4, <1>5, <1>6 DEF CallWritten
----------------------------------------------------------------------------
(* Writing a parameter.                                                    *)
LEMMA DataLies ==
  ASSUME NEW p \in Param, NEW B \in Text, NEW B2,
         B2 = B \o Data(p, "str") \o Data(p, "bytes") \o Data(p, "flags")
  PROVE  /\ B2 \in Text /\ Len(B2) \in Nat /\ Len(B) \in Nat /\ Grows(B, B2)
         /\ \A part \in PartNames \ {"deref"} :
              Held(B2, Len(B) + Len(Ahead(p, part)), Data(p, part))
  <1> DEFINE b == Data(p, "str")
             c == Data(p, "bytes")
             d == Data(p, "flags")
  <1>1. "str" \in PartNames /\ "bytes" \in PartNames /\ "flags" \in PartNames
    BY DEF PartNames
  <1>2. b \in Text /\ c \in Text /\ d \in Text
    BY <1>1, DataType
  <1>3. /\ Len(Ahead(p, "str")) = 0 /\ Len(Ahead(p, "bytes")) = Len(b)
        /\ Len(Ahead(p, "flags")) = Len(b) + Len(c)
    <2>1. Ahead(p, "str") = <<>> /\ Ahead(p, "bytes") = b /\ Ahead(p, "flags") = b \o c
      BY DEF Ahead
    <2>2. Len(b \o c) = Len(b) + Len(c)
      <3> HIDE DEF b, c
      <3>1. QED
        BY <1>2, ConcatProperties DEF Text
    <2>3. Len(<<>>) = 0
      BY EmptySeq
    <2>4. QED
      BY <2>1, <2>2, <2>3
  <1>4. B2 = B \o b \o c \o d
    OBVIOUS
  <1>5. Held(B2, Len(B), b) <=> Held(B2, Len(B) + 0, b)
    <2>1. Len(B) \in Nat
      BY LenProperties DEF Text
    <2>2. Len(B) + 0 = Len(B)
      BY <2>1
    <2>3. QED
      BY <2>2
  <1> HIDE DEF b, c, d
  <1>6. B \in Seq(Symbols) /\ b \in Seq(Symbols) /\ c \in Seq(Symbols) /\ d \in Seq(Symbols)
    BY <1>2 DEF Text
  <1>7. /\ B2 \in Seq(Symbols)
        /\ Len(B2) = Len(B) + Len(b) + Len(c) + Len(d)
        /\ \A j \in 1..Len(B) : B2[j] = B[j]
        /\ \A j \in 1..Len(b) : B2[Len(B) + j] = b[j]
        /\ \A j \in 1..Len(c) : B2[Len(B) + Len(b) + j] = c[j]
        /\ \A j \in 1..Len(d) : B2[Len(B) + Len(b) + Len(c) + j] = d[j]
    BY ONLY <1>4, <1>6, FourPieces, SMTT(60)
  <1>8. Len(B) \in Nat /\ Len(b) \in Nat /\ Len(c) \in Nat /\ Len(d) \in Nat
    BY <1>6, LenProperties
  <1>9. Grows(B, B2)
    BY <1>7, <1>8 DEF Grows
  <1>10. Held(B2, Len(B), b)
    BY <1>7, <1>8 DEF Held
  <1>11. Held(B2, Len(B) + Len(b), c)
    BY <1>7, <1>8 DEF Held
  <1>12. Held(B2, Len(B) + (Len(b) + Len(c)), d)
    <2>1. Len(B) + (Len(b) + Len(c)) = Len(B) + Len(b) + Len(c)
      BY <1>8
    <2>2. Held(B2, Len(B) + Len(b) + Len(c), d)
      BY <1>7, <1>8 DEF Held
    <2>3. QED
      BY <2>1, <2>2
  <1>13. ASSUME NEW part \in PartNames \ {"deref"}
         PROVE  Held(B2, Len(B) + Len(Ahead(p, part)), Data(p, part))
    <2>1. CASE part = "str"
      BY <1>3, <1>5, <1>10, <2>1 DEF b
    <2>2. CASE part = "bytes"
      BY <1>3, <1>11, <2>2 DEF c
    <2>3. CASE part = "flags"
      BY <1>3, <1>12, <2>3 DEF d
    <2>4. QED
      BY <2>1, <2>2, <2>3 DEF PartNames
  <1>14. B2 \in Text /\ Len(B2) \in Nat
    BY <1>7, <1>8 DEF Text
  <1>15. QED
    BY <1>8, <1>9, <1>13, <1>14

LEMMA HasData ==
  ASSUME NEW p \in Param, NEW part \in Optionals(p), part # "deref"
  PROVE  Data(p, part) # <<>> /\ Len(Data(p, part)) > 0
  <1>1. part \in PartNames /\ Has(p, part)
    BY DEF Optionals
  <1>2. Data(p, part) # <<>>
    BY <1>1 DEF Data, Has, PartNames
  <1>3. Data(p, part) \in Seq(Symbols)
    BY <1>1, DataType DEF Text
  <1> DEFINE t == Data(p, part)
  <1> HIDE DEF t
  <1>4. t \in Seq(Symbols) /\ t # <<>> => Len(t) > 0
    BY EmptySeq, LenProperties
  <1>5. QED
    BY <1>2, <1>3, <1>4 DEF t

Appended(S, P, B, p, S2, P2, B2) ==
  /\ S2 = Added(Added(S, p.name), p.type)
  /\ P2 = Append(P, FixedPart(p, S2)) \o Parts(p, Len(B))
  /\ B2 = B \o Data(p, "str") \o Data(p, "bytes") \o Data(p, "flags")

LEMMA ParamIsWritten ==
  ASSUME NEW S \in Seq(Names), NEW P \in Seq(Unit), NEW B \in Text, NEW p \in Param,
         NEW S2, NEW P2, NEW B2, Appended(S, P, B, p, S2, P2, B2)
  PROVE  /\ S2 \in Seq(Names) /\ P2 \in Seq(Unit) /\ B2 \in Text
         /\ Len(S) \in Nat /\ Len(P) \in Nat /\ Len(B) \in Nat
         /\ Len(S2) \in Nat /\ Len(P2) \in Nat /\ Len(B2) \in Nat
         /\ Grows(S, S2) /\ Grows(P, P2) /\ Grows(B, B2)
         /\ Len(P2) = Len(P) + Extent(Bits(p))
         /\ Len(S2) <= OffsetLimit /\ Len(B2) <= OffsetLimit =>
              Written(S2, P2, B2, Len(P), p)
  <1> DEFINE S1 == Added(S, p.name)
             F == FixedPart(p, S2)
             Q == Parts(p, Len(B))
             P1 == Append(P, F)
  <1>0. /\ S2 = Added(S1, p.type) /\ P2 = P1 \o Q
        /\ B2 = B \o Data(p, "str") \o Data(p, "bytes") \o Data(p, "flags")
    BY DEF Appended
  <1>1. p.name \in Names /\ p.type \in Names /\ p.raw \in Nat /\ p.kind \in Kinds
    BY DEF Param
  <1>2. /\ S1 \in Seq(Names) /\ Len(S) \in Nat /\ Len(S1) \in Nat /\ Grows(S, S1)
        /\ \E i \in 1..Len(S1) : S1[i] = p.name
    BY <1>1, TableGrows
  <1>3. /\ S2 \in Seq(Names) /\ Len(S2) \in Nat /\ Grows(S1, S2)
        /\ \E i \in 1..Len(S2) : S2[i] = p.type
    <2> HIDE DEF S1
    <2>1. S2 = Added(S1, p.type)
      BY <1>0
    <2>2. S1 \in Seq(Names) /\ p.type \in Names
      BY <1>1, <1>2
    <2>3. QED
      BY ONLY <2>1, <2>2, TableGrows, Zenon
  <1>4. \E i \in 1..Len(S2) : S2[i] = p.name
    BY <1>2, <1>3 DEF Grows
  <1>5. Grows(S, S2)
    BY <1>2, <1>3, GrowsTrans
  <1> HIDE DEF S1
  <1>6. /\ StringOffset(S2, p.name) \in Offsets /\ StringOffset(S2, p.type) \in Offsets
        /\ Len(S2) <= OffsetLimit =>
             /\ Named(S2, StringOffset(S2, p.name), p.name)
             /\ Named(S2, StringOffset(S2, p.type), p.type)
    BY <1>3, <1>4, NameIsFound
  <1>7. /\ B2 \in Text /\ Len(B2) \in Nat /\ Len(B) \in Nat /\ Grows(B, B2)
        /\ \A part \in PartNames \ {"deref"} :
             Held(B2, Len(B) + Len(Ahead(p, part)), Data(p, part))
    BY <1>0, DataLies
  <1>8. F \in Unit
    <2>1. Bits(p) \in SUBSET (Marks \cup PartNames) /\ 0 \in Offsets
      BY MarksAre, Limits DEF Offsets
    <2>2. QED
      BY <1>1, <1>6, <2>1 DEF FixedPart, Unit
  <1>9. /\ Q \in Seq(Unit) /\ Len(Q) + 1 = Extent(Bits(p))
        /\ \A part \in Optionals(p) :
             /\ Place(Bits(p), part) \in 1..Len(Q)
             /\ Q[Place(Bits(p), part)] = OptionalPart(p, part, Len(B))
    BY <1>7, PartsAreThere
  <1>10. F.part = "fixed" /\ F.kind = p.kind /\ F.bits = Bits(p) /\ F.value = p.raw
         /\ F.name = StringOffset(S2, p.name) /\ F.type = StringOffset(S2, p.type)
    BY DEF FixedPart
  <1>11. P2 = P1 \o Q
    BY <1>0
  <1> HIDE DEF F, Q
  <1>12. /\ P1 \in Seq(Unit) /\ Len(P1) = Len(P) + 1 /\ Len(P) \in Nat
         /\ \A j \in 1..Len(P) : P1[j] = P[j]
         /\ P1[Len(P) + 1] = F
    BY <1>8, AppendProperties, LenProperties
  <1> HIDE DEF P1
  <1>13. /\ P2 \in Seq(Unit) /\ Len(P2) = Len(P1) + Len(Q)
         /\ Len(Q) \in Nat /\ Len(P2) \in Nat /\ Grows(P1, P2)
         /\ \A j \in 1..Len(Q) : P2[Len(P1) + j] = Q[j]
    <2>1. Q \in Seq(Unit) /\ P1 \in Seq(Unit)
      BY <1>9, <1>12
    <2>2. QED
      BY ONLY <1>11, <2>1, ConcatGrows
  <1>14. Grows(P, P2)
    BY <1>12, <1>13 DEF Grows
  <1>15. Len(P2) = Len(P) + Extent(Bits(p)) /\ Extent(Bits(p)) \in 1..5
    BY <1>9, <1>12, <1>13, ExtentBounds
  <1>16. P2[Len(P) + 1] = F
    BY <1>12, <1>13 DEF Grows
  <1>17. ASSUME Len(S2) <= OffsetLimit, Len(B2) <= OffsetLimit
         PROVE  Written(S2, P2, B2, Len(P), p)
    <2>1. ASSUME NEW part \in Optionals(p) PROVE PartWritten(P2, B2, Len(P), p, part)
      <3> DEFINE u == OptionalPart(p, part, Len(B))
      <3>1. part \in PartNames
        BY DEF Optionals
      <3>2. P2[Len(P) + 1 + Place(Bits(p), part)] = u
        <4>1. Place(Bits(p), part) \in 1..Len(Q) /\ Q[Place(Bits(p), part)] = u
          BY <1>9
        <4>2. P2[Len(P1) + Place(Bits(p), part)] = u
          BY <1>13, <4>1
        <4>3. QED
          BY <1>12, <4>2
      <3>3. u.part = part /\ u.value = PartValue(p, part) /\ u.len = Len(Data(p, part))
        BY DEF OptionalPart
      <3>4. ASSUME part # "deref" PROVE Held(B2, u.off, Data(p, part))
        <4>1. Held(B2, Len(B) + Len(Ahead(p, part)), Data(p, part))
          BY <1>7, <3>1, <3>4
        <4>2. Len(Data(p, part)) > 0 /\ Len(Data(p, part)) \in Nat /\ Len(Ahead(p, part)) \in Nat
          BY <3>1, <3>4, HasData, DataType
        <4>3. Len(B) + Len(Ahead(p, part)) \in Nat
              /\ Len(B) + Len(Ahead(p, part)) < OffsetLimit
          BY <1>7, <1>17, <4>1, <4>2, Limits DEF Held
        <4>4. U32(Len(B) + Len(Ahead(p, part))) = Len(B) + Len(Ahead(p, part))
          BY <4>3, U32Type
        <4>5. u.off = U32(Len(B) + Len(Ahead(p, part)))
          BY <3>4 DEF OptionalPart
        <4>6. QED
          BY <4>1, <4>4, <4>5
      <3> HIDE DEF u
      <3>5. QED
        BY <3>2, <3>3, <3>4 DEF PartWritten
    <2>2. Named(S2, F.name, p.name) /\ Named(S2, F.type, p.type)
      BY <1>6, <1>10, <1>17
    <2>3. QED
      BY <1>10, <1>12, <1>15, <1>16, <2>1, <2>2 DEF Written
  <1>18. QED
    BY <1>2, <1>3, <1>5, <1>7, <1>12, <1>13, <1>14, <1>15, <1>17
----------------------------------------------------------------------------
(* Starting a call, and finishing it.                                      *)
Started(r, B, n) ==
  [Empty EXCEPT !.ret = IF r.has_ret THEN r.ret ELSE 0,
                !.search_off = U32(Len(B)),
                !.search_len = Min({Len(r.haystack), SearchLimit}),
                !.decoded = r.metadata,
                !.count = Len(r.params),
                !.param_off = U32(n)]

LEMMA CallIsBegun ==
  ASSUME NEW r \in CallRecord, NEW B \in Text, NEW n \in Nat, NEW B2, B2 = B \o r.haystack,
         NEW c, c = Started(r, B, n)
  PROVE  /\ c \in BinCall /\ c.param_off = U32(n)
         /\ B2 \in Text /\ Len(B) \in Nat /\ Len(B2) \in Nat /\ Grows(B, B2)
         /\ Len(B2) <= OffsetLimit => Begun(B2, c, r)
  <1> DEFINE ret == IF r.has_ret THEN r.ret ELSE 0
             low == Min({Len(r.haystack), SearchLimit})
  <1>1. /\ r.haystack \in Text /\ Len(r.haystack) \in Nat
        /\ r.params \in Seq(Param) /\ Len(r.params) \in Nat
        /\ r.metadata \in BOOLEAN /\ ret \in Nat
    <2>1. /\ r.haystack \in Text /\ r.params \in Seq(Param)
          /\ r.metadata \in BOOLEAN /\ r.ret \in Nat
      BY DEF CallRecord
    <2>2. QED
      BY <2>1, LenProperties DEF Text
  <1>2. low \in 0..SearchLimit /\ low <= Len(r.haystack)
    <2>1. Len(r.haystack) \in Nat /\ SearchLimit \in Nat
      BY <1>1, Limits
    <2>2. low = IF Len(r.haystack) <= SearchLimit THEN Len(r.haystack) ELSE SearchLimit
      BY ONLY <2>1, MinOfTwo, Zenon
    <2> HIDE DEF low
    <2>3. QED
      BY <2>1, <2>2
  <1>3. /\ B2 \in Text /\ Len(B) \in Nat /\ Len(B2) \in Nat /\ Grows(B, B2)
        /\ Len(B2) = Len(B) + Len(r.haystack)
        /\ \A j \in 1..Len(r.haystack) : B2[Len(B) + j] = r.haystack[j]
    BY <1>1, ConcatGrows DEF Text
  <1>4. U32(Len(B)) \in Offsets /\ U32(n) \in Offsets /\ 0 \in Offsets
    BY <1>3, U32Type, Limits DEF Offsets
  <1>5. c = [ret |-> ret, tid |-> 0, sequence |-> 0, steps |-> 0, module |-> 0, api |-> 0,
             param_off |-> U32(n), search_off |-> U32(Len(B)), decoded |-> r.metadata,
             count |-> Len(r.params), search_len |-> low, return_address |-> 0]
    BY DEF Empty, Started
  <1> HIDE DEF low, ret
  <1>6. c \in BinCall /\ c.param_off = U32(n)
    BY ONLY <1>1, <1>2, <1>4, <1>5 DEF BinCall
  <1>7. ASSUME Len(B2) <= OffsetLimit PROVE Begun(B2, c, r)
    <2>1. /\ c.ret = ret /\ c.decoded = r.metadata /\ c.count = Len(r.params)
          /\ c.search_len = low /\ c.search_off = U32(Len(B))
      BY ONLY <1>5, Zenon
    <2>2. c.search_off \in Nat /\ c.search_off <= Len(B)
      <3>1. \A n1 \in Nat : U32(n1) \in Nat /\ U32(n1) <= n1
        <4>1. ASSUME NEW m \in Nat PROVE U32(m) \in Nat /\ U32(m) <= m
          <5>1. U32(m) \in 0..(OffsetLimit - 1) /\ (m < OffsetLimit => U32(m) = m)
            BY ONLY U32Type, m \in Nat DEF Offsets
          <5>2. OffsetLimit \in Nat
            BY Limits
          <5>3. QED
            BY ONLY <5>1, <5>2, m \in Nat
        <4>2. QED
          BY <4>1
      <3>2. QED
        BY <1>3, <2>1, <3>1
    <2>3. c.search_off + c.search_len <= Len(B2)
      BY <1>1, <1>2, <1>3, <2>1, <2>2, Limits
    <2>4. ASSUME NEW j \in 1..low PROVE B2[c.search_off + j] = r.haystack[j]
      <3>1. Len(B) < OffsetLimit /\ j \in 1..Len(r.haystack)
        BY <1>1, <1>2, <1>3, <1>7, Limits
      <3>2. c.search_off = Len(B)
        BY <1>3, <2>1, <3>1, U32Type
      <3>3. QED
        BY <1>3, <3>1, <3>2
    <2>5. QED
      BY <1>2, <2>1, <2>2, <2>3, <2>4 DEF Begun, ret
  <1>8. QED
    BY <1>3, <1>6, <1>7

Ended(S, r, c, S2, d) ==
  /\ S2 = Added(Added(S, r.module), r.api)
  /\ d = [c EXCEPT !.tid = U32(r.tid), !.sequence = U32(r.position.sequence),
                   !.steps = U32(r.position.steps), !.module = StringOffset(S2, r.module),
                   !.api = StringOffset(S2, r.api), !.return_address = r.return_address]

LEMMA CallIsEnded ==
  ASSUME NEW S \in Seq(Names), NEW r \in CallRecord, NEW c \in BinCall,
         NEW S2, NEW d, Ended(S, r, c, S2, d)
  PROVE  /\ S2 \in Seq(Names) /\ Len(S) \in Nat /\ Len(S2) \in Nat /\ Grows(S, S2)
         /\ d \in BinCall /\ d.param_off = c.param_off
         /\ Len(S2) <= OffsetLimit => Named(S2, d.module, r.module) /\ Named(S2, d.api, r.api)
         /\ Stamped(d, r)
         /\ \A B : Begun(B, c, r) => Begun(B, d, r)
  <1> DEFINE S1 == Added(S, r.module)
  <1>1. r.module \in Names /\ r.api \in Names
    BY DEF CallRecord
  <1>2. /\ S1 \in Seq(Names) /\ Len(S) \in Nat /\ Len(S1) \in Nat /\ Grows(S, S1)
        /\ \E i \in 1..Len(S1) : S1[i] = r.module
    BY <1>1, TableGrows
  <1>3. S2 = Added(S1, r.api)
    BY DEF Ended
  <1> HIDE DEF S1
  <1>4. /\ S2 \in Seq(Names) /\ Len(S2) \in Nat /\ Grows(S1, S2)
        /\ \E i \in 1..Len(S2) : S2[i] = r.api
    <2>1. S1 \in Seq(Names) /\ r.api \in Names
      BY <1>1, <1>2
    <2>2. QED
      BY ONLY <1>3, <2>1, TableGrows, Zenon
  <1>5. \E i \in 1..Len(S2) : S2[i] = r.module
    BY <1>2, <1>4 DEF Grows
  <1>6. Grows(S, S2)
    BY <1>2, <1>4, GrowsTrans
  <1>7. /\ StringOffset(S2, r.module) \in Offsets /\ StringOffset(S2, r.api) \in Offsets
        /\ Len(S2) <= OffsetLimit =>
             /\ Named(S2, StringOffset(S2, r.module), r.module)
             /\ Named(S2, StringOffset(S2, r.api), r.api)
    BY <1>4, <1>5, NameIsFound
  <1>0. /\ U32(r.tid) \in Offsets /\ U32(r.position.sequence) \in Offsets
        /\ U32(r.position.steps) \in Offsets /\ r.return_address \in Nat
    <2>1. /\ r.tid \in Nat /\ r.position.sequence \in Nat /\ r.position.steps \in Nat
          /\ r.return_address \in Nat
      BY DEF CallRecord
    <2>2. QED
      BY <2>1, U32Type
  <1>8. /\ d \in BinCall /\ Stamped(d, r)
        /\ d.module = StringOffset(S2, r.module) /\ d.api = StringOffset(S2, r.api)
        /\ d.param_off = c.param_off /\ d.ret = c.ret /\ d.decoded = c.decoded
        /\ d.count = c.count /\ d.search_len = c.search_len /\ d.search_off = c.search_off
    BY <1>0, <1>7 DEF BinCall, Ended, Stamped
  <1>9. ASSUME NEW B, Begun(B, c, r) PROVE Begun(B, d, r)
    BY <1>8, <1>9 DEF Begun
  <1>10. QED
    BY <1>2, <1>4, <1>6, <1>7, <1>8, <1>9
----------------------------------------------------------------------------
(* The inductive invariant.  Every call that is done is written: its names *)
(* are where it says, its search text too, and its parameters are one      *)
(* behind the other.  Of the one being written, the parameters before next *)
(* are, and the region ends where the last of them does.                   *)
CallsWritten ==
  Fits => \A i \in 1..Len(calls) : CallWritten(strings, params, blob, calls[i], report[i])

Reached(n, ps, first, s, P) ==
  IF n = 1 THEN first = U32(Len(P)) ELSE s[n - 1] + Extent(Bits(ps[n - 1])) = Len(P)

CurrentWritten ==
  Fits /\ next # 0 =>
    /\ Begun(blob, current, Current)
    /\ \E s : /\ Listed(strings, params, blob, s, next - 1, Current.params, current.param_off)
              /\ Reached(next, Current.params, current.param_off, s, params)

InOrder ==
  /\ report \in Reports
  /\ Len(calls) <= Len(report)
  /\ next # 0 => Len(calls) < Len(report) /\ next <= Len(Current.params) + 1

BinInv == TypeOK /\ InOrder /\ CallsWritten /\ CurrentWritten

LEMMA LengthsAre ==
  ASSUME TypeOK
  PROVE  /\ Len(strings) \in Nat /\ Len(params) \in Nat /\ Len(blob) \in Nat
         /\ Len(calls) \in Nat /\ next \in Nat
         /\ DOMAIN calls = 1..Len(calls)
         /\ Fits <=> /\ Len(strings) <= OffsetLimit
                     /\ Len(params) <= OffsetLimit
                     /\ Len(blob) <= OffsetLimit
  <1>1. /\ Len(strings) \in Nat /\ Len(params) \in Nat /\ Len(blob) \in Nat
        /\ Len(calls) \in Nat /\ DOMAIN calls = 1..Len(calls) /\ next \in Nat
    BY LenProperties DEF TypeOK, Text
  <1>2. OffsetLimit \in Nat
    BY Limits
  <1>3. QED
    BY <1>1, <1>2 DEF Fits

LEMMA ReportIs ==
  ASSUME InOrder
  PROVE  /\ report \in Seq(CallRecord) /\ Len(report) \in Nat /\ DOMAIN report = 1..Len(report)
         /\ \A i \in 1..Len(report) :
              /\ report[i] \in CallRecord
              /\ report[i].params \in Seq(Param) /\ Len(report[i].params) \in Nat
              /\ DOMAIN report[i].params = 1..Len(report[i].params)
              /\ \A k \in 1..Len(report[i].params) : report[i].params[k] \in Param
  <1>1. report \in Seq(CallRecord)
    <2>1. Reports \subseteq Seq(CallRecord)
      BY ReportAssumption, Zenon
    <2>2. QED
      BY <2>1 DEF InOrder
  <1>2. Len(report) \in Nat /\ DOMAIN report = 1..Len(report)
        /\ \A i \in 1..Len(report) : report[i] \in CallRecord
    BY <1>1, LenProperties, ElementOfSeq
  <1>3. ASSUME NEW i \in 1..Len(report)
        PROVE  /\ report[i].params \in Seq(Param) /\ Len(report[i].params) \in Nat
               /\ DOMAIN report[i].params = 1..Len(report[i].params)
               /\ \A k \in 1..Len(report[i].params) : report[i].params[k] \in Param
    <2>1. report[i].params \in Seq(Param)
      BY <1>2 DEF CallRecord
    <2>2. QED
      BY <2>1, LenProperties, ElementOfSeq
  <1>4. QED
    BY <1>1, <1>2, <1>3

(* A step that only lets the regions grow keeps the calls that are done.   *)
LEMMA DoneStays ==
  ASSUME TypeOK, InOrder, CallsWritten, TypeOK', report' = report,
         Grows(strings, strings'), Grows(params, params'), Grows(blob, blob')
  PROVE  /\ Fits' => Fits
         /\ Fits' => \A i \in 1..Len(calls) :
              CallWritten(strings', params', blob', calls[i], report'[i])
  <1>1. /\ Len(strings') \in Nat /\ Len(params') \in Nat /\ Len(blob') \in Nat
        /\ Fits' <=> /\ Len(strings') <= OffsetLimit
                     /\ Len(params') <= OffsetLimit
                     /\ Len(blob') <= OffsetLimit
    <2>1. TypeOK' => /\ Len(strings') \in Nat /\ Len(params') \in Nat /\ Len(blob') \in Nat
      BY LenProperties DEF TypeOK, Text
    <2>2. OffsetLimit \in Nat
      BY Limits
    <2>3. QED
      BY <2>1, <2>2 DEF Fits
  <1>2. /\ Len(strings) \in Nat /\ Len(params) \in Nat /\ Len(blob) \in Nat
        /\ Len(calls) \in Nat
        /\ Fits <=> /\ Len(strings) <= OffsetLimit
                    /\ Len(params) <= OffsetLimit
                    /\ Len(blob) <= OffsetLimit
    BY LengthsAre
  <1>3. Fits' => Fits
    BY <1>1, <1>2, Limits DEF Grows
  <1>6. Later(strings, params, blob, strings', params', blob')
    BY <1>1, <1>2 DEF Later
  <1>4. ASSUME Fits', NEW i \in 1..Len(calls)
        PROVE  CallWritten(strings', params', blob', calls[i], report'[i])
    <2>1. CallWritten(strings, params, blob, calls[i], report[i])
      BY <1>3, <1>4 DEF CallsWritten
    <2>2. i \in 1..Len(report) /\ Len(report) \in Nat
      BY <1>2, ReportIs DEF InOrder
    <2>3. report[i] \in CallRecord
      BY <2>2, ReportIs
    <2>4. calls[i] \in BinCall
      BY <1>2, ElementOfSeq DEF TypeOK
    <2>5. CallWritten(strings', params', blob', calls[i], report[i])
      BY <1>6, <2>1, <2>3, <2>4, CallWrittenStays
    <2>6. QED
      BY <2>5
  <1>5. QED
    BY <1>3, <1>4
----------------------------------------------------------------------------
LEMMA EmptyIs == Empty \in BinCall /\ 0 \in Offsets
  <1>1. 0 \in Offsets /\ 0 \in 0..SearchLimit /\ FALSE \in BOOLEAN
    BY Limits DEF Offsets
  <1>2. QED
    BY ONLY <1>1 DEF Empty, BinCall

LEMMA BinInit ==
  ASSUME Init
  PROVE  BinInv
  <1>1. strings \in Seq(Names)
    <2>1. \A x \in Names : <<x>> \in Seq(Names)
      OBVIOUS
    <2>2. "" \in Names /\ strings = <<"">>
      BY ReportAssumption, Zenon DEF Init
    <2>3. QED
      BY ONLY <2>1, <2>2, Zenon
  <1>2. /\ report \in Reports /\ calls = <<>> /\ params = <<>> /\ blob = <<>>
        /\ current = Empty /\ next = 0 /\ stream = "none" /\ file = 0 /\ result = "none"
        /\ header = [decoded_count |-> 0, max_seq |-> 0]
    BY Zenon DEF Init
  <1>3. TypeOK
    <2>1. /\ calls \in Seq(BinCall) /\ params \in Seq(Unit) /\ blob \in Text
      BY <1>2, EmptySeq DEF Text
    <2>2. current \in BinCall /\ next \in Nat
      BY <1>2, EmptyIs
    <2>3. header \in [decoded_count : Nat, max_seq : Nat]
      BY <1>2
    <2>4. /\ stream \in {"none", "good", "written", "bad", "closed"}
          /\ file \in 0..Regions /\ result \in {"none", "true", "false"}
      BY <1>2 DEF Regions
    <2>5. QED
      BY <1>1, <2>1, <2>2, <2>3, <2>4 DEF TypeOK
  <1>4. Len(calls) = 0
    BY <1>2, EmptySeq
  <1>5. InOrder
    <2>1. report \in Seq(CallRecord)
      <3>1. Reports \subseteq Seq(CallRecord)
        BY ReportAssumption, Zenon
      <3>2. QED
        BY <1>2, <3>1
    <2>2. Len(report) \in Nat
      BY <2>1, LenProperties
    <2>3. QED
      BY <1>2, <1>4, <2>2 DEF InOrder
  <1>6. CallsWritten
    BY <1>4 DEF CallsWritten
  <1>7. CurrentWritten
    BY <1>2 DEF CurrentWritten
  <1>8. QED
    BY <1>3, <1>5, <1>6, <1>7 DEF BinInv

(* A step that writes nothing leaves all of it as it is.                   *)
LEMMA FrameStep ==
  ASSUME BinInv, UNCHANGED <<report, content>>,
         stream' \in {"none", "good", "written", "bad", "closed"},
         file' \in 0..Regions, result' \in {"none", "true", "false"}
  PROVE  BinInv'
  <1>1. /\ report' = report /\ strings' = strings /\ calls' = calls /\ params' = params
        /\ blob' = blob /\ current' = current /\ next' = next /\ header' = header
    BY DEF content
  <1>2. TypeOK'
    BY <1>1 DEF BinInv, TypeOK
  <1>3. Fits' = Fits /\ Current' = Current
    BY <1>1 DEF Fits, Current
  <1>4. InOrder'
    BY <1>1, <1>3 DEF BinInv, InOrder
  <1>5. CallsWritten'
    BY <1>1, <1>3 DEF BinInv, CallsWritten
  <1>6. CurrentWritten'
    BY <1>1, <1>3 DEF BinInv, CurrentWritten
  <1>7. QED
    BY <1>2, <1>4, <1>5, <1>6 DEF BinInv

LEMMA BeginCallStep ==
  ASSUME BinInv, BeginCall
  PROVE  BinInv'
  <1>1. TypeOK /\ InOrder /\ CallsWritten
    BY DEF BinInv
  <1>2. /\ next' = 1 /\ report' = report /\ strings' = strings /\ calls' = calls
        /\ params' = params /\ stream' = stream /\ file' = file /\ result' = result
        /\ blob' = blob \o Current.haystack
        /\ Len(calls) < Len(report)
    BY DEF BeginCall
  <1>3. /\ Len(strings) \in Nat /\ Len(params) \in Nat /\ Len(blob) \in Nat
        /\ Len(calls) \in Nat /\ blob \in Text
    BY <1>1, LengthsAre DEF TypeOK
  <1>4. Current \in CallRecord /\ Len(Current.params) \in Nat
    BY <1>1, <1>2, <1>3, ReportIs DEF Current
  <1>5. current' = Started(Current, blob, Len(params))
    BY Zenon DEF BeginCall, Started
  <1>6. /\ current' \in BinCall /\ current'.param_off = U32(Len(params))
        /\ blob' \in Text /\ Len(blob') \in Nat /\ Grows(blob, blob')
        /\ Len(blob') <= OffsetLimit => Begun(blob', current', Current)
    BY ONLY <1>2, <1>3, <1>4, <1>5, CallIsBegun
  <1>7. header' \in [decoded_count : Nat, max_seq : Nat]
    <2>1. header \in [decoded_count : Nat, max_seq : Nat]
      BY <1>1 DEF TypeOK
    <2>2. header' = [header EXCEPT !.decoded_count = @ + (IF Current.metadata THEN 1 ELSE 0)]
      BY Zenon DEF BeginCall
    <2>3. QED
      BY ONLY <2>1, <2>2
  <1>8. TypeOK'
    BY <1>1, <1>2, <1>6, <1>7 DEF TypeOK
  <1>9. Current' = Current
    BY <1>2 DEF Current
  <1>10. InOrder'
    BY <1>1, <1>2, <1>4, <1>9 DEF InOrder
  <1>11. Grows(strings, strings') /\ Grows(params, params')
    BY <1>2, <1>3, GrowsSame
  <1>12. CallsWritten'
    BY <1>1, <1>2, <1>6, <1>8, <1>11, DoneStays DEF CallsWritten
  <1>13. ASSUME Fits' PROVE
           /\ Begun(blob', current', Current)
           /\ \E s : /\ Listed(strings', params', blob', s, 1 - 1, Current.params, current'.param_off)
                     /\ Reached(1, Current.params, current'.param_off, s, params')
    <2>1. Len(blob') <= OffsetLimit
      BY <1>6, <1>13, Limits DEF Fits
    <2> DEFINE e == [k \in 1..0 |-> 0]
    <2>2. \A x \in 1..0 : FALSE
      OBVIOUS
    <2>3. e \in [1..0 -> Nat]
      OBVIOUS
    <2>4. 1 - 1 = 0
      OBVIOUS
    <2> HIDE DEF e
    <2>5. Listed(strings', params', blob', e, 0, Current.params, current'.param_off)
      BY ONLY <2>2, <2>3 DEF Listed, Chain
    <2>6. Reached(1, Current.params, current'.param_off, e, params')
      BY <1>2, <1>6 DEF Reached
    <2>7. QED
      BY <1>6, <2>1, <2>4, <2>5, <2>6
  <1>14. CurrentWritten'
    BY <1>2, <1>9, <1>13 DEF CurrentWritten
  <1>15. QED
    BY <1>8, <1>10, <1>12, <1>14 DEF BinInv
LEMMA PutParamStep ==
  ASSUME BinInv, PutParam
  PROVE  BinInv'
  <1> DEFINE p == Current.params[next]
  <1>1. TypeOK /\ InOrder /\ CallsWritten /\ CurrentWritten
    BY DEF BinInv
  <1>2. /\ next # 0 /\ next \in DOMAIN Current.params /\ next' = next + 1
        /\ report' = report /\ calls' = calls /\ current' = current /\ header' = header
        /\ stream' = stream /\ file' = file /\ result' = result
    BY DEF PutParam
  <1>3. /\ strings \in Seq(Names) /\ params \in Seq(Unit) /\ blob \in Text
        /\ Len(calls) \in Nat /\ next \in Nat
    BY <1>1, LengthsAre DEF TypeOK
  <1>4. /\ Len(calls) < Len(report)
        /\ Current \in CallRecord /\ Len(Current.params) \in Nat
        /\ next \in 1..Len(Current.params) /\ p \in Param
        /\ \A k \in 1..Len(Current.params) : Current.params[k] \in Param
    <2>1. Len(calls) + 1 \in 1..Len(report)
      BY <1>1, <1>2, <1>3, ReportIs DEF InOrder
    <2>2. QED
      BY <1>1, <1>2, <2>1, ReportIs DEF Current, InOrder
  <1>5. Appended(strings, params, blob, p, strings', params', blob')
    BY DEF PutParam, Appended
  <1> HIDE DEF p
  <1>6. /\ strings' \in Seq(Names) /\ params' \in Seq(Unit) /\ blob' \in Text
        /\ Len(strings) \in Nat /\ Len(params) \in Nat /\ Len(blob) \in Nat
        /\ Len(strings') \in Nat /\ Len(params') \in Nat /\ Len(blob') \in Nat
        /\ Grows(strings, strings') /\ Grows(params, params') /\ Grows(blob, blob')
        /\ Len(params') = Len(params) + Extent(Bits(p))
        /\ Len(strings') <= OffsetLimit /\ Len(blob') <= OffsetLimit =>
             Written(strings', params', blob', Len(params), p)
    BY ONLY <1>3, <1>4, <1>5, ParamIsWritten, Zenon
  <1>7. TypeOK'
    BY <1>1, <1>2, <1>3, <1>6 DEF TypeOK
  <1>8. Current' = Current
    BY <1>2 DEF Current
  <1>9. InOrder'
    BY <1>1, <1>2, <1>4, <1>8 DEF InOrder
  <1>10. (Fits' => Fits) /\ CallsWritten'
    BY <1>1, <1>2, <1>6, <1>7, DoneStays DEF CallsWritten
  <1>11. ASSUME Fits'
         PROVE  /\ Begun(blob', current, Current)
                /\ \E s : /\ Listed(strings', params', blob', s, next, Current.params, current.param_off)
                          /\ Reached(next + 1, Current.params, current.param_off, s, params')
    <2> DEFINE ps == Current.params
               first == current.param_off
    <2>1. Begun(blob, current, Current)
          /\ \E s : /\ Listed(strings, params, blob, s, next - 1, ps, first)
                    /\ Reached(next, ps, first, s, params)
      BY <1>1, <1>2, <1>10, <1>11 DEF CurrentWritten
    <2>2. PICK s : /\ Listed(strings, params, blob, s, next - 1, ps, first)
                   /\ Reached(next, ps, first, s, params)
      BY <2>1
    <2>3. current \in BinCall /\ next - 1 \in 0..Len(ps)
      BY <1>1, <1>4 DEF TypeOK
    <2>4. /\ Begun(blob', current, Current)
          /\ Listed(strings', params', blob', s, next - 1, ps, first)
      <3>1. Begun(blob', current, Current)
        BY <1>6, <2>1, <2>3, BegunStays
      <3>2. Later(strings, params, blob, strings', params', blob')
        BY <1>6 DEF Later
      <3>3. ps \in Seq(Param)
        BY <1>4 DEF CallRecord
      <3>4. Listed(strings', params', blob', s, next - 1, ps, first)
        BY ONLY <2>2, <2>3, <3>2, <3>3, ListedStays
      <3>5. QED
        BY <3>1, <3>4
    <2>5. /\ Len(strings') <= OffsetLimit /\ Len(params') <= OffsetLimit
          /\ Len(blob') <= OffsetLimit
      BY <1>6, <1>11, Limits DEF Fits
    <2> DEFINE e == [k \in 1..next |-> IF k = next THEN Len(params) ELSE s[k]]
    <2>6. Chain(s, next - 1, ps, first) /\ \A k \in 1..(next - 1) :
            Written(strings', params', blob', s[k], ps[k])
      BY <2>4 DEF Listed
    <2>7. e[next] = Len(params) /\ \A k \in 1..(next - 1) : e[k] = s[k]
      BY <1>4
    <2>8. e \in [1..next -> Nat]
      <3>1. \A k \in 1..next : k = next \/ k \in 1..(next - 1)
        BY <1>4
      <3>2. s \in [1..(next - 1) -> Nat]
        BY <2>6 DEF Chain
      <3>3. QED
        BY <1>6, <3>1, <3>2
    <2> HIDE DEF e
    <2>9. ASSUME NEW k \in 1..next
          PROVE  /\ e[k] = IF k = 1 THEN first ELSE e[k - 1] + Extent(Bits(ps[k - 1]))
                 /\ Written(strings', params', blob', e[k], ps[k])
      <3>1. CASE k \in 1..(next - 1)
        <4>1. s[k] = IF k = 1 THEN first ELSE s[k - 1] + Extent(Bits(ps[k - 1]))
          BY <2>6, <3>1 DEF Chain
        <4>2. e[k] = s[k]
          BY <2>7, <3>1
        <4>3. k # 1 => k - 1 \in 1..(next - 1)
          BY <1>3, <3>1
        <4>4. k # 1 => e[k - 1] = s[k - 1]
          BY <2>7, <4>3
        <4>5. Written(strings', params', blob', s[k], ps[k])
          BY <2>6, <3>1
        <4>6. QED
          BY <4>1, <4>2, <4>4, <4>5
      <3>2. CASE k = next
        <4>1. e[k] = Len(params)
          BY <2>7, <3>2
        <4>2. Written(strings', params', blob', e[k], ps[k])
          BY <1>6, <2>5, <3>2, <4>1 DEF p
        <4>3. CASE next = 1
          <5>1. first = U32(Len(params))
            BY <2>2, <4>3 DEF Reached
          <5>2. Len(params) < OffsetLimit
            BY <1>6, <2>5, ExtentBounds, Limits
          <5>3. first = Len(params)
            BY <1>6, <5>1, <5>2, U32Type
          <5>4. QED
            BY <3>2, <4>1, <4>2, <4>3, <5>3
        <4>4. CASE next # 1
          <5>1. s[next - 1] + Extent(Bits(ps[next - 1])) = Len(params)
            BY <2>2, <4>4 DEF Reached
          <5>2. next - 1 \in 1..(next - 1)
            BY <1>4, <4>4
          <5>3. e[next - 1] = s[next - 1]
            BY <2>7, <5>2
          <5>4. QED
            BY <3>2, <4>1, <4>2, <4>4, <5>1, <5>3
        <4>5. QED
          BY <4>3, <4>4
      <3>3. k = next \/ k \in 1..(next - 1)
        BY <1>4
      <3>4. QED
        BY <3>1, <3>2, <3>3
    <2>10. Listed(strings', params', blob', e, next, ps, first)
      BY ONLY <2>8, <2>9 DEF Listed, Chain
    <2>11. Reached(next + 1, ps, first, e, params')
      <3>1. next + 1 # 1 /\ (next + 1) - 1 = next
        BY <1>4
      <3>2. e[next] + Extent(Bits(ps[next])) = Len(params')
        BY <1>6, <2>7 DEF p
      <3>3. QED
        BY <3>1, <3>2 DEF Reached
    <2>12. QED
      BY <2>4, <2>10, <2>11
  <1>12. CurrentWritten'
    <2>1. (next + 1) - 1 = next
      BY <1>4
    <2>2. QED
      BY <1>2, <1>8, <1>11, <2>1 DEF CurrentWritten
  <1>13. QED
    BY <1>7, <1>9, <1>10, <1>12 DEF BinInv

LEMMA MaxOfTwo ==
  ASSUME NEW a \in Nat, NEW b \in Nat
  PROVE  Max({a, b}) \in Nat
  <1>1. \E x \in {a, b} : \A y \in {a, b} : x >= y
    OBVIOUS
  <1>2. Max({a, b}) \in {a, b}
    BY <1>1, Zenon DEF Max
  <1>3. QED
    BY <1>2

LEMMA EndCallStep ==
  ASSUME BinInv, EndCall
  PROVE  BinInv'
  <1> DEFINE d == [current EXCEPT !.tid = U32(Current.tid),
                                  !.sequence = U32(Current.position.sequence),
                                  !.steps = U32(Current.position.steps),
                                  !.module = StringOffset(strings', Current.module),
                                  !.api = StringOffset(strings', Current.api),
                                  !.return_address = Current.return_address]
  <1>1. TypeOK /\ InOrder /\ CallsWritten /\ CurrentWritten
    BY DEF BinInv
  <1>2. /\ next # 0 /\ next \notin DOMAIN Current.params /\ next' = 0
        /\ strings' = Added(Added(strings, Current.module), Current.api)
        /\ calls' = Append(calls, d) /\ current' = Empty
        /\ report' = report /\ params' = params /\ blob' = blob
        /\ stream' = stream /\ file' = file /\ result' = result
    BY DEF EndCall
  <1>3. /\ strings \in Seq(Names) /\ calls \in Seq(BinCall) /\ current \in BinCall
        /\ Len(calls) \in Nat /\ next \in Nat
        /\ Len(params) \in Nat /\ Len(blob) \in Nat
    BY <1>1, LengthsAre DEF TypeOK
  <1>4. /\ Len(calls) < Len(report) /\ Len(report) \in Nat
        /\ Len(calls) + 1 \in 1..Len(report)
        /\ Current \in CallRecord /\ Len(Current.params) \in Nat
        /\ next = Len(Current.params) + 1
    <2>1. Len(calls) < Len(report) /\ next <= Len(Current.params) + 1
      BY <1>1, <1>2 DEF InOrder
    <2>2. Len(calls) + 1 \in 1..Len(report) /\ Len(report) \in Nat
      BY <1>1, <1>3, <2>1, ReportIs
    <2>3. /\ Current \in CallRecord /\ Len(Current.params) \in Nat
          /\ DOMAIN Current.params = 1..Len(Current.params)
      BY <1>1, <2>2, ReportIs DEF Current
    <2>4. QED
      BY <1>2, <1>3, <2>1, <2>2, <2>3
  <1>5. Ended(strings, Current, current, strings', d)
    BY <1>2 DEF Ended
  <1> HIDE DEF d
  <1>6. /\ strings' \in Seq(Names) /\ Len(strings) \in Nat /\ Len(strings') \in Nat
        /\ Grows(strings, strings')
        /\ d \in BinCall /\ d.param_off = current.param_off
        /\ Len(strings') <= OffsetLimit =>
             Named(strings', d.module, Current.module) /\ Named(strings', d.api, Current.api)
        /\ Stamped(d, Current)
        /\ \A B : Begun(B, current, Current) => Begun(B, d, Current)
    BY ONLY <1>2, <1>3, <1>4, <1>5, CallIsEnded
  <1>7. header' \in [decoded_count : Nat, max_seq : Nat]
    <2>1. header \in [decoded_count : Nat, max_seq : Nat] /\ header.max_seq \in Nat
      BY <1>1 DEF TypeOK
    <2>2. header' = [header EXCEPT !.max_seq = Max({header.max_seq, Current.seq})]
      BY DEF EndCall
    <2>3. Current.seq \in Nat
      BY <1>4 DEF CallRecord
    <2>4. Max({header.max_seq, Current.seq}) \in Nat
      BY ONLY <2>1, <2>3, MaxOfTwo, Zenon
    <2>5. QED
      BY ONLY <2>1, <2>2, <2>4
  <1>8. /\ calls' \in Seq(BinCall) /\ Len(calls') = Len(calls) + 1
        /\ \A i \in 1..Len(calls) : calls'[i] = calls[i]
        /\ calls'[Len(calls) + 1] = d
    BY <1>2, <1>3, <1>6, AppendProperties
  <1>9. TypeOK'
    BY <1>1, <1>2, <1>6, <1>7, <1>8, EmptyIs DEF TypeOK
  <1>10. InOrder'
    BY <1>1, <1>2, <1>3, <1>4, <1>8 DEF InOrder
  <1>11. Grows(params, params') /\ Grows(blob, blob')
    BY <1>2, <1>3, GrowsSame
  <1>12. /\ Fits' => Fits
         /\ Fits' => \A i \in 1..Len(calls) :
              CallWritten(strings', params', blob', calls[i], report'[i])
    BY <1>1, <1>2, <1>6, <1>9, <1>11, DoneStays
  <1>13. ASSUME Fits' PROVE CallWritten(strings', params', blob', d, Current)
    <2>1. PICK s : Listed(strings, params, blob, s, next - 1, Current.params, current.param_off)
      BY <1>1, <1>2, <1>12, <1>13 DEF CurrentWritten
    <2>2. next - 1 = Len(Current.params) /\ next - 1 \in 0..Len(Current.params)
      BY <1>4
    <2>3. Listed(strings', params', blob', s, Len(Current.params), Current.params, d.param_off)
      <3>1. Later(strings, params, blob, strings', params', blob')
        BY <1>2, <1>3, <1>6, <1>11 DEF Later
      <3>2. Current.params \in Seq(Param)
        BY <1>4 DEF CallRecord
      <3>3. Listed(strings', params', blob', s, next - 1, Current.params, current.param_off)
        BY ONLY <2>1, <2>2, <3>1, <3>2, ListedStays
      <3>4. QED
        BY <1>6, <2>2, <3>3
    <2>4. Begun(blob', d, Current)
      BY <1>1, <1>2, <1>6, <1>12, <1>13 DEF CurrentWritten
    <2>5. Named(strings', d.module, Current.module) /\ Named(strings', d.api, Current.api)
      <3>1. Len(strings') <= OffsetLimit
        BY <1>6, <1>13, Limits DEF Fits
      <3>2. QED
        BY <1>6, <3>1
    <2>6. QED
      BY <1>6, <2>3, <2>4, <2>5 DEF CallWritten
  <1>14. ASSUME Fits', NEW i \in 1..Len(calls')
         PROVE  CallWritten(strings', params', blob', calls'[i], report'[i])
    <2>1. CASE i \in 1..Len(calls)
      BY <1>8, <1>12, <1>14, <2>1
    <2>2. CASE i = Len(calls) + 1
      BY <1>2, <1>8, <1>13, <1>14, <2>2 DEF Current
    <2>3. QED
      BY <1>3, <1>8, <2>1, <2>2
  <1>15. CallsWritten' /\ CurrentWritten'
    BY <1>2, <1>14 DEF CallsWritten, CurrentWritten
  <1>16. QED
    BY <1>9, <1>10, <1>15 DEF BinInv

(* The invariant holds in every reachable state.                           *)
THEOREM BinInductive == Spec => []BinInv
  <1>1. Init => BinInv
    BY BinInit
  <1>2. BinInv /\ [Next]_vars => BinInv'
    <2> SUFFICES ASSUME BinInv, [Next]_vars PROVE BinInv'
      OBVIOUS
    <2>0. TypeOK
      BY DEF BinInv
    <2>1. CASE BeginCall
      BY <2>1, BeginCallStep
    <2>2. CASE PutParam
      BY <2>2, PutParamStep
    <2>3. CASE EndCall
      BY <2>3, EndCallStep
    <2>4. CASE Open
      BY <2>0, <2>4, FrameStep DEF Open, TypeOK
    <2>5. CASE Put
      BY <2>0, <2>5, FrameStep DEF Put, TypeOK, Regions
    <2>6. CASE Close
      BY <2>0, <2>6, FrameStep DEF Close, TypeOK, Regions
    <2>7. CASE UNCHANGED vars
      BY <2>0, <2>7, FrameStep DEF vars, content, TypeOK
    <2>8. QED
      BY <2>1, <2>2, <2>3, <2>4, <2>5, <2>6, <2>7 DEF Next
  <1>3. QED
    BY <1>1, <1>2, PTL DEF Spec

(* Offsets stay offsets, whatever they are cut to, and names names.        *)
THEOREM BinType == Spec => []TypeOK
  <1>1. BinInv => TypeOK
    BY DEF BinInv
  <1>2. QED
    BY <1>1, BinInductive, PTL
----------------------------------------------------------------------------
(* What the reader finds at a start that the invariant speaks of.          *)
LEMMA StartsFound ==
  ASSUME BinInv, Fits, NEW i \in DOMAIN calls
  PROVE  /\ i \in 1..Len(report) /\ DOMAIN report = 1..Len(report)
         /\ report[i] \in CallRecord /\ calls[i] \in BinCall
         /\ Named(strings, calls[i].module, report[i].module)
         /\ Named(strings, calls[i].api, report[i].api)
         /\ Begun(blob, calls[i], report[i]) /\ Stamped(calls[i], report[i])
         /\ DOMAIN report[i].params = 1..Len(report[i].params)
         /\ \A k \in DOMAIN report[i].params :
              /\ report[i].params[k] \in Param
              /\ Written(strings, params, blob, Starts(i)[k], report[i].params[k])
  <1> DEFINE ps == report[i].params
             n == Len(ps)
             first == calls[i].param_off
  <1>1. TypeOK /\ InOrder /\ CallsWritten
    BY DEF BinInv
  <1>2. i \in 1..Len(calls) /\ Len(calls) \in Nat /\ Len(calls) <= Len(report)
        /\ i \in 1..Len(report)
    BY <1>1, LengthsAre, ReportIs DEF InOrder
  <1>3. /\ report[i] \in CallRecord /\ DOMAIN report = 1..Len(report)
        /\ n \in Nat /\ DOMAIN ps = 1..n
        /\ \A k \in 1..n : ps[k] \in Param
    BY <1>1, <1>2, ReportIs
  <1>4. calls[i] \in BinCall
    BY <1>1, <1>2, ElementOfSeq DEF TypeOK
  <1>5. CallWritten(strings, params, blob, calls[i], report[i])
    BY <1>1, <1>2 DEF CallsWritten
  <1>6. PICK s : Listed(strings, params, blob, s, n, ps, first)
    BY <1>5 DEF CallWritten
  <1>7. /\ s \in [1..n -> Nat]
        /\ \A k \in 1..n : s[k] = IF k = 1 THEN first ELSE s[k - 1] + Extent(Bits(ps[k - 1]))
        /\ \A k \in 1..n : Written(strings, params, blob, s[k], ps[k])
    BY <1>6 DEF Listed, Chain
  <1> HIDE DEF n, first
  <1>8. s = [k \in 1..n |-> IF k = 1 THEN first
                            ELSE s[k - 1] + Extent(params[s[k - 1] + 1].bits)]
    <2>1. ASSUME NEW k \in 1..n
          PROVE  s[k] = IF k = 1 THEN first
                        ELSE s[k - 1] + Extent(params[s[k - 1] + 1].bits)
      <3>1. CASE k = 1
        BY <1>7, <3>1
      <3>2. CASE k # 1
        <4>1. k - 1 \in 1..n
          BY <1>3, <3>2
        <4>2. params[s[k - 1] + 1].bits = Bits(ps[k - 1])
          BY <1>7, <4>1 DEF Written
        <4>3. QED
          BY <1>7, <3>2, <4>2
      <3>3. QED
        BY <3>1, <3>2
    <2>2. QED
      BY <1>7, <2>1
  <1>9. Starts(i) = s
    <2>1. n \in Nat /\ DOMAIN report[i].params = 1..n
      BY <1>3
    <2>2. Follows(s, i, n)
      BY <1>8 DEF Follows, first
    <2>3. QED
      BY ONLY <2>1, <2>2, StartsAre, Zenon
  <1>10. QED
    BY <1>2, <1>3, <1>4, <1>5, <1>7, <1>9 DEF CallWritten, n

LEMMA PartIsRead ==
  ASSUME blob \in Text, NEW p \in Param, NEW start,
         Written(strings, params, blob, start, p), NEW part \in Optionals(p)
  PROVE  /\ UnitOf(start, part).part = part
         /\ UnitOf(start, part).value = PartValue(p, part)
         /\ UnitOf(start, part).len = Len(Data(p, part))
         /\ part # "deref" =>
              BlobAt(UnitOf(start, part).off, UnitOf(start, part).len) = Data(p, part)
  <1> DEFINE u == UnitOf(start, part)
  <1>1. part \in PartNames
    BY DEF Optionals
  <1>2. u = params[start + 1 + Place(Bits(p), part)]
    BY DEF UnitOf, Written
  <1>3. /\ u.part = part /\ u.value = PartValue(p, part) /\ u.len = Len(Data(p, part))
        /\ part # "deref" => Held(blob, u.off, Data(p, part))
    BY <1>2 DEF Written, PartWritten
  <1> HIDE DEF u
  <1>4. ASSUME part # "deref" PROVE BlobAt(u.off, u.len) = Data(p, part)
    <2>1. Data(p, part) \in Seq(Symbols) /\ blob \in Seq(Symbols)
      BY <1>1, DataType DEF Text
    <2>2. SubSeq(blob, u.off + 1, u.off + Len(Data(p, part))) = Data(p, part)
      BY <1>3, <1>4, <2>1, HeldIsRead
    <2>3. QED
      BY <1>3, <2>2 DEF BlobAt
  <1>5. QED
    BY <1>3, <1>4 DEF u

LEMMA DataIs ==
  ASSUME NEW p \in Param, NEW part \in Optionals(p)
  PROVE  /\ part # "deref" => Data(p, part) = p[part]
         /\ PartValue(p, "deref") = p.deref
  <1>1. Has(p, part) /\ part \in PartNames
    BY DEF Optionals
  <1>2. CASE part = "str"
    BY <1>1, <1>2 DEF Data, PartValue
  <1>3. CASE part = "bytes"
    BY <1>1, <1>3 DEF Data, PartValue
  <1>4. CASE part = "flags"
    BY <1>1, <1>4 DEF Data, PartValue
  <1>5. QED
    BY <1>1, <1>2, <1>3, <1>4 DEF PartNames, PartValue

LEMMA ParamIsRead ==
  ASSUME blob \in Text, NEW p \in Param, NEW start,
         Written(strings, params, blob, start, p)
  PROVE  ReadsAs(start, p)
  <1> DEFINE fixed == params[start + 1]
  <1>4. /\ "out" \in Bits(p) <=> p.is_out
        /\ "at_return" \in Bits(p) <=> p.from_return
    BY MarksAre
  <1>1. /\ fixed.part = "fixed" /\ fixed.bits = Bits(p) /\ fixed.value = p.raw
        /\ fixed.kind = p.kind
        /\ strings[fixed.name + 1] = p.name /\ strings[fixed.type + 1] = p.type
    BY DEF Written, Named
  <1>2. ASSUME NEW part \in PartNames
        PROVE  /\ part \in fixed.bits <=> Has(p, part)
               /\ Has(p, part) =>
                    /\ UnitOf(start, part).part = part
                    /\ part = "deref" => UnitOf(start, part).value = p.deref
                    /\ part # "deref" =>
                         BlobAt(UnitOf(start, part).off, UnitOf(start, part).len) = p[part]
    <2>1. part \in fixed.bits <=> Has(p, part)
      BY <1>1, BitIs
    <2>2. ASSUME Has(p, part)
          PROVE  /\ UnitOf(start, part).part = part
                 /\ part = "deref" => UnitOf(start, part).value = p.deref
                 /\ part # "deref" =>
                      BlobAt(UnitOf(start, part).off, UnitOf(start, part).len) = p[part]
      <3>1. part \in Optionals(p)
        BY <2>2 DEF Optionals
      <3>2. QED
        BY <3>1, PartIsRead, DataIs
    <2>3. QED
      BY <2>1, <2>2
  <1>3. QED
    BY <1>1, <1>2, <1>4 DEF ReadsAs

LEMMA SearchIsRead ==
  ASSUME blob \in Text, NEW r \in CallRecord, NEW c \in BinCall, Begun(blob, c, r)
  PROVE  IsPrefix(BlobAt(c.search_off, c.search_len), r.haystack)
  <1> DEFINE h == r.haystack
             m == c.search_len
             data == SubSeq(h, 1, m)
  <1>1. h \in Seq(Symbols) /\ Len(h) \in Nat /\ blob \in Seq(Symbols)
    <2>1. h \in Seq(Symbols)
      BY DEF CallRecord, Text
    <2>2. QED
      BY <2>1, LenProperties DEF Text
  <1>2. m \in 0..Len(h)
    BY <1>1, Limits DEF BinCall, Begun
  <1> HIDE DEF m, h
  <1>3. data \in Seq(Symbols) /\ Len(data) = m /\ \A j \in 1..m : data[j] = h[j]
    BY <1>1, <1>2
  <1>4. SubSeq(data, 1, Len(data)) = data
    <2> HIDE DEF data
    <2>1. QED
      BY <1>3, SubSeqProperties, SMTT(30)
  <1> HIDE DEF data
  <1>5. Held(blob, c.search_off, data)
    BY <1>2, <1>3 DEF Begun, Held, m, h
  <1>6. BlobAt(c.search_off, m) = data
    BY <1>1, <1>3, <1>5, HeldIsRead DEF BlobAt
  <1>7. IsPrefix(data, h)
    BY <1>2, <1>3, <1>4 DEF IsPrefix, data
  <1>8. QED
    BY <1>6, <1>7 DEF m, h

LEMMA StampedStands ==
  ASSUME NEW r \in CallRecord, NEW c, Stamped(c, r)
  PROVE  /\ Stands(c.tid, r.tid) /\ Stands(c.sequence, r.position.sequence)
         /\ Stands(c.steps, r.position.steps) /\ c.return_address = r.return_address
  <1>1. r.tid \in Nat /\ r.position.sequence \in Nat /\ r.position.steps \in Nat
    BY DEF CallRecord
  <1>2. QED
    BY <1>1, U32Type DEF Stamped, Stands

(* As long as no region outgrows its offsets, whoever follows them finds   *)
(* every call as it was recorded: the lists of names, parameters and data  *)
(* are written by different code than the records that point into them.    *)
THEOREM BinReadsBack == Spec => []ReadsBack
  <1>1. ASSUME BinInv PROVE ReadsBack
    <2> SUFFICES ASSUME Fits, NEW i \in DOMAIN calls
                 PROVE  /\ strings[calls[i].module + 1] = report[i].module
                        /\ strings[calls[i].api + 1] = report[i].api
                        /\ IsPrefix(BlobAt(calls[i].search_off, calls[i].search_len),
                                    report[i].haystack)
                        /\ calls[i].ret = IF report[i].has_ret THEN report[i].ret ELSE 0
                        /\ Stands(calls[i].tid, report[i].tid)
                        /\ Stands(calls[i].sequence, report[i].position.sequence)
                        /\ Stands(calls[i].steps, report[i].position.steps)
                        /\ calls[i].return_address = report[i].return_address
                        /\ calls[i].decoded = report[i].metadata
                        /\ calls[i].count = Len(report[i].params)
                        /\ \A k \in DOMAIN report[i].params :
                             ReadsAs(Starts(i)[k], report[i].params[k])
      BY DEF ReadsBack
    <2>1. blob \in Text
      BY <1>1 DEF BinInv, TypeOK
    <2>2. IsPrefix(BlobAt(calls[i].search_off, calls[i].search_len), report[i].haystack)
      BY <1>1, <2>1, StartsFound, SearchIsRead
    <2>3. \A k \in DOMAIN report[i].params : ReadsAs(Starts(i)[k], report[i].params[k])
      BY <1>1, <2>1, StartsFound, ParamIsRead
    <2>4. /\ strings[calls[i].module + 1] = report[i].module
          /\ strings[calls[i].api + 1] = report[i].api
          /\ calls[i].ret = IF report[i].has_ret THEN report[i].ret ELSE 0
          /\ calls[i].decoded = report[i].metadata
          /\ calls[i].count = Len(report[i].params)
      BY <1>1, StartsFound DEF Named, Begun
    <2>5. /\ Stands(calls[i].tid, report[i].tid)
          /\ Stands(calls[i].sequence, report[i].position.sequence)
          /\ Stands(calls[i].steps, report[i].position.steps)
          /\ calls[i].return_address = report[i].return_address
      BY <1>1, StartsFound, StampedStands
    <2>6. QED
      BY <2>2, <2>3, <2>4, <2>5
  <1>2. QED
    BY <1>1, BinInductive, PTL

(* A buffer is told to be cut short if it was, and only then.              *)
THEOREM BinTruncation == Spec => []TruncationIsTold
  <1>1. ASSUME BinInv PROVE TruncationIsTold
    <2> SUFFICES ASSUME Fits, NEW i \in DOMAIN calls, NEW k \in DOMAIN report[i].params,
                        Has(report[i].params[k], "bytes")
                 PROVE  UnitOf(Starts(i)[k], "bytes").value > UnitOf(Starts(i)[k], "bytes").len
                          <=> report[i].params[k].bytes_capped
      BY DEF TruncationIsTold
    <2> DEFINE p == report[i].params[k]
               u == UnitOf(Starts(i)[k], "bytes")
    <2>1. blob \in Text /\ InOrder
      BY <1>1 DEF BinInv, TypeOK
    <2>2. /\ p \in Param /\ Written(strings, params, blob, Starts(i)[k], p)
          /\ i \in DOMAIN report
      BY <1>1, StartsFound
    <2>3. "bytes" \in Optionals(p) /\ Data(p, "bytes") = p.bytes
      BY DEF Optionals, PartNames, Data
    <2>4. u.value = PartValue(p, "bytes") /\ u.len = Len(p.bytes)
      BY <2>1, <2>2, <2>3, PartIsRead
    <2>5. p.bytes_capped => p.bytes_total > Len(p.bytes)
      BY <2>1, <2>2, ReportAssumption, Zenon DEF InOrder
    <2>6. Len(p.bytes) \in Nat /\ p.bytes_total \in Nat
      <3>1. p.bytes \in Text /\ p.bytes_total \in Nat
        BY <2>2 DEF Param
      <3>2. QED
        BY <3>1, LenProperties DEF Text
    <2>7. PartValue(p, "bytes") = IF p.bytes_capped THEN p.bytes_total ELSE Len(p.bytes)
      BY DEF PartValue
    <2> HIDE DEF p, u
    <2>8. u.value > u.len <=> p.bytes_capped
      BY <2>4, <2>5, <2>6, <2>7
    <2>9. QED
      BY <2>8 DEF p, u
  <1>2. QED
    BY <1>1, BinInductive, PTL
----------------------------------------------------------------------------
(* The same parameter and the same call in the JSON report.                *)
LEMMA JsonParamIs ==
  ASSUME NEW p \in Param
  PROVE  /\ DOMAIN JsonParam(p) = ParamKeys(p)
         /\ JsonParam(p)["name"] = p.name /\ JsonParam(p)["type"] = p.type
         /\ JsonParam(p)["value"] = p.raw /\ JsonParam(p)["kind"] = p.kind
         /\ \A key \in ParamKeys(p) :
              key \notin {"value", "float"} \cup Marks => JsonParam(p)[key] = p[key]
  <1> DEFINE K == ParamKeys(p)
             V(key) == CASE key = "value" -> p.raw
                         [] key = "float" -> p.fval
                         [] key \in Marks -> TRUE
                         [] OTHER -> p[key]
  <1>1. "name" \in K /\ "type" \in K /\ "value" \in K /\ "kind" \in K
    BY DEF ParamKeys
  <1>2. JsonParam(p) = [key \in K |-> V(key)]
    BY DEF JsonParam
  <1>3. V("value") = p.raw
    BY DEF Marks
  <1>4. ASSUME NEW key \in K, key \notin {"value", "float"} \cup Marks PROVE V(key) = p[key]
    <2>1. key # "value" /\ key # "float" /\ key \notin Marks
      BY <1>4
    <2>2. QED
      BY <2>1
  <1>5. /\ "name" \notin {"value", "float"} \cup Marks
        /\ "type" \notin {"value", "float"} \cup Marks
        /\ "kind" \notin {"value", "float"} \cup Marks
    BY DEF Marks
  <1> HIDE DEF K, V
  <1>6. /\ DOMAIN JsonParam(p) = K
        /\ \A key \in K : JsonParam(p)[key] = V(key)
    BY <1>2
  <1>7. /\ V("name") = p["name"] /\ V("type") = p["type"] /\ V("kind") = p["kind"]
    BY <1>1, <1>4, <1>5
  <1>8. QED
    BY <1>1, <1>3, <1>4, <1>6, <1>7 DEF K

LEMMA JsonCallIs ==
  ASSUME NEW c, NEW n \in Nat, DOMAIN c.params = 1..n
  PROVE  /\ JsonCall(c)["module"] = c.module /\ JsonCall(c)["api"] = c.api
         /\ JsonCall(c)["ret"] = (IF c.has_ret THEN c.ret ELSE 0)
         /\ JsonCall(c)["tid"] = c.tid /\ JsonCall(c)["position"] = c.position
         /\ JsonCall(c)["return_address"] = c.return_address
         /\ "params" \in DOMAIN JsonCall(c) <=> c.metadata = TRUE
         /\ Len(JsonCall(c)["args"]) = n
         /\ \A k \in 1..n : JsonCall(c)["args"][k] = JsonArg(c.params[k])
         /\ c.metadata = TRUE =>
              \A k \in 1..n : JsonCall(c)["params"][k] = JsonParam(c.params[k])
  <1> DEFINE D == {"tid", "seq", "position", "module", "api", "args", "ret", "return_address"}
                  \cup {k \in {"params"} : c.metadata}
             A == [k \in DOMAIN c.params |-> JsonArg(c.params[k])]
             P == [k \in DOMAIN c.params |-> JsonParam(c.params[k])]
             R == IF c.has_ret THEN c.ret ELSE 0
             V(key) == CASE key = "args"   -> A
                         [] key = "params" -> P
                         [] key = "ret"    -> R
                         [] OTHER          -> c[key]
  <1>1. JsonCall(c) = [key \in D |-> V(key)]
    BY DEF JsonCall
  <1>2. V("module") = c.module /\ V("api") = c.api /\ V("ret") = R /\ V("args") = A
        /\ V("params") = P /\ V("tid") = c.tid /\ V("position") = c.position
        /\ V("return_address") = c.return_address
    OBVIOUS
  <1>3. /\ "module" \in D /\ "api" \in D /\ "ret" \in D /\ "args" \in D
        /\ "tid" \in D /\ "position" \in D /\ "return_address" \in D
        /\ "params" \in D <=> c.metadata = TRUE
    BY Zenon
  <1>4. /\ Len(A) = n /\ \A k \in 1..n : A[k] = JsonArg(c.params[k])
        /\ \A k \in 1..n : P[k] = JsonParam(c.params[k])
    OBVIOUS
  <1> HIDE DEF A, P, R, V, D
  <1>5. /\ DOMAIN JsonCall(c) = D
        /\ \A key \in D : JsonCall(c)[key] = V(key)
    BY <1>1
  <1>6. QED
    BY <1>2, <1>3, <1>4, <1>5 DEF R

LEMMA SameParamIsTold ==
  ASSUME blob \in Text, NEW p \in Param, NEW start,
         Written(strings, params, blob, start, p),
         p.bytes_capped => p.bytes_total > Len(p.bytes)
  PROVE  /\ SameParam(start, JsonParam(p))
         /\ SameArg(start, JsonArg(p))
  <1> DEFINE fixed == params[start + 1]
             o == JsonParam(p)
  <1>1. /\ fixed.bits = Bits(p) /\ fixed.value = p.raw
        /\ fixed.kind = p.kind
        /\ strings[fixed.name + 1] = p.name /\ strings[fixed.type + 1] = p.type
    BY DEF Written, Named
  <1>2. /\ o["name"] = strings[fixed.name + 1] /\ o["type"] = strings[fixed.type + 1]
        /\ o["value"] = fixed.value /\ o["kind"] = fixed.kind
    BY <1>1, JsonParamIs
  <1>3. \A part \in PartNames : /\ part \in Bits(p) <=> Has(p, part)
                               /\ part \in Optionals(p) <=> Has(p, part)
    BY BitIs
  <1>11. \A mark \in Marks : mark \in fixed.bits <=> mark \in DOMAIN o
    <2>1. /\ "out" \in Bits(p) <=> p.is_out
          /\ "at_return" \in Bits(p) <=> p.from_return
      BY MarksAre
    <2>2. /\ "out" \in ParamKeys(p) <=> p.is_out
          /\ "at_return" \in ParamKeys(p) <=> p.from_return
      BY ONLY DEF ParamKeys
    <2>3. DOMAIN o = ParamKeys(p)
      BY JsonParamIs
    <2>4. QED
      BY <1>1, <2>1, <2>2, <2>3 DEF Marks
  <1>4. ASSUME NEW part \in {"str", "flags", "bytes"}
        PROVE  /\ BinTold(start, part) = (IF Has(p, part) THEN p[part] ELSE <<>>)
               /\ Told(o, part) = (IF Has(p, part) THEN p[part] ELSE <<>>)
    <2>1. part \in PartNames /\ part # "deref" /\ part \notin {"value", "float"} \cup Marks
      BY DEF PartNames, Marks
    <2>2. BinTold(start, part) = IF Has(p, part) THEN p[part] ELSE <<>>
      <3>1. CASE Has(p, part)
        BY <1>1, <1>3, <2>1, <3>1, PartIsRead, DataIs DEF BinTold
      <3>2. CASE ~Has(p, part)
        BY <1>1, <2>1, <3>2, BitIs DEF BinTold
      <3>3. QED
        BY <3>1, <3>2
    <2>3. Told(o, part) = IF part \in ParamKeys(p) THEN p[part] ELSE <<>>
      BY <2>1, JsonParamIs DEF Told
    <2>4. CASE part = "str"
      <3>1. part \in ParamKeys(p) <=> p.has_str
        BY <2>4 DEF ParamKeys
      <3>2. Has(p, part) <=> p.has_str /\ p.str # <<>>
        BY <2>4 DEF Has
      <3>3. QED
        BY <2>2, <2>3, <2>4, <3>1, <3>2
    <2>5. CASE part # "str"
      <3>1. part \in ParamKeys(p) <=> Has(p, part)
        BY <2>5 DEF ParamKeys
      <3>2. QED
        BY <2>2, <2>3, <3>1
    <2>6. QED
      BY <2>4, <2>5
  <1>5. "deref" \in fixed.bits <=> "deref" \in DOMAIN o
    <2>1. DOMAIN o = ParamKeys(p)
      BY JsonParamIs
    <2>2. "deref" \in ParamKeys(p) <=> Has(p, "deref")
      BY ONLY DEF ParamKeys
    <2>3. "deref" \in Bits(p) <=> Has(p, "deref")
      BY BitIs DEF PartNames
    <2>4. QED
      BY <1>1, <2>1, <2>2, <2>3
  <1>6. "deref" \in fixed.bits => UnitOf(start, "deref").value = o["deref"]
    <2>1. "deref" \in Optionals(p) => UnitOf(start, "deref").value = p.deref
      BY PartIsRead, DataIs
    <2>2. "deref" \in DOMAIN o => o["deref"] = p.deref
      BY JsonParamIs DEF Marks
    <2>3. "deref" \in Bits(p) <=> "deref" \in Optionals(p)
      BY BitIs DEF PartNames
    <2>4. QED
      BY <1>1, <1>5, <2>1, <2>2, <2>3
  <1>7. ASSUME "bytes" \in fixed.bits
        PROVE  /\ UnitOf(start, "bytes").value > UnitOf(start, "bytes").len
                    <=> "bytes_total" \in DOMAIN o
               /\ "bytes_total" \in DOMAIN o =>
                    UnitOf(start, "bytes").value = o["bytes_total"]
    <2>1. "bytes" \in Optionals(p) /\ p.bytes # <<>> /\ Data(p, "bytes") = p.bytes
      <3>1. "bytes" \in PartNames
        BY DEF PartNames
      <3>2. Has(p, "bytes") /\ "bytes" \in Optionals(p)
        BY <1>1, <1>7, <3>1, BitIs
      <3>3. QED
        BY <3>2 DEF Has, Data
    <2>2. /\ UnitOf(start, "bytes").value = PartValue(p, "bytes")
          /\ UnitOf(start, "bytes").len = Len(p.bytes)
      BY <2>1, PartIsRead
    <2>3. PartValue(p, "bytes") = IF p.bytes_capped THEN p.bytes_total ELSE Len(p.bytes)
      BY DEF PartValue
    <2>4. "bytes_total" \in DOMAIN o <=> p.bytes_capped
      <3>1. DOMAIN o = ParamKeys(p)
        BY JsonParamIs
      <3>2. "bytes_total" \in ParamKeys(p) <=> p.bytes # <<>> /\ p.bytes_capped
        BY ONLY DEF ParamKeys
      <3>3. QED
        BY <2>1, <3>1, <3>2
    <2>5. "bytes_total" \in DOMAIN o => o["bytes_total"] = p.bytes_total
      BY JsonParamIs DEF Marks
    <2>6. Len(p.bytes) \in Nat /\ p.bytes_total \in Nat
      <3>1. p.bytes \in Text /\ p.bytes_total \in Nat
        BY DEF Param
      <3>2. QED
        BY <3>1, LenProperties DEF Text
    <2>7. QED
      BY <2>2, <2>3, <2>4, <2>5, <2>6
  <1>8. SameParam(start, o)
    BY <1>2, <1>4, <1>5, <1>6, <1>7, <1>11 DEF SameParam
  <1>9. SameArg(start, JsonArg(p))
    <2>1. "str" \in fixed.bits <=> p.has_str /\ p.str # <<>>
      <3>1. "str" \in PartNames
        BY DEF PartNames
      <3>2. "str" \in Bits(p) <=> Has(p, "str")
        BY ONLY <3>1, BitIs, p \in Param
      <3>3. Has(p, "str") <=> p.has_str /\ p.str # <<>>
        BY DEF Has
      <3>4. QED
        BY <1>1, <3>2, <3>3
    <2>2. "str" \in fixed.bits => BinTold(start, "str") = p.str
      BY <1>4, <2>1 DEF Has
    <2>3. QED
      BY <1>1, <2>1, <2>2 DEF SameArg, JsonArg
  <1>10. QED
    BY <1>8, <1>9

(* As long as no region outgrows its offsets, whoever follows those of the *)
(* binary report learns of every call what the JSON report says, which     *)
(* other code wrote from the same records (utils.cpp:246-317,              *)
(* binreport.cpp:199-305): but for a parameter's float, which is in the    *)
(* JSON report only, and for a thread or position beyond 32 bits.          *)
THEOREM BothReportsAgree == Spec => []ReportsAgree
  <1>1. ASSUME BinInv PROVE ReportsAgree
    <2> SUFFICES ASSUME Fits, NEW i \in DOMAIN calls
                 PROVE  /\ Document[i]["module"] = strings[calls[i].module + 1]
                        /\ Document[i]["api"] = strings[calls[i].api + 1]
                        /\ Document[i]["ret"] = calls[i].ret
                        /\ Document[i]["return_address"] = calls[i].return_address
                        /\ Stands(calls[i].tid, Document[i]["tid"])
                        /\ Stands(calls[i].sequence, Document[i]["position"].sequence)
                        /\ Stands(calls[i].steps, Document[i]["position"].steps)
                        /\ calls[i].decoded <=> "params" \in DOMAIN Document[i]
                        /\ calls[i].count = Len(Document[i]["args"])
                        /\ \A k \in 1..calls[i].count :
                             IF calls[i].decoded
                               THEN SameParam(Starts(i)[k], Document[i]["params"][k])
                               ELSE SameArg(Starts(i)[k], Document[i]["args"][k])
      BY DEF ReportsAgree
    <2> DEFINE r == report[i]
               c == calls[i]
               n == Len(r.params)
    <2>1. blob \in Text /\ InOrder
      BY <1>1 DEF BinInv, TypeOK
    <2>2. /\ i \in DOMAIN report /\ DOMAIN r.params = 1..n
          /\ Named(strings, c.module, r.module) /\ Named(strings, c.api, r.api)
          /\ Begun(blob, c, r) /\ Stamped(c, r)
          /\ r \in CallRecord /\ c \in BinCall
          /\ \A k \in 1..n : /\ r.params[k] \in Param
                             /\ Written(strings, params, blob, Starts(i)[k], r.params[k])
      BY <1>1, StartsFound
    <2>3. n \in Nat
      <3>1. r.params \in Seq(Param)
        BY <2>2 DEF CallRecord
      <3>2. QED
        BY <3>1, LenProperties
    <2>4. Document[i] = JsonCall(r)
      BY <2>2 DEF Document
    <2>5. /\ c.ret = (IF r.has_ret THEN r.ret ELSE 0)
          /\ c.decoded = r.metadata /\ c.count = n
          /\ strings[c.module + 1] = r.module /\ strings[c.api + 1] = r.api
      BY <2>2 DEF Begun, Named
    <2>13. /\ Stands(c.tid, r.tid) /\ Stands(c.sequence, r.position.sequence)
           /\ Stands(c.steps, r.position.steps) /\ c.return_address = r.return_address
      BY <2>2, StampedStands
    <2>6. r.metadata \in BOOLEAN
      BY <2>2 DEF CallRecord
    <2>7. ASSUME NEW k \in 1..n
          PROVE  /\ SameParam(Starts(i)[k], JsonParam(r.params[k]))
                 /\ SameArg(Starts(i)[k], JsonArg(r.params[k]))
      <3>1. r.params[k].bytes_capped => r.params[k].bytes_total > Len(r.params[k].bytes)
        BY <2>1, <2>2, ReportAssumption, Zenon DEF InOrder
      <3>2. QED
        BY <2>1, <2>2, <3>1, SameParamIsTold
    <2> HIDE DEF n, r, c
    <2>8. /\ JsonCall(r)["module"] = r.module /\ JsonCall(r)["api"] = r.api
          /\ JsonCall(r)["ret"] = (IF r.has_ret THEN r.ret ELSE 0)
          /\ JsonCall(r)["tid"] = r.tid /\ JsonCall(r)["position"] = r.position
          /\ JsonCall(r)["return_address"] = r.return_address
          /\ "params" \in DOMAIN JsonCall(r) <=> r.metadata = TRUE
          /\ Len(JsonCall(r)["args"]) = n
          /\ \A k \in 1..n : JsonCall(r)["args"][k] = JsonArg(r.params[k])
          /\ r.metadata = TRUE =>
               \A k \in 1..n : JsonCall(r)["params"][k] = JsonParam(r.params[k])
      BY <2>2, <2>3, JsonCallIs
    <2>9. /\ Document[i]["module"] = strings[c.module + 1]
          /\ Document[i]["api"] = strings[c.api + 1]
          /\ Document[i]["ret"] = c.ret
          /\ c.count = Len(Document[i]["args"])
      BY <2>4, <2>5, <2>8
    <2>14. /\ Document[i]["return_address"] = c.return_address
           /\ Stands(c.tid, Document[i]["tid"])
           /\ Stands(c.sequence, Document[i]["position"].sequence)
           /\ Stands(c.steps, Document[i]["position"].steps)
      BY <2>4, <2>8, <2>13
    <2>10. c.decoded <=> "params" \in DOMAIN Document[i]
      BY <2>4, <2>5, <2>6, <2>8
    <2>11. ASSUME NEW k \in 1..c.count
           PROVE  IF c.decoded THEN SameParam(Starts(i)[k], Document[i]["params"][k])
                  ELSE SameArg(Starts(i)[k], Document[i]["args"][k])
      <3>1. k \in 1..n
        BY <2>5
      <3>2. CASE c.decoded
        BY <2>4, <2>5, <2>6, <2>7, <2>8, <3>1, <3>2
      <3>3. CASE ~c.decoded
        BY <2>4, <2>7, <2>8, <3>1, <3>3
      <3>4. QED
        BY <3>2, <3>3
    <2>12. QED
      BY <2>9, <2>10, <2>11, <2>14 DEF c
  <1>2. QED
    BY <1>1, BinInductive, PTL
=============================================================================
