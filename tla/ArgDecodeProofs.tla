-------------------------- MODULE ArgDecodeProofs --------------------------
(***************************************************************************)
(* What the argument decoder guarantees for every signature, every value   *)
(* the guest passes and everything the callee may leave in memory.         *)
(***************************************************************************)
EXTENDS ArgDecode, Induction

Memory == [DOMAIN Contents -> Cell]

(* A prefix of a run of bytes.                                             *)
LEMMA PrefixFacts ==
  ASSUME NEW S, NEW s \in Seq(S), NEW n \in Nat, n <= Len(s)
  PROVE  /\ SubSeq(s, 1, n) \in Seq(S)
         /\ Len(SubSeq(s, 1, n)) = n
         /\ \A i \in 1..n : SubSeq(s, 1, n)[i] = s[i]
         /\ IsPrefix(SubSeq(s, 1, n), s)
  <1>1. \A i \in 1..n : s[i] \in S
    BY ElementOfSeq, LenProperties
  <1>2. /\ SubSeq(s, 1, n) \in Seq(S)
        /\ Len(SubSeq(s, 1, n)) = n
        /\ \A i \in 1..n : SubSeq(s, 1, n)[i] = s[i]
    BY <1>1, SubSeqProperties
  <1>3. SubSeq(SubSeq(s, 1, n), 1, n) = SubSeq(s, 1, n)
    BY <1>2, SubSeqFull
  <1>4. QED
    BY <1>2, <1>3, LenProperties DEF IsPrefix

(* PrefixFacts of prefixes of the same run.                                   *)
LEMMA PrefixOfPrefix ==
  ASSUME NEW S, NEW s \in Seq(S), NEW m \in Nat, NEW n \in Nat, m <= n, n <= Len(s)
  PROVE  SubSeq(SubSeq(s, 1, n), 1, m) = SubSeq(s, 1, m)
  <1>1. /\ SubSeq(s, 1, n) \in Seq(S) /\ Len(SubSeq(s, 1, n)) = n
        /\ \A i \in 1..n : SubSeq(s, 1, n)[i] = s[i]
        /\ SubSeq(s, 1, m) \in Seq(S) /\ Len(SubSeq(s, 1, m)) = m
        /\ \A i \in 1..m : SubSeq(s, 1, m)[i] = s[i]
    BY PrefixFacts, LenProperties
  <1>2. /\ SubSeq(SubSeq(s, 1, n), 1, m) \in Seq(S)
        /\ Len(SubSeq(SubSeq(s, 1, n), 1, m)) = m
        /\ \A i \in 1..m : SubSeq(SubSeq(s, 1, n), 1, m)[i] = SubSeq(s, 1, n)[i]
    BY <1>1, PrefixFacts
  <1>3. \A i \in 1..m : SubSeq(SubSeq(s, 1, n), 1, m)[i] = SubSeq(s, 1, m)[i]
    BY <1>1, <1>2
  <1>4. QED
    BY <1>1, <1>2, <1>3, SeqEqual

(* What a query returns: the cell's bytes, as many as were asked for.      *)
LEMMA QueryIsPrefix ==
  ASSUME memory \in Memory, NEW a \in Nat, NEW n \in Nat
  PROVE  /\ Query(a, n) \in Seq(Byte)
         /\ Len(Query(a, n)) <= n
         /\ a \in DOMAIN memory =>
              /\ Query(a, n) = SubSeq(memory[a].bytes, 1, Len(Query(a, n)))
              /\ Len(Query(a, n)) = IF n <= Len(memory[a].bytes) THEN n
                                    ELSE Len(memory[a].bytes)
              /\ IsPrefix(Query(a, n), memory[a].bytes)
         /\ Query(a, n) # <<>> => a \in DOMAIN memory
  <1>1. CASE a \notin DOMAIN memory
    BY <1>1, EmptySeq DEF Query
  <1>2. CASE a \in DOMAIN memory
    <2> DEFINE bytes == memory[a].bytes
               k == IF n <= Len(bytes) THEN n ELSE Len(bytes)
    <2>1. bytes \in Seq(Byte) /\ Len(bytes) \in Nat
      BY <1>2, LenProperties DEF Memory, Cell
    <2>2. Min({n, Len(bytes)}) = k
      BY <2>1, MinOfTwo
    <2>3. Query(a, n) = SubSeq(bytes, 1, k)
      BY <1>2, <2>2 DEF Query
    <2>4. k \in Nat /\ k <= Len(bytes) /\ k <= n
      BY <2>1
    <2>5. QED
      BY <1>2, <2>1, <2>3, <2>4, PrefixFacts
  <1>3. QED
    BY <1>1, <1>2

(* A word can be read where memory has enough bytes for one.               *)
LEMMA WordReadableIs ==
  ASSUME memory \in Memory, NEW a \in Nat
  PROVE  WordReadable(a) <=>
           a >= MinDeref /\ a \in DOMAIN memory /\ Len(memory[a].bytes) >= WordSize
  <1>0. WordSize \in Nat /\ WordSize > 0
    BY DecodeAssumption
  <1>1. CASE a \notin DOMAIN memory
    <2>1. Len(Query(a, WordSize)) = 0
      BY <1>1, EmptySeq DEF Query
    <2>2. QED
      BY <1>0, <1>1, <2>1 DEF WordReadable
  <1>2. CASE a \in DOMAIN memory
    <2>1. memory[a].bytes \in Seq(Byte) /\ Len(memory[a].bytes) \in Nat
      BY <1>2, LenProperties DEF Memory, Cell
    <2>2. Len(Query(a, WordSize)) =
            IF WordSize <= Len(memory[a].bytes) THEN WordSize ELSE Len(memory[a].bytes)
      BY <1>0, <1>2, QueryIsPrefix
    <2>3. Len(Query(a, WordSize)) = WordSize <=> Len(memory[a].bytes) >= WordSize
      BY <1>0, <2>1, <2>2
    <2>4. QED
      BY <1>2, <2>3 DEF WordReadable
  <1>3. QED
    BY <1>1, <1>2

(* The end of a text within the bytes that were read.                      *)
LEMMA TerminatorEndFacts ==
  ASSUME NEW bytes \in Seq(Byte), NEW w \in {1, 2}
  PROVE  /\ TerminatorEnd(bytes, w) \in 0..Len(bytes)
         /\ Terminators(bytes, w) = {} => TerminatorEnd(bytes, w) = Len(bytes)
         /\ Terminators(bytes, w) # {} =>
              Terminators(SubSeq(bytes, 1, TerminatorEnd(bytes, w)), w) # {}
         /\ bytes # <<>> => TerminatorEnd(bytes, w) > 0
  <1> DEFINE T == Terminators(bytes, w)
             end == TerminatorEnd(bytes, w)
  <1>0. Len(bytes) \in Nat /\ (bytes # <<>> => Len(bytes) > 0)
    BY LenProperties, EmptySeq
  <1>1. CASE T = {}
    BY <1>0, <1>1 DEF TerminatorEnd
  <1>2. CASE T # {}
    <2>1. T \subseteq Nat
      BY DEF Terminators
    <2>2. Min(T) \in T
      BY <1>2, <2>1, MinIsLeast
    <2>3. /\ Min(T) \in 1..(Len(bytes) \div w)
          /\ \A k \in 1..w : bytes[(Min(T) - 1) * w + k] = "nul"
      BY <2>2 DEF Terminators
    <2>4. end = w * Min(T)
      BY <1>2 DEF TerminatorEnd
    <2> HIDE DEF end
    <2> DEFINE m == Min(T)
    <2>5. m \in Nat \ {0} /\ m <= Len(bytes) \div w
      BY <2>3
    <2> HIDE DEF m, T
    <2>6. end \in 1..Len(bytes) /\ end \div w = m
      <3>1. CASE w = 1
        BY <1>0, <2>4, <2>5, <3>1 DEF m
      <3>2. CASE w = 2
        BY <1>0, <2>4, <2>5, <3>2 DEF m
      <3>3. QED
        BY <3>1, <3>2
    <2>7. /\ Len(SubSeq(bytes, 1, end)) = end
          /\ \A i \in 1..end : SubSeq(bytes, 1, end)[i] = bytes[i]
      BY <1>0, <2>6, PrefixFacts
    <2>8. \A k \in 1..w : (m - 1) * w + k \in 1..end
      <3>1. CASE w = 1
        BY <2>4, <2>5, <3>1 DEF m
      <3>2. CASE w = 2
        BY <2>4, <2>5, <3>2 DEF m
      <3>3. QED
        BY <3>1, <3>2
    <2>9. \A k \in 1..w : SubSeq(bytes, 1, end)[(m - 1) * w + k] = "nul"
      BY <2>3, <2>7, <2>8 DEF m
    <2>10. m \in Terminators(SubSeq(bytes, 1, end), w)
      <3>1. m \in 1..(Len(SubSeq(bytes, 1, end)) \div w)
        BY <2>5, <2>6, <2>7
      <3>2. QED
        BY <2>9, <3>1, Zenon DEF Terminators
    <2>11. QED
      BY <1>2, <2>6, <2>10 DEF end, T
  <1>3. QED
    BY <1>1, <1>2

(* A text is the bytes up to some place before that end.                   *)
LEMMA TextIsPrefix ==
  ASSUME NEW bytes \in Seq(Byte), NEW w \in {1, 2}
  PROVE  \E n \in Nat : n <= TerminatorEnd(bytes, w) /\ Text(bytes, w) = SubSeq(bytes, 1, n)
  <1>0. Len(bytes) \in Nat
    BY LenProperties
  <1>1. CASE Terminators(bytes, w) = {}
    <2> DEFINE n == w * (Len(bytes) \div w)
    <2>1. n \in Nat /\ n <= Len(bytes)
      <3>1. CASE w = 1
        BY <1>0, <3>1
      <3>2. CASE w = 2
        BY <1>0, <3>2
      <3>3. QED
        BY <3>1, <3>2
    <2>2. TerminatorEnd(bytes, w) = Len(bytes) /\ Text(bytes, w) = SubSeq(bytes, 1, n)
      BY <1>1 DEF TerminatorEnd, Text
    <2>3. QED
      BY <2>1, <2>2
  <1>2. CASE Terminators(bytes, w) # {}
    <2> DEFINE m == Min(Terminators(bytes, w))
    <2>1. m \in Nat \ {0}
      <3>1. Terminators(bytes, w) \subseteq Nat \ {0}
        BY DEF Terminators
      <3>2. QED
        BY <1>2, <3>1, MinIsLeast
    <2>2. TerminatorEnd(bytes, w) = w * m /\ Text(bytes, w) = SubSeq(bytes, 1, w * (m - 1))
      BY <1>2 DEF TerminatorEnd, Text
    <2> HIDE DEF m
    <2>3. w * (m - 1) \in Nat /\ w * (m - 1) <= w * m
      <3>1. CASE w = 1
        BY <2>1, <3>1
      <3>2. CASE w = 2
        BY <2>1, <3>2
      <3>3. QED
        BY <3>1, <3>2
    <2>4. QED
      BY <2>2, <2>3
  <1>3. QED
    BY <1>1, <1>2

LEMMA TextType ==
  ASSUME NEW bytes \in Seq(Byte), NEW w \in {1, 2}
  PROVE  Text(bytes, w) \in Seq(Byte)
  <1>1. PICK n \in Nat : n <= TerminatorEnd(bytes, w) /\ Text(bytes, w) = SubSeq(bytes, 1, n)
    BY TextIsPrefix
  <1>2. n <= Len(bytes)
    BY <1>1, TerminatorEndFacts, LenProperties
  <1>3. QED
    BY <1>1, <1>2, PrefixFacts

(* What a capture of a buffer has to do with memory and the span asked for.*)
CaptureOf(c, kind, ptr, count) ==
  /\ Len(c.bytes) <= MaxBuffer
  /\ c.bytes # <<>> =>
       /\ ptr \in DOMAIN memory
       /\ IsPrefix(c.bytes, memory[ptr].bytes)
       /\ Len(c.bytes) <= count
       /\ c.bytes_total = count
       /\ ~c.bytes_capped =>
            \/ Len(c.bytes) = count
            \/ Len(c.bytes) = Len(memory[ptr].bytes)
            \/ kind # "byte buffer" /\ Terminators(c.bytes, CharWidth(kind)) # {}
  /\ c.has_str => c.bytes # <<>> /\ IsPrefix(c.str, c.bytes)

(* The fields a capture sets, and the ones it leaves alone.                *)
WithBuffer(arg, b, t, capped, s, has) ==
  [arg EXCEPT !.bytes = b, !.bytes_total = t, !.bytes_capped = capped,
              !.str = s, !.has_str = has]

LEMMA WithBufferFacts ==
  ASSUME NEW arg \in DecodedArg, NEW b \in Seq(Byte), NEW t \in Nat, NEW capped \in BOOLEAN,
         NEW s \in Seq(Byte), NEW has \in BOOLEAN,
         NEW c, c = WithBuffer(arg, b, t, capped, s, has)
  PROVE  /\ c \in DecodedArg
         /\ c.raw = arg.raw /\ c.has_deref = arg.has_deref /\ c.deref = arg.deref
         /\ c.from_return = arg.from_return
         /\ c.bytes = b /\ c.bytes_total = t /\ c.bytes_capped = capped
         /\ c.str = s /\ c.has_str = has
  BY DEF WithBuffer, DecodedArg

LEMMA PrefixTransitive ==
  ASSUME NEW S, NEW s \in Seq(S), NEW n \in Nat, n <= Len(s), NEW m \in Nat, m <= n
  PROVE  IsPrefix(SubSeq(SubSeq(s, 1, n), 1, m), s)
  <1>1. SubSeq(SubSeq(s, 1, n), 1, m) = SubSeq(s, 1, m)
    BY PrefixOfPrefix
  <1>2. m <= Len(s)
    BY LenProperties
  <1>3. QED
    BY <1>1, <1>2, PrefixFacts

CaptureFits(kind, ptr, count, b, capped, s, has) ==
  /\ Len(b) <= count /\ Len(b) <= MaxBuffer
  /\ b # <<>> =>
       /\ ptr \in DOMAIN memory
       /\ IsPrefix(b, memory[ptr].bytes)
       /\ ~capped =>
            \/ Len(b) = count
            \/ Len(b) = Len(memory[ptr].bytes)
            \/ kind # "byte buffer" /\ Terminators(b, CharWidth(kind)) # {}
  /\ has => b # <<>> /\ IsPrefix(s, b)

(* Either nothing could be read, or the bytes and the text of the capture  *)
(* are prefixes of what was.                                               *)
LEMMA CapturedIs ==
  ASSUME memory \in Memory, NEW kind \in BufferKinds, NEW ptr \in Nat, NEW count \in Nat,
         NEW arg \in DecodedArg, arg.bytes = <<>>, ~arg.has_str
  PROVE  \/ Captured(kind, ptr, count, arg) = arg
         \/ \E b \in Seq(Byte), capped \in BOOLEAN, s \in Seq(Byte), has \in BOOLEAN :
              /\ Captured(kind, ptr, count, arg) = WithBuffer(arg, b, count, capped, s, has)
              /\ CaptureFits(kind, ptr, count, b, capped, s, has)
  <1> DEFINE want == Min({count, MaxBuffer})
             got == Query(ptr, want)
             w == CharWidth(kind)
             end == TerminatorEnd(got, w)
             text == Text(got, w)
             sized == [arg EXCEPT !.bytes_total = count, !.bytes_capped = want < count]
             all == memory[ptr].bytes
             cut == want < count
  <1>0. MaxBuffer \in Nat /\ w \in {1, 2}
    BY DecodeAssumption DEF CharWidth
  <1>1. /\ want \in Nat /\ want <= count /\ want <= MaxBuffer
        /\ ~(want < count) => want = count
    BY <1>0, MinOfTwo
  <1>2. CASE ptr < MinDeref \/ count = 0
    BY <1>2 DEF Captured
  <1>3. CASE ~(ptr < MinDeref \/ count = 0)
    <2>1. /\ got \in Seq(Byte) /\ Len(got) \in Nat /\ Len(got) <= want
          /\ got # <<>> => ptr \in DOMAIN memory
      BY <1>1, QueryIsPrefix, LenProperties
    <2>2. got # <<>> => /\ all \in Seq(Byte) /\ Len(all) \in Nat /\ Len(got) <= Len(all)
                        /\ got = SubSeq(all, 1, Len(got))
                        /\ Len(got) < want => Len(got) = Len(all)
                        /\ IsPrefix(got, all)
      <3> SUFFICES ASSUME got # <<>> PROVE
                        /\ all \in Seq(Byte) /\ Len(all) \in Nat /\ Len(got) <= Len(all)
                        /\ got = SubSeq(all, 1, Len(got))
                        /\ Len(got) < want => Len(got) = Len(all)
                        /\ IsPrefix(got, all)
        OBVIOUS
      <3>1. ptr \in DOMAIN memory
        BY <2>1
      <3>2. all \in Seq(Byte) /\ Len(all) \in Nat
        BY <3>1, LenProperties DEF Memory, Cell
      <3>3. /\ got = SubSeq(all, 1, Len(got))
            /\ Len(got) = IF want <= Len(all) THEN want ELSE Len(all)
            /\ IsPrefix(got, all)
        BY <1>1, <3>1, QueryIsPrefix
      <3> HIDE DEF got, want, all
      <3>4. QED
        BY <1>1, <3>2, <3>3
    <2>3. CASE got = <<>>
      <3>1. Captured(kind, ptr, count, arg) = sized
        BY <1>3, <2>3 DEF Captured
      <3>2. sized = WithBuffer(arg, <<>>, count, want < count, arg.str, FALSE)
        BY DEF WithBuffer, DecodedArg
      <3>3. <<>> \in Seq(Byte) /\ Len(<<>>) = 0 /\ arg.str \in Seq(Byte)
        BY DEF DecodedArg
      <3>4. cut \in BOOLEAN
        OBVIOUS
      <3>5. Captured(kind, ptr, count, arg) = WithBuffer(arg, <<>>, count, cut, arg.str, FALSE)
        BY <3>1, <3>2
      <3> HIDE DEF cut
      <3>6. 0 <= count /\ 0 <= MaxBuffer
        BY <1>0
      <3>7. QED
        BY <3>3, <3>4, <3>5, <3>6 DEF CaptureFits
    <2>4. CASE got # <<>> /\ kind = "byte buffer"
      <3>1. Captured(kind, ptr, count, arg) = [sized EXCEPT !.bytes = got]
        BY <1>3, <2>4 DEF Captured
      <3>2. [sized EXCEPT !.bytes = got] = WithBuffer(arg, got, count, want < count, arg.str, FALSE)
        BY DEF WithBuffer, DecodedArg
      <3>3. arg.str \in Seq(Byte)
        BY DEF DecodedArg
      <3> HIDE DEF sized, want, got, all
      <3>4. Captured(kind, ptr, count, arg) = WithBuffer(arg, got, count, cut, arg.str, FALSE)
        BY <3>1, <3>2
      <3>5. /\ Len(got) <= count /\ Len(got) <= MaxBuffer
            /\ ~cut => Len(got) = count \/ Len(got) = Len(all)
        <4>1. Len(all) \in Nat /\ (Len(got) < want => Len(got) = Len(all))
          BY <2>2, <2>4, Zenon
        <4>2. Len(got) \in Nat /\ Len(got) <= want
          BY <2>1, Zenon
        <4>3. QED
          BY <1>0, <1>1, <4>1, <4>2
      <3>6. ptr \in DOMAIN memory /\ IsPrefix(got, all)
        BY <2>1, <2>2, <2>4
      <3>7. cut \in BOOLEAN
        OBVIOUS
      <3> HIDE DEF cut
      <3>8. QED
        BY <2>1, <2>4, <3>3, <3>4, <3>5, <3>6, <3>7 DEF all, CaptureFits
    <2>5. CASE got # <<>> /\ kind # "byte buffer"
      <3> DEFINE b == SubSeq(got, 1, end)
                 capped == want < count /\ end = Len(got)
      <3>1. Captured(kind, ptr, count, arg) =
              [sized EXCEPT !.bytes = b, !.bytes_capped = @ /\ end = Len(got),
                            !.str = text, !.has_str = text # <<>>]
        BY <1>3, <2>5 DEF Captured
      <3>2. [sized EXCEPT !.bytes = b, !.bytes_capped = @ /\ end = Len(got),
                          !.str = text, !.has_str = text # <<>>]
              = WithBuffer(arg, b, count, capped, text, text # <<>>)
        BY DEF WithBuffer, DecodedArg
      <3>3. /\ end \in 0..Len(got) /\ end > 0
            /\ Terminators(got, w) = {} => end = Len(got)
            /\ Terminators(got, w) # {} => Terminators(b, w) # {}
        BY <1>0, <2>1, <2>5, TerminatorEndFacts
      <3>4. PICK n \in Nat : n <= end /\ text = SubSeq(got, 1, n)
        BY <1>0, <2>1, TextIsPrefix
      <3> HIDE DEF sized, want, got, end, text, w, all
      <3>5. b \in Seq(Byte) /\ Len(b) = end /\ text \in Seq(Byte)
        BY <2>1, <3>3, <3>4, PrefixFacts
      <3>6. IsPrefix(text, b)
        <4>1. SubSeq(b, 1, n) = text
          BY <2>1, <3>3, <3>4, PrefixOfPrefix
        <4>2. QED
          BY <3>3, <3>4, <3>5, <4>1, PrefixFacts
      <3>7. IsPrefix(b, all)
        <4>1. IsPrefix(SubSeq(SubSeq(all, 1, Len(got)), 1, end), all)
          <5>1. all \in Seq(Byte) /\ Len(got) \in Nat /\ Len(got) <= Len(all)
            BY <2>1, <2>2, <2>5, Zenon
          <5>2. end \in Nat /\ end <= Len(got)
            BY <2>1, <3>3
          <5>3. QED
            BY <5>1, <5>2, PrefixTransitive
        <4>2. QED
          BY <2>2, <2>5, <4>1
      <3>8. b # <<>>
        BY <3>3, <3>5, EmptySeq
      <3>9. ~capped => \/ Len(b) = count
                       \/ Len(b) = Len(all)
                       \/ Terminators(b, w) # {}
        <4>1. Len(all) \in Nat /\ (Len(got) < want => Len(got) = Len(all))
          BY <2>2, <2>5, Zenon
        <4>2. Len(got) \in Nat /\ Len(got) <= want
          BY <2>1, Zenon
        <4>3. Terminators(b, w) = {} => end = Len(got)
          BY <3>3, Zenon
        <4>4. Len(b) = end
          BY <3>5, Zenon
        <4>5. QED
          BY <1>1, <4>1, <4>2, <4>3, <4>4
      <3>10. Len(b) <= count /\ Len(b) <= MaxBuffer
        BY <1>0, <1>1, <2>1, <3>3, <3>5
      <3>11. capped \in BOOLEAN /\ (text # <<>>) \in BOOLEAN
        OBVIOUS
      <3>12. Captured(kind, ptr, count, arg) = WithBuffer(arg, b, count, capped, text, text # <<>>)
        BY <3>1, <3>2
      <3>13. ptr \in DOMAIN memory
        BY <2>1, <2>5
      <3> HIDE DEF b, capped
      <3>14. QED
        BY <2>5, <3>5, <3>6, <3>7, <3>8, <3>9, <3>10, <3>11, <3>12, <3>13 DEF all, w, CaptureFits
    <2>6. QED
      BY <2>3, <2>4, <2>5
  <1>4. QED
    BY <1>2, <1>3

LEMMA CapturedFacts ==
  ASSUME memory \in Memory, NEW kind \in BufferKinds, NEW ptr \in Nat, NEW count \in Nat,
         NEW arg \in DecodedArg, arg.bytes = <<>>, ~arg.has_str,
         NEW c, c = Captured(kind, ptr, count, arg)
  PROVE  /\ c \in DecodedArg
         /\ c.raw = arg.raw /\ c.has_deref = arg.has_deref /\ c.deref = arg.deref
         /\ c.from_return = arg.from_return
         /\ CaptureOf(c, kind, ptr, count)
  <1>0. MaxBuffer \in Nat
    BY DecodeAssumption
  <1>1. CASE c = arg
    <2>1. c.bytes = <<>> /\ ~c.has_str
      BY <1>1
    <2>2. Len(c.bytes) <= MaxBuffer
      BY <1>0, <2>1, EmptySeq
    <2>3. CaptureOf(c, kind, ptr, count)
      BY <2>1, <2>2, Zenon DEF CaptureOf, CaptureFits
    <2>4. QED
      BY <1>1, <2>3
  <1>2. CASE c # arg
    <2>1. PICK b \in Seq(Byte), capped \in BOOLEAN, s \in Seq(Byte), has \in BOOLEAN :
              /\ c = WithBuffer(arg, b, count, capped, s, has)
              /\ CaptureFits(kind, ptr, count, b, capped, s, has)
      BY <1>2, CapturedIs
    <2>2. /\ c \in DecodedArg
          /\ c.raw = arg.raw /\ c.has_deref = arg.has_deref /\ c.deref = arg.deref
          /\ c.from_return = arg.from_return
          /\ c.bytes = b /\ c.bytes_total = count /\ c.bytes_capped = capped
          /\ c.str = s /\ c.has_str = has
      BY <2>1, WithBufferFacts
    <2>3. CaptureOf(c, kind, ptr, count)
      BY <2>1, <2>2, Zenon DEF CaptureOf, CaptureFits
    <2>4. QED
      BY <2>2, <2>3
  <1>3. QED
    BY <1>1, <1>2
(* What the decoder reads as text.                                         *)
LEMMA TextAtType ==
  ASSUME memory \in Memory, NEW a \in Nat
  PROVE  TextAt(a) \in Seq(Byte)
  <1>1. Query(a, MaxString) \in Seq(Byte)
    BY DecodeAssumption, QueryIsPrefix
  <1>2. QED
    BY <1>1, TextType DEF TextAt

(* Arguments that differ in their text at most.                            *)
SameButText(d, e) ==
  /\ d.raw = e.raw /\ d.deref = e.deref /\ d.has_deref = e.has_deref
  /\ d.bytes = e.bytes /\ d.bytes_total = e.bytes_total
  /\ d.bytes_capped = e.bytes_capped /\ d.from_return = e.from_return

(* Looking for text behind an untyped value finds text or changes nothing. *)
LEMMA WithUntypedStringFacts ==
  ASSUME memory \in Memory, NEW kind, NEW arg \in DecodedArg,
         NEW d, d = WithUntypedString(kind, arg)
  PROVE  /\ d \in DecodedArg
         /\ SameButText(d, arg)
         /\ kind \notin {"opaque", "integer pointer"} => d = arg
  <1>1. arg.raw \in Nat /\ arg.deref \in Nat
    BY DEF DecodedArg
  <1>2. CASE d = arg
    BY <1>2 DEF SameButText
  <1>3. CASE d # arg
    <2>1. PICK t \in {TextAt(arg.raw), TextAt(arg.deref)} :
             d = [arg EXCEPT !.str = t, !.has_str = TRUE]
      BY <1>3 DEF WithUntypedString
    <2>2. t \in Seq(Byte)
      BY <1>1, <2>1, TextAtType
    <2>3. d \in DecodedArg /\ SameButText(d, arg)
      BY <2>1, <2>2 DEF DecodedArg, SameButText
    <2>4. kind \in {"opaque", "integer pointer"}
      BY <1>3 DEF WithUntypedString
    <2>5. QED
      BY <2>3, <2>4
  <1>4. QED
    BY <1>2, <1>3

(* Following a pointer that is not a buffer's.                             *)
LEMMA FollowedFacts ==
  ASSUME memory \in Memory, NEW kind \in Kinds, NeedsDeref(kind), kind \notin BufferKinds,
         NEW ptr \in Nat, NEW count, NEW arg \in DecodedArg, ~arg.has_deref,
         NEW c, c = Dereferenced(kind, ptr, count, arg)
  PROVE  /\ c \in DecodedArg
         /\ c.raw = arg.raw /\ c.bytes = arg.bytes /\ c.from_return = arg.from_return
         /\ c.has_deref <=> kind \in PointerKinds /\ WordReadable(ptr)
         /\ c.has_deref => ptr \in DOMAIN memory /\ c.deref = memory[ptr].word
  <1>1. CASE c = arg /\ (kind = "string" \/ ~WordReadable(ptr))
    BY <1>1 DEF PointerKinds
  <1>2. CASE kind = "string" /\ Readable(ptr)
    <2>1. c = [arg EXCEPT !.str = TextAt(ptr), !.has_str = TRUE]
      BY <1>2 DEF Dereferenced
    <2>2. TextAt(ptr) \in Seq(Byte)
      BY TextAtType
    <2>3. kind \notin PointerKinds
      BY <1>2 DEF PointerKinds
    <2>4. /\ c \in DecodedArg
          /\ c.raw = arg.raw /\ c.bytes = arg.bytes /\ c.from_return = arg.from_return
          /\ ~c.has_deref
      BY <2>1, <2>2 DEF DecodedArg
    <2>5. QED
      BY <2>3, <2>4
  <1>3. CASE kind # "string" /\ WordReadable(ptr)
    <2> DEFINE word == memory[ptr].word
               deref == [arg EXCEPT !.deref = word, !.has_deref = TRUE]
    <2>1. kind \in PointerKinds
      BY <1>3 DEF Kinds, NeedsDeref, PointerKinds
    <2>2. ptr \in DOMAIN memory /\ word \in Nat
      BY <1>3, WordReadableIs DEF Memory, Cell
    <2>3. /\ deref \in DecodedArg
          /\ deref.raw = arg.raw /\ deref.bytes = arg.bytes
          /\ deref.from_return = arg.from_return /\ deref.has_deref /\ deref.deref = word
      BY <2>2 DEF DecodedArg
    <2>4. c = deref \/ c = [deref EXCEPT !.str = TextAt(word), !.has_str = TRUE]
      BY <1>3 DEF Dereferenced
    <2>5. TextAt(word) \in Seq(Byte)
      BY <2>2, TextAtType
    <2> HIDE DEF word, deref
    <2>6. /\ c \in DecodedArg
          /\ c.raw = arg.raw /\ c.bytes = arg.bytes
          /\ c.from_return = arg.from_return /\ c.has_deref /\ c.deref = word
      BY <2>3, <2>4, <2>5 DEF DecodedArg
    <2>7. QED
      BY <1>3, <2>1, <2>2, <2>6 DEF word
  <1>4. kind # "string" /\ ~WordReadable(ptr) => c = arg
    BY DEF Dereferenced
  <1>5. kind = "string" /\ ~Readable(ptr) => c = arg
    BY DEF Dereferenced
  <1>6. QED
    BY <1>1, <1>2, <1>3, <1>4, <1>5

(* What decoding makes of an argument that holds its raw value only: a     *)
(* value if it is a pointer to one, bytes if it is a buffer.               *)
LEMMA DereferencedFacts ==
  ASSUME memory \in Memory, NEW kind \in Kinds, NeedsDeref(kind),
         NEW ptr \in Nat, NEW count \in Nat, NEW arg \in DecodedArg,
         ~arg.has_deref, arg.bytes = <<>>, ~arg.has_str,
         NEW d, d = WithUntypedString(kind, Dereferenced(kind, ptr, count, arg))
  PROVE  /\ d \in DecodedArg
         /\ d.raw = arg.raw /\ d.from_return = arg.from_return
         /\ d.has_deref <=> kind \in PointerKinds /\ WordReadable(ptr)
         /\ d.has_deref => ptr \in DOMAIN memory /\ d.deref = memory[ptr].word
         /\ kind \notin BufferKinds => d.bytes = <<>>
         /\ kind \in BufferKinds => CaptureOf(d, kind, ptr, count)
  <1> DEFINE c == Dereferenced(kind, ptr, count, arg)
  <1>1. CASE kind \in BufferKinds
    <2>1. c = Captured(kind, ptr, count, arg)
      BY <1>1 DEF Dereferenced
    <2>2. /\ c \in DecodedArg
          /\ c.raw = arg.raw /\ c.has_deref = arg.has_deref
          /\ c.from_return = arg.from_return
          /\ CaptureOf(c, kind, ptr, count)
      BY <1>1, <2>1, CapturedFacts
    <2>3. kind \notin {"opaque", "integer pointer"} /\ kind \notin PointerKinds
      BY <1>1 DEF BufferKinds, PointerKinds
    <2> HIDE DEF c
    <2>4. d = c
      BY <2>2, <2>3, WithUntypedStringFacts DEF c
    <2>5. QED
      BY <1>1, <2>2, <2>3, <2>4
  <1>2. CASE kind \notin BufferKinds
    <2>1. /\ c \in DecodedArg
          /\ c.raw = arg.raw /\ c.bytes = arg.bytes /\ c.from_return = arg.from_return
          /\ c.has_deref <=> kind \in PointerKinds /\ WordReadable(ptr)
          /\ c.has_deref => ptr \in DOMAIN memory /\ c.deref = memory[ptr].word
      BY <1>2, FollowedFacts
    <2> HIDE DEF c
    <2>2. d \in DecodedArg /\ SameButText(d, c)
      BY <2>1, WithUntypedStringFacts DEF c
    <2>3. QED
      BY <1>2, <2>1, <2>2 DEF SameButText
  <1>3. QED
    BY <1>1, <1>2

(* A span is a number, and depends on the values that were decoded only.   *)
LEMMA ByteCountFacts ==
  ASSUME NEW p \in ParamSig, NEW ps, NEW qs, DOMAIN ps = DOMAIN qs,
         \A j \in DOMAIN ps :
           /\ ps[j].raw \in Nat /\ ps[j].deref \in Nat
           /\ p.aux \in {"bytes", "count"} /\ p.value = j =>
                /\ ps[j].raw = qs[j].raw
                /\ ps[j].has_deref <=> qs[j].has_deref
                /\ ps[j].has_deref => ps[j].deref = qs[j].deref
  PROVE  ByteCount(p, ps) \in Nat /\ ByteCount(p, ps) = ByteCount(p, qs)
  <1> DEFINE Count(f) ==
        IF p.aux = "const" THEN p.value
        ELSE IF p.aux \in {"bytes", "count"} /\ p.value \in DOMAIN f
          THEN LET src == f[p.value] IN
               IF src.has_deref THEN src.deref ELSE src.raw
        ELSE 0
  <1>0. p.value \in Nat /\ p.size \in Nat /\ MaxCount \in Nat
    BY DecodeAssumption DEF ParamSig
  <1>1. Count(ps) \in Nat /\ Count(ps) = Count(qs)
    <2>1. CASE p.aux \in {"bytes", "count"} /\ p.value \in DOMAIN ps
      BY <2>1
    <2>2. CASE ~(p.aux \in {"bytes", "count"} /\ p.value \in DOMAIN ps)
      BY <1>0, <2>2
    <2>3. QED
      BY <2>1, <2>2
  <1>2. \A f : ByteCount(p, f) =
               IF Count(f) = 0 \/ Count(f) > MaxCount THEN 0
               ELSE IF p.aux = "bytes" \/ p.size = 0 THEN Count(f)
               ELSE Count(f) * p.size
    BY DEF ByteCount
  <1> HIDE DEF Count
  <1>3. ByteCount(p, ps) = ByteCount(p, qs)
    BY <1>1, <1>2
  <1>4. \A n \in Nat : n * p.size \in Nat
    BY <1>0
  <1>5. ByteCount(p, ps) \in Nat
    BY <1>1, <1>2, <1>4
  <1>6. QED
    BY <1>3, <1>5
----------------------------------------------------------------------------
(* While the callee has not run, memory is as it was.                      *)
AtCall == phase \in {"fetch", "entry", "running"}

(* Parameters correspond to the signature.                                 *)
ShapeInv ==
  /\ next >= 1
  /\ phase = "fetch" => params = <<>> /\ deferred = <<>> /\ next = 1
  /\ phase # "fetch" => DOMAIN params = DOMAIN sig
  /\ AtCall => memory = at_call

(* A postponed read is of a parameter the callee fills in, at the address  *)
(* that was passed for it.                                                 *)
PostponedInv ==
  \A k \in DOMAIN deferred :
    LET po == deferred[k] IN
    /\ po.index \in DOMAIN params
    /\ NeedsDeref(sig[po.index].kind)
    /\ po.ptr = params[po.index].raw

(* All of those are postponed, as far as the entry pass has come.          *)
AllPostponedInv ==
  \A i \in DOMAIN params :
    /\ phase = "entry" => i < next
    /\ NeedsDeref(sig[i].kind) /\ sig[i].out /\ params[i].raw >= MinDeref
    => \E k \in DOMAIN deferred : deferred[k].index = i

(* What the entry pass has not come to holds nothing but its raw value.    *)
UntouchedInv ==
  phase = "entry" => \A i \in DOMAIN params :
    i >= next => params[i] = [Fresh EXCEPT !.raw = params[i].raw]

(* Nothing comes from the return before it, and no buffer before the       *)
(* scalars are all in.                                                     *)
MomentInv ==
  \A i \in DOMAIN params :
    params[i].from_return => ~AtCall /\ (phase = "scalars" => ~IsBuffer(i))

(* What the entry pass knows of a value behind a pointer.                  *)
EntryInv ==
  phase = "entry" => \A i \in DOMAIN params :
    i < next =>
      /\ params[i].has_deref <=> KnownAtCall(i)
      /\ KnownAtCall(i) => params[i].deref = at_call[params[i].raw].word

(* A pointer that was postponed is followed again before any buffer is.    *)
FollowedInv ==
  \A k \in DOMAIN deferred :
    LET po == deferred[k] IN
    /\ ~AtCall
    /\ phase = "scalars" => k < next
    /\ sig[po.index].kind \in PointerKinds
    /\ WordReadable(po.ptr)
    => params[po.index].has_deref /\ params[po.index].deref = memory[po.ptr].word

(* The capacity kept for a buffer is what the caller offered.              *)
CapacityInv ==
  \A k \in DOMAIN deferred :
    LET i == deferred[k].index IN
    /\ IsBuffer(i)
    /\ Offered(i) # 0
    /\ CountBehindPointer(i) => sig[i].value < i
    => deferred[k].in_cap = Offered(i)

(* Where the bytes that were read end: with the span asked for, with what  *)
(* memory had, or with a terminator.                                       *)
Complete(kind, arg, cells) ==
  \/ Len(arg.bytes) = arg.bytes_total
  \/ Len(arg.bytes) = Len(cells[arg.raw].bytes)
  \/ kind # "byte buffer" /\ Terminators(arg.bytes, CharWidth(kind)) # {}

(* A value or bytes left to the callee to fill in are from the return.     *)
OutWordsInv ==
  \A i \in DOMAIN params :
    ~sig[i].in /\ (params[i].has_deref \/ params[i].bytes # <<>>) => params[i].from_return

(* A decoded argument is what its kind allows, and agrees with a memory.   *)
Agrees(kind, arg, cells) ==
  /\ arg.has_deref => /\ kind \in PointerKinds
                      /\ arg.raw \in DOMAIN cells
                      /\ arg.deref = cells[arg.raw].word
  /\ arg.bytes # <<>> => /\ kind \in BufferKinds
                         /\ arg.raw \in DOMAIN cells
                         /\ IsPrefix(arg.bytes, cells[arg.raw].bytes)
                         /\ ~arg.bytes_capped => Complete(kind, arg, cells)
  /\ kind \in BufferKinds /\ arg.has_str => IsPrefix(arg.str, arg.bytes)

Cells(arg) == IF arg.from_return THEN memory ELSE at_call

AgreesInv ==
  \A i \in DOMAIN params : Agrees(sig[i].kind, params[i], Cells(params[i]))

DecodeInv ==
  /\ TypeOK
  /\ ShapeInv /\ PostponedInv /\ AllPostponedInv /\ UntouchedInv /\ MomentInv
  /\ EntryInv /\ FollowedInv /\ CapacityInv /\ AgreesInv
  /\ OutWordsInv /\ UsesReportedLength /\ WithinEarlyOffer
  /\ FlatViewCurrent
----------------------------------------------------------------------------
(* While nothing comes from the return, what is said of it holds.          *)
LEMMA NothingReturned ==
  ASSUME \A i \in DOMAIN params : ~params[i].from_return
  PROVE  UsesReportedLength /\ WithinEarlyOffer /\ MomentInv
  BY DEF UsesReportedLength, WithinEarlyOffer, MomentInv

LEMMA CapaArgsType ==
  ASSUME NEW ps \in Seq(DecodedArg)
  PROVE  CapaArgs(ps) \in Seq(ArgValue)
  <1>1. Len(ps) \in Nat /\ DOMAIN ps = 1..Len(ps) /\ \A i \in 1..Len(ps) : ps[i] \in DecodedArg
    BY LenProperties, ElementOfSeq
  <1>2. ASSUME NEW i \in DOMAIN ps
        PROVE  (IF ps[i].has_str /\ ps[i].str # <<>>
                  THEN [text |-> ps[i].str, integer |-> 0]
                  ELSE [text |-> <<>>, integer |-> ps[i].raw]) \in ArgValue
    <2>1. ps[i].str \in Seq(Byte) /\ ps[i].raw \in Nat /\ <<>> \in Seq(Byte)
      BY <1>1 DEF DecodedArg
    <2>2. QED
      BY <2>1 DEF ArgValue
  <1>3. CapaArgs(ps) \in [1..Len(ps) -> ArgValue]
    BY <1>1, <1>2 DEF CapaArgs
  <1>4. QED
    BY <1>1, <1>3

LEMMA DecodeInit == Init => DecodeInv
  <1> SUFFICES ASSUME Init PROVE DecodeInv
    OBVIOUS
  <1>1. memory \in Memory
    <2>1. ASSUME NEW a \in DOMAIN Contents PROVE memory[a] \in Cell
      BY DecodeAssumption DEF Init
    <2>2. QED
      BY <2>1 DEF Init, Memory
  <1>2. sig \in Seq(ParamSig)
    BY DecodeAssumption DEF Init
  <1>3. params = <<>> /\ deferred = <<>> /\ args = <<>> /\ phase = "fetch" /\ next = 1
        /\ at_call = memory
    BY DEF Init
  <1>4. DOMAIN params = {} /\ DOMAIN deferred = {}
    BY <1>3
  <1>5. TypeOK
    BY <1>1, <1>2, <1>3, <1>4 DEF TypeOK, Phases, Memory
  <1>6. ShapeInv /\ UntouchedInv /\ EntryInv /\ FlatViewCurrent
    BY <1>3 DEF ShapeInv, UntouchedInv, EntryInv, FlatViewCurrent, AtCall
  <1>7. PostponedInv /\ AllPostponedInv /\ FollowedInv /\ CapacityInv
    BY <1>4, Zenon DEF PostponedInv, AllPostponedInv, FollowedInv, CapacityInv
  <1>8. /\ MomentInv /\ AgreesInv
        /\ OutWordsInv /\ UsesReportedLength /\ WithinEarlyOffer
    BY <1>4, Zenon
    DEF MomentInv, AgreesInv, OutWordsInv, UsesReportedLength, WithinEarlyOffer
  <1>9. QED
    BY <1>5, <1>6, <1>7, <1>8 DEF DecodeInv

(* What the caller offered is fixed by the signature, the raw values and   *)
(* the memory at the call.                                                 *)
LEMMA OfferedStable ==
  ASSUME sig \in Seq(ParamSig), params \in Seq(DecodedArg), params' \in Seq(DecodedArg),
         at_call \in Memory, sig' = sig, at_call' = at_call,
         DOMAIN params = DOMAIN sig, DOMAIN params' = DOMAIN params,
         \A j \in DOMAIN params : params'[j].raw = params[j].raw
  PROVE  \A i \in DOMAIN params :
           /\ KnownAtCall(i)' <=> KnownAtCall(i)
           /\ Offered(i)' = Offered(i)
           /\ Offered(i) \in Nat
  <1> DEFINE before == [j \in DOMAIN params |->
                          [params[j] EXCEPT
                             !.has_deref = KnownAtCall(j),
                             !.deref = IF KnownAtCall(j) THEN at_call[params[j].raw].word ELSE 0]]
             after == before'
  <1>1. \A j \in DOMAIN params : params[j] \in DecodedArg /\ params'[j] \in DecodedArg
    BY ElementOfSeq, LenProperties
  <1>2. \A j \in DOMAIN params : KnownAtCall(j)' <=> KnownAtCall(j)
    BY DEF KnownAtCall
  <1>3. \A j \in DOMAIN params : KnownAtCall(j) => at_call[params[j].raw].word \in Nat
    BY DEF KnownAtCall, Memory, Cell
  <1>4. DOMAIN before = DOMAIN params /\ DOMAIN after = DOMAIN params
    OBVIOUS
  <1>5. ASSUME NEW j \in DOMAIN params
        PROVE  /\ before[j].raw \in Nat /\ before[j].deref \in Nat
               /\ before[j].raw = after[j].raw
               /\ before[j].has_deref <=> after[j].has_deref
               /\ before[j].deref = after[j].deref
    <2>1. /\ before[j] = [params[j] EXCEPT
                 !.has_deref = KnownAtCall(j),
                 !.deref = IF KnownAtCall(j) THEN at_call[params[j].raw].word ELSE 0]
          /\ after[j] = [params'[j] EXCEPT
                 !.has_deref = KnownAtCall(j)',
                 !.deref = IF KnownAtCall(j)' THEN at_call[params'[j].raw].word ELSE 0]
      OBVIOUS
    <2>2. params[j] \in DecodedArg /\ params'[j] \in DecodedArg /\ params'[j].raw = params[j].raw
      BY <1>1
    <2>3. KnownAtCall(j)' <=> KnownAtCall(j)
      BY <1>2
    <2>4. KnownAtCall(j) => at_call[params[j].raw].word \in Nat
      BY <1>3
    <2> HIDE DEF before, after
    <2>5. QED
      BY <2>1, <2>2, <2>3, <2>4 DEF DecodedArg
  <1>6. ASSUME NEW i \in DOMAIN params PROVE sig[i] \in ParamSig
    BY ElementOfSeq, LenProperties
  <1>7. \A i \in DOMAIN params : Offered(i) = ByteCount(sig[i], before)
    BY DEF Offered
  <1>8. \A i \in DOMAIN params : Offered(i)' = ByteCount(sig[i], after)
    BY DEF Offered, ByteCount
  <1> HIDE DEF before, after
  <1>9. ASSUME NEW i \in DOMAIN params
        PROVE  ByteCount(sig[i], before) \in Nat
               /\ ByteCount(sig[i], before) = ByteCount(sig[i], after)
    <2>1. \A j \in DOMAIN before :
            /\ before[j].raw \in Nat /\ before[j].deref \in Nat
            /\ sig[i].aux \in {"bytes", "count"} /\ sig[i].value = j =>
                 /\ before[j].raw = after[j].raw
                 /\ before[j].has_deref <=> after[j].has_deref
                 /\ before[j].has_deref => before[j].deref = after[j].deref
      BY <1>4, <1>5
    <2>2. DOMAIN before = DOMAIN after
      BY <1>4
    <2>3. QED
      BY <1>6, <2>1, <2>2, ByteCountFacts
  <1>10. QED
    BY <1>2, <1>7, <1>8, <1>9
LEMMA FetchStep ==
  ASSUME DecodeInv, Fetch
  PROVE  DecodeInv'
  <1>0. TypeOK /\ ShapeInv
    BY DEF DecodeInv
  <1>1. /\ phase = "fetch" /\ phase' = "entry" /\ params = <<>> /\ deferred = <<>> /\ next = 1
        /\ memory = at_call /\ sig' = sig /\ memory' = memory /\ at_call' = at_call
        /\ next' = next /\ deferred' = deferred /\ args' = args
    BY <1>0 DEF Fetch, ShapeInv, AtCall
  <1>2. Len(sig) \in Nat /\ DOMAIN sig = 1..Len(sig)
    BY <1>0, LenProperties DEF TypeOK
  <1>3. DOMAIN params' = DOMAIN sig /\ \A i \in DOMAIN sig :
          \E v \in Nat : params'[i] = [Fresh EXCEPT !.raw = v]
    <2> DEFINE V == Integers \cup Pointers \cup {0}
               R == {[Fresh EXCEPT !.raw = v] : v \in V}
    <2>1. V \subseteq Nat
      BY DecodeAssumption
    <2>2. params' \in [DOMAIN sig -> R]
      BY Zenon DEF Fetch
    <2>3. \A x \in R : \E v \in Nat : x = [Fresh EXCEPT !.raw = v]
      BY <2>1
    <2> HIDE DEF R
    <2>4. QED
      BY <2>2, <2>3
  <1>4. ASSUME NEW i \in DOMAIN params'
        PROVE  /\ params'[i] \in DecodedArg
               /\ params'[i] = [Fresh EXCEPT !.raw = params'[i].raw]
               /\ ~params'[i].has_deref /\ ~params'[i].has_str /\ ~params'[i].from_return
               /\ params'[i].bytes = <<>> /\ Len(params'[i].bytes) <= MaxBuffer
    <2>1. PICK v \in Nat : params'[i] = [Fresh EXCEPT !.raw = v]
      BY <1>3
    <2>2. <<>> \in Seq(Byte) /\ Len(<<>>) = 0 /\ MaxBuffer \in Nat
      BY DecodeAssumption
    <2> DEFINE arg == params'[i]
    <2>3. /\ arg.raw = v /\ arg.deref = 0 /\ ~arg.has_deref /\ arg.str = <<>> /\ ~arg.has_str
          /\ arg.bytes = <<>> /\ arg.bytes_total = 0 /\ ~arg.bytes_capped /\ ~arg.from_return
      BY <2>1 DEF Fresh
    <2>4. arg \in DecodedArg
      <3>1. Fresh \in DecodedArg
        BY <2>2 DEF Fresh, DecodedArg
      <3>2. \A f \in DecodedArg : [f EXCEPT !.raw = v] \in DecodedArg
        BY DEF DecodedArg
      <3>3. QED
        BY <2>1, <3>1, <3>2
    <2>5. QED
      BY <2>1, <2>2, <2>3, <2>4
  <1>5. params' \in Seq(DecodedArg)
    <2>1. params' \in [1..Len(sig) -> DecodedArg]
      BY <1>2, <1>3, <1>4 DEF Fetch
    <2>2. QED
      BY <1>2, <2>1
  <1>6. TypeOK'
    BY <1>0, <1>1, <1>4, <1>5 DEF TypeOK, Phases
  <1>7. ShapeInv' /\ FlatViewCurrent'
    BY <1>0, <1>1, <1>3 DEF ShapeInv, AtCall, FlatViewCurrent
  <1>8. DOMAIN deferred' = {}
    BY <1>1
  <1>9. PostponedInv' /\ FollowedInv' /\ CapacityInv'
    BY <1>8, Zenon DEF PostponedInv, FollowedInv, CapacityInv
  <1>10. \A i \in DOMAIN params' : i >= next'
    BY <1>1, <1>2, <1>3
  <1>11. AllPostponedInv' /\ EntryInv' /\ UntouchedInv'
    <2>1. \A i \in DOMAIN params' : ~(i < next')
      BY <1>1, <1>2, <1>3
    <2>2. QED
      BY <1>1, <1>4, <2>1 DEF AllPostponedInv, EntryInv, UntouchedInv
  <1>12. UsesReportedLength' /\ WithinEarlyOffer' /\ MomentInv'
    BY <1>4 DEF UsesReportedLength, WithinEarlyOffer, MomentInv
  <1>13. AgreesInv' /\ OutWordsInv'
    BY <1>4 DEF AgreesInv, Agrees, OutWordsInv
  <1>14. QED
    BY <1>6, <1>7, <1>9, <1>11, <1>12, <1>13 DEF DecodeInv

(* The values a length can be taken from at the entry are the ones that    *)
(* were known when the call was made.                                      *)
LEMMA EntryCountIsOffer ==
  ASSUME DecodeInv, phase = "entry", next \in DOMAIN sig,
         CountBehindPointer(next) => sig[next].value < next
  PROVE  ByteCount(sig[next], params) = Offered(next)
  <1> DEFINE before == [j \in DOMAIN params |->
                          [params[j] EXCEPT
                             !.has_deref = KnownAtCall(j),
                             !.deref = IF KnownAtCall(j) THEN at_call[params[j].raw].word ELSE 0]]
  <1>1. /\ params \in Seq(DecodedArg) /\ sig \in Seq(ParamSig)
        /\ DOMAIN params = DOMAIN sig /\ EntryInv /\ AgreesInv
    BY DEF DecodeInv, TypeOK, ShapeInv
  <1>2. sig[next] \in ParamSig /\ \A j \in DOMAIN params : params[j] \in DecodedArg
    BY <1>1, ElementOfSeq, LenProperties
  <1>3. \A j \in DOMAIN params : KnownAtCall(j) => sig[j].kind \in PointerKinds
    BY DEF KnownAtCall
  <1>4. \A j \in DOMAIN params : params[j].has_deref => sig[j].kind \in PointerKinds
    BY <1>1 DEF AgreesInv, Agrees
  <1>5. ASSUME NEW j \in DOMAIN params, sig[next].aux \in {"bytes", "count"}, sig[next].value = j
        PROVE  /\ params[j].has_deref <=> KnownAtCall(j)
               /\ KnownAtCall(j) => params[j].deref = at_call[params[j].raw].word
    <2>1. CASE sig[j].kind \in PointerKinds
      <3>1. CountBehindPointer(next)
        BY <1>1, <1>5, <2>1 DEF CountBehindPointer
      <3>2. QED
        BY <1>1, <1>5, <3>1 DEF EntryInv
    <2>2. CASE sig[j].kind \notin PointerKinds
      BY <1>3, <1>4, <2>2
    <2>3. QED
      BY <2>1, <2>2
  <1>6. ASSUME NEW j \in DOMAIN params
        PROVE  /\ before[j].raw = params[j].raw
               /\ before[j].has_deref <=> KnownAtCall(j)
               /\ KnownAtCall(j) => before[j].deref = at_call[params[j].raw].word
    <2>1. before[j] = [params[j] EXCEPT
                 !.has_deref = KnownAtCall(j),
                 !.deref = IF KnownAtCall(j) THEN at_call[params[j].raw].word ELSE 0]
      OBVIOUS
    <2>2. params[j] \in DecodedArg
      BY <1>2
    <2> HIDE DEF before
    <2>3. QED
      BY <2>1, <2>2 DEF DecodedArg
  <1>7. DOMAIN before = DOMAIN params /\ Offered(next) = ByteCount(sig[next], before)
    BY DEF Offered
  <1> HIDE DEF before
  <1>8. \A j \in DOMAIN params :
          /\ params[j].raw \in Nat /\ params[j].deref \in Nat
          /\ sig[next].aux \in {"bytes", "count"} /\ sig[next].value = j =>
               /\ params[j].raw = before[j].raw
               /\ params[j].has_deref <=> before[j].has_deref
               /\ params[j].has_deref => params[j].deref = before[j].deref
    BY <1>2, <1>5, <1>6 DEF DecodedArg
  <1>9. QED
    BY <1>2, <1>7, <1>8, ByteCountFacts

(* What the entry pass makes of the parameter it looks at.                 *)
LEMMA AtEntryFacts ==
  ASSUME DecodeInv, phase = "entry", next \in DOMAIN sig,
         NEW count \in Nat, NEW d, d = AtEntry(next, count)
  PROVE  LET i == next IN
         /\ d \in DecodedArg /\ Len(d.bytes) <= MaxBuffer
         /\ d.raw = params[i].raw /\ ~d.from_return
         /\ d.has_deref <=> KnownAtCall(i)
         /\ d.has_deref => /\ d.raw \in DOMAIN at_call
                           /\ d.deref = at_call[d.raw].word
         /\ d.bytes # <<>> => IsBuffer(i) /\ sig[i].in
         /\ IsBuffer(i) => CaptureOf(d, sig[i].kind, d.raw, count)
  <1> DEFINE i == next
             kind == sig[i].kind
             arg == params[i]
  <1>0. /\ TypeOK /\ memory = at_call /\ DOMAIN params = DOMAIN sig
        /\ arg = [Fresh EXCEPT !.raw = arg.raw]
    BY DEF DecodeInv, ShapeInv, AtCall, UntouchedInv, TypeOK
  <1>1. memory \in Memory /\ kind \in Kinds /\ arg \in DecodedArg /\ sig[i] \in ParamSig
    <2>1. sig[i] \in ParamSig /\ arg \in DecodedArg
      BY <1>0, ElementOfSeq, LenProperties DEF TypeOK
    <2>2. QED
      BY <1>0, <2>1 DEF TypeOK, Memory, ParamSig
  <1>2. /\ ~arg.has_deref /\ arg.bytes = <<>> /\ ~arg.has_str /\ ~arg.from_return
        /\ arg.raw \in Nat
    BY <1>0, <1>1 DEF Fresh, DecodedArg
  <1>3. Len(<<>>) <= MaxBuffer
    BY DecodeAssumption
  <1>4. \A k : kind \in BufferKinds /\ d = arg => CaptureOf(d, kind, d.raw, k)
    BY <1>2, <1>3, Zenon DEF CaptureOf
  <1>5. KnownAtCall(i) <=> kind \in PointerKinds /\ sig[i].in /\ WordReadable(arg.raw)
    BY <1>0, <1>1, <1>2, WordReadableIs DEF KnownAtCall
  <1>6. CASE ~NeedsDeref(kind)
    <2>1. d = WithUntypedString(kind, arg)
      BY <1>6 DEF AtEntry
    <2> HIDE DEF arg
    <2>2. d \in DecodedArg /\ SameButText(d, arg)
      BY <1>1, <2>1, WithUntypedStringFacts
    <2>3. kind \notin BufferKinds /\ kind \notin PointerKinds
      BY <1>6 DEF NeedsDeref, BufferKinds, PointerKinds
    <2>4. QED
      BY <1>2, <1>3, <1>5, <2>2, <2>3 DEF SameButText, arg, IsBuffer
  <1>7. CASE NeedsDeref(kind) /\ sig[i].in
    <2>1. d = WithUntypedString(kind, Dereferenced(kind, arg.raw, count, arg))
      BY <1>7 DEF AtEntry
    <2>2. /\ d \in DecodedArg
          /\ d.raw = arg.raw /\ d.from_return = arg.from_return
          /\ d.has_deref <=> kind \in PointerKinds /\ WordReadable(arg.raw)
          /\ d.has_deref => arg.raw \in DOMAIN memory /\ d.deref = memory[arg.raw].word
          /\ kind \notin BufferKinds => d.bytes = <<>>
          /\ kind \in BufferKinds => CaptureOf(d, kind, arg.raw, count)
      <3> HIDE DEF arg, kind, i
      <3> QED
        BY <1>1, <1>2, <1>7, <2>1, DereferencedFacts
    <2>3. Len(d.bytes) <= MaxBuffer
      BY <1>3, <2>2 DEF CaptureOf
    <2>4. QED
      BY <1>0, <1>2, <1>5, <1>7, <2>2, <2>3 DEF IsBuffer
  <1>8. CASE NeedsDeref(kind) /\ ~sig[i].in
    <2>1. d = arg
      BY <1>8 DEF AtEntry
    <2>2. QED
      BY <1>1, <1>2, <1>3, <1>4, <1>5, <1>8, <2>1 DEF IsBuffer
  <1>9. QED
    BY <1>6, <1>7, <1>8
LEMMA DecodeParamStep ==
  ASSUME DecodeInv, DecodeParam
  PROVE  DecodeInv'
  <1> DEFINE i == next
             kind == sig[i].kind
             raw == params[i].raw
             count == IF kind \in BufferKinds THEN ByteCount(sig[i], params) ELSE 0
             d == AtEntry(i, count)
             Postpone == NeedsDeref(kind) /\ sig[i].out /\ raw >= MinDeref
             po == [index |-> i, ptr |-> raw, in_cap |-> count]
  <1>0. /\ TypeOK /\ ShapeInv /\ PostponedInv /\ AllPostponedInv /\ UntouchedInv /\ MomentInv
        /\ EntryInv /\ FollowedInv /\ CapacityInv /\ AgreesInv /\ OutWordsInv
    BY DEF DecodeInv
  <1>1. /\ phase = "entry" /\ phase' = "entry" /\ i \in DOMAIN sig /\ next' = i + 1
        /\ sig' = sig /\ memory' = memory /\ at_call' = at_call /\ args' = args
        /\ params' = [params EXCEPT ![i] = d]
        /\ deferred' = IF Postpone THEN Append(deferred, po) ELSE deferred
    BY DEF DecodeParam
  <1>2. /\ AtCall /\ AtCall' /\ memory = at_call /\ DOMAIN params = DOMAIN sig
        /\ i \in Nat /\ i >= 1
    BY <1>0, <1>1 DEF AtCall, ShapeInv, TypeOK
  <1>3. /\ \A j \in DOMAIN params : params[j] \in DecodedArg
        /\ \A j \in DOMAIN sig : sig[j] \in ParamSig
        /\ \A k \in DOMAIN deferred : deferred[k] \in PendingOut
        /\ Len(deferred) \in Nat /\ DOMAIN deferred = 1..Len(deferred)
        /\ Len(params) \in Nat /\ DOMAIN params = 1..Len(params)
    BY <1>0, ElementOfSeq, LenProperties DEF TypeOK
  <1>4. count \in Nat
    <2>1. \A j \in DOMAIN params : params[j].raw \in Nat /\ params[j].deref \in Nat
      BY <1>3 DEF DecodedArg
    <2>2. sig[i] \in ParamSig
      BY <1>1, <1>3
    <2>3. ByteCount(sig[i], params) \in Nat
      BY <2>1, <2>2, ByteCountFacts
    <2>4. QED
      BY <2>3
  <1>5. /\ d \in DecodedArg /\ Len(d.bytes) <= MaxBuffer
        /\ d.raw = raw /\ ~d.from_return
        /\ d.has_deref <=> KnownAtCall(i)
        /\ d.has_deref => /\ d.raw \in DOMAIN at_call
                          /\ d.deref = at_call[d.raw].word
        /\ d.bytes # <<>> => IsBuffer(i) /\ sig[i].in
        /\ IsBuffer(i) => CaptureOf(d, sig[i].kind, d.raw, count)
    BY <1>1, <1>4, AtEntryFacts
  <1>6. /\ raw \in Nat /\ po \in PendingOut
    BY <1>1, <1>2, <1>3, <1>4 DEF DecodedArg, PendingOut
  <1>7. kind \in PointerKinds => kind \notin BufferKinds
    BY DEF PointerKinds, BufferKinds
  <1>8. IsBuffer(i) /\ (CountBehindPointer(i) => sig[i].value < i) => count = Offered(i)
    BY <1>1, EntryCountIsOffer DEF IsBuffer
  <1>9. KnownAtCall(i) => kind \in PointerKinds /\ sig[i].in
    BY DEF KnownAtCall
  <1> HIDE DEF count, d
  <1>10. /\ DOMAIN params' = DOMAIN params /\ params'[i] = d
         /\ \A j \in DOMAIN params : j # i => params'[j] = params[j]
         /\ \A j \in DOMAIN params : params'[j].raw = params[j].raw
    BY <1>1, <1>2, <1>5
  <1>11. params' \in Seq(DecodedArg)
    <2>1. \A j \in DOMAIN params : params'[j] \in DecodedArg
      BY <1>3, <1>5, <1>10
    <2>2. params' = [j \in DOMAIN params |-> params'[j]]
      BY <1>1
    <2>3. params' \in [1..Len(params) -> DecodedArg]
      BY <1>3, <2>1, <2>2
    <2>4. QED
      BY <1>3, <2>3
  <1>12. \A j \in DOMAIN params : (KnownAtCall(j)' <=> KnownAtCall(j)) /\ Offered(j)' = Offered(j)
    BY <1>0, <1>1, <1>2, <1>10, <1>11, OfferedStable DEF TypeOK, Memory
  <1> HIDE DEF po, Postpone
  <1>13. /\ deferred' \in Seq(PendingOut)
         /\ \A k \in DOMAIN deferred : k \in DOMAIN deferred' /\ deferred'[k] = deferred[k]
         /\ \A k \in DOMAIN deferred' : \/ k \in DOMAIN deferred /\ deferred'[k] = deferred[k]
                                        \/ Postpone /\ deferred'[k] = po
         /\ Postpone => \E k \in DOMAIN deferred' : deferred'[k] = po
    <2>1. CASE ~Postpone
      BY <1>0, <1>1, <2>1 DEF TypeOK
    <2>2. CASE Postpone
      <3>1. deferred' = Append(deferred, po)
        BY <1>1, <2>2
      <3>2. /\ deferred' \in Seq(PendingOut)
            /\ Len(deferred') = Len(deferred) + 1
            /\ \A k \in 1..Len(deferred) : deferred'[k] = deferred[k]
            /\ deferred'[Len(deferred) + 1] = po
        BY <1>0, <1>6, <3>1, AppendProperties DEF TypeOK
      <3>3. DOMAIN deferred' = 1..(Len(deferred) + 1)
        BY <3>2, LenProperties
      <3>4. QED
        BY <1>3, <2>2, <3>2, <3>3
    <2>3. QED
      BY <2>1, <2>2
  <1>14. TypeOK'
    <2>1. \A j \in DOMAIN params' : Len(params'[j].bytes) <= MaxBuffer
      BY <1>0, <1>5, <1>10 DEF TypeOK
    <2>2. next' \in Nat
      BY <1>1, <1>2
    <2>3. QED
      BY <1>0, <1>1, <1>11, <1>13, <2>1, <2>2 DEF TypeOK
  <1>15. ShapeInv' /\ FlatViewCurrent'
    BY <1>1, <1>2, <1>10 DEF ShapeInv, FlatViewCurrent
  <1>16. PostponedInv'
    <2> SUFFICES ASSUME NEW k \in DOMAIN deferred'
                 PROVE  /\ deferred'[k].index \in DOMAIN params'
                        /\ NeedsDeref(sig[deferred'[k].index].kind)
                        /\ deferred'[k].ptr = params'[deferred'[k].index].raw
      BY <1>1, Zenon DEF PostponedInv, NeedsDeref
    <2>1. CASE k \in DOMAIN deferred /\ deferred'[k] = deferred[k]
      BY <1>0, <1>10, <2>1 DEF PostponedInv
    <2>2. CASE Postpone /\ deferred'[k] = po
      BY <1>1, <1>2, <1>10, <2>2 DEF Postpone, po
    <2>3. QED
      BY <1>13, <2>1, <2>2
  <1>17. AllPostponedInv'
    <2> SUFFICES ASSUME NEW j \in DOMAIN params', j < next', NeedsDeref(sig[j].kind),
                        sig[j].out, params'[j].raw >= MinDeref
                 PROVE  \E k \in DOMAIN deferred' : deferred'[k].index = j
      BY <1>1 DEF AllPostponedInv, NeedsDeref
    <2>1. CASE j = i
      BY <1>10, <1>13, <2>1 DEF Postpone, po
    <2>2. CASE j # i
      <3>1. j < i /\ j \in DOMAIN params
        BY <1>1, <1>2, <1>3, <1>10, <2>2
      <3>2. PICK k \in DOMAIN deferred : deferred[k].index = j
        BY <1>0, <1>10, <3>1 DEF AllPostponedInv
      <3>3. QED
        BY <1>13, <3>2
    <2>3. QED
      BY <2>1, <2>2
  <1>18. UntouchedInv'
    BY <1>0, <1>1, <1>2, <1>3, <1>10 DEF UntouchedInv
  <1>19. \A j \in DOMAIN params' : ~params'[j].from_return
    BY <1>0, <1>2, <1>5, <1>10 DEF MomentInv
  <1>20. UsesReportedLength' /\ WithinEarlyOffer' /\ MomentInv'
    BY <1>19 DEF UsesReportedLength, WithinEarlyOffer, MomentInv
  <1>21. EntryInv'
    <2> SUFFICES ASSUME NEW j \in DOMAIN params', j < next'
                 PROVE  /\ params'[j].has_deref <=> KnownAtCall(j)'
                        /\ KnownAtCall(j)' => params'[j].deref = at_call[params'[j].raw].word
      BY <1>1 DEF EntryInv
    <2>1. CASE j = i
      BY <1>1, <1>2, <1>5, <1>10, <1>12, <2>1
    <2>2. CASE j # i
      <3>1. j < i /\ j \in DOMAIN params
        BY <1>1, <1>2, <1>3, <1>10, <2>2
      <3>2. QED
        BY <1>0, <1>1, <1>10, <1>12, <2>2, <3>1 DEF EntryInv
    <2>3. QED
      BY <2>1, <2>2
  <1>22. FollowedInv'
    BY <1>2, Zenon DEF FollowedInv
  <1>23. CapacityInv'
    <2>1. \A j : /\ IsBuffer(j)' <=> IsBuffer(j)
                 /\ CountBehindPointer(j)' <=> CountBehindPointer(j)
      BY <1>1 DEF IsBuffer, CountBehindPointer
    <2> SUFFICES ASSUME NEW k \in DOMAIN deferred', NEW j, j = deferred'[k].index,
                        IsBuffer(j), Offered(j)' # 0,
                        CountBehindPointer(j) => sig[j].value < j
                 PROVE  deferred'[k].in_cap = Offered(j)'
      BY <1>1, <2>1 DEF CapacityInv
    <2>2. CASE k \in DOMAIN deferred /\ deferred'[k] = deferred[k]
      <3>1. j \in DOMAIN params
        BY <1>0, <2>2 DEF PostponedInv
      <3>2. QED
        BY <1>0, <1>12, <2>2, <3>1 DEF CapacityInv
    <2>3. CASE Postpone /\ deferred'[k] = po
      <3>1. j = i /\ deferred'[k].in_cap = count
        BY <2>3 DEF po
      <3>2. QED
        BY <1>1, <1>2, <1>8, <1>12, <3>1
    <2>4. QED
      BY <1>13, <2>2, <2>3
  <1>24. AgreesInv'
    <2> SUFFICES ASSUME NEW j \in DOMAIN params'
                 PROVE  Agrees(sig[j].kind, params'[j], at_call)
      BY <1>1, <1>19 DEF AgreesInv, Cells
    <2>1. CASE j = i
      <3>1. d.has_deref => kind \in PointerKinds
        BY <1>5, <1>9
      <3>2. d.bytes # <<>> => Agrees(kind, d, at_call)
        BY <1>2, <1>5, <1>7, <3>1 DEF Agrees, CaptureOf, Complete, IsBuffer
      <3>3. d.bytes = <<>> => Agrees(kind, d, at_call)
        BY <1>5, <3>1 DEF Agrees, CaptureOf, IsBuffer
      <3>4. QED
        BY <1>10, <2>1, <3>2, <3>3
    <2>2. CASE j # i
      BY <1>0, <1>2, <1>10, <2>2 DEF AgreesInv, Cells
    <2>3. QED
      BY <2>1, <2>2
  <1>25. OutWordsInv'
    BY <1>0, <1>1, <1>5, <1>9, <1>10 DEF OutWordsInv
  <1>26. QED
    BY <1>14, <1>15, <1>16, <1>17, <1>18, <1>20, <1>21, <1>22, <1>23, <1>24, <1>25 DEF DecodeInv
(* A step that leaves the parameters and memory alone leaves every part    *)
(* that does not ask for the phase alone.                                  *)
LEMMA QuietStep ==
  ASSUME DecodeInv, UNCHANGED <<sig, memory, at_call, params, deferred>>
  PROVE  /\ PostponedInv' /\ CapacityInv' /\ AgreesInv'
         /\ OutWordsInv' /\ UsesReportedLength' /\ WithinEarlyOffer'
  <1>1. /\ PostponedInv /\ CapacityInv /\ AgreesInv
        /\ OutWordsInv /\ UsesReportedLength /\ WithinEarlyOffer
    BY DEF DecodeInv
  <1>2. PostponedInv' /\ AgreesInv' /\ OutWordsInv'
    BY <1>1 DEF PostponedInv, AgreesInv, Cells, OutWordsInv
  <1>3. \A i : /\ IsBuffer(i)' <=> IsBuffer(i)
               /\ CountBehindPointer(i)' <=> CountBehindPointer(i)
    BY DEF IsBuffer, CountBehindPointer
  <1>4. \A i : Offered(i)' = Offered(i)
    BY DEF Offered, KnownAtCall
  <1>5. \A i : LengthReported(i)' <=> LengthReported(i)
    BY <1>3 DEF LengthReported, WordReadable, Query
  <1>6. CapacityInv' /\ UsesReportedLength' /\ WithinEarlyOffer'
    BY <1>1, <1>3, <1>4, <1>5 DEF CapacityInv, UsesReportedLength, WithinEarlyOffer
  <1>7. QED
    BY <1>2, <1>6

LEMMA DecodeEndsStep ==
  ASSUME DecodeInv, DecodeEnds
  PROVE  DecodeInv'
  <1>0. /\ TypeOK /\ ShapeInv /\ AllPostponedInv /\ MomentInv /\ FollowedInv
    BY DEF DecodeInv
  <1>1. /\ phase = "entry" /\ phase' = "running" /\ next \notin DOMAIN sig
        /\ args' = CapaArgs(params)
        /\ sig' = sig /\ memory' = memory /\ at_call' = at_call /\ next' = next
        /\ params' = params /\ deferred' = deferred
    BY DEF DecodeEnds
  <1>2. AtCall /\ AtCall' /\ DOMAIN params = DOMAIN sig
    BY <1>0, <1>1 DEF AtCall, ShapeInv
  <1>3. TypeOK'
    BY <1>0, <1>1, CapaArgsType DEF TypeOK, Phases
  <1>4. FlatViewCurrent'
    BY <1>1 DEF FlatViewCurrent, CapaArgs
  <1>5. ShapeInv' /\ UntouchedInv' /\ EntryInv'
    BY <1>0, <1>1, <1>2 DEF ShapeInv, UntouchedInv, EntryInv
  <1>6. MomentInv' /\ FollowedInv'
    BY <1>0, <1>1, <1>2 DEF MomentInv, FollowedInv
  <1>7. \A i \in DOMAIN params : i < next
    <2>1. DOMAIN params = 1..Len(params) /\ Len(params) \in Nat /\ next \in Nat /\ next >= 1
      BY <1>0, LenProperties DEF TypeOK, ShapeInv
    <2>2. QED
      BY <1>1, <1>2, <2>1
  <1>8. AllPostponedInv'
    BY <1>0, <1>1, <1>7 DEF AllPostponedInv
  <1>9. QED
    BY <1>1, <1>3, <1>4, <1>5, <1>6, <1>8, QuietStep DEF DecodeInv

LEMMA CalleeStep ==
  ASSUME DecodeInv, Callee
  PROVE  DecodeInv'
  <1>0. /\ TypeOK /\ ShapeInv /\ PostponedInv /\ AllPostponedInv /\ MomentInv
        /\ CapacityInv /\ AgreesInv /\ OutWordsInv /\ FlatViewCurrent
    BY DEF DecodeInv
  <1>1. /\ phase = "running" /\ phase' \in {"done", "scalars"}
        /\ phase' = "done" => deferred = <<>>
        /\ sig' = sig /\ at_call' = at_call /\ next' = 1
        /\ params' = params /\ deferred' = deferred /\ args' = args
    BY DEF Callee
  <1>2. AtCall /\ ~AtCall' /\ DOMAIN params = DOMAIN sig
    BY <1>0, <1>1 DEF AtCall, ShapeInv
  <1>3. memory' \in Memory
    <2>1. memory \in Memory
      BY <1>0 DEF TypeOK, Memory
    <2>2. DOMAIN memory' = DOMAIN memory
      BY DEF Callee
    <2>3. \A a \in DOMAIN memory : memory'[a] \in Results[a] \cup {memory[a]}
      BY DEF Callee
    <2>4. \A a \in DOMAIN Contents : Results[a] \subseteq Cell
      BY DecodeAssumption
    <2>5. memory' \in [DOMAIN memory -> UNION {Results[a] \cup {memory[a]} : a \in DOMAIN memory}]
      BY DEF Callee
    <2>6. \A a \in DOMAIN Contents : memory'[a] \in Cell
      BY <2>1, <2>3, <2>4 DEF Memory
    <2>7. QED
      BY <2>1, <2>5, <2>6 DEF Memory
  <1>4. \A i \in DOMAIN params : ~params[i].from_return
    BY <1>0, <1>2 DEF MomentInv
  <1>5. TypeOK'
    BY <1>0, <1>1, <1>3 DEF TypeOK, Phases, Memory
  <1>6. ShapeInv' /\ UntouchedInv' /\ EntryInv'
    BY <1>0, <1>1, <1>2 DEF ShapeInv, UntouchedInv, EntryInv
  <1>7. PostponedInv' /\ AllPostponedInv'
    BY <1>0, <1>1 DEF PostponedInv, AllPostponedInv
  <1>8. MomentInv' /\ UsesReportedLength' /\ WithinEarlyOffer'
    BY <1>1, <1>4 DEF MomentInv, UsesReportedLength, WithinEarlyOffer
  <1>9. FollowedInv'
    <2>1. phase' = "scalars" => \A k \in DOMAIN deferred' : ~(k < next')
      BY <1>0, <1>1, LenProperties DEF TypeOK
    <2>2. phase' = "done" => DOMAIN deferred' = {}
      BY <1>1
    <2>3. QED
      BY <1>1, <2>1, <2>2 DEF FollowedInv
  <1>10. CapacityInv'
    <2>1. \A i : /\ IsBuffer(i)' <=> IsBuffer(i)
                 /\ CountBehindPointer(i)' <=> CountBehindPointer(i)
      BY <1>1 DEF IsBuffer, CountBehindPointer
    <2>2. \A i : Offered(i)' = Offered(i)
      BY <1>1 DEF Offered, KnownAtCall
    <2>3. QED
      BY <1>0, <1>1, <2>1, <2>2 DEF CapacityInv
  <1>11. AgreesInv' /\ OutWordsInv'
    BY <1>0, <1>1, <1>4 DEF AgreesInv, Cells, OutWordsInv
  <1>12. FlatViewCurrent'
    BY <1>0, <1>1 DEF FlatViewCurrent, CapaArgs
  <1>13. QED
    BY <1>5, <1>6, <1>7, <1>8, <1>9, <1>10, <1>11, <1>12 DEF DecodeInv

LEMMA ScalarsEndStep ==
  ASSUME DecodeInv, ScalarsEnd
  PROVE  DecodeInv'
  <1>0. /\ TypeOK /\ ShapeInv /\ AllPostponedInv /\ MomentInv /\ FollowedInv
    BY DEF DecodeInv
  <1>1. /\ phase = "scalars" /\ phase' = "buffers" /\ next \notin DOMAIN deferred /\ next' = 1
        /\ sig' = sig /\ memory' = memory /\ at_call' = at_call /\ args' = args
        /\ params' = params /\ deferred' = deferred
    BY DEF ScalarsEnd
  <1>2. ~AtCall /\ ~AtCall' /\ DOMAIN params = DOMAIN sig
    BY <1>0, <1>1 DEF AtCall, ShapeInv
  <1>3. TypeOK'
    BY <1>0, <1>1 DEF TypeOK, Phases
  <1>4. FlatViewCurrent' /\ ShapeInv' /\ UntouchedInv' /\ EntryInv'
    BY <1>0, <1>1, <1>2 DEF FlatViewCurrent, ShapeInv, UntouchedInv, EntryInv
  <1>5. MomentInv' /\ AllPostponedInv'
    BY <1>0, <1>1, <1>2 DEF MomentInv, AllPostponedInv
  <1>6. \A k \in DOMAIN deferred : k < next
    <2>1. DOMAIN deferred = 1..Len(deferred) /\ Len(deferred) \in Nat /\ next \in Nat /\ next >= 1
      BY <1>0, LenProperties DEF TypeOK, ShapeInv
    <2>2. QED
      BY <1>1, <2>1
  <1>7. FollowedInv'
    BY <1>0, <1>1, <1>2, <1>6 DEF FollowedInv, WordReadable, Query
  <1>8. QED
    BY <1>1, <1>3, <1>4, <1>5, <1>7, QuietStep DEF DecodeInv

LEMMA BuffersEndStep ==
  ASSUME DecodeInv, BuffersEnd
  PROVE  DecodeInv'
  <1>0. /\ TypeOK /\ ShapeInv /\ AllPostponedInv /\ MomentInv /\ FollowedInv
    BY DEF DecodeInv
  <1>1. /\ phase = "buffers" /\ phase' = "done" /\ args' = CapaArgs(params)
        /\ sig' = sig /\ memory' = memory /\ at_call' = at_call /\ next' = next
        /\ params' = params /\ deferred' = deferred
    BY DEF BuffersEnd
  <1>2. ~AtCall /\ ~AtCall' /\ DOMAIN params = DOMAIN sig
    BY <1>0, <1>1 DEF AtCall, ShapeInv
  <1>3. TypeOK'
    BY <1>0, <1>1, CapaArgsType DEF TypeOK, Phases
  <1>4. FlatViewCurrent'
    BY <1>1 DEF FlatViewCurrent, CapaArgs
  <1>5. ShapeInv' /\ UntouchedInv' /\ EntryInv'
    BY <1>0, <1>1, <1>2 DEF ShapeInv, UntouchedInv, EntryInv
  <1>6. MomentInv' /\ AllPostponedInv'
    BY <1>0, <1>1, <1>2 DEF MomentInv, AllPostponedInv
  <1>7. FollowedInv'
    BY <1>0, <1>1, <1>2 DEF FollowedInv, WordReadable, Query
  <1>8. QED
    BY <1>1, <1>3, <1>4, <1>5, <1>6, <1>7, QuietStep DEF DecodeInv

LEMMA DecodeStutter ==
  ASSUME DecodeInv, UNCHANGED vars
  PROVE  DecodeInv'
  <1>0. /\ TypeOK /\ ShapeInv /\ AllPostponedInv /\ UntouchedInv /\ MomentInv /\ EntryInv
        /\ FollowedInv /\ FlatViewCurrent
    BY DEF DecodeInv
  <1>1. /\ phase' = phase /\ args' = args /\ next' = next
        /\ sig' = sig /\ memory' = memory /\ at_call' = at_call
        /\ params' = params /\ deferred' = deferred
    BY DEF vars
  <1>2. AtCall' <=> AtCall
    BY <1>1 DEF AtCall
  <1>3. TypeOK' /\ ShapeInv' /\ AllPostponedInv' /\ UntouchedInv'
    BY <1>0, <1>1, <1>2 DEF TypeOK, ShapeInv, AllPostponedInv, UntouchedInv
  <1>4. MomentInv' /\ EntryInv' /\ FlatViewCurrent'
    BY <1>0, <1>1, <1>2 DEF MomentInv, IsBuffer, EntryInv, KnownAtCall, FlatViewCurrent, CapaArgs
  <1>5. FollowedInv'
    BY <1>0, <1>1, <1>2 DEF FollowedInv, WordReadable, Query
  <1>6. QED
    BY <1>1, <1>3, <1>4, <1>5, QuietStep DEF DecodeInv
LEMMA FreshType ==
  /\ Fresh \in DecodedArg /\ Fresh.raw = 0 /\ ~Fresh.has_deref /\ ~Fresh.has_str
  /\ Fresh.bytes = <<>> /\ ~Fresh.from_return
  BY EmptySeq DEF Fresh, DecodedArg

(* A step that replaces one parameter by one with the same raw value, and  *)
(* moves on in the list of what was postponed.                             *)
LEMMA ReplacedParam ==
  ASSUME DecodeInv, phase \in {"scalars", "buffers"}, phase' = phase, next' = next + 1,
         UNCHANGED <<sig, memory, at_call, deferred, args>>,
         NEW x \in DOMAIN params, NEW d \in DecodedArg,
         params' = [params EXCEPT ![x] = d],
         d.raw = params[x].raw, Len(d.bytes) <= MaxBuffer
  PROVE  /\ DOMAIN params' = DOMAIN params /\ params'[x] = d
         /\ \A j \in DOMAIN params : j # x => params'[j] = params[j]
         /\ \A j \in DOMAIN params : params'[j].raw = params[j].raw
         /\ \A j \in DOMAIN params : Offered(j)' = Offered(j) /\ Offered(j) \in Nat
         /\ TypeOK' /\ ShapeInv' /\ PostponedInv' /\ AllPostponedInv'
         /\ UntouchedInv' /\ EntryInv' /\ CapacityInv' /\ FlatViewCurrent'
  <1>0. /\ TypeOK /\ ShapeInv /\ PostponedInv /\ AllPostponedInv /\ CapacityInv
    BY DEF DecodeInv
  <1>1. /\ phase' \notin {"fetch", "entry", "running", "done"} /\ ~AtCall /\ ~AtCall'
        /\ DOMAIN params = DOMAIN sig
    BY <1>0 DEF AtCall, ShapeInv
  <1>2. /\ \A j \in DOMAIN params : params[j] \in DecodedArg
        /\ Len(params) \in Nat /\ DOMAIN params = 1..Len(params)
    BY <1>0, ElementOfSeq, LenProperties DEF TypeOK
  <1>3. /\ DOMAIN params' = DOMAIN params /\ params'[x] = d
        /\ \A j \in DOMAIN params : j # x => params'[j] = params[j]
        /\ \A j \in DOMAIN params : params'[j].raw = params[j].raw
    BY <1>2
  <1>4. params' \in Seq(DecodedArg)
    <2>1. \A j \in DOMAIN params : params'[j] \in DecodedArg
      BY <1>2, <1>3
    <2>2. params' = [j \in DOMAIN params |-> params'[j]]
      OBVIOUS
    <2>3. params' \in [1..Len(params) -> DecodedArg]
      BY <1>2, <2>1, <2>2
    <2>4. QED
      BY <1>2, <2>3
  <1>5. \A j \in DOMAIN params : Offered(j)' = Offered(j) /\ Offered(j) \in Nat
    BY <1>0, <1>1, <1>3, <1>4, OfferedStable DEF TypeOK, Memory
  <1>6. TypeOK'
    <2>1. \A j \in DOMAIN params' : Len(params'[j].bytes) <= MaxBuffer
      BY <1>0, <1>3 DEF TypeOK
    <2>2. next' \in Nat
      BY <1>0 DEF TypeOK
    <2>3. QED
      BY <1>0, <1>4, <2>1, <2>2 DEF TypeOK
  <1>7. ShapeInv' /\ UntouchedInv' /\ EntryInv' /\ FlatViewCurrent'
    <2>1. next' >= 1
      BY <1>0 DEF ShapeInv, TypeOK
    <2>2. QED
      BY <1>1, <1>3, <2>1 DEF ShapeInv, UntouchedInv, EntryInv, FlatViewCurrent
  <1>8. PostponedInv'
    BY <1>0, <1>3 DEF PostponedInv
  <1>9. AllPostponedInv'
    BY <1>0, <1>1, <1>3 DEF AllPostponedInv
  <1>10. CapacityInv'
    <2>1. \A j : /\ IsBuffer(j)' <=> IsBuffer(j)
                 /\ CountBehindPointer(j)' <=> CountBehindPointer(j)
      BY DEF IsBuffer, CountBehindPointer
    <2>2. \A k \in DOMAIN deferred : deferred[k].index \in DOMAIN params
      BY <1>0 DEF PostponedInv
    <2>3. QED
      BY <1>0, <1>5, <2>1, <2>2 DEF CapacityInv
  <1>11. QED
    BY <1>3, <1>5, <1>6, <1>7, <1>8, <1>9, <1>10

(* What the first loop at the return makes of a parameter: its old self,   *)
(* with other text at most, or what memory holds now.                      *)
LEMMA ReadAgainFacts ==
  ASSUME memory \in Memory, NEW kind \in Kinds, NeedsDeref(kind), kind \notin BufferKinds,
         NEW old \in DecodedArg, NEW ptr \in Nat,
         NEW d, d = WithUntypedString(kind, ReadAgain(old, Dereferenced(kind, ptr, 0, Fresh)))
  PROVE  /\ d \in DecodedArg /\ d.raw = old.raw
         /\ \/ SameButText(d, old) /\ ~(kind \in PointerKinds /\ WordReadable(ptr))
            \/ /\ d.from_return /\ d.bytes = <<>>
               /\ d.has_deref <=> kind \in PointerKinds /\ WordReadable(ptr)
               /\ d.has_deref => ptr \in DOMAIN memory /\ d.deref = memory[ptr].word
  <1> DEFINE new == Dereferenced(kind, ptr, 0, Fresh)
             again == ReadAgain(old, new)
  <1>1. /\ new \in DecodedArg /\ new.bytes = <<>>
        /\ new.has_deref <=> kind \in PointerKinds /\ WordReadable(ptr)
        /\ new.has_deref => ptr \in DOMAIN memory /\ new.deref = memory[ptr].word
    BY FreshType, FollowedFacts
  <1> HIDE DEF new
  <1>2. CASE new.has_deref \/ new.has_str
    <2>1. again = [new EXCEPT !.raw = old.raw, !.from_return = TRUE]
      BY <1>2 DEF ReadAgain
    <2>2. /\ again \in DecodedArg /\ again.raw = old.raw /\ again.from_return
          /\ again.bytes = new.bytes /\ again.has_deref = new.has_deref
          /\ again.deref = new.deref
      BY <1>1, <2>1 DEF DecodedArg
    <2> HIDE DEF again
    <2>3. d \in DecodedArg /\ SameButText(d, again)
      BY <2>2, WithUntypedStringFacts DEF again, new
    <2>4. QED
      BY <1>1, <2>2, <2>3 DEF SameButText
  <1>3. CASE ~(new.has_deref \/ new.has_str)
    <2>1. again = old
      BY <1>3 DEF ReadAgain
    <2>2. d = WithUntypedString(kind, old)
      BY <2>1 DEF new
    <2>3. d \in DecodedArg /\ SameButText(d, old)
      BY <2>2, WithUntypedStringFacts
    <2>4. QED
      BY <1>1, <1>3, <2>3 DEF SameButText
  <1>4. QED
    BY <1>2, <1>3

LEMMA ResolveScalarStep ==
  ASSUME DecodeInv, ResolveScalar
  PROVE  DecodeInv'
  <1> DEFINE po == deferred[next]
             x == po.index
             kind == sig[x].kind
             old == params[x]
  <1>0. /\ TypeOK /\ ShapeInv /\ PostponedInv /\ MomentInv
        /\ FollowedInv /\ AgreesInv /\ OutWordsInv
    BY DEF DecodeInv
  <1>1. /\ phase = "scalars" /\ phase' = "scalars" /\ next \in DOMAIN deferred
        /\ next' = next + 1
        /\ sig' = sig /\ memory' = memory /\ at_call' = at_call /\ args' = args
        /\ deferred' = deferred
    BY DEF ResolveScalar
  <1>2. PICK d : /\ params' = [params EXCEPT ![x] = d]
                 /\ d = IF kind \in BufferKinds THEN old
                        ELSE WithUntypedString(kind,
                               ReadAgain(old, Dereferenced(kind, po.ptr, 0, Fresh)))
    <2>1. CASE kind \in BufferKinds
      <3>1. params' = params
        BY <2>1 DEF ResolveScalar
      <3>2. params = [params EXCEPT ![x] = old]
        BY <1>0, LenProperties DEF TypeOK
      <3>3. QED
        BY <2>1, <3>1, <3>2
    <2>2. CASE kind \notin BufferKinds
      BY <2>2 DEF ResolveScalar
    <2>3. QED
      BY <2>1, <2>2
  <1>3. /\ x \in DOMAIN params /\ NeedsDeref(kind) /\ po.ptr = old.raw
        /\ DOMAIN params = DOMAIN sig /\ ~AtCall /\ ~AtCall'
    BY <1>0, <1>1 DEF PostponedInv, ShapeInv, AtCall
  <1>4. old \in DecodedArg /\ kind \in Kinds /\ memory \in Memory /\ old.raw \in Nat
    <2>1. old \in DecodedArg /\ sig[x] \in ParamSig
      BY <1>0, <1>3, ElementOfSeq, LenProperties DEF TypeOK
    <2>2. QED
      BY <1>0, <2>1 DEF TypeOK, Memory, ParamSig, DecodedArg
  <1>5. /\ Agrees(kind, old, Cells(old))
        /\ old.from_return => kind \notin BufferKinds
        /\ ~sig[x].in /\ (old.has_deref \/ old.bytes # <<>>) => old.from_return
        /\ Len(old.bytes) <= MaxBuffer
    BY <1>0, <1>1, <1>3 DEF AgreesInv, MomentInv, IsBuffer, OutWordsInv, TypeOK
  <1>6. /\ d \in DecodedArg /\ d.raw = old.raw
        /\ kind \in BufferKinds => d = old
        /\ kind \notin BufferKinds =>
             \/ SameButText(d, old) /\ ~(kind \in PointerKinds /\ WordReadable(po.ptr))
             \/ /\ d.from_return /\ d.bytes = <<>>
                /\ d.has_deref <=> kind \in PointerKinds /\ WordReadable(po.ptr)
                /\ d.has_deref => po.ptr \in DOMAIN memory /\ d.deref = memory[po.ptr].word
    <2>1. CASE kind \in BufferKinds
      BY <1>2, <1>4, <2>1
    <2>2. CASE kind \notin BufferKinds
      <3> HIDE DEF old, kind, po
      <3> QED
        BY <1>2, <1>3, <1>4, <2>2, ReadAgainFacts
    <2>3. QED
      BY <2>1, <2>2
  <1>7. PointerKinds \cap BufferKinds = {}
    BY DEF PointerKinds, BufferKinds
  <1> HIDE DEF po, kind, old
  <1>8. kind \notin BufferKinds => old.bytes = <<>>
    BY <1>5 DEF Agrees
  <1>9. /\ Agrees(kind, d, Cells(d))
        /\ d.from_return => kind \notin BufferKinds
        /\ ~sig[x].in /\ (d.has_deref \/ d.bytes # <<>>) => d.from_return
        /\ Len(d.bytes) <= MaxBuffer
    <2>1. CASE kind \in BufferKinds
      BY <1>5, <1>6, <2>1
    <2>2. CASE kind \notin BufferKinds /\ SameButText(d, old)
      BY <1>5, <1>8, <2>2 DEF Agrees, Cells, SameButText
    <2>3. CASE kind \notin BufferKinds /\ ~SameButText(d, old)
      <3>1. Len(<<>>) <= MaxBuffer
        BY DecodeAssumption
      <3>2. QED
        BY <1>3, <1>6, <2>3, <3>1 DEF Agrees, Cells
    <2>4. QED
      BY <2>1, <2>2, <2>3
  <1>10. /\ DOMAIN params' = DOMAIN params /\ params'[x] = d
         /\ \A j \in DOMAIN params : j # x => params'[j] = params[j]
         /\ \A j \in DOMAIN params : params'[j].raw = params[j].raw
         /\ TypeOK' /\ ShapeInv' /\ PostponedInv' /\ AllPostponedInv'
         /\ UntouchedInv' /\ EntryInv' /\ CapacityInv' /\ FlatViewCurrent'
    <2> HIDE DEF x
    <2>1. params[x] = old
      BY DEF x, old
    <2>2. QED
      BY <1>1, <1>2, <1>3, <1>6, <1>9, <2>1, ReplacedParam
  <1>11. \A j \in DOMAIN params' : params'[j].from_return => sig[j].kind \notin BufferKinds
    BY <1>0, <1>1, <1>9, <1>10 DEF MomentInv, IsBuffer, kind
  <1>12. MomentInv' /\ UsesReportedLength' /\ WithinEarlyOffer'
    BY <1>1, <1>3, <1>11 DEF MomentInv, UsesReportedLength, WithinEarlyOffer, IsBuffer
  <1>13. AgreesInv' /\ OutWordsInv'
    <2>1. ASSUME NEW j \in DOMAIN params'
          PROVE  /\ Agrees(sig[j].kind, params'[j], Cells(params'[j]))
                 /\ ~sig[j].in /\ (params'[j].has_deref \/ params'[j].bytes # <<>>)
                      => params'[j].from_return
      <3>1. CASE j = x
        BY <1>9, <1>10, <3>1 DEF kind
      <3>2. CASE j # x
        BY <1>0, <1>10, <3>2 DEF AgreesInv, OutWordsInv
      <3>3. QED
        BY <3>1, <3>2
    <2>2. QED
      BY <1>1, <2>1 DEF AgreesInv, OutWordsInv, Cells
  <1>14. FollowedInv'
    <2> SUFFICES ASSUME NEW k \in DOMAIN deferred, k < next + 1,
                        sig[deferred[k].index].kind \in PointerKinds, WordReadable(deferred[k].ptr)
                 PROVE  /\ params'[deferred[k].index].has_deref
                        /\ params'[deferred[k].index].deref = memory[deferred[k].ptr].word
      BY <1>1 DEF FollowedInv, WordReadable, Query
    <2>1. deferred[k].index \in DOMAIN params /\ deferred[k].ptr = params[deferred[k].index].raw
      BY <1>0 DEF PostponedInv
    <2>2. CASE deferred[k].index = x
      <3>1. deferred[k].ptr = po.ptr /\ kind \in PointerKinds
        BY <1>3, <2>1, <2>2 DEF old, kind
      <3>2. d.has_deref /\ d.deref = memory[po.ptr].word
        BY <1>6, <1>7, <3>1
      <3>3. QED
        BY <1>10, <2>2, <3>1, <3>2
    <2>3. CASE deferred[k].index # x
      <3>1. k # next
        BY <2>3 DEF po
      <3>2. k < next
        BY <1>0, <3>1, LenProperties DEF TypeOK
      <3>3. QED
        BY <1>0, <1>1, <1>3, <1>10, <2>1, <2>3, <3>2 DEF FollowedInv
    <2>4. QED
      BY <2>2, <2>3
  <1>15. QED
    BY <1>10, <1>12, <1>13, <1>14 DEF DecodeInv
(* What the second loop at the return makes of a buffer: its old self, or  *)
(* what memory holds now.                                                  *)
LEMMA RecapturedFacts ==
  ASSUME memory \in Memory, NEW kind \in BufferKinds, NEW old \in DecodedArg,
         NEW ptr \in Nat, NEW count \in Nat,
         NEW d, d = Recaptured(old, Captured(kind, ptr, count, Fresh))
  PROVE  \/ d = old
         \/ /\ d \in DecodedArg /\ d.raw = old.raw /\ d.has_deref = old.has_deref
            /\ d.deref = old.deref /\ d.from_return /\ d.bytes # <<>>
            /\ CaptureOf(d, kind, ptr, count)
  <1> DEFINE new == Captured(kind, ptr, count, Fresh)
  <1>1. new \in DecodedArg /\ CaptureOf(new, kind, ptr, count)
    BY FreshType, CapturedFacts
  <1> HIDE DEF new
  <1>2. CASE new.bytes # <<>> \/ new.has_str
    <2>1. d = [old EXCEPT !.bytes = new.bytes, !.str = new.str, !.has_str = new.has_str,
                          !.bytes_total = new.bytes_total,
                          !.bytes_capped = new.bytes_capped, !.from_return = TRUE]
      BY <1>2 DEF Recaptured, new
    <2>2. /\ d \in DecodedArg /\ d.raw = old.raw /\ d.has_deref = old.has_deref
          /\ d.deref = old.deref /\ d.from_return
          /\ d.bytes = new.bytes /\ d.str = new.str /\ d.has_str = new.has_str
          /\ d.bytes_total = new.bytes_total /\ d.bytes_capped = new.bytes_capped
      BY <1>1, <2>1 DEF DecodedArg
    <2>3. CaptureOf(d, kind, ptr, count)
      BY <1>1, <2>2 DEF CaptureOf
    <2>4. d.bytes # <<>>
      BY <1>1, <1>2, <2>2 DEF CaptureOf
    <2>5. QED
      BY <2>2, <2>3, <2>4
  <1>3. CASE ~(new.bytes # <<>> \/ new.has_str)
    BY <1>3 DEF Recaptured, new
  <1>4. QED
    BY <1>2, <1>3

LEMMA ReturnCountFacts ==
  ASSUME NEW po, po.in_cap \in Nat, ByteCount(sig[po.index], params) \in Nat
  PROVE  /\ ReturnCount(po) \in Nat
         /\ po.in_cap # 0 => ReturnCount(po) <= po.in_cap
         /\ ByteCount(sig[po.index], params) # 0 =>
              ReturnCount(po) <= ByteCount(sig[po.index], params)
  BY DEF ReturnCount

(* The length the callee reports is what the second loop counts with.      *)
LEMMA ReportedIsCounted ==
  ASSUME DecodeInv, phase = "buffers", NEW i \in DOMAIN params, IsBuffer(i),
         LengthReported(i)
  PROVE  /\ ByteCount(sig[i], params) =
              memory[params[sig[i].value].raw].word *
                (IF sig[i].aux = "bytes" \/ sig[i].size = 0 THEN 1 ELSE sig[i].size)
         /\ ByteCount(sig[i], params) # 0
  <1> DEFINE j == sig[i].value
             word == memory[params[j].raw].word
             size == sig[i].size
  <1>0. /\ TypeOK /\ ShapeInv /\ PostponedInv /\ AllPostponedInv /\ FollowedInv
    BY DEF DecodeInv
  <1>1. /\ sig[i].aux \in {"bytes", "count"} /\ j \in DOMAIN sig
        /\ sig[j].kind \in PointerKinds /\ sig[j].out
        /\ WordReadable(params[j].raw) /\ word \in 1..MaxCount
    BY DEF LengthReported, CountBehindPointer
  <1>2. DOMAIN params = DOMAIN sig /\ ~AtCall /\ j \in DOMAIN params
    BY <1>0, <1>1 DEF ShapeInv, AtCall
  <1>3. NeedsDeref(sig[j].kind) /\ params[j].raw >= MinDeref
    BY <1>1 DEF PointerKinds, NeedsDeref, WordReadable
  <1>4. PICK k \in DOMAIN deferred : deferred[k].index = j
    BY <1>0, <1>1, <1>2, <1>3 DEF AllPostponedInv
  <1>5. deferred[k].ptr = params[j].raw
    BY <1>0, <1>4 DEF PostponedInv
  <1>6. params[j].has_deref /\ params[j].deref = word
    BY <1>0, <1>1, <1>2, <1>4, <1>5 DEF FollowedInv
  <1>7. size \in Nat /\ MaxCount \in Nat /\ word \in Nat /\ word # 0 /\ word <= MaxCount
    <2>1. sig[i] \in ParamSig
      BY <1>0, <1>2, ElementOfSeq, LenProperties DEF TypeOK
    <2>2. QED
      BY <1>1, <2>1, DecodeAssumption DEF ParamSig
  <1>8. ByteCount(sig[i], params) = IF sig[i].aux = "bytes" \/ size = 0 THEN word
                                    ELSE word * size
    <2> HIDE DEF word
    <2>1. sig[i].aux # "const"
      BY <1>1
    <2>2. QED
      BY <1>1, <1>2, <1>6, <1>7, <2>1 DEF ByteCount
  <1> HIDE DEF word, size
  <1>9. word * 1 = word /\ (size # 0 => word * size # 0)
    BY <1>7
  <1>10. QED
    <2>1. CASE sig[i].aux = "bytes" \/ size = 0
      BY <1>7, <1>8, <1>9, <2>1 DEF word, size
    <2>2. CASE ~(sig[i].aux = "bytes" \/ size = 0)
      BY <1>8, <1>9, <2>2 DEF word, size
    <2>3. QED
      BY <2>1, <2>2

LEMMA ResolveBufferStep ==
  ASSUME DecodeInv, ResolveBuffer
  PROVE  DecodeInv'
  <1> DEFINE po == deferred[next]
             x == po.index
             kind == sig[x].kind
             old == params[x]
             count == ReturnCount(po)
  <1>0. /\ TypeOK /\ ShapeInv /\ PostponedInv /\ MomentInv /\ CapacityInv
        /\ FollowedInv /\ AgreesInv /\ OutWordsInv
        /\ UsesReportedLength /\ WithinEarlyOffer
    BY DEF DecodeInv
  <1>1. /\ phase = "buffers" /\ phase' = "buffers" /\ next \in DOMAIN deferred
        /\ next' = next + 1
        /\ sig' = sig /\ memory' = memory /\ at_call' = at_call /\ args' = args
        /\ deferred' = deferred
    BY DEF ResolveBuffer
  <1>2. PICK d : /\ params' = [params EXCEPT ![x] = d]
                 /\ d = IF kind \notin BufferKinds THEN old
                        ELSE Recaptured(old, Captured(kind, po.ptr, count, Fresh))
    <2>1. CASE kind \notin BufferKinds
      <3>1. params' = params
        BY <2>1 DEF ResolveBuffer
      <3>2. params = [params EXCEPT ![x] = old]
        BY <1>0, LenProperties DEF TypeOK
      <3>3. QED
        BY <2>1, <3>1, <3>2
    <2>2. CASE kind \in BufferKinds
      BY <2>2 DEF ResolveBuffer
    <2>3. QED
      BY <2>1, <2>2
  <1>3. /\ x \in DOMAIN params /\ NeedsDeref(kind) /\ po.ptr = old.raw
        /\ DOMAIN params = DOMAIN sig /\ ~AtCall /\ ~AtCall'
    BY <1>0, <1>1 DEF PostponedInv, ShapeInv, AtCall
  <1>4. /\ old \in DecodedArg /\ kind \in Kinds /\ memory \in Memory /\ old.raw \in Nat
        /\ po.in_cap \in Nat /\ sig[x] \in ParamSig
        /\ \A j \in DOMAIN params : params[j] \in DecodedArg
    <2>1. /\ sig[x] \in ParamSig /\ \A j \in DOMAIN params : params[j] \in DecodedArg
          /\ po \in PendingOut
      BY <1>0, <1>1, <1>3, ElementOfSeq, LenProperties DEF TypeOK
    <2>2. po.in_cap \in Nat
      BY <2>1 DEF PendingOut
    <2>3. QED
      BY <1>0, <1>3, <2>1, <2>2 DEF TypeOK, Memory, ParamSig, DecodedArg
  <1>5. ByteCount(sig[x], params) \in Nat
    <2>1. \A j \in DOMAIN params : params[j].raw \in Nat /\ params[j].deref \in Nat
      BY <1>4 DEF DecodedArg
    <2>2. QED
      BY <1>4, <2>1, ByteCountFacts
  <1>6. /\ count \in Nat
        /\ po.in_cap # 0 => count <= po.in_cap
        /\ ByteCount(sig[x], params) # 0 => count <= ByteCount(sig[x], params)
    BY <1>4, <1>5, ReturnCountFacts
  <1>7. /\ Agrees(kind, old, Cells(old))
        /\ ~sig[x].in /\ (old.has_deref \/ old.bytes # <<>>) => old.from_return
        /\ Len(old.bytes) <= MaxBuffer
    BY <1>0, <1>3 DEF AgreesInv, OutWordsInv, TypeOK
  <1>8. PointerKinds \cap BufferKinds = {}
    BY DEF PointerKinds, BufferKinds
  <1>9. CapacityInv => (IsBuffer(x) /\ Offered(x) # 0
                          /\ (CountBehindPointer(x) => sig[x].value < x)
                        => po.in_cap = Offered(x))
    BY <1>1 DEF CapacityInv
  <1> HIDE DEF po, kind, old, count
  <1>10. \/ d = old
         \/ /\ kind \in BufferKinds
            /\ d \in DecodedArg /\ d.raw = old.raw /\ d.has_deref = old.has_deref
            /\ d.deref = old.deref /\ d.from_return /\ d.bytes # <<>>
            /\ CaptureOf(d, kind, old.raw, count)
    BY <1>2, <1>3, <1>4, <1>6, RecapturedFacts
  <1>11. /\ d \in DecodedArg /\ d.raw = old.raw
         /\ Agrees(kind, d, Cells(d))
         /\ ~sig[x].in /\ (d.has_deref \/ d.bytes # <<>>) => d.from_return
         /\ Len(d.bytes) <= MaxBuffer
    <2>1. CASE d = old
      BY <1>4, <1>7, <2>1
    <2>2. CASE d # old
      <3>1. ~d.has_deref
        BY <1>7, <1>8, <1>10, <2>2 DEF Agrees
      <3>2. Cells(d) = memory
        BY <1>10, <2>2 DEF Cells
      <3>3. Agrees(kind, d, memory)
        BY <1>10, <2>2, <3>1 DEF Agrees, CaptureOf, Complete
      <3>4. Len(d.bytes) <= MaxBuffer
        BY <1>10, <2>2 DEF CaptureOf
      <3>5. QED
        BY <1>10, <2>2, <3>2, <3>3, <3>4
    <2>3. QED
      BY <2>1, <2>2
  <1>12. /\ DOMAIN params' = DOMAIN params /\ params'[x] = d
         /\ \A j \in DOMAIN params : j # x => params'[j] = params[j]
         /\ \A j \in DOMAIN params : params'[j].raw = params[j].raw
         /\ \A j \in DOMAIN params : Offered(j)' = Offered(j) /\ Offered(j) \in Nat
         /\ TypeOK' /\ ShapeInv' /\ PostponedInv' /\ AllPostponedInv'
         /\ UntouchedInv' /\ EntryInv' /\ CapacityInv' /\ FlatViewCurrent'
    <2> HIDE DEF x
    <2>1. params[x] = old
      BY DEF x, old
    <2>2. QED
      BY <1>1, <1>2, <1>3, <1>11, <2>1, ReplacedParam
  <1>13. MomentInv'
    BY <1>1, <1>3 DEF MomentInv
  <1>14. AgreesInv' /\ OutWordsInv'
    <2>1. ASSUME NEW j \in DOMAIN params'
          PROVE  /\ Agrees(sig[j].kind, params'[j], Cells(params'[j]))
                 /\ ~sig[j].in /\ (params'[j].has_deref \/ params'[j].bytes # <<>>)
                      => params'[j].from_return
      <3>1. CASE j = x
        BY <1>11, <1>12, <3>1 DEF kind
      <3>2. CASE j # x
        BY <1>0, <1>12, <3>2 DEF AgreesInv, OutWordsInv
      <3>3. QED
        BY <3>1, <3>2
    <2>2. QED
      BY <1>1, <2>1 DEF AgreesInv, OutWordsInv, Cells
  <1>15. FollowedInv'
    <2> SUFFICES ASSUME NEW k \in DOMAIN deferred,
                        sig[deferred[k].index].kind \in PointerKinds, WordReadable(deferred[k].ptr)
                 PROVE  /\ params'[deferred[k].index].has_deref
                        /\ params'[deferred[k].index].deref = memory[deferred[k].ptr].word
      BY <1>1 DEF FollowedInv, WordReadable, Query
    <2>1. deferred[k].index \in DOMAIN params
      BY <1>0 DEF PostponedInv
    <2>2. /\ params[deferred[k].index].has_deref
          /\ params[deferred[k].index].deref = memory[deferred[k].ptr].word
      BY <1>0, <1>1, <1>3 DEF FollowedInv
    <2>3. CASE deferred[k].index = x
      <3>1. d = old
        BY <1>8, <1>10, <2>3 DEF kind
      <3>2. QED
        BY <1>12, <2>2, <2>3, <3>1 DEF old
    <2>4. CASE deferred[k].index # x
      BY <1>12, <2>1, <2>2, <2>4
    <2>5. QED
      BY <2>3, <2>4
  <1>16. UsesReportedLength'
    <2>1. \A j \in DOMAIN params : LengthReported(j)' <=> LengthReported(j)
      BY <1>1, <1>3, <1>12 DEF LengthReported, CountBehindPointer, WordReadable, Query
    <2>2. \A j \in DOMAIN params : LengthReported(j) =>
            params'[sig[j].value].raw = params[sig[j].value].raw
      BY <1>3, <1>12 DEF LengthReported, CountBehindPointer
    <2> DEFINE most(j) == memory[params[sig[j].value].raw].word *
                            (IF sig[j].aux = "bytes" \/ sig[j].size = 0 THEN 1 ELSE sig[j].size)
    <2> SUFFICES ASSUME NEW j \in DOMAIN params, IsBuffer(j), params'[j].from_return,
                        LengthReported(j)
                 PROVE  params'[j].bytes_total <= most(j)
      BY <1>1, <1>12, <2>1, <2>2 DEF UsesReportedLength, IsBuffer
    <2>3. CASE params'[j] = params[j]
      BY <1>0, <2>3 DEF UsesReportedLength
    <2>4. CASE params'[j] # params[j]
      <3>1. j = x /\ d # old
        BY <1>12, <2>4 DEF old
      <3>2. d.bytes_total = count
        BY <1>10, <3>1 DEF CaptureOf
      <3>3. ByteCount(sig[x], params) = most(j) /\ ByteCount(sig[x], params) # 0
        BY <1>1, <3>1, ReportedIsCounted
      <3> HIDE DEF most
      <3>4. QED
        BY <1>6, <1>12, <3>1, <3>2, <3>3
    <2>5. QED
      BY <2>3, <2>4
  <1>17. WithinEarlyOffer'
    <2> SUFFICES ASSUME NEW j \in DOMAIN params, IsBuffer(j), params'[j].from_return,
                        Offered(j) # 0, CountBehindPointer(j) => sig[j].value < j
                 PROVE  Len(params'[j].bytes) <= Offered(j)
      BY <1>1, <1>12 DEF WithinEarlyOffer, IsBuffer, CountBehindPointer
    <2>1. CASE params'[j] = params[j]
      BY <1>0, <2>1 DEF WithinEarlyOffer
    <2>2. CASE params'[j] # params[j]
      <3>1. j = x /\ d # old
        BY <1>12, <2>2 DEF old
      <3>2. Len(d.bytes) <= count /\ Len(d.bytes) \in Nat
        BY <1>10, <3>1, LenProperties DEF CaptureOf, DecodedArg
      <3>3. po.in_cap = Offered(j)
        BY <1>0, <1>9, <3>1
      <3>4. QED
        BY <1>4, <1>6, <1>12, <3>1, <3>2, <3>3
    <2>3. QED
      BY <2>1, <2>2
  <1>18. QED
    BY <1>12, <1>13, <1>14, <1>15, <1>16, <1>17 DEF DecodeInv
----------------------------------------------------------------------------
(* DecodeInv holds of every state the decoder reaches.                     *)
THEOREM DecodeInductive == Spec => []DecodeInv
  <1>1. DecodeInv /\ [Next]_vars => DecodeInv'
    <2> SUFFICES ASSUME DecodeInv, [Next]_vars PROVE DecodeInv'
      OBVIOUS
    <2>1. CASE Fetch
      BY <2>1, FetchStep
    <2>2. CASE DecodeParam
      BY <2>2, DecodeParamStep
    <2>3. CASE DecodeEnds
      BY <2>3, DecodeEndsStep
    <2>4. CASE Callee
      BY <2>4, CalleeStep
    <2>5. CASE ResolveScalar
      BY <2>5, ResolveScalarStep
    <2>6. CASE ScalarsEnd
      BY <2>6, ScalarsEndStep
    <2>7. CASE ResolveBuffer
      BY <2>7, ResolveBufferStep
    <2>8. CASE BuffersEnd
      BY <2>8, BuffersEndStep
    <2>9. CASE UNCHANGED vars
      BY <2>9, DecodeStutter
    <2>10. QED
      BY <2>1, <2>2, <2>3, <2>4, <2>5, <2>6, <2>7, <2>8, <2>9 DEF Next
  <1>2. QED
    BY <1>1, DecodeInit, PTL DEF Spec

(* The decoder's state is well formed, and no buffer is longer than the    *)
(* limit that was configured.                                              *)
THEOREM DecodeType == Spec => []TypeOK
  <1>1. DecodeInv => TypeOK
    BY DEF DecodeInv
  <1>2. QED
    BY <1>1, DecodeInductive, PTL

(* What is reported of an argument is what memory held at the moment the   *)
(* report says: at the call, or at the return.                             *)
THEOREM DecodeOneMoment == Spec => []ContentsOfOneMoment
  <1>1. DecodeInv => ContentsOfOneMoment
    BY DEF DecodeInv, AgreesInv, Agrees, Cells, ContentsOfOneMoment, IsBuffer
  <1>2. QED
    BY <1>1, DecodeInductive, PTL

----------------------------------------------------------------------------
(* Text left to the callee to fill in is from the return, whether or not   *)
(* it is marked so.  The text of an opaque pointer is not.                 *)
OutTextInv ==
  \A i \in DOMAIN params :
    ~sig[i].in /\ params[i].has_str /\ sig[i].kind # "opaque" =>
      ~AtCall /\ (params[i].from_return \/ params[i].str = TextAt(params[i].raw))

(* The entry pass finds no text for such a parameter.                      *)
LEMMA OutTextAtEntry ==
  ASSUME DecodeInv, OutTextInv, DecodeParam
  PROVE  OutTextInv'
  <1>1. /\ phase = "entry" /\ phase' = phase /\ sig' = sig /\ next \in DOMAIN sig
        /\ \E count : params' = [params EXCEPT ![next] = AtEntry(next, count)]
    BY DEF DecodeParam
  <1>2. DOMAIN params = DOMAIN sig
    BY <1>1 DEF DecodeInv, ShapeInv
  <1>3. \A i \in DOMAIN params :
          ~sig[i].in /\ sig[i].kind # "opaque" => ~params[i].has_str
    BY <1>1 DEF OutTextInv, AtCall
  <1>4. ASSUME NEW i \in DOMAIN params', ~sig[i].in, sig[i].kind # "opaque"
        PROVE  ~params'[i].has_str
    <2>1. PICK count : params' = [params EXCEPT ![next] = AtEntry(next, count)]
      BY <1>1
    <2>2. CASE i # next
      BY <1>3, <1>4, <2>1, <2>2
    <2>3. CASE i = next
      <3>1. AtEntry(i, count) = params[i]
        BY <1>4 DEF AtEntry, WithUntypedString, NeedsDeref
      <3>2. QED
        BY <1>1, <1>2, <1>3, <1>4, <2>1, <2>3, <3>1
    <2>4. QED
      BY <2>2, <2>3
  <1>5. QED
    BY <1>1, <1>4 DEF OutTextInv

(* A scalar that is read again has the text memory has now.                *)
LEMMA OutTextOfScalar ==
  ASSUME DecodeInv, OutTextInv, ResolveScalar
  PROVE  OutTextInv'
  <1>0. /\ TypeOK /\ ShapeInv /\ PostponedInv /\ OutWordsInv
    BY DEF DecodeInv
  <1> DEFINE po == deferred[next]
             x == po.index
             kind == sig[x].kind
             old == params[x]
             fresh == Dereferenced(kind, po.ptr, 0, Fresh)
             read == ReadAgain(old, fresh)
             d == WithUntypedString(kind, read)
  <1>1. /\ phase = "scalars" /\ phase' = phase /\ sig' = sig /\ memory' = memory
        /\ next \in DOMAIN deferred
        /\ params' = IF kind \in BufferKinds THEN params ELSE [params EXCEPT ![x] = d]
    BY DEF ResolveScalar
  <1>2. ~AtCall /\ ~AtCall'
    BY <1>1 DEF AtCall
  <1>3. x \in DOMAIN params
    BY <1>0, <1>1 DEF PostponedInv
  <1>4. CASE kind \in BufferKinds
    <2>1. params' = params
      BY <1>1, <1>4
    <2>2. QED
      BY <1>1, <1>2, <2>1 DEF OutTextInv, TextAt, Query
  <1>5. CASE kind \notin BufferKinds
    <2>1. params' = [params EXCEPT ![x] = d]
      BY <1>1, <1>5
    <2>2. read.from_return \/ read = old
      <3>1. read = old \/ read = [fresh EXCEPT !.raw = old.raw, !.from_return = TRUE]
        BY DEF ReadAgain
      <3>2. CASE read = old
        BY <3>2
      <3>3. CASE fresh.has_deref \/ fresh.has_str
        <4> DEFINE c == [fresh EXCEPT !.raw = old.raw, !.from_return = TRUE]
        <4>1. fresh \in DecodedArg
          <5>0. old \in DecodedArg /\ sig[x] \in ParamSig
            BY <1>0, <1>1, <1>3, ElementOfSeq, LenProperties DEF TypeOK, ShapeInv
          <5>1. /\ kind \in Kinds /\ NeedsDeref(kind) /\ po.ptr \in Nat
                /\ memory \in Memory
            BY <1>0, <1>1, <5>0 DEF PostponedInv, TypeOK, ParamSig, DecodedArg, Memory
          <5>2. Fresh \in DecodedArg /\ ~Fresh.has_deref
            BY FreshType DEF Fresh
          <5>3. QED
            BY <1>5, <5>1, <5>2, FollowedFacts
        <4>2. c.from_return
          BY <4>1 DEF DecodedArg
        <4>3. read = c
          BY <3>3 DEF ReadAgain
        <4>4. QED
          BY <4>2, <4>3
      <3>4. QED
        BY <3>2, <3>3 DEF ReadAgain
    <2>3. CASE read.from_return
      <3>1. d.from_return
        BY <2>3 DEF WithUntypedString
      <3>2. QED
        BY <1>1, <1>2, <1>3, <2>1, <3>1 DEF OutTextInv, TextAt, Query
    <2>4. CASE read = old
      <3> HIDE DEF d, old, read, kind
      <3>1. /\ d.raw = old.raw /\ d.from_return = old.from_return
            /\ d.has_str => \/ old.has_str /\ d.str = old.str
                           \/ d.str = TextAt(old.raw)
                           \/ old.has_deref
        <4>1. old \in DecodedArg
          BY <1>0, <1>3, ElementOfSeq DEF TypeOK, old
        <4>2. d = WithUntypedString(kind, old)
          BY <2>4 DEF d
        <4>3. \/ d = old
              \/ d = [old EXCEPT !.str = TextAt(old.raw), !.has_str = TRUE]
              \/ d = [old EXCEPT !.str = TextAt(old.deref), !.has_str = TRUE] /\ old.has_deref
          BY <4>2 DEF WithUntypedString
        <4>4. CASE d = old
          BY <4>4
        <4>5. CASE d = [old EXCEPT !.str = TextAt(old.raw), !.has_str = TRUE]
          BY <4>1, <4>5 DEF DecodedArg
        <4>6. CASE d = [old EXCEPT !.str = TextAt(old.deref), !.has_str = TRUE] /\ old.has_deref
          BY <4>1, <4>6 DEF DecodedArg
        <4>7. QED
          BY <4>3, <4>4, <4>5, <4>6
      <3>2. ASSUME NEW i \in DOMAIN params, ~sig[i].in, sig[i].kind # "opaque",
                   params'[i].has_str
            PROVE  params'[i].from_return \/ params'[i].str = TextAt(params'[i].raw)
        <4>1. CASE i # x
          BY <3>2, <4>1, <2>1 DEF OutTextInv
        <4>2. CASE i = x
          <5>1. params'[i] = d
            BY <1>3, <2>1, <4>2
          <5>2. /\ old.has_str => old.from_return \/ old.str = TextAt(old.raw)
                /\ old.has_deref => old.from_return
            BY <1>0, <3>2, <4>2 DEF OutTextInv, OutWordsInv, old
          <5>3. QED
            BY <3>1, <3>2, <5>1, <5>2
        <4>3. QED
          BY <4>1, <4>2
      <3>3. DOMAIN params' = DOMAIN params /\ sig' = sig /\ memory' = memory
        BY <1>1, <2>1
      <3>4. QED
        BY <1>2, <3>2, <3>3 DEF OutTextInv, TextAt, Query
    <2>5. QED
      BY <2>2, <2>3, <2>4
  <1>6. QED
    BY <1>4, <1>5

(* A buffer that is read again is marked so.                               *)
LEMMA OutTextOfBuffer ==
  ASSUME DecodeInv, OutTextInv, ResolveBuffer
  PROVE  OutTextInv'
  <1>0. TypeOK /\ PostponedInv
    BY DEF DecodeInv
  <1> DEFINE x == deferred[next].index
  <1>1. /\ phase = "buffers" /\ phase' = phase /\ sig' = sig /\ memory' = memory
        /\ next \in DOMAIN deferred
    BY DEF ResolveBuffer
  <1>2. \/ params' = params
        \/ \E new : params' = [params EXCEPT ![x] = Recaptured(params[x], new)]
    BY DEF ResolveBuffer
  <1>3. x \in DOMAIN params
    BY <1>0, <1>1 DEF PostponedInv
  <1>4. DOMAIN params' = DOMAIN params
    BY <1>2
  <1>5. ASSUME NEW i \in DOMAIN params
        PROVE  params'[i] = params[i] \/ params'[i].from_return
    <2>1. CASE params' = params
      BY <2>1
    <2>2. ASSUME NEW new, params' = [params EXCEPT ![x] = Recaptured(params[x], new)]
          PROVE  params'[i] = params[i] \/ params'[i].from_return
      <3>1. params[x] \in DecodedArg
        BY <1>0, <1>3, ElementOfSeq DEF TypeOK
      <3>2. Recaptured(params[x], new) = params[x] \/ Recaptured(params[x], new).from_return
        BY <3>1 DEF Recaptured, DecodedArg
      <3>3. QED
        BY <1>3, <2>2, <3>2
    <2>3. QED
      BY <1>2, <2>1, <2>2
  <1>6. ~AtCall /\ ~AtCall'
    BY <1>1 DEF AtCall
  <1>7. QED
    BY <1>1, <1>4, <1>5, <1>6 DEF OutTextInv, TextAt, Query

(* What a caller leaves to the callee is never reported as it was before:  *)
(* values and bytes are marked as read at the return, and text is of the   *)
(* return whether it is marked or not.  Opaque pointers, whose text is     *)
(* looked for at the call only, are outside the statement.                 *)
THEOREM DecodeOutFromReturn == Spec => []OutContentsAreFromReturn
  <1>1. Init => OutTextInv
    BY DEF Init, OutTextInv
  <1>2. DecodeInv /\ OutTextInv /\ [Next]_vars => OutTextInv'
    <2> SUFFICES ASSUME DecodeInv, OutTextInv, [Next]_vars PROVE OutTextInv'
      OBVIOUS
    <2>1. CASE Fetch
      <3>1. DOMAIN params' = DOMAIN sig /\ sig' = sig
        BY <2>1 DEF Fetch
      <3>2. \A i \in DOMAIN params' : ~params'[i].has_str
        BY <2>1 DEF Fetch, Fresh
      <3>3. QED
        BY <3>1, <3>2 DEF OutTextInv
    <2>2. CASE DecodeParam
      BY <2>2, OutTextAtEntry
    <2>3. CASE Callee
      <3>1. AtCall /\ params' = params /\ sig' = sig
        BY <2>3 DEF Callee, AtCall
      <3>2. QED
        BY <3>1 DEF OutTextInv
    <2>4. CASE ResolveScalar
      BY <2>4, OutTextOfScalar
    <2>5. CASE ResolveBuffer
      BY <2>5, OutTextOfBuffer
    <2>6. CASE DecodeEnds \/ ScalarsEnd \/ BuffersEnd \/ UNCHANGED vars
      <3>1. /\ params' = params /\ sig' = sig /\ memory' = memory
            /\ ~AtCall => ~AtCall'
        BY <2>6 DEF DecodeEnds, ScalarsEnd, BuffersEnd, vars, AtCall
      <3>2. QED
        BY <3>1 DEF OutTextInv, TextAt, Query
    <2>7. QED
      BY <2>1, <2>2, <2>3, <2>4, <2>5, <2>6 DEF Next
  <1>3. DecodeInv /\ OutTextInv => OutContentsAreFromReturn
    <2>1. DecodeInv => OutWordsInv /\ phase \in Phases
      BY DEF DecodeInv, TypeOK
    <2>2. QED
      BY <2>1 DEF OutWordsInv, OutTextInv, OutContentsAreFromReturn, AtCall, Returned, Phases
  <1>4. QED
    BY <1>1, <1>2, <1>3, DecodeInductive, PTL DEF Spec

(* A buffer is read again at the length the callee reports, in whichever   *)
(* order the two parameters come.                                          *)
THEOREM DecodeReportedLength == Spec => []UsesReportedLength
  <1>1. DecodeInv => UsesReportedLength
    BY DEF DecodeInv
  <1>2. QED
    BY <1>1, DecodeInductive, PTL

(* No more of a buffer is read again than its caller offered, if the offer *)
(* does not stand behind a later pointer.                                  *)
THEOREM DecodeWithinOffer == Spec => []WithinEarlyOffer
  <1>1. DecodeInv => WithinEarlyOffer
    BY DEF DecodeInv
  <1>2. QED
    BY <1>1, DecodeInductive, PTL

(* A buffer that is not marked as cut short is all there.                  *)
THEOREM DecodeComplete == Spec => []UncappedIsComplete
  <1>1. DecodeInv => UncappedIsComplete
    BY DEF DecodeInv, AgreesInv, Agrees, Complete, Cells, UncappedIsComplete
  <1>2. QED
    BY <1>1, DecodeInductive, PTL

(* What capa matches rules against is what the report shows, once the call *)
(* has been decoded and once it has been completed.                        *)
THEOREM DecodeFlatView == Spec => []FlatViewCurrent
  <1>1. DecodeInv => FlatViewCurrent
    BY DEF DecodeInv
  <1>2. QED
    BY <1>1, DecodeInductive, PTL
============================================================================
