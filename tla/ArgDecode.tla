----------------------------- MODULE ArgDecode -----------------------------
(***************************************************************************)
(* How the arguments of one logged call are decoded from its signature     *)
(* (ttd/src/abi.cpp): decodeArgs at the call, in two passes over the       *)
(* parameters, and resolvePendingOuts at the return, in two passes over    *)
(* what the first call postponed.  In between the callee runs and changes  *)
(* the guest's memory.                                                     *)
(*                                                                         *)
(* Memory is what the decoder can ask of it: at an address it reads an     *)
(* integer, and a run of bytes that ends where memory stops being          *)
(* readable.  Bytes are told apart by who wrote them and by whether they   *)
(* are NUL; characters are not modelled, so every text is plausible.       *)
(***************************************************************************)
EXTENDS Naturals, Sequences, SequencesExt, FiniteSetsExt

CONSTANTS
  Signatures,   \* the parameter lists to decode, each a sequence of ParamSig
  Integers,     \* values of integer arguments
  Pointers,     \* values of pointer arguments, null among them
  Contents,     \* what an address can hold at the call
  Results,      \* what it can hold at the return
  MinDeref,     \* kMinDerefAddr
  MaxCount,     \* kMaxCountElements
  MaxBuffer,    \* opt.max_buffer
  MaxString,    \* opt.max_string
  WordSize,     \* bytes of an integer or a pointer in the guest's memory
  MinText       \* letters tryReadString asks for (4 in the code)

VARIABLES
  sig,          \* sig.params
  memory,       \* guest: the memory now
  at_call,      \* history: the memory when the call was made
  phase,        \* the pass the decoder is in
  next,         \* the parameter or postponed read it looks at
  params,       \* call.params
  deferred,     \* InFlight::pending
  args          \* call.args, the flat view capa matches rules against

vars == <<sig, memory, at_call, phase, next, params, deferred, args>>
----------------------------------------------------------------------------
Byte == {"nul", "old", "new"}

Cell == [word : Nat, bytes : Seq(Byte)]

BufferKinds == {"byte buffer", "ansi buffer", "wide buffer"}

(* "integer pointer" is PtrToInt, "string pointer" PtrToAnsiString and its *)
(* wide sister, "string" what is read as text up to a NUL, "opaque"        *)
(* Pointer and Unknown; "integer" stands for what is never followed.  A    *)
(* Guid, sixteen bytes read or nothing, has no kind here.                  *)
Kinds == BufferKinds \cup
  {"integer", "integer pointer", "string", "string pointer", "opaque"}

ParamSig ==
  [kind : Kinds, in : BOOLEAN, out : BOOLEAN,
   aux : {"none", "bytes", "count", "const"}, value : Nat, size : Nat]

ASSUME DecodeAssumption ==
  /\ Signatures \subseteq Seq(ParamSig)
  /\ Integers \subseteq Nat /\ Pointers \subseteq Nat
  /\ {MinDeref, MaxCount, MaxString, MinText, WordSize} \subseteq Nat \ {0}
  /\ MaxBuffer \in Nat   \* --max-buffer 0 keeps no bytes of any buffer
  /\ DOMAIN Contents = DOMAIN Results
  /\ DOMAIN Contents \subseteq Nat
  /\ \A a \in DOMAIN Contents : Contents[a] \cup Results[a] \subseteq Cell

DecodedArg ==
  [raw : Nat, deref : Nat, has_deref : BOOLEAN, str : Seq(Byte), has_str : BOOLEAN,
   bytes : Seq(Byte), bytes_total : Nat, bytes_capped : BOOLEAN, from_return : BOOLEAN]

(* What capa sees of an argument: text, or an integer if text is empty.    *)
ArgValue == [text : Seq(Byte), integer : Nat]

PendingOut == [index : Nat, ptr : Nat, in_cap : Nat]

Phases == {"fetch", "entry", "running", "scalars", "buffers", "done"}

Fresh ==
  [raw |-> 0, deref |-> 0, has_deref |-> FALSE, str |-> <<>>, has_str |-> FALSE,
   bytes |-> <<>>, bytes_total |-> 0, bytes_capped |-> FALSE, from_return |-> FALSE]

TypeOK ==
  /\ sig \in Seq(ParamSig)
  /\ memory \in [DOMAIN Contents -> Cell]
  /\ at_call \in [DOMAIN Contents -> Cell]
  /\ phase \in Phases
  /\ next \in Nat
  /\ params \in Seq(DecodedArg)
  /\ \A i \in DOMAIN params : Len(params[i].bytes) <= MaxBuffer
  /\ deferred \in Seq(PendingOut)
  /\ args \in Seq(ArgValue)

Init ==
  /\ sig \in Signatures
  /\ memory \in {m \in [DOMAIN Contents -> UNION {Contents[a] : a \in DOMAIN Contents}] :
                   \A a \in DOMAIN m : m[a] \in Contents[a]}
  /\ at_call = memory
  /\ phase = "fetch"
  /\ next = 1
  /\ params = <<>>
  /\ deferred = <<>>
  /\ args = <<>>
----------------------------------------------------------------------------
(* QueryMemoryBuffer: at most n of the bytes at an address.                *)
Query(a, n) ==
  IF a \in DOMAIN memory
    THEN SubSeq(memory[a].bytes, 1, Min({n, Len(memory[a].bytes)}))
    ELSE <<>>

(* There is text to read at an address, if only a byte of it ...           *)
Readable(a) == a >= MinDeref /\ Query(a, 1) # <<>>

(* ... and readGuest finds the whole of a word.                            *)
WordReadable(a) == a >= MinDeref /\ Len(Query(a, WordSize)) = WordSize

CharWidth(kind) == IF kind = "wide buffer" THEN 2 ELSE 1

(* The NUL characters in a run of bytes, by their place among characters.  *)
Terminators(bytes, width) ==
  {i \in 1..(Len(bytes) \div width) :
     \A k \in 1..width : bytes[(i - 1) * width + k] = "nul"}

TerminatorEnd(bytes, width) ==
  IF Terminators(bytes, width) = {} THEN Len(bytes)
  ELSE width * Min(Terminators(bytes, width))

(* readAnsiString and readWideString: what comes before the terminator.    *)
Text(bytes, width) ==
  IF Terminators(bytes, width) = {} THEN SubSeq(bytes, 1, width * (Len(bytes) \div width))
  ELSE SubSeq(bytes, 1, width * (Min(Terminators(bytes, width)) - 1))

TextAt(a) == Text(Query(a, MaxString), 1)

LooksLikeText(a) == a >= MinDeref /\ Len(TextAt(a)) >= MinText

(* resolveByteCount: the bytes a buffer spans, 0 when that is unknown.  A  *)
(* count in another parameter is taken through the pointer once that       *)
(* parameter has been dereferenced, and as the raw value until then.       *)
ByteCount(p, decoded) ==
  LET count ==
        IF p.aux = "const" THEN p.value
        ELSE IF p.aux \in {"bytes", "count"} /\ p.value \in DOMAIN decoded
          THEN LET src == decoded[p.value] IN
               IF src.has_deref THEN src.deref ELSE src.raw
        ELSE 0
  IN
  IF count = 0 \/ count > MaxCount THEN 0
  ELSE IF p.aux = "bytes" \/ p.size = 0 THEN count
  ELSE count * p.size

MutCaptured(kind, ptr, count, arg) ==
  LET got  == Query(ptr, count)
      end  == TerminatorEnd(got, CharWidth(kind))
      text == Text(got, CharWidth(kind))
  IN
  IF ptr < MinDeref \/ got = <<>> THEN arg
  ELSE IF kind = "byte buffer" THEN [arg EXCEPT !.bytes = got, !.bytes_total = count]
  ELSE [arg EXCEPT !.bytes = SubSeq(got, 1, end), !.bytes_total = count,
                   !.str = text, !.has_str = text # <<>>]

(* captureBuffer: arg with the buffer at ptr in it.                        *)
Captured(kind, ptr, count, arg) ==
  LET want  == Min({count, MaxBuffer})
      got   == Query(ptr, want)
      end   == TerminatorEnd(got, CharWidth(kind))
      text  == Text(got, CharWidth(kind))
      sized == [arg EXCEPT !.bytes_total = count, !.bytes_capped = want < count]
  IN
  IF ptr < MinDeref \/ count = 0 THEN arg
  ELSE IF got = <<>> THEN sized
  ELSE IF kind = "byte buffer" THEN [sized EXCEPT !.bytes = got]
  ELSE [sized EXCEPT !.bytes = SubSeq(got, 1, end),
                     !.bytes_capped = @ /\ end = Len(got),
                     !.str = text,
                     !.has_str = text # <<>>]

(* dereference: arg with what ptr points at in it.                         *)
Dereferenced(kind, ptr, count, arg) ==
  IF kind \in BufferKinds THEN Captured(kind, ptr, count, arg)
  ELSE IF kind = "string"
    THEN IF Readable(ptr) THEN [arg EXCEPT !.str = TextAt(ptr), !.has_str = TRUE] ELSE arg
  ELSE IF ~WordReadable(ptr) THEN arg
  ELSE LET word  == memory[ptr].word
           deref == [arg EXCEPT !.deref = word, !.has_deref = TRUE]
       IN
       IF kind = "string pointer" /\ Readable(word)
         THEN [deref EXCEPT !.str = TextAt(word), !.has_str = TRUE]
         ELSE deref

(* tryUntypedString: an opaque value, or an integer pointer, may point at  *)
(* text, or at a pointer to text.                                          *)
WithUntypedString(kind, arg) ==
  IF arg.has_str \/ kind \notin {"opaque", "integer pointer"} THEN arg
  ELSE IF LooksLikeText(arg.raw)
    THEN [arg EXCEPT !.str = TextAt(arg.raw), !.has_str = TRUE]
  ELSE IF arg.has_deref /\ LooksLikeText(arg.deref)
    THEN [arg EXCEPT !.str = TextAt(arg.deref), !.has_str = TRUE]
  ELSE arg

NeedsDeref(kind) == kind \notin {"integer", "opaque"}

(* toCapaArgs.                                                             *)
CapaArgs(decoded) ==
  [i \in DOMAIN decoded |->
     IF decoded[i].has_str /\ decoded[i].str # <<>>
       THEN [text |-> decoded[i].str, integer |-> 0]
       ELSE [text |-> <<>>, integer |-> decoded[i].raw]]
----------------------------------------------------------------------------
(* The values the guest can pass for a parameter of a kind.                *)
RawValues(kind) == (IF kind = "integer" THEN Integers ELSE Pointers) \cup {0}

(* decodeArgs, pass 1: the raw value of every parameter.  A stack slot     *)
(* that cannot be read counts as 0.                                        *)
Fetch ==
  /\ phase = "fetch"
  /\ params' \in {ps \in [DOMAIN sig -> {[Fresh EXCEPT !.raw = v] :
                                       v \in Integers \cup Pointers \cup {0}}] :
                    \A i \in DOMAIN sig : ps[i].raw \in RawValues(sig[i].kind)}
  /\ phase' = "entry"
  /\ UNCHANGED <<sig, memory, at_call, next, deferred, args>>

MutAtEntry(i, count) ==
  LET p == sig[i] IN
  IF ~NeedsDeref(p.kind) THEN WithUntypedString(p.kind, params[i])
  ELSE WithUntypedString(p.kind,
         Dereferenced(p.kind, params[i].raw, count, params[i]))

(* What pass 2 makes of parameter i: only [In] contents are valid yet.     *)
AtEntry(i, count) ==
  LET p == sig[i] IN
  IF ~NeedsDeref(p.kind) THEN WithUntypedString(p.kind, params[i])
  ELSE IF p.in
    THEN WithUntypedString(p.kind,
           Dereferenced(p.kind, params[i].raw, count, params[i]))
  ELSE params[i]

(* decodeArgs, pass 2, for the next parameter.                             *)
DecodeParam ==
  /\ phase = "entry" /\ next \in DOMAIN sig
  /\ LET p     == sig[next]
         count == IF p.kind \in BufferKinds THEN ByteCount(p, params) ELSE 0
         raw   == params[next].raw
     IN
     /\ params' = [params EXCEPT ![next] = AtEntry(next, count)]
     /\ deferred' =
          IF NeedsDeref(p.kind) /\ p.out /\ raw >= MinDeref
            THEN Append(deferred, [index |-> next, ptr |-> raw, in_cap |-> count])
            ELSE deferred
  /\ next' = next + 1
  /\ UNCHANGED <<sig, memory, at_call, phase, args>>

DecodeEnds ==
  /\ phase = "entry" /\ next \notin DOMAIN sig
  /\ args' = CapaArgs(params)
  /\ phase' = "running"
  /\ UNCHANGED <<sig, memory, at_call, next, params, deferred>>

(* The callee writes where it likes, and returns.  Nothing is read again   *)
(* if nothing was postponed.                                               *)
Callee ==
  /\ phase = "running"
  /\ memory' \in {m \in [DOMAIN memory ->
                           UNION {Results[a] \cup {memory[a]} : a \in DOMAIN memory}] :
                    \A a \in DOMAIN m : m[a] \in Results[a] \cup {memory[a]}}
  /\ next' = 1
  /\ phase' = IF deferred = <<>> THEN "done" ELSE "scalars"
  /\ UNCHANGED <<sig, at_call, params, deferred, args>>

MutUnflagged(old, new) ==
  IF new.has_deref \/ new.has_str THEN [new EXCEPT !.raw = old.raw] ELSE old

MutKeepsOld(old, new) ==
  IF (new.has_deref \/ new.has_str) /\ ~(old.has_deref \/ old.has_str)
    THEN [new EXCEPT !.raw = old.raw, !.from_return = TRUE]
    ELSE old

(* A postponed scalar or string that can be read replaces the argument.    *)
ReadAgain(old, new) ==
  IF new.has_deref \/ new.has_str
    THEN [new EXCEPT !.raw = old.raw, !.from_return = TRUE]
    ELSE old

(* resolvePendingOuts, first loop, for the next postponed read.            *)
ResolveScalar ==
  /\ phase = "scalars" /\ next \in DOMAIN deferred
  /\ LET po == deferred[next]
         kind == sig[po.index].kind
     IN
     params' =
       IF kind \in BufferKinds THEN params
       ELSE [params EXCEPT ![po.index] =
              WithUntypedString(kind, ReadAgain(@, Dereferenced(kind, po.ptr, 0, Fresh)))]
  /\ next' = next + 1
  /\ UNCHANGED <<sig, memory, at_call, phase, deferred, args>>

ScalarsEnd ==
  /\ phase = "scalars" /\ next \notin DOMAIN deferred
  /\ phase' = "buffers"
  /\ next' = 1
  /\ UNCHANGED <<sig, memory, at_call, params, deferred, args>>

MutReturnCount(po) ==
  LET count == ByteCount(sig[po.index], params) IN
  IF count = 0 THEN po.in_cap ELSE count

(* The bytes to read again: what the callee reports, within the capacity   *)
(* seen at the call, or that capacity if it reports nothing.               *)
ReturnCount(po) ==
  LET count == ByteCount(sig[po.index], params) IN
  IF count = 0 \/ (po.in_cap # 0 /\ count > po.in_cap) THEN po.in_cap ELSE count

MutRecaptured(old, new) ==
  IF new.bytes # <<>> \/ new.has_str
    THEN [old EXCEPT !.bytes = new.bytes, !.str = new.str, !.has_str = new.has_str,
                     !.bytes_total = new.bytes_total, !.from_return = TRUE]
    ELSE old

(* A buffer that can be read again replaces the one read at the call.      *)
Recaptured(old, new) ==
  IF new.bytes # <<>> \/ new.has_str
    THEN [old EXCEPT !.bytes = new.bytes, !.str = new.str, !.has_str = new.has_str,
                     !.bytes_total = new.bytes_total,
                     !.bytes_capped = new.bytes_capped, !.from_return = TRUE]
    ELSE old

(* resolvePendingOuts, second loop, for the next postponed read.           *)
ResolveBuffer ==
  /\ phase = "buffers" /\ next \in DOMAIN deferred
  /\ LET po == deferred[next]
         kind == sig[po.index].kind
     IN
     params' =
       IF kind \notin BufferKinds THEN params
       ELSE [params EXCEPT ![po.index] =
              Recaptured(@, Captured(kind, po.ptr, ReturnCount(po), Fresh))]
  /\ next' = next + 1
  /\ UNCHANGED <<sig, memory, at_call, phase, deferred, args>>

MutBuffersEnd ==
  /\ phase = "buffers" /\ next \notin DOMAIN deferred
  /\ phase' = "done"
  /\ UNCHANGED <<sig, memory, at_call, next, params, deferred, args>>

BuffersEnd ==
  /\ phase = "buffers" /\ next \notin DOMAIN deferred
  /\ args' = CapaArgs(params)
  /\ phase' = "done"
  /\ UNCHANGED <<sig, memory, at_call, next, params, deferred>>

Next ==
  \/ Fetch \/ DecodeParam \/ DecodeEnds
  \/ Callee
  \/ ResolveScalar \/ ScalarsEnd \/ ResolveBuffer \/ BuffersEnd

Spec == Init /\ [][Next]_vars
----------------------------------------------------------------------------
IsBuffer(i) == sig[i].kind \in BufferKinds

(* Contents are all of one moment, and at_return in the report says which: *)
(* what was not read again at the return is as it was at the call.         *)
ContentsOfOneMoment ==
  \A i \in DOMAIN params :
    LET arg   == params[i]
        cells == IF arg.from_return THEN memory ELSE at_call
    IN
    /\ arg.has_deref => arg.deref = cells[arg.raw].word
    /\ arg.bytes # <<>> => IsPrefix(arg.bytes, cells[arg.raw].bytes)
    /\ IsBuffer(i) /\ arg.has_str => IsPrefix(arg.str, arg.bytes)

Returned == phase \in {"scalars", "buffers", "done"}

(* What a caller leaves to the callee to fill in is never reported as it   *)
(* was before the callee ran (abi.cpp:514-519): neither the value behind   *)
(* the pointer nor the bytes of the buffer, nor text, which is of the      *)
(* return even where a pointer to an integer could not be followed and     *)
(* nothing marks it (abi.cpp:562).  The text of an opaque pointer is       *)
(* excepted: it is looked for at the call and never again (abi.cpp:507).   *)
OutContentsAreFromReturn ==
  \A i \in DOMAIN params :
    LET arg == params[i] IN
    ~sig[i].in =>
      /\ arg.has_deref \/ arg.bytes # <<>> => arg.from_return
      /\ arg.has_str /\ sig[i].kind # "opaque" =>
           arg.from_return \/ (Returned /\ arg.str = TextAt(arg.raw))

(* What is dereferenced to a value a length can be taken from.             *)
PointerKinds == {"integer pointer", "string pointer"}

(* Parameter i's length is in another one, a value behind a pointer.       *)
CountBehindPointer(i) ==
  /\ sig[i].aux \in {"bytes", "count"}
  /\ sig[i].value \in DOMAIN sig
  /\ sig[sig[i].value].kind \in PointerKinds

(* The callee leaves a length there that the decoder could read.           *)
LengthReported(i) ==
  LET j == sig[i].value
      ptr == params[j].raw
  IN
  /\ CountBehindPointer(i)
  /\ sig[j].out
  /\ WordReadable(ptr)
  /\ memory[ptr].word \in 1..MaxCount

(* A buffer read at the return is read at the length the callee reports,   *)
(* whichever of the two parameters comes first, and never at a length the  *)
(* call left behind (abi.cpp:542-544).                                     *)
UsesReportedLength ==
  \A i \in DOMAIN params :
    IsBuffer(i) /\ params[i].from_return /\ LengthReported(i) =>
      params[i].bytes_total <= memory[params[sig[i].value].raw].word *
        (IF sig[i].aux = "bytes" \/ sig[i].size = 0 THEN 1 ELSE sig[i].size)

(* Can the value behind pointer j be known at the call?                    *)
KnownAtCall(j) ==
  /\ sig[j].kind \in PointerKinds
  /\ sig[j].in
  /\ params[j].raw >= MinDeref
  /\ params[j].raw \in DOMAIN at_call
  /\ Len(at_call[params[j].raw].bytes) >= WordSize

(* The bytes the caller offered for buffer i, by the memory at the call.   *)
Offered(i) ==
  ByteCount(sig[i],
    [j \in DOMAIN params |->
       [params[j] EXCEPT
          !.has_deref = KnownAtCall(j),
          !.deref = IF KnownAtCall(j) THEN at_call[params[j].raw].word ELSE 0]])

(* At the return the decoder never takes more of a buffer than the caller  *)
(* offered: the comment at abi.cpp:571.                                    *)
NeverExceedsOffer ==
  \A i \in DOMAIN params :
    IsBuffer(i) /\ params[i].from_return /\ Offered(i) # 0 =>
      Len(params[i].bytes) <= Offered(i)

(* It is so if the offer does not stand behind a pointer that comes after  *)
(* the buffer, which the entry pass follows too late.                      *)
WithinEarlyOffer ==
  \A i \in DOMAIN params :
    IsBuffer(i) /\ params[i].from_return /\ Offered(i) # 0 /\
    (CountBehindPointer(i) => sig[i].value < i) =>
      Len(params[i].bytes) <= Offered(i)

(* A buffer that is not marked as cut short is all there: the whole span,  *)
(* a text to its terminator, or what memory had (abi.cpp:298-301).         *)
UncappedIsComplete ==
  \A i \in DOMAIN params :
    LET arg   == params[i]
        cells == IF arg.from_return THEN memory ELSE at_call
    IN
    arg.bytes # <<>> /\ ~arg.bytes_capped =>
      \/ Len(arg.bytes) = arg.bytes_total
      \/ Len(arg.bytes) = Len(cells[arg.raw].bytes)
      \/ sig[i].kind # "byte buffer" /\ Terminators(arg.bytes, CharWidth(sig[i].kind)) # {}

(* capa and the rich view see the same call, after the return as before.   *)
FlatViewCurrent == phase \in {"running", "done"} => args = CapaArgs(params)
============================================================================
