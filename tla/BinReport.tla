----------------------------- MODULE BinReport -----------------------------
(***************************************************************************)
(* The binary report (ttd/src/binreport.cpp): write turns the report into  *)
(* four regions that refer to each other by 32-bit offsets, and puts them  *)
(* into one file.  A viewer maps the file and follows the offsets; what it *)
(* would read is compared with what the sweep recorded.                    *)
(*                                                                         *)
(* Sizes are scaled: a name, a fixed parameter record and each optional    *)
(* part of one count as a single unit of their region.  Offsets wrap at    *)
(* OffsetLimit, as a u32 does at 4 GiB.                                    *)
(***************************************************************************)
EXTENDS Naturals, Sequences, SequencesExt, FiniteSetsExt

CONSTANTS
  Reports,      \* the reports to write, each a sequence of CallRecord
  Names,        \* module, function, parameter and type names, "" for none
  Kinds,        \* of parameters, "Unknown" for the values of the heuristic
  Symbols,      \* what the text and the buffers of a report consist of
  OffsetLimit,  \* 2^32, where an offset, a thread and a position wrap
  SearchLimit   \* 0xFFFF, the longest search text a record can describe

Text == Seq(Symbols)

(* A parameter as the sweep holds it.                                      *)
Param ==
  [name : Names, type : Names, kind : Kinds, raw : Nat, is_out : BOOLEAN,
   from_return : BOOLEAN, has_deref : BOOLEAN, deref : Nat, has_fval : BOOLEAN,
   fval : Nat, has_str : BOOLEAN, str : Text, bytes : Text, bytes_total : Nat,
   bytes_capped : BOOLEAN, flags : Text]

CallRecord ==
  [tid : Nat, seq : Nat, position : [sequence : Nat, steps : Nat], module : Names,
   api : Names, metadata : BOOLEAN, params : Seq(Param), haystack : Text,
   has_ret : BOOLEAN, ret : Nat, return_address : Nat]

(* What the heuristic takes of a call: a number or a text, and no more.    *)
OnlyValue(p) ==
  /\ p.name = "" /\ p.type = "" /\ p.kind = "Unknown"
  /\ ~p.is_out /\ ~p.from_return /\ ~p.has_deref /\ ~p.has_fval
  /\ p.bytes = <<>> /\ p.flags = <<>>
  /\ p.has_str => p.raw = 0 /\ p.str # <<>>

(* A capture is marked as cut short only if there was more (abi.cpp:289).  *)
ASSUME ReportAssumption ==
  /\ "" \in Names
  /\ "Unknown" \in Kinds
  /\ OffsetLimit \in Nat \ {0}
  /\ SearchLimit \in Nat
  /\ Reports \subseteq Seq(CallRecord)
  /\ \A r \in Reports : \A i \in DOMAIN r : \A k \in DOMAIN r[i].params :
       /\ r[i].params[k].bytes_capped =>
            r[i].params[k].bytes_total > Len(r[i].params[k].bytes)
       /\ ~r[i].metadata => OnlyValue(r[i].params[k])

VARIABLES
  report,   \* g_report.process.calls
  strings,  \* the string table, one name a unit
  calls,    \* the call records
  params,   \* the parameter region
  blob,     \* the blob
  current,  \* the call record being filled in
  next,     \* the parameter to write next, 0 between two calls
  header,   \* what the header says of the report
  stream,   \* the state of the output stream
  file,     \* regions that have reached the disk, header included
  result    \* what write returned

vars == <<report, strings, calls, params, blob, current, next, header, stream,
          file, result>>
content == <<strings, calls, params, blob, current, next, header>>
----------------------------------------------------------------------------
(* The parts a parameter record may have, each announced by a bit, and the *)
(* bits that announce none.                                                *)
PartNames == {"deref", "str", "bytes", "flags"}
Marks == {"out", "at_return"}

Regions == 5

Offsets == 0..(OffsetLimit - 1)

(* A unit of the parameter region: a fixed part or an optional one.        *)
Unit ==
  [part : {"fixed"} \cup PartNames, kind : Kinds, bits : SUBSET (Marks \cup PartNames),
   name : Offsets, type : Offsets, value : Nat, off : Offsets, len : Nat]

BinCall ==
  [ret : Nat, tid : Offsets, sequence : Offsets, steps : Offsets,
   module : Offsets, api : Offsets, param_off : Offsets, search_off : Offsets,
   decoded : BOOLEAN, count : Nat, search_len : 0..SearchLimit, return_address : Nat]

Empty ==
  [ret |-> 0, tid |-> 0, sequence |-> 0, steps |-> 0, module |-> 0, api |-> 0,
   param_off |-> 0, search_off |-> 0, decoded |-> FALSE, count |-> 0,
   search_len |-> 0, return_address |-> 0]

TypeOK ==
  /\ strings \in Seq(Names)
  /\ calls \in Seq(BinCall)
  /\ params \in Seq(Unit)
  /\ blob \in Text
  /\ current \in BinCall
  /\ next \in Nat
  /\ header \in [decoded_count : Nat, max_seq : Nat]
  /\ stream \in {"none", "good", "written", "bad", "closed"}
  /\ file \in 0..Regions
  /\ result \in {"none", "true", "false"}

Init ==
  /\ report \in Reports
  /\ strings = <<"">>
  /\ calls = <<>>
  /\ params = <<>>
  /\ blob = <<>>
  /\ current = Empty
  /\ next = 0
  /\ header = [decoded_count |-> 0, max_seq |-> 0]
  /\ stream = "none"
  /\ file = 0
  /\ result = "none"
----------------------------------------------------------------------------
MutU32(n) == n

(* static_cast<uint32_t>.                                                  *)
U32(n) == n % OffsetLimit

(* StringTable::add: the table afterwards, and the offset of a name in it. *)
Added(table, name) == IF Contains(table, name) THEN table ELSE Append(table, name)

StringOffset(table, name) == U32(Min({i \in DOMAIN table : table[i] = name}) - 1)

(* The optional parts a parameter has.                                     *)
Has(p, part) ==
  CASE part = "deref" -> p.has_deref
    [] part = "str"   -> p.has_str /\ p.str # <<>>
    [] part = "bytes" -> p.bytes # <<>>
    [] part = "flags" -> p.flags # <<>>

Optionals(p) == {part \in PartNames : Has(p, part)}

(* The byte of presence bits.                                              *)
Bits(p) ==
  {mark \in {"out"} : p.is_out}
  \cup {mark \in {"at_return"} : p.from_return}
  \cup Optionals(p)

(* What a part puts into the blob.                                         *)
Data(p, part) ==
  IF ~Has(p, part) THEN <<>>
  ELSE CASE part = "deref" -> <<>>
         [] part = "str"   -> p.str
         [] part = "bytes" -> p.bytes
         [] part = "flags" -> p.flags

MutAhead(p, part) ==
  CASE part \in {"deref", "str"} -> <<>>
    [] part = "bytes" -> Data(p, "str")
    [] part = "flags" -> Data(p, "bytes")

(* What the parts before it have put there.                                *)
Ahead(p, part) ==
  CASE part \in {"deref", "str"} -> <<>>
    [] part = "bytes" -> Data(p, "str")
    [] part = "flags" -> Data(p, "str") \o Data(p, "bytes")

MutPartValue(p, part) ==
  CASE part = "deref" -> p.deref
    [] part = "bytes" -> p.bytes_total
    [] OTHER -> 0

(* The 64-bit field of a part.  bytesTotal is the length kept unless the   *)
(* capture was cut short.                                                  *)
PartValue(p, part) ==
  CASE part = "deref" -> p.deref
    [] part = "bytes" -> IF p.bytes_capped THEN p.bytes_total ELSE Len(p.bytes)
    [] OTHER -> 0

FixedPart(p, table) ==
  [part |-> "fixed", kind |-> p.kind, bits |-> Bits(p), name |-> StringOffset(table, p.name),
   type |-> StringOffset(table, p.type), value |-> p.raw, off |-> 0, len |-> 0]

(* A part, if the parameter has it; at is the size of the blob.            *)
OptionalPart(p, part, at) ==
  [part |-> part, kind |-> "Unknown", bits |-> {}, name |-> 0, type |-> 0, value |-> PartValue(p, part),
   off |-> IF part = "deref" THEN 0 ELSE U32(at + Len(Ahead(p, part))),
   len |-> Len(Data(p, part))]

Optional(p, part, at) == IF Has(p, part) THEN <<OptionalPart(p, part, at)>> ELSE <<>>

Parts(p, at) ==
  Optional(p, "deref", at) \o Optional(p, "str", at)
  \o Optional(p, "bytes", at) \o Optional(p, "flags", at)
----------------------------------------------------------------------------
Current == report[Len(calls) + 1]

(* The next call: its search text goes first.                              *)
BeginCall ==
  /\ next = 0 /\ stream = "none"
  /\ Len(calls) < Len(report)
  /\ blob' = blob \o Current.haystack
  /\ current' =
       [Empty EXCEPT !.ret = IF Current.has_ret THEN Current.ret ELSE 0,
                     !.search_off = U32(Len(blob)),
                     !.search_len = Min({Len(Current.haystack), SearchLimit}),
                     !.decoded = Current.metadata,
                     !.count = Len(Current.params),
                     !.param_off = U32(Len(params))]
  /\ header' = [header EXCEPT !.decoded_count = @ + (IF Current.metadata THEN 1 ELSE 0)]
  /\ next' = 1
  /\ UNCHANGED <<report, strings, calls, params, stream, file, result>>

(* The next parameter of the call: its fixed part, then each part it has,  *)
(* whose data goes to the end of the blob.                                 *)
PutParam ==
  /\ next # 0 /\ next \in DOMAIN Current.params
  /\ LET p == Current.params[next] IN
     /\ strings' = Added(Added(strings, p.name), p.type)
     /\ params' = Append(params, FixedPart(p, strings')) \o Parts(p, Len(blob))
     /\ blob' = blob \o Data(p, "str") \o Data(p, "bytes") \o Data(p, "flags")
  /\ next' = next + 1
  /\ UNCHANGED <<report, calls, current, header, stream, file, result>>

(* The call record itself, once its parameters are out.  A thread and the  *)
(* two halves of a position keep 32 bits (binreport.cpp:175-176, 294).     *)
EndCall ==
  /\ next # 0 /\ next \notin DOMAIN Current.params
  /\ strings' = Added(Added(strings, Current.module), Current.api)
  /\ calls' = Append(calls,
       [current EXCEPT !.tid = U32(Current.tid),
                       !.sequence = U32(Current.position.sequence),
                       !.steps = U32(Current.position.steps),
                       !.module = StringOffset(strings', Current.module),
                       !.api = StringOffset(strings', Current.api),
                       !.return_address = Current.return_address])
  /\ header' = [header EXCEPT !.max_seq = Max({@, Current.seq})]
  /\ next' = 0
  /\ current' = Empty
  /\ UNCHANGED <<report, params, blob, stream, file, result>>
----------------------------------------------------------------------------
(* The file is opened once everything is laid out, emptying an older one.  *)
Open ==
  /\ next = 0 /\ Len(calls) = Len(report) /\ stream = "none" /\ result = "none"
  /\ \/ stream' = "good" /\ UNCHANGED result
     \/ result' = "false" /\ UNCHANGED stream
  /\ UNCHANGED <<report, content, file>>

(* The regions are handed to the stream.  It fails at once, with part of   *)
(* the file on disk, or takes them all and may keep some in its buffer.    *)
Put ==
  /\ stream = "good"
  /\ \/ /\ file' \in 0..Regions
        /\ stream' = "written"
        /\ UNCHANGED result
     \/ /\ file' \in 0..(Regions - 1)
        /\ stream' = "bad"
        /\ result' = "false"
  /\ UNCHANGED <<report, content>>

(* close puts the rest on disk, or fails; write does not look.             *)
Close ==
  /\ stream = "written"
  /\ file' \in file..Regions
  /\ stream' = "closed"
  /\ result' = "true"
  /\ UNCHANGED <<report, content>>

Next == BeginCall \/ PutParam \/ EndCall \/ Open \/ Put \/ Close

Spec == Init /\ [][Next]_vars
----------------------------------------------------------------------------
(* The reader of docs/ttdcapa-extract.md: what an offset and a length      *)
(* refer to in the blob; where an optional part of the parameter at an     *)
(* offset is, the parts being in a fixed order; and where the parameters   *)
(* of call i are, each behind the one before.                              *)
BlobAt(off, len) == SubSeq(blob, off + 1, off + len)

One(bits, part) == IF part \in bits THEN 1 ELSE 0

Place(bits, part) ==
  CASE part = "deref" -> 1
    [] part = "str"   -> 1 + One(bits, "deref")
    [] part = "bytes" -> 1 + One(bits, "deref") + One(bits, "str")
    [] part = "flags" -> 1 + One(bits, "deref") + One(bits, "str") + One(bits, "bytes")

UnitOf(start, part) == params[start + 1 + Place(params[start + 1].bits, part)]

Extent(bits) ==
  1 + One(bits, "deref") + One(bits, "str") + One(bits, "bytes") + One(bits, "flags")

Starts(i) ==
  LET start[k \in DOMAIN report[i].params] ==
        IF k = 1 THEN calls[i].param_off
        ELSE start[k - 1] + Extent(params[start[k - 1] + 1].bits)
  IN start

(* Do the units from offset start on say what parameter p is?              *)
ReadsAs(start, p) ==
  LET fixed == params[start + 1] IN
  /\ fixed.part = "fixed"
  /\ fixed.kind = p.kind
  /\ "out" \in fixed.bits <=> p.is_out
  /\ "at_return" \in fixed.bits <=> p.from_return
  /\ strings[fixed.name + 1] = p.name
  /\ strings[fixed.type + 1] = p.type
  /\ fixed.value = p.raw
  /\ \A part \in PartNames :
       /\ part \in fixed.bits <=> Has(p, part)
       /\ Has(p, part) =>
            LET unit == UnitOf(start, part) IN
            /\ unit.part = part
            /\ part = "deref" => unit.value = p.deref
            /\ part # "deref" => BlobAt(unit.off, unit.len) = p[part]

(* A thread or half a position is what was recorded if 32 bits hold it.    *)
Stands(field, n) == n < OffsetLimit => field = n

Fits == {Len(strings), Len(params), Len(blob)} \subseteq 0..OffsetLimit

(* As long as no region outgrows its offsets, following them gives back    *)
(* every call as the sweep recorded it: which thread made it, when and from *)
(* where, what it returned, and every parameter with all of its parts.  A  *)
(* position or a thread beyond 32 bits is not given back, nor is the value *)
(* of a floating-point parameter, for which there is no part.              *)
ReadsBack ==
  Fits => \A i \in DOMAIN calls :
    LET record == calls[i] IN
    /\ strings[record.module + 1] = report[i].module
    /\ strings[record.api + 1] = report[i].api
    /\ IsPrefix(BlobAt(record.search_off, record.search_len), report[i].haystack)
    /\ record.ret = IF report[i].has_ret THEN report[i].ret ELSE 0
    /\ Stands(record.tid, report[i].tid)
    /\ Stands(record.sequence, report[i].position.sequence)
    /\ Stands(record.steps, report[i].position.steps)
    /\ record.return_address = report[i].return_address
    /\ record.decoded = report[i].metadata
    /\ record.count = Len(report[i].params)
    /\ \A k \in DOMAIN report[i].params : ReadsAs(Starts(i)[k], report[i].params[k])

(* bytesTotal > bytesLen means truncated, and nothing else does            *)
(* (docs/ttdcapa-extract.md:217-219).                                      *)
TruncationIsTold ==
  Fits => \A i \in DOMAIN calls : \A k \in DOMAIN report[i].params :
    LET p == report[i].params[k]
        unit == UnitOf(Starts(i)[k], "bytes")
    IN Has(p, "bytes") => (unit.value > unit.len <=> p.bytes_capped)
============================================================================
