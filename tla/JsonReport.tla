----------------------------- MODULE JsonReport -----------------------------
(***************************************************************************)
(* The JSON report (writeReport in ttd/src/utils.cpp) of the calls that    *)
(* BinReport writes: the same records, put out by other code for another   *)
(* reader.  capa and ttd-timeline.py read this one, the viewer the other.  *)
(*                                                                         *)
(* A JSON object is a function on the keys it has; a key may be missing.   *)
(***************************************************************************)
EXTENDS BinReport

(* One of a call's args: its text, or else its number.                     *)
JsonArg(p) == IF p.has_str /\ p.str # <<>> THEN [text |-> p.str] ELSE [number |-> p.raw]

MutParamKeys(p) ==
  {"name", "type", "kind", "value"}
  \cup {part \in {"deref", "flags", "bytes"} : Has(p, part)}
  \cup {key \in {"str"} : p.has_str}
  \cup {key \in {"float"} : p.has_fval}
  \cup {key \in {"bytes_total"} : p.bytes # <<>> /\ p.bytes_total # Len(p.bytes)}
  \cup {key \in {"out"} : p.is_out}
  \cup {key \in {"at_return"} : p.from_return}

(* What a parameter is described by.  An empty text is put out here.       *)
ParamKeys(p) ==
  {"name", "type", "kind", "value"}
  \cup {part \in {"deref", "flags", "bytes"} : Has(p, part)}
  \cup {key \in {"str"} : p.has_str}
  \cup {key \in {"float"} : p.has_fval}
  \cup {key \in {"bytes_total"} : p.bytes # <<>> /\ p.bytes_capped}
  \cup {key \in {"out"} : p.is_out}
  \cup {key \in {"at_return"} : p.from_return}

JsonParam(p) ==
  [key \in ParamKeys(p) |->
     CASE key = "value" -> p.raw
       [] key = "float" -> p.fval
       [] key \in Marks -> TRUE
       [] OTHER -> p[key]]

(* A call has params only if its signature is known, args always.          *)
JsonCall(c) ==
  [key \in {"tid", "seq", "position", "module", "api", "args", "ret", "return_address"}
           \cup {k \in {"params"} : c.metadata} |->
     CASE key = "args"   -> [k \in DOMAIN c.params |-> JsonArg(c.params[k])]
       [] key = "params" -> [k \in DOMAIN c.params |-> JsonParam(c.params[k])]
       [] key = "ret"    -> IF c.has_ret THEN c.ret ELSE 0
       [] OTHER          -> c[key]]

(* process["calls"] of the document.                                       *)
Document == [i \in DOMAIN report |-> JsonCall(report[i])]
----------------------------------------------------------------------------
(* What the reader of either report is told of a parameter's text, flags   *)
(* and buffer: nothing when the key or the part is missing.                *)
Told(object, key) == IF key \in DOMAIN object THEN object[key] ELSE <<>>

BinTold(start, part) ==
  IF part \in params[start + 1].bits
    THEN LET unit == UnitOf(start, part) IN BlobAt(unit.off, unit.len)
    ELSE <<>>

(* Does the parameter at start of the binary report say what object says?  *)
(* A floating-point value is in object only.                               *)
SameParam(start, object) ==
  LET fixed == params[start + 1] IN
  /\ object["name"] = strings[fixed.name + 1]
  /\ object["type"] = strings[fixed.type + 1]
  /\ object["kind"] = fixed.kind
  /\ object["value"] = fixed.value
  /\ \A mark \in Marks : mark \in fixed.bits <=> mark \in DOMAIN object
  /\ \A part \in {"str", "flags", "bytes"} : BinTold(start, part) = Told(object, part)
  /\ "deref" \in fixed.bits <=> "deref" \in DOMAIN object
  /\ "deref" \in fixed.bits => UnitOf(start, "deref").value = object["deref"]
  /\ "bytes" \in fixed.bits =>
       LET unit == UnitOf(start, "bytes") IN
       /\ unit.value > unit.len <=> "bytes_total" \in DOMAIN object
       /\ "bytes_total" \in DOMAIN object => unit.value = object["bytes_total"]

(* The value of a call without a signature, as the binary report has it.   *)
SameArg(start, arg) ==
  LET fixed == params[start + 1] IN
  IF "str" \in fixed.bits THEN arg = [text |-> BinTold(start, "str")]
  ELSE arg = [number |-> fixed.value]

(* As long as no region outgrows its offsets, whoever follows them learns  *)
(* of every call what the JSON report says of it: the function, the return *)
(* value and address, and of every parameter the name, type, kind, value,  *)
(* text, flags, buffer, whether it was cut short, whether it is [Out] and  *)
(* whether it is of the return.  Different code walks the records for each *)
(* (utils.cpp:246-317, binreport.cpp:199-305).  They differ in three       *)
(* things: the float of a parameter is in the JSON report only             *)
(* (utils.cpp:287-289); the thread and the position keep 32 bits in the    *)
(* binary report, and are the same only when these hold them; an empty     *)
(* text is a key in the one and no part in the other.                      *)
ReportsAgree ==
  Fits => \A i \in DOMAIN calls :
    LET record == calls[i]
        object == Document[i]
    IN
    /\ object["module"] = strings[record.module + 1]
    /\ object["api"] = strings[record.api + 1]
    /\ object["ret"] = record.ret
    /\ object["return_address"] = record.return_address
    /\ Stands(record.tid, object["tid"])
    /\ Stands(record.sequence, object["position"].sequence)
    /\ Stands(record.steps, object["position"].steps)
    /\ record.decoded <=> "params" \in DOMAIN object
    /\ record.count = Len(object["args"])
    /\ \A k \in 1..record.count :
         IF record.decoded THEN SameParam(Starts(i)[k], object["params"][k])
         ELSE SameArg(Starts(i)[k], object["args"][k])
============================================================================
