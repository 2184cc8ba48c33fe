---------------------------- MODULE IndexBuilder ----------------------------
(***************************************************************************)
(* The index builder (tools/build-win32-index.py) turns the Win32 metadata *)
(* into the file that MetaIndex loads.  Functions, parameters and          *)
(* enumerations refer to each other by position in tables the builder      *)
(* fills in one pass, skipping functions as it goes.                       *)
(*                                                                         *)
(* The metadata is taken after its references are resolved: a parameter    *)
(* says which enumeration its type leads to.  Names are sorted already.    *)
(***************************************************************************)
EXTENDS MetaIndex

CONSTANTS
  Surfaces,    \* the metadata to index: sequences of functions by name
  EnumNames,   \* the enumerations of the metadata, in the order of their names
  Enumeration, \* an enumeration's width, kind and values
  MaxParams    \* MAX_PARAMS, parameters a record can count

(* An enumeration of the metadata, NoEnum for every other type.            *)
TypeRef == ToSet(EnumNames) \cup {NoEnum}

(* hidden says that an aggregate is returned through a hidden pointer.     *)
ApiFunction == [name : Names, x64 : BOOLEAN, hidden : BOOLEAN, types : Seq(TypeRef)]

ASSUME BuilderAssumption ==
  /\ Surfaces \subseteq Seq(ApiFunction)
  /\ EnumNames \in Seq(ToSet(EnumNames))
  /\ NoEnum \notin ToSet(EnumNames)
  /\ IsInjective(EnumNames)
  /\ Enumeration \in
       [ToSet(EnumNames) -> [flags : BOOLEAN, width : Nat, values : Seq(SUBSET Bits)]]
  /\ MaxParams \in Nat
----------------------------------------------------------------------------
(* Does some parameter refer to an enumeration, whether or not its         *)
(* function ends up in the index?                                          *)
IsReferenced(surface, e) == \E fn \in ToSet(surface) : e \in ToSet(fn.types)

(* Those that are referred to, of the first n; and all of them.            *)
Kept(surface) ==
  LET kept[n \in 0..Len(EnumNames)] ==
        IF n = 0 THEN <<>>
        ELSE IF IsReferenced(surface, EnumNames[n]) THEN Append(kept[n - 1], EnumNames[n])
        ELSE kept[n - 1]
  IN kept

Referenced(surface) == Kept(surface)[Len(EnumNames)]

MutEnumIndex(surface, type) ==
  IF type = NoEnum THEN NoEnum ELSE SelectInSeq(EnumNames, LAMBDA e : e = type) - 1

(* The position of a type's enumeration in the table of enumerations.      *)
EnumIndex(surface, type) ==
  IF type = NoEnum THEN NoEnum
  ELSE SelectInSeq(Referenced(surface), LAMBDA e : e = type) - 1

(* Is there a record for a function of this shape?                         *)
HasRecord(fn) == fn.x64 /\ Len(fn.types) + (IF fn.hidden THEN 1 ELSE 0) <= MaxParams

(* The values of the first n enumerations, one after the other.            *)
Values(order) ==
  LET values[n \in 0..Len(order)] ==
        IF n = 0 THEN <<>> ELSE values[n - 1] \o Enumeration[order[n]].values
  IN values

EnumRecords(order) ==
  [i \in DOMAIN order |->
     [offset |-> Len(Values(order)[i - 1]), count |-> Len(Enumeration[order[i]].values),
      flags |-> Enumeration[order[i]].flags, width |-> Enumeration[order[i]].width]]

(* The tables before the first function.                                   *)
Blank(order) ==
  [sound |-> TRUE, funcs |-> <<>>, params |-> <<>>,
   enums |-> EnumRecords(order), values |-> Values(order)[Len(order)]]

(* One function goes into the tables.  A name that is there keeps the      *)
(* signature it came with.                                                 *)
WithFunction(surface, tables, fn) ==
  IF ~HasRecord(fn) \/ \E i \in DOMAIN tables.funcs : tables.funcs[i].name = fn.name
    THEN tables
    ELSE [tables EXCEPT
            !.funcs = Append(@, [name |-> fn.name, first |-> Len(tables.params),
                                 count |-> Len(fn.types)]),
            !.params = @ \o [k \in DOMAIN fn.types |-> EnumIndex(surface, fn.types[k])]]

(* build: the tables after n functions; and the file made of the metadata. *)
Filled(surface) ==
  LET filled[n \in 0..Len(surface)] ==
        IF n = 0 THEN Blank(Referenced(surface))
        ELSE WithFunction(surface, filled[n - 1], surface[n])
  IN filled

Build(surface) == Filled(surface)[Len(surface)]

BuiltFile == [surface \in Surfaces |-> Build(surface)]
----------------------------------------------------------------------------
(* The signature an index should give for a name: of the functions that    *)
(* have a record, the first of that name.                                  *)
Signature(surface, name) == SelectInSeq(surface, LAMBDA fn : fn.name = name /\ HasRecord(fn))

(* Does parameter p of the index decode like an enumeration of that type?  *)
DecodesLike(p, type) ==
  IF type = NoEnum THEN p = NoEnum
  ELSE /\ p # NoEnum
       /\ p + 1 \in DOMAIN enums
       /\ LET e == enums[p + 1] IN
          /\ e.flags = Enumeration[type].flags
          /\ e.width = Enumeration[type].width
          /\ SubSeq(blob.values, e.offset + 1, e.offset + e.count) = Enumeration[type].values

(* What the builder writes, the loader takes without rejecting or          *)
(* emptying anything, and lookup then gives every function that has a      *)
(* record its own signature: its parameters, each decoded by the           *)
(* enumeration its type leads to (build-win32-index.py:538-626 writes      *)
(* positions that win32meta.cpp:83-149 reads back).                        *)
BuiltIndexServes ==
  \A surface \in Surfaces :
    blob = BuiltFile[surface] =>
      /\ phase # "failed"
      /\ phase = "ready" => \A fn \in ToSet(surface) :
           LET i == Signature(surface, fn.name) IN
           IF i = 0 THEN fn.name \notin DOMAIN by_name
           ELSE /\ fn.name \in DOMAIN by_name
                /\ LET f == funcs[by_name[fn.name]] IN
                   /\ f.count = Len(surface[i].types)
                   /\ \A k \in 1..f.count :
                        DecodesLike(params[f.first + k], surface[i].types[k])
============================================================================
