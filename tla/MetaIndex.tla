----------------------------- MODULE MetaIndex -----------------------------
(***************************************************************************)
(* The Win32 metadata index (ttd/src/win32meta.cpp): loadIndex finds a     *)
(* file and loads it table by table, giving up where it is broken; lookup  *)
(* then serves the sweep, and decodeEnum turns a value into flag names.    *)
(* The caller goes on whether loading succeeded or not, so both are asked  *)
(* of a half-loaded index as well.                                         *)
(*                                                                         *)
(* A 64-bit value is the set of its one bits.  Indices into the tables     *)
(* start at 1, offsets within the file at 0 as in the code.                *)
(***************************************************************************)
EXTENDS Naturals, Sequences, SequencesExt, FiniteSetsExt

CONSTANTS
  Files,       \* index files that may be found, each an IndexFile
  Candidates,  \* what may be at the places looked in: sequences of files
  Missing,     \* there is no file at a place
  Names,       \* function names
  NoEnum,      \* kNoEnum, in a parameter that is no enumeration
  Bits,        \* the bits of a value, 0 .. 63 in the code
  Registers    \* captured values to decode

FuncRec == [name : Names, first : Nat, count : Nat]

EnumRec == [offset : Nat, count : Nat, flags : BOOLEAN, width : Nat]

(* sound says that magic, version, sizes and string pool are as they ought *)
(* to be; params holds the enumIndex of every parameter.                   *)
IndexFile ==
  [sound : BOOLEAN, funcs : Seq(FuncRec), params : Seq(Nat \cup {NoEnum}),
   enums : Seq(EnumRec), values : Seq(SUBSET Bits)]

ASSUME IndexAssumption ==
  /\ Files \subseteq IndexFile
  /\ Candidates \subseteq Seq(Files \cup {Missing})
  /\ Missing \notin Files
  /\ NoEnum \notin Nat
  /\ Bits \subseteq Nat /\ IsFiniteSet(Bits)
  /\ Registers \subseteq SUBSET Bits

VARIABLES
  candidates,  \* what is at the places loadIndex looks in
  phase,       \* how far loadIndex is
  blob,        \* blob_, the file being loaded
  next,        \* the function record to load next
  params,      \* params_, each by its enumIndex
  funcs,       \* funcs_
  by_name,     \* byName_
  enums,       \* enums_
  outcome,     \* how decodeEnum answers, "none" before it is asked
  query,       \* the table and the value it is asked about
  remaining,   \* the bits not named yet
  left,        \* the entries of the table not tried yet
  names        \* the entries named so far

index == <<blob, next, params, funcs, by_name, enums>>
answer == <<outcome, query, remaining, left, names>>
vars == <<candidates, phase, index, answer>>
----------------------------------------------------------------------------
Unloaded == [name |-> "", first |-> 0, count |-> 0]

NoFile ==
  [sound |-> FALSE, funcs |-> <<>>, params |-> <<>>, enums |-> <<>>, values |-> <<>>]

TypeOK ==
  /\ phase \in {"closed", "functions", "ready", "failed"}
  /\ blob \in IndexFile
  /\ next \in Nat
  /\ params \in Seq(Nat \cup {NoEnum})
  /\ funcs \in Seq([name : Names \cup {""}, first : Nat, count : Nat])
  /\ DOMAIN by_name \subseteq Names
  /\ \A name \in DOMAIN by_name : by_name[name] \in DOMAIN funcs
  /\ enums \in Seq(EnumRec)
  /\ outcome \in {"none", "exact", "nothing", "greedy"}
  /\ query \in [enum : Nat, value : SUBSET Bits]
  /\ remaining \subseteq Bits
  /\ left \subseteq Nat
  /\ names \in Seq(Nat)

Init ==
  /\ candidates \in Candidates
  /\ phase = "closed"
  /\ blob = NoFile
  /\ next = 1
  /\ params = <<>>
  /\ funcs = <<>>
  /\ by_name = <<>>
  /\ enums = <<>>
  /\ outcome = "none"
  /\ query = [enum |-> 0, value |-> {}]
  /\ remaining = {}
  /\ left = {}
  /\ names = <<>>
----------------------------------------------------------------------------
(* Place i is the first that has a file.  The others are not looked at,    *)
(* whatever that file is worth.                                            *)
Found(i) ==
  /\ candidates[i] # Missing
  /\ \A j \in 1..(i - 1) : candidates[j] = Missing

(* A parameter's enumIndex, if there is such a table.                      *)
Checked(enum, tables) == IF enum # NoEnum /\ enum >= tables THEN NoEnum ELSE enum

(* There is no file, or it is none of ours: nothing is loaded.             *)
Reject ==
  /\ phase = "closed"
  /\ ~\E i \in DOMAIN candidates : Found(i) /\ candidates[i].sound
  /\ phase' = "failed"
  /\ UNCHANGED <<candidates, index, answer>>

(* The file is taken over, and its parameters loaded.                      *)
LoadParams(i) ==
  /\ phase = "closed"
  /\ Found(i)
  /\ LET file == candidates[i] IN
     /\ file.sound
     /\ blob' = file
     /\ params' = [k \in DOMAIN file.params |-> Checked(file.params[k], Len(file.enums))]
     /\ funcs' = [k \in DOMAIN file.funcs |-> Unloaded]
  /\ phase' = "functions"
  /\ UNCHANGED <<candidates, next, by_name, enums, answer>>

MutEmplaced(name, i) ==
  IF name \in DOMAIN by_name THEN by_name
  ELSE [n \in DOMAIN by_name \cup {name} |-> IF n = name THEN i + 1 ELSE by_name[n]]

(* byName_.emplace: the first function of a name keeps it.                 *)
Emplaced(name, i) ==
  IF name \in DOMAIN by_name THEN by_name
  ELSE [n \in DOMAIN by_name \cup {name} |-> IF n = name THEN i ELSE by_name[n]]

MutLoadFunction ==
  /\ phase = "functions" /\ next \in DOMAIN blob.funcs
  /\ LET rec == blob.funcs[next] IN
     /\ funcs' = [funcs EXCEPT ![next] = rec]
     /\ by_name' = Emplaced(rec.name, next)
     /\ IF rec.first + rec.count > Len(params)
          THEN phase' = "failed" /\ UNCHANGED next
          ELSE next' = next + 1 /\ UNCHANGED phase
  /\ UNCHANGED <<candidates, blob, params, enums, answer>>

(* The next function record.  Loading stops at one whose parameters are    *)
(* not in the table, and leaves what has been loaded.                      *)
LoadFunction ==
  /\ phase = "functions" /\ next \in DOMAIN blob.funcs
  /\ LET rec == blob.funcs[next] IN
     /\ funcs' = [funcs EXCEPT ![next] = rec]
     /\ IF rec.first + rec.count > Len(params)
          THEN phase' = "failed" /\ UNCHANGED <<by_name, next>>
          ELSE /\ by_name' = Emplaced(rec.name, next)
               /\ next' = next + 1
               /\ UNCHANGED phase
  /\ UNCHANGED <<candidates, blob, params, enums, answer>>

(* An enumeration's table, emptied if it is not within the values.         *)
CheckedEnum(rec, values) ==
  IF rec.offset + rec.count > values THEN [rec EXCEPT !.offset = 0, !.count = 0] ELSE rec

LoadEnums ==
  /\ phase = "functions" /\ next \notin DOMAIN blob.funcs
  /\ enums' = [i \in DOMAIN blob.enums |-> CheckedEnum(blob.enums[i], Len(blob.values))]
  /\ phase' = "ready"
  /\ UNCHANGED <<candidates, blob, next, params, funcs, by_name, answer>>
----------------------------------------------------------------------------
(* value & mask.  width is in bits here, and in bytes in the code.         *)
Masked(value, width) == {b \in value : b < width}

Table(e) == 1..enums[e].count

(* What entry i of table e stands for, and what value says to that table.  *)
EntryBits(e, i) == Masked(blob.values[enums[e].offset + i], enums[e].width)

Wanted == Masked(query.value, enums[query.enum].width)

MutMatching(e, v) == {i \in Table(e) : blob.values[enums[e].offset + i] = v}

(* The entries that are exactly v.                                         *)
Matching(e, v) == {i \in Table(e) : EntryBits(e, i) = v}

(* decodeEnum is asked about a value; the table's index is one higher      *)
(* here.  The answer may be clear at once.                                 *)
Ask(e, value) ==
  /\ phase \in {"ready", "failed"}
  /\ outcome = "none"
  /\ query' = [enum |-> e, value |-> value]
  /\ IF e \notin DOMAIN enums
       THEN outcome' = "nothing" /\ UNCHANGED <<remaining, left, names>>
       ELSE LET v == Masked(value, enums[e].width) IN
            \/ /\ \E i \in Matching(e, v) :
                    /\ \A j \in Matching(e, v) : i <= j
                    /\ names' = <<i>>
               /\ outcome' = "exact"
               /\ UNCHANGED <<remaining, left>>
            \/ /\ Matching(e, v) = {}
               /\ ~enums[e].flags \/ v = {}
               /\ outcome' = "nothing"
               /\ UNCHANGED <<remaining, left, names>>
            \/ /\ Matching(e, v) = {}
               /\ enums[e].flags /\ v # {}
               /\ remaining' = v
               /\ left' = Table(e)
               /\ outcome' = "greedy"
               /\ UNCHANGED names
  /\ UNCHANGED <<candidates, phase, index>>

MutMayFollow(i) == TRUE

(* The order of trial is by the number of bits, most first; std::sort puts *)
(* entries with equally many in any order.                                 *)
MayFollow(i) ==
  \A j \in left :
    Cardinality(EntryBits(query.enum, j)) <= Cardinality(EntryBits(query.enum, i))

(* Are all of an entry's bits still to be named?                           *)
Fits(bits) == bits # {} /\ bits \subseteq remaining

MutTryEntry(i) ==
  /\ i \in left
  /\ MayFollow(i)
  /\ LET bits == blob.values[enums[query.enum].offset + i] IN
     IF Fits(bits)
       THEN names' = Append(names, i) /\ remaining' = remaining \ bits
       ELSE UNCHANGED <<names, remaining>>
  /\ left' = left \ {i}
  /\ UNCHANGED <<candidates, phase, index, outcome, query>>

(* The next entry of the table is named, if it fits.                       *)
TryEntry(i) ==
  /\ i \in left
  /\ MayFollow(i)
  /\ LET bits == EntryBits(query.enum, i) IN
     IF Fits(bits)
       THEN names' = Append(names, i) /\ remaining' = remaining \ bits
       ELSE UNCHANGED <<names, remaining>>
  /\ left' = left \ {i}
  /\ UNCHANGED <<candidates, phase, index, outcome, query>>

Next ==
  \/ Reject
  \/ \E i \in DOMAIN candidates : LoadParams(i)
  \/ LoadFunction \/ LoadEnums
  \/ \E e \in 1..(Len(blob.enums) + 1) : \E value \in Registers : Ask(e, value)
  \/ \E i \in left : TryEntry(i)

Spec == Init /\ [][Next]_vars
----------------------------------------------------------------------------
(* A signature found by name has its parameters within the table, in an    *)
(* index whose loading failed half-way too: the sweep reads them without   *)
(* a check (win32meta.cpp:118-123, abi.cpp:475).                           *)
SignaturesInside ==
  \A name \in DOMAIN by_name :
    LET f == funcs[by_name[name]] IN
    f.name = name /\ f.first + f.count <= Len(params)

(* The names and the rest given in hex make up the value, no bit missing   *)
(* and none twice, whatever is in the upper part of the register.          *)
BitsAccounted ==
  outcome = "greedy" =>
    /\ \A k \in DOMAIN names : EntryBits(query.enum, names[k]) \subseteq Wanted
    /\ \A j, k \in DOMAIN names :
         j # k => EntryBits(query.enum, names[j]) \cap EntryBits(query.enum, names[k]) = {}
    /\ remaining = Wanted \ UNION {EntryBits(query.enum, names[k]) : k \in DOMAIN names}

(* What is given in hex has no name.                                       *)
RestIsNameless ==
  outcome = "greedy" /\ left = {} =>
    \A i \in Table(query.enum) :
      LET bits == EntryBits(query.enum, i) IN
      bits # {} => ~(bits \subseteq remaining)

(* A value is spelled out by the names and the rest: each of its bits is   *)
(* there once, and nothing is given in hex that has a name, whatever the   *)
(* order of the table and the upper part of the register and of its        *)
(* values (win32meta.cpp:162-209).                                         *)
ValueSpelledOut == BitsAccounted /\ RestIsNameless

(* A name that is a part of another one's bits, all of them set, is given  *)
(* only if a name given before takes some of those bits: composites beat   *)
(* their constituents (win32meta.cpp:183-184).                             *)
CompositesFirst ==
  outcome = "greedy" =>
    \A k \in DOMAIN names : \A i \in Table(query.enum) :
      LET part  == EntryBits(query.enum, names[k])
          whole == EntryBits(query.enum, i)
      IN part \subseteq whole /\ part # whole /\ whole \subseteq Wanted =>
           \E j \in 1..(k - 1) : EntryBits(query.enum, names[j]) \cap whole # {}

(* A value that has a name of its own is given that name and no other,     *)
(* sign-extended or not (win32meta.cpp:169-178).                           *)
ExactMatchWins ==
  outcome # "none" /\ query.enum \in DOMAIN enums =>
    \A i \in Table(query.enum) :
      EntryBits(query.enum, i) = Wanted =>
        outcome = "exact" /\ Len(names) = 1
============================================================================
