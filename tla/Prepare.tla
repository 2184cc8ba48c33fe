------------------------------ MODULE Prepare ------------------------------
(***************************************************************************)
(* What wmain does between opening the trace and the sweep (main.cpp:172   *)
(* to 179): initializeReport identifies the main module and reads its      *)
(* image, at the end of the trace or, failing that, at its beginning       *)
(* (utils.cpp); resolveTraceModuleExports goes through the module loads    *)
(* and builds the map from which the sweep names its call targets          *)
(* (ttdutils.cpp).                                                         *)
(*                                                                         *)
(* The trace is the environment: which images were where and when, and     *)
(* which cells of memory are known at a position.                          *)
(***************************************************************************)
EXTENDS PeImage

CONSTANTS
  Images,  \* images that may be in memory, each an Image
  Traces,  \* the traces to prepare for, each a Trace
  End      \* GetLastPosition; Position::Min and GetFirstPosition are 0

(* Where the linker puts what, as offsets from the base of an image: its   *)
(* directories, tables, texts and sections have the room they need.        *)
CONSTANTS
  ExportDirAt, ExportDirSize,  \* the export directory; a forwarder's text is in it
  FunctionsAt, NamesAt, OrdinalsAt,  \* its three tables
  NameAt(_),       \* the name of an export
  CodeAt,          \* the addresses of code
  ImportDirAt,     \* the import descriptors
  DllAt(_),        \* the name of an imported module
  LookupAt(_),     \* OriginalFirstThunk, the table of names of a bound module
  SlotsAt(_),      \* FirstThunk, the table the loader fills in
  HintAt(_, _),    \* hint and name of an import
  DataAt(_)        \* a section

(* What a linker put together.  An import by ordinal has it for its text;  *)
(* a bound one has the addresses of its targets in FirstThunk; texts are   *)
(* the strings to be found in a section.                                   *)
Image ==
  [is64 : BOOLEAN,
   sections : Seq([exec : BOOLEAN, data : Seq(Nat), texts : Seq(Seq(Nat))]),
   exports : Seq([name : Seq(Nat), rva : Nat]),
   imports : Seq([dll : Seq(Nat), bound : BOOLEAN,
                  names : Seq([ordinal : BOOLEAN, text : Seq(Nat)])])]

(* A module of the trace's list; the path is its name's directory.         *)
Module == [path : STRING, stem : STRING, ext : STRING, base : Nat, image : Images]

(* What is known of the memory at a position.                              *)
IsMemory(mem) ==
  /\ DOMAIN mem \subseteq Nat /\ IsFiniteSet(DOMAIN mem)
  /\ \A a \in DOMAIN mem : mem[a] \in Nat

(* A load event.  The module stays until before position "until".          *)
Load == [module : Nat, at : 0..End, until : 0..(End + 1)]

ASSUME PrepareAssumption ==
  /\ End \in Nat
  /\ Images \subseteq Image
  /\ \A trace \in Traces :
       /\ trace.modules \in Seq(Module)
       /\ trace.loads \in Seq(Load)
       /\ \A i \in DOMAIN trace.loads : trace.loads[i].module \in DOMAIN trace.modules
       /\ DOMAIN trace.memory = 0..End
       /\ \A p \in 0..End : IsMemory(trace.memory[p])

VARIABLES
  trace,    \* what was recorded
  pc,       \* what is done next
  cursor,   \* the position of inspection_cursor
  report,   \* g_report, as far as it is about the main module's image
  next,     \* the load event to look at next
  resolved  \* resolvedTraceModuleExports

vars == <<trace, pc, cursor, report, next, resolved>>
----------------------------------------------------------------------------
(* The offsets in the directory, where the texts of forwarders are.        *)
Forwarders == ExportDirAt..(ExportDirAt + ExportDirSize - 1)

(* Nothing is at the offset 0, and no code is in the export directory.     *)
ASSUME LayoutAssumption ==
  /\ {ExportDirAt, ExportDirSize, FunctionsAt, NamesAt, OrdinalsAt, ImportDirAt} \subseteq Nat \ {0}
  /\ CodeAt \subseteq Nat \ ({0} \cup Forwarders)
  /\ \A image \in Images :
       /\ \A i \in DOMAIN image.exports : NameAt(i) \in Nat
       /\ \A i \in DOMAIN image.imports :
            /\ {DllAt(i), LookupAt(i), SlotsAt(i)} \subseteq Nat \ {0}
            /\ \A t \in DOMAIN image.imports[i].names : HintAt(i, t) \in Nat \ {0}
       /\ \A i \in DOMAIN image.sections : DataAt(i) \in Nat

(* An image as the loader maps it, from its base on.                       *)
Put(a, cells) == [x \in a..(a + Len(cells) - 1) |-> cells[x - a + 1]]

OptionalHeader(image) ==
  (IF image.is64 THEN <<Magic64, 0>> ELSE <<Magic32>>)
  \o (IF image.exports = <<>> THEN <<0, 0>> ELSE <<ExportDirAt, ExportDirSize>>)
  \o (IF image.imports = <<>> THEN <<0, 0>> ELSE <<ImportDirAt, 3 * (Len(image.imports) + 1)>>)

HeaderCells(image) ==
  <<DosMagic, 4, 0, 0, NtMagic, Len(image.sections), Len(OptionalHeader(image))>>
  \o OptionalHeader(image)
  \o FlattenSeq([i \in DOMAIN image.sections |->
       <<i, DataAt(i), Len(image.sections[i].data), 0,
         IF image.sections[i].exec THEN 1 ELSE 0>>])

(* The functions are in the opposite order of the names.                   *)
ExportParts(image) ==
  LET n == Len(image.exports) IN
  {Put(ExportDirAt, <<n, n, FunctionsAt, NamesAt, OrdinalsAt>>),
   Put(FunctionsAt, [i \in 1..n |-> image.exports[n + 1 - i].rva]),
   Put(NamesAt, [i \in 1..n |-> NameAt(i)]),
   Put(OrdinalsAt, [i \in 1..n |-> n - i])}
  \cup {Put(NameAt(i), Append(image.exports[i].name, 0)) : i \in 1..n}

Width(image) == IF image.is64 THEN 2 ELSE 1

ThunkOf(image, i, t) ==
  LET name == image.imports[i].names[t]
      low  == IF name.ordinal THEN name.text[1] ELSE HintAt(i, t)
      flag == IF name.ordinal THEN OrdinalFlag ELSE 0
  IN IF image.is64 THEN <<low, flag>> ELSE <<low + flag>>

ImportParts(image) ==
  LET Thunks(i) == FlattenSeq([t \in DOMAIN image.imports[i].names |-> ThunkOf(image, i, t)])
      Zeros == [k \in 1..Width(image) |-> 0]
      Targets(i) == [k \in DOMAIN Thunks(i) |-> 9]
  IN {Put(ImportDirAt, FlattenSeq([i \in DOMAIN image.imports |->
                 <<IF image.imports[i].bound THEN LookupAt(i) ELSE 0,
                   DllAt(i), SlotsAt(i)>>]) \o <<0, 0, 0>>)}
     \cup UNION {LET import == image.imports[i] IN
            {Put(DllAt(i), Append(import.dll, 0)),
             Put(SlotsAt(i), (IF import.bound THEN Targets(i) ELSE Thunks(i)) \o Zeros)}
            \cup {Put(LookupAt(i), Thunks(i) \o Zeros) : x \in {import.bound} \ {FALSE}}
            \cup {Put(HintAt(i, t), <<0>> \o Append(import.names[t].text, 0)) :
                    t \in {u \in DOMAIN import.names : ~import.names[u].ordinal}}
          : i \in DOMAIN image.imports}

SectionParts(image) ==
  {Put(DataAt(i), image.sections[i].data) : i \in DOMAIN image.sections}

Parts(image) ==
  {Put(0, HeaderCells(image))} \cup ExportParts(image)
  \cup ImportParts(image) \cup SectionParts(image)

Mapped ==
  [image \in Images |->
     [x \in UNION {DOMAIN part : part \in Parts(image)} |->
        (CHOOSE part \in Parts(image) : x \in DOMAIN part)[x]]]

(* The cells of each structure, from its base on.                          *)
Structures ==
  [image \in Images |->
     LET first == 7 + Len(OptionalHeader(image)) IN
     {0..1, 4..6, 7..(first - 1), ExportDirAt..(ExportDirAt + 4)}
     \cup {(first + 5 * i)..(first + 5 * i + 4) : i \in 0..(Len(image.sections) - 1)}
     \cup {(ImportDirAt + 3 * i)..(ImportDirAt + 3 * i + 2) : i \in 0..Len(image.imports)}
     \cup UNION {{LET a == table + Width(image) * t IN a..(a + Width(image) - 1) :
                    table \in {LookupAt(i), SlotsAt(i)},
                    t \in 0..Len(image.imports[i].names)} : i \in DOMAIN image.imports}]

(* What is known of an image: nothing else is where its cells are; all of  *)
(* it is known; no structure is known in part.                             *)
HasCells(mem, image, base) ==
  \A x \in DOMAIN Mapped[image] :
    base + x \in DOMAIN mem => mem[base + x] = Mapped[image][x]

IsWhole(mem, image, base) ==
  /\ HasCells(mem, image, base)
  /\ \A x \in DOMAIN Mapped[image] : base + x \in DOMAIN mem

Uncut(mem, image, base) ==
  \A cells \in Structures[image] :
    LET used  == cells \cap DOMAIN Mapped[image]
        known == {x \in used : base + x \in DOMAIN mem}
    IN known \in {{}, used}

(* The export directory is known, but not to its end: what is missing of   *)
(* it is read as zeros.                                                    *)
Torn(mem, image, base) ==
  /\ image.exports # <<>> /\ base + ExportDirAt \in DOMAIN mem
  /\ \E x \in ExportDirAt..(ExportDirAt + 4) : base + x \notin DOMAIN mem

(* An image is smaller than the flag in a thunk, its parts do not overlap, *)
(* its texts are texts, its ordinals have 16 bits, and what it exports is  *)
(* code, a forwarder in the directory or nothing.  A module is in memory   *)
(* where it is loaded; where a program is, there is an image at both ends, *)
(* or no headers.                                                          *)
ASSUME ImageAssumption ==
  /\ \A image \in Images :
       /\ DOMAIN Mapped[image] \subseteq 0..(OrdinalFlag - 1)
       /\ \A p, q \in Parts(image) : \A x \in DOMAIN p \cap DOMAIN q : p[x] = q[x]
       /\ \A export \in ToSet(image.exports) :
            /\ export.name # <<>> /\ 0 \notin ToSet(export.name)
            /\ export.rva \in {0} \cup Forwarders \cup CodeAt
       /\ \A import \in ToSet(image.imports) : \A name \in ToSet(import.names) :
            /\ name.ordinal => Len(name.text) = 1 /\ name.text[1] < OrdinalRange
            /\ ~name.ordinal => name.text # <<>> /\ 0 \notin ToSet(name.text)
       /\ \A import \in ToSet(image.imports) : 0 \notin ToSet(import.dll)
  /\ \A t \in Traces : \A load \in ToSet(t.loads) :
       HasCells(t.memory[load.at], t.modules[load.module].image, t.modules[load.module].base)
  /\ \A t \in Traces : \A module \in ToSet(t.modules) : module.ext = "exe" =>
       \A p \in {0, End} :
         \/ \E image \in Images : HasCells(t.memory[p], image, module.base)
         \/ ~Headers(t.memory[p], module.base).ok
----------------------------------------------------------------------------
(* What an image has to report when it is at a base.                       *)
ImportsIn(image, base) ==
  FlattenSeq([i \in DOMAIN image.imports |->
    LET import == image.imports[i] IN
    [t \in DOMAIN import.names |->
      [dll |-> import.dll, va |-> base + SlotsAt(i) + Width(image) * (t - 1),
       name |-> IF import.names[t].ordinal THEN <<Hash>> \o import.names[t].text
                ELSE import.names[t].text]]])

ExportsIn(image, base) ==
  FlattenSeq([i \in DOMAIN image.exports |->
    LET export == image.exports[i] IN
    IF export.rva \in CodeAt THEN <<[va |-> base + export.rva, name |-> export.name]>>
    ELSE <<>>])

SectionsIn(image, base) ==
  [i \in DOMAIN image.sections |-> [name |-> i, va |-> base + DataAt(i)]]

StringsIn(image) ==
  FlattenSeq([i \in DOMAIN image.sections |-> image.sections[i].texts])

ArchOf(is64) == IF is64 THEN "x64" ELSE "x86"
----------------------------------------------------------------------------
Names == Seq(Nat)

NoSample == ""

TypeOK ==
  /\ trace \in Traces
  /\ pc \in {"identify", "last", "min", "strings", "resolve", "loads", "sweep"}
  /\ cursor \in 0..End
  /\ report \in [sample : {NoSample} \cup {module.stem : module \in ToSet(trace.modules)},
                 arch : {"x64", "x86"},
                 imports : Seq([dll : Names, name : Names, va : Nat]),
                 exports : Seq([name : Names, va : Nat]),
                 sections : Seq([name : Nat, va : Nat]), strings : Seq(Names)]
  /\ Len(report.strings) <= MaxStrings
  /\ next \in 1..(Len(trace.loads) + 1)
  /\ \A va \in DOMAIN resolved :
       /\ resolved[va] \in [module : STRING, api : Names, is64 : BOOLEAN]
       /\ Len(resolved[va].api) \in 1..MaxName

Init ==
  /\ trace \in Traces
  /\ pc = "identify"
  /\ cursor = 0
  /\ report = [sample |-> NoSample, arch |-> "x64", imports |-> <<>>, exports |-> <<>>,
               sections |-> <<>>, strings |-> <<>>]
  /\ next = 1
  /\ resolved = <<>>

(* The modules whose names end in .exe; the first is the main one.         *)
Programs == {i \in DOMAIN trace.modules : trace.modules[i].ext = "exe"}

Main == trace.modules[Min(Programs)]

IdentifyMain ==
  /\ pc = "identify"
  /\ IF Programs = {}
       THEN pc' = "resolve" /\ UNCHANGED report
       ELSE pc' = "last" /\ report' = [report EXCEPT !.sample = Main.stem]
  /\ UNCHANGED <<trace, cursor, next, resolved>>

(* try_parse: imports and sections are replaced, exports are added to.     *)
Parse(p) ==
  LET mem == trace.memory[p] IN
  /\ cursor' = p
  /\ report' = [report EXCEPT
       !.imports = ImportList(mem, Main.base),
       !.sections = SectionList(mem, Main.base),
       !.exports = @ \o ExportList(mem, Main.base),
       !.arch = IF ExportsOk(mem, Main.base) THEN ArchOf(Headers(mem, Main.base).is64) ELSE @]

MutParsed(p) ==
  /\ Headers(trace.memory[p], Main.base).ok
  /\ SectionList(trace.memory[p], Main.base) # <<>>
  /\ ImportList(trace.memory[p], Main.base) # <<>>

(* Was an attempt good enough?                                             *)
Parsed(p) ==
  /\ Headers(trace.memory[p], Main.base).ok
  /\ SectionList(trace.memory[p], Main.base) # <<>>

ParseLast ==
  /\ pc = "last"
  /\ Parse(End)
  /\ pc' = IF Parsed(End) THEN "strings" ELSE "min"
  /\ UNCHANGED <<trace, next, resolved>>

ParseMin ==
  /\ pc = "min"
  /\ Parse(0)
  /\ pc' = "strings"
  /\ UNCHANGED <<trace, next, resolved>>

FindStrings ==
  /\ pc = "strings"
  /\ cursor' = End
  /\ report' = [report EXCEPT !.strings = StringList(trace.memory[End], Main.base)]
  /\ pc' = "resolve"
  /\ UNCHANGED <<trace, next, resolved>>

BeginResolving ==
  /\ pc = "resolve"
  /\ cursor' = 0
  /\ pc' = "loads"
  /\ UNCHANGED <<trace, report, next, resolved>>

(* getModuleBaseName.                                                      *)
BaseName(module) == module.stem

(* What the map has for an address after a module's exports.               *)
TargetAt(module, mem, va) ==
  LET exports == ExportList(mem, module.base)
      first   == Min({i \in DOMAIN exports : exports[i].va = va})
  IN [module |-> BaseName(module), api |-> exports[first].name,
      is64 |-> Headers(mem, module.base).is64]

ShownBy(module, mem) == {export.va : export \in ToSet(ExportList(mem, module.base))}

MutWithExports(map, module, mem) ==
  [va \in DOMAIN map \cup ShownBy(module, mem) |->
     IF va \in ShownBy(module, mem) THEN TargetAt(module, mem, va) ELSE map[va]]

(* The map after emplace has been called for the exports a module shows:   *)
(* an address that is taken keeps what it has.                             *)
WithExports(map, module, mem) ==
  [va \in DOMAIN map \cup ShownBy(module, mem) |->
     IF va \in DOMAIN map THEN map[va] ELSE TargetAt(module, mem, va)]

(* The next load event, looked at where it happened.                       *)
ResolveLoad ==
  /\ pc = "loads" /\ next \in DOMAIN trace.loads
  /\ LET load == trace.loads[next] IN
     /\ cursor' = load.at
     /\ resolved' = WithExports(resolved, trace.modules[load.module], trace.memory[load.at])
  /\ next' = next + 1
  /\ UNCHANGED <<trace, pc, report>>

EndResolving ==
  /\ pc = "loads" /\ next \notin DOMAIN trace.loads
  /\ pc' = "sweep"
  /\ UNCHANGED <<trace, cursor, report, next, resolved>>

Next ==
  \/ IdentifyMain \/ ParseLast \/ ParseMin \/ FindStrings
  \/ BeginResolving \/ ResolveLoad \/ EndResolving

Spec == Init /\ [][Next]_vars
----------------------------------------------------------------------------
Prepared == pc = "sweep" /\ Programs # {}

Clean(p) ==
  \E image \in Images :
    HasCells(trace.memory[p], image, Main.base) /\ Uncut(trace.memory[p], image, Main.base)

Describes(image) ==
  /\ report.arch = ArchOf(image.is64)
  /\ report.imports = ImportsIn(image, Main.base)
  /\ report.exports = ExportsIn(image, Main.base)
  /\ report.sections = SectionsIn(image, Main.base)

(* No name is longer than what is read of it.                              *)
Fits(image) ==
  /\ \A export \in ToSet(image.exports) : Len(export.name) <= MaxName
  /\ \A import \in ToSet(image.imports) :
       /\ Len(import.dll) <= MaxDll
       /\ \A name \in ToSet(import.names) : Len(name.text) <= MaxName

(* The report is about one image, and says of it what the linker put into  *)
(* it, in either format: the one at the end of the trace if it is known    *)
(* there, or the one at its beginning if the end shows no headers.         *)
WholeImageIsReported ==
  Prepared => \A image \in Images : Fits(image) =>
    /\ IsWhole(trace.memory[End], image, Main.base) /\ image.sections # <<>> =>
         Describes(image)
    /\ ~Headers(trace.memory[End], Main.base).ok /\ IsWhole(trace.memory[0], image, Main.base) =>
         Describes(image)

(* The strings reported are those of the image at the end of the trace, in *)
(* its order, and all of them if there is room (utils.cpp).                *)
StringsAreReported ==
  Prepared => \A image \in Images :
    IsWhole(trace.memory[End], image, Main.base) =>
      /\ IsPrefix(report.strings, StringsIn(image))
      /\ Len(report.strings) \in {Len(StringsIn(image)), MaxStrings}

(* Is something so of an image that is at the base at one of the ends?     *)
OfImages(Says(_)) ==
  \E p \in {0, End} : \E image \in Images :
    HasCells(trace.memory[p], image, Main.base) /\ Says(image)

(* Nothing is reported that is not in the image, however little is known   *)
(* of it, as long as no structure is known in part: names may lack their   *)
(* ends (ttd_pe_utils.cpp:21-42).  A read that ends within a structure     *)
(* counts as a success, and zeros are then taken for addresses.            *)
NothingInvented ==
  Prepared /\ Clean(0) /\ Clean(End) =>
    /\ \A i \in DOMAIN report.imports :
         OfImages(LAMBDA image : \E import \in ToSet(ImportsIn(image, Main.base)) :
           /\ import.va = report.imports[i].va
           /\ IsPrefix(report.imports[i].name, import.name)
           /\ IsPrefix(report.imports[i].dll, import.dll))
    /\ \A i \in DOMAIN report.exports :
         OfImages(LAMBDA image : \E export \in ToSet(ExportsIn(image, Main.base)) :
           /\ export.va = report.exports[i].va
           /\ IsPrefix(report.exports[i].name, export.name))
    /\ OfImages(LAMBDA image : IsPrefix(report.sections, SectionsIn(image, Main.base)))

(* An export is listed twice in three ways only, whatever is known of the  *)
(* image: the first attempt got as far as the exports without finding a    *)
(* section, and the second one adds to its list; or the names of two       *)
(* exports of one function have the beginning in common that is known; or  *)
(* the export directory was known in part where it was read.               *)
ExportsListedOnce ==
  Prepared =>
    \A i, j \in DOMAIN report.exports : i # j /\ report.exports[i] = report.exports[j] =>
      \/ /\ ExportList(trace.memory[End], Main.base) # <<>>
         /\ SectionList(trace.memory[End], Main.base) = <<>>
      \/ OfImages(LAMBDA image : \E k, l \in DOMAIN image.exports :
           /\ k # l /\ image.exports[k].rva = image.exports[l].rva
           /\ report.exports[i].va = Main.base + image.exports[k].rva
           /\ IsPrefix(report.exports[i].name, image.exports[k].name)
           /\ IsPrefix(report.exports[i].name, image.exports[l].name))
      \/ \E p \in {End} \cup {q \in {0} : ~Parsed(End)} : \E image \in Images :
           /\ HasCells(trace.memory[p], image, Main.base)
           /\ Torn(trace.memory[p], image, Main.base)

Holds(l, p) == trace.loads[l].at <= p /\ p < trace.loads[l].until

ModuleOf(l) == trace.modules[trace.loads[l].module]

(* The code addresses a load brings with it.                               *)
Functions(l) ==
  {export.va : export \in ToSet(ExportsIn(ModuleOf(l).image, ModuleOf(l).base))}

Owns(l, va) ==
  /\ resolved[va].module = ModuleOf(l).stem
  /\ resolved[va].is64 = ModuleOf(l).image.is64
  /\ \E export \in ToSet(ExportsIn(ModuleOf(l).image, ModuleOf(l).base)) :
       export.va = va /\ IsPrefix(resolved[va].api, export.name)

InMemory(l, Known(_, _, _)) ==
  Known(trace.memory[trace.loads[l].at], ModuleOf(l).image, ModuleOf(l).base)

(* Whatever address the map has is taken for a function of a module that   *)
(* had one there, with that function's name and that module's bitness,     *)
(* unless that module's export directory was known in part when it was     *)
(* loaded.  And a module that can be read when it is loaded has all its    *)
(* functions found, as its own unless a module loaded before had one at    *)
(* the same address (ttdutils.cpp:48) or had its directory known in part:  *)
(* an address without history is never taken for another function.         *)
TargetsResolveToOwner ==
  Prepared =>
    /\ \A va \in DOMAIN resolved : \E l \in DOMAIN trace.loads :
         \/ va \in Functions(l) /\ Owns(l, va)
         \/ /\ InMemory(l, Torn)
            /\ resolved[va].module = ModuleOf(l).stem
            /\ resolved[va].is64 = ModuleOf(l).image.is64
    /\ \A l \in DOMAIN trace.loads : InMemory(l, IsWhole) =>
         \A va \in Functions(l) :
           /\ va \in DOMAIN resolved
           /\ \/ Owns(l, va)
              \/ \E k \in 1..(l - 1) : va \in Functions(k) \/ InMemory(k, Torn)

(* "a map of all function VAs along with their associated module and       *)
(* function name": ttdutils.hpp:129.                                       *)
MapIsOfFunctions ==
  Prepared => \A va \in DOMAIN resolved : \E l \in DOMAIN trace.loads : va \in Functions(l)

(* "Bitness is decided per call from the module owning the target":        *)
(* main.cpp:14-16.                                                         *)
BitnessIsOwners ==
  Prepared => \A p \in 0..End : \A l \in DOMAIN trace.loads :
    Holds(l, p) => \A va \in Functions(l) \cap DOMAIN resolved :
      resolved[va].is64 = ModuleOf(l).image.is64
============================================================================
