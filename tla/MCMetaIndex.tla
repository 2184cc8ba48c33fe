---------------------------- MODULE MCMetaIndex ----------------------------
(* Bounds for TLC: values of four bits and tables of up to three entries,  *)
(* some wider than their enumeration; files broken in each of the ways     *)
(* load looks for, and two places to find them; files the builder made.    *)
EXTENDS IndexBuilder

CONSTANTS none, no_enum, access, mode, unused

MCNames == {"CreateFileW", "ReadFile"}
MCBits == 0..3
MCRegisters == SUBSET MCBits

Func(name, first, count) == [name |-> name, first |-> first, count |-> count]

Enum(offset, count, flags, width) ==
  [offset |-> offset, count |-> count, flags |-> flags, width |-> width]

File(fs, ps, es, values) ==
  [sound |-> TRUE, funcs |-> fs, params |-> ps, enums |-> es, values |-> values]

(* A single bit, overlapping pairs, everything, zero, and a sign-extended  *)
(* value for an enumeration of three bits.                                 *)
EntryValues == {{}, {0}, {1}, {0, 1}, {1, 2}, {0, 1, 2}, {2, 3}}

Tables ==
  {File(<<>>, <<>>, <<Enum(0, Len(values), flags, width)>>, values) :
     values \in UNION {[1..n -> EntryValues] : n \in 0..3},
     flags \in BOOLEAN, width \in {3, 4}}

FuncLists ==
  UNION {[1..n -> {Func(name, first, count) :
                     name \in MCNames, first \in {0, 1}, count \in {0, 1, 2}}] : n \in 0..2}

Functions ==
  {File(fs, ps, es, <<{0}, {1}>>) :
     fs \in FuncLists,
     ps \in {<<no_enum>>, <<0, 1>>, <<1, 2>>},
     es \in {<<>>, <<Enum(1, 1, TRUE, 4), Enum(1, 2, FALSE, 4)>>}}

Foreign == [File(<<>>, <<>>, <<>>, <<>>) EXCEPT !.sound = FALSE]

(* Metadata of up to three functions, two of them of one name, some not    *)
(* for x64 or with too many parameters; one enumeration is never used.     *)
MCEnumNames == <<access, unused, mode>>
MCEnumeration ==
  [e \in {access, unused, mode} |->
     CASE e = access -> [flags |-> TRUE, width |-> 4, values |-> <<{0}, {1}>>]
       [] e = unused -> [flags |-> FALSE, width |-> 3, values |-> <<{2}>>]
       [] e = mode   -> [flags |-> FALSE, width |-> 4, values |-> <<{0, 1}, {3}>>]]
MCMaxParams == 2

Described(name) ==
  {[name |-> name, x64 |-> TRUE, hidden |-> FALSE, types |-> <<>>],
   [name |-> name, x64 |-> TRUE, hidden |-> FALSE, types |-> <<no_enum, mode>>],
   [name |-> name, x64 |-> TRUE, hidden |-> TRUE, types |-> <<access>>],
   [name |-> name, x64 |-> TRUE, hidden |-> TRUE, types |-> <<access, access>>],
   [name |-> name, x64 |-> FALSE, hidden |-> FALSE, types |-> <<access>>]}

MCSurfaces ==
  {<<f, g, h>> : f \in Described("CreateFileW"),
                 g \in Described("CreateFileW"), h \in Described("ReadFile")}

MCFiles == Tables \cup Functions \cup {BuiltFile[s] : s \in MCSurfaces} \cup {Foreign}

MCCandidates ==
  {<<file>> : file \in MCFiles}
  \cup {<<none, file>> : file \in {Foreign, File(<<>>, <<no_enum>>, <<>>, <<{0}, {1}>>)}}
  \cup {<<none, none>>, <<Foreign, File(<<>>, <<no_enum>>, <<>>, <<{0}, {1}>>)>>}
============================================================================
