------------------------------ MODULE PeImage ------------------------------
(***************************************************************************)
(* Reading a PE image out of guest memory (ttd/src/ttd_pe_utils.cpp): its  *)
(* headers, exports, imports, sections and strings.                        *)
(*                                                                         *)
(* A memory is a function from the cells known at one position of the      *)
(* trace to what is in them.  A cell is a field of a structure, half of a  *)
(* 64-bit thunk, or a character.  Memory is known in patches, so any read  *)
(* may end early; the parsers take a read for a success as soon as one     *)
(* cell of it is there, and find zeros in the rest.                        *)
(***************************************************************************)
EXTENDS Naturals, Sequences, SequencesExt, FiniteSetsExt

CONSTANTS
  OrdinalFlag,  \* IMAGE_ORDINAL_FLAG, the top bit of a cell
  OrdinalRange, \* ordinals there are, 2^16 in the code
  MaxName,      \* characters read of a name at most, 512 in the code
  MaxDll,       \* and of an imported module's, 128
  MinString,    \* minLength, 5 in the code
  MaxStrings,   \* maxStrings, 2000 in the code
  MaxSection    \* the largest section looked through, 64 MB in the code

ASSUME PeAssumption ==
  /\ {OrdinalFlag, OrdinalRange, MaxName, MaxDll, MinString, MaxStrings, MaxSection}
       \subseteq Nat \ {0}
  /\ OrdinalRange <= OrdinalFlag

DosMagic == 23117
NtMagic == 17744
Magic32 == 267
Magic64 == 523
Hash == 35
----------------------------------------------------------------------------
(* The cells of a read that can be had, in one piece from its start.       *)
Got(mem, a, size) ==
  Max({0} \cup {k \in 1..size : a..(a + k - 1) \subseteq DOMAIN mem})

(* A structure filled by readMemory.                                       *)
ReadMemory(mem, a, size) ==
  [i \in 1..size |-> IF i <= Got(mem, a, size) THEN mem[a + i - 1] ELSE 0]

(* readMemory returned 0: what the parsers take for a failure.             *)
Unreadable(mem, a) == a \notin DOMAIN mem

(* readCSTR: the characters before a NUL, the limit or unknown memory.     *)
CStr(mem, a, limit) ==
  LET known == Got(mem, a, limit)
      text  == ReadMemory(mem, a, known)
      nuls  == {i \in 1..known : text[i] = 0}
  IN IF nuls = {} THEN text ELSE SubSeq(text, 1, Min(nuls) - 1)

NoHeaders ==
  [ok |-> FALSE, is64 |-> FALSE, sections |-> 0, table |-> 0,
   exports |-> [rva |-> 0, size |-> 0], imports |-> [rva |-> 0, size |-> 0]]

(* Where the data directories are in the optional header: wider fields     *)
(* before them push them back in PE32+.                                    *)
Directories(magic) == IF magic = Magic64 THEN 3 ELSE 2

(* readNTHeaders.                                                          *)
Headers(mem, base) ==
  LET nt    == ReadMemory(mem, base, 2)[2]
      head  == ReadMemory(mem, base + nt, 3)
      opt   == base + nt + 3
      magic == ReadMemory(mem, opt, 1)[1]
      first == Directories(magic)
      dirs  == ReadMemory(mem, opt, first + 3)
  IN IF \/ ReadMemory(mem, base, 2)[1] # DosMagic
        \/ head[1] # NtMagic
        \/ magic \notin {Magic32, Magic64}
       THEN NoHeaders
       ELSE [ok |-> TRUE, is64 |-> magic = Magic64,
             sections |-> head[2], table |-> opt + head[3],
             exports |-> [rva |-> dirs[first], size |-> dirs[first + 1]],
             imports |-> [rva |-> dirs[first + 2], size |-> dirs[first + 3]]]

Absent(dir) == dir.rva = 0 \/ dir.size = 0

(* The first place of a table where the walk along it ends.                *)
FirstEnd(mem, Ends(_)) == Min({i \in 0..Cardinality(DOMAIN mem) : Ends(i)})
----------------------------------------------------------------------------
(* getModuleExports: the headers' verdict on the width counts even when    *)
(* the directory cannot be read.                                           *)
ExportDirectory(mem, base) ==
  ReadMemory(mem, base + Headers(mem, base).exports.rva, 5)

ExportsOk(mem, base) ==
  LET pe == Headers(mem, base) IN
  pe.ok /\ (Absent(pe.exports) \/ ~Unreadable(mem, base + pe.exports.rva))

MutIsOwnCode(dir, rva) == rva # 0

(* An address that is code of this image: not 0, and no forwarder, whose   *)
(* address is that of a text within the directory.                         *)
IsOwnCode(dir, rva) == rva # 0 /\ rva \notin dir.rva..(dir.rva + dir.size - 1)

ExportList(mem, base) ==
  LET pe      == Headers(mem, base)
      dir     == ExportDirectory(mem, base)
      Field(rva, i) == ReadMemory(mem, base + rva + i, 1)[1]
      Ends(i) == \/ i >= dir[2]
                 \/ Unreadable(mem, base + dir[4] + i)
                 \/ Unreadable(mem, base + dir[5] + i)
      Ordinal(i) == Field(dir[5], i)
      Code(i) == Field(dir[3], Ordinal(i))
      Name(i) == CStr(mem, base + Field(dir[4], i), MaxName)
      Entry(i) ==
        IF Ordinal(i) < dir[1] /\ IsOwnCode(pe.exports, Code(i)) /\ Name(i) # <<>>
          THEN <<[va |-> base + Code(i), name |-> Name(i)]>>
          ELSE <<>>
  IN IF ~ExportsOk(mem, base) \/ Absent(pe.exports) THEN <<>>
     ELSE FlattenSeq([i \in 1..FirstEnd(mem, Ends) |-> Entry(i - 1)])
----------------------------------------------------------------------------
MutThunkWidth(pe) == 2

(* pointerSize, in cells.                                                  *)
ThunkWidth(pe) == IF pe.is64 THEN 2 ELSE 1

(* The imports of one descriptor: the names come from one table of thunks, *)
(* the addresses from the other.                                           *)
ImportsOf(mem, base, pe, desc) ==
  LET width   == ThunkWidth(pe)
      table   == base + IF desc[1] # 0 THEN desc[1] ELSE desc[3]
      Thunk(t) == ReadMemory(mem, table + t * width, width)
      Ends(t) == Thunk(t) = [i \in 1..width |-> 0]
      Named(t) == CStr(mem, base + (Thunk(t)[1] % OrdinalFlag) + 1, MaxName)
      Name(t) == IF Thunk(t)[width] >= OrdinalFlag
                   THEN <<Hash, (Thunk(t)[1] % OrdinalFlag) % OrdinalRange>> ELSE Named(t)
      Entry(t) ==
        IF Name(t) = <<>> THEN <<>>
        ELSE <<[dll |-> CStr(mem, base + desc[2], MaxDll), name |-> Name(t),
                va |-> base + desc[3] + t * width]>>
  IN IF table = base THEN <<>>
     ELSE FlattenSeq([t \in 1..FirstEnd(mem, Ends) |-> Entry(t - 1)])

(* getModuleImports, where the headers are readable.                       *)
ImportList(mem, base) ==
  LET pe      == Headers(mem, base)
      Desc(i) == ReadMemory(mem, base + pe.imports.rva + 3 * i, 3)
      Ends(i) == \/ Unreadable(mem, base + pe.imports.rva + 3 * i)
                 \/ Desc(i)[2] = 0 /\ Desc(i)[3] = 0
  IN IF ~pe.ok \/ Absent(pe.imports) THEN <<>>
     ELSE FlattenSeq([i \in 1..FirstEnd(mem, Ends) |->
                        ImportsOf(mem, base, pe, Desc(i - 1))])
----------------------------------------------------------------------------
(* The section headers that can be read.                                   *)
SectionHeaders(mem, base) ==
  LET pe      == Headers(mem, base)
      Ends(i) == i >= pe.sections \/ Unreadable(mem, pe.table + 5 * i)
  IN [i \in 1..FirstEnd(mem, Ends) |-> ReadMemory(mem, pe.table + 5 * (i - 1), 5)]

(* getModuleSections.                                                      *)
SectionList(mem, base) ==
  LET headers == SectionHeaders(mem, base) IN
  [i \in DOMAIN headers |-> [name |-> headers[i][1], va |-> base + headers[i][2]]]

IsPrintableASCII(c) == c = 9 \/ c \in 32..126

(* The texts found, and the one that is being put together.                *)
Enough(found) == Len(found) >= MaxStrings

Kept(s) == IF Len(s.cur) >= MinString THEN Append(s.found, s.cur) ELSE s.found

MutTurn(s, c) ==
  IF c # 0 THEN [s EXCEPT !.cur = Append(@, c)] ELSE [cur |-> <<>>, found |-> Kept(s)]

(* One turn of the loop over a section, c being 0 where no character is.   *)
Turn(s, c) ==
  IF Enough(s.found) THEN s
  ELSE IF c # 0 THEN [s EXCEPT !.cur = Append(@, c)]
  ELSE [cur |-> <<>>, found |-> Kept(s)]

(* The whole loop, and the text that reaches the section's end.            *)
Pass(chars, start) ==
  LET scan[p \in 0..Len(chars)] == IF p = 0 THEN start ELSE Turn(scan[p - 1], chars[p])
      last == scan[Len(chars)]
  IN IF Enough(last.found) THEN last ELSE [last EXCEPT !.found = Kept(last)]

Char(c) == IF IsPrintableASCII(c) THEN c ELSE 0

(* What is in the low bytes of a section's pairs of bytes.                 *)
PairsOf(buf) ==
  [p \in 1..(Len(buf) \div 2) |-> IF buf[2 * p] = 0 THEN Char(buf[2 * p - 1]) ELSE 0]

MutBothPasses(buf, found) ==
  LET ascii == Pass([p \in DOMAIN buf |-> Char(buf[p])], [cur |-> <<>>, found |-> found])
  IN Pass(PairsOf(buf), ascii).found

(* A section is gone through for ASCII, then for UTF-16, with one buffer   *)
(* for the text, which is emptied in between.                              *)
BothPasses(buf, found) ==
  LET ascii == Pass([p \in DOMAIN buf |-> Char(buf[p])], [cur |-> <<>>, found |-> found])
  IN Pass(PairsOf(buf), [ascii EXCEPT !.cur = <<>>]).found

(* The texts after a section: code is left out, and so is what has no size *)
(* or too much of it.                                                      *)
SectionStrings(mem, base, header, found) ==
  LET size == IF header[3] # 0 THEN header[3] ELSE header[4] IN
  IF Enough(found) \/ header[5] # 0 \/ size = 0 \/ size > MaxSection THEN found
  ELSE BothPasses(ReadMemory(mem, base + header[2], Got(mem, base + header[2], size)), found)

(* getModuleStrings.                                                       *)
StringList(mem, base) ==
  LET headers == SectionHeaders(mem, base)
      found[i \in 0..Len(headers)] ==
        IF i = 0 THEN <<>> ELSE SectionStrings(mem, base, headers[i], found[i - 1])
  IN found[Len(headers)]
============================================================================
