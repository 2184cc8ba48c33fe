# Verification of ttd-capa

ttd-capa turns a Windows time-travel trace into a log of API calls and feeds
that log to capa. `ttdcapa-extract.exe` (`src/ttd/src`) replays the trace once,
records every call of an exported function with its arguments and its return
value, and writes a binary and a JSON report. `ttd-capa.py` drives it.
`ttd-timeline.py` shows the result.

This directory holds TLA+ models of that program, the TLC runs that check
them, and TLAPS proofs about them. Line numbers are those of the commit beside
which this directory lives. `PROJECT.json` maps every definition to its lines.

## 1. Inventory

### Components, their state and their operations

| Component | Source | State | Operations |
| --- | --- | --- | --- |
| Execution sweep | `main.cpp:170-372` | `g_report.process.calls`, per-thread `in_flight`, `seq`, `limit_hit`, progress counters | `on_call_return` on a CALL and on a RET |
| Sweep control | `main.cpp:373-455` | `g_replayingCursor`, the engine's interrupt request, the watcher thread | publish, start the watcher, `ReplayForward`, withdraw, write reports, return |
| Argument decoder | `abi.cpp` | `call.params`, `InFlight::pending`, `call.args` | `decodeArgs` (two passes) and `resolvePendingOuts` (two loops) |
| x86 stack layout | `abi.cpp:60-180`, `build-win32-index.py` | none: a function of a signature | `computeStackOffsets`, `fetchArg` |
| Guest string readers | `ttdutils.cpp` | none | `readAnsiString`, `readWideString`, `tryReadString` |
| Binary report | `binreport.cpp` | string table, call records, parameter region, blob, output stream | `write` |
| JSON report | `utils.cpp` | none kept | `writeReport` |
| Report identity and PE parsing | `utils.cpp`, `ttd_pe_utils.cpp` | the report's header, imports, exports, sections, strings, hashes | `initializeReport` with its two attempts, the PE readers |
| Export map | `ttdutils.cpp` | `resolvedTraceModuleExports` | `resolveTraceModuleExports`, once before the sweep |
| Metadata index | `win32meta.cpp` | two lookup tables, types, constants | `Index::load`, `lookup`, `decodeEnum` |
| Index builder | `build-win32-index.py` | the tables being filled, string pool | `collect_enums`, `build_function`, `build`, classification of types |
| Options | `utils.cpp` | `Options` | `parse_args` |
| Pipeline driver | `ttd-capa.py` | the temporary report, exit codes | find the extractor, call it, run capa, clean up |
| Timeline viewer | `ttd-timeline.py` | the sorted calls | `position_key`, filters |
| Replay engine | external | cursor, memory of the guest | reports events, is interrupted |

### How they interact

`ttd-capa.py` makes a temporary file and calls the extractor with a command
line; the two share nothing else but that file and an exit code. The extractor
parses the command line, loads the index, opens the trace, reads the main
module's image out of guest memory and builds the map of call targets from the
module loads. Then it gives `on_call_return` to the replay engine and calls
`ReplayForward`. During the
replay the engine calls back synchronously at each CALL and RET of the guest,
for whichever guest thread comes next. On a CALL of a known export the callback
appends a record, lets the decoder read registers, stack and memory, and pushes
an in-flight entry. On a RET it compares the return address with the newest
entry of that thread; on a match it stores the return value, has the decoder
read the postponed `[Out]` parameters, rebuilds the flat argument list and pops
the entry. A second thread may sit in `getline(stdin)` and interrupt the cursor
through an atomic pointer. After the replay the report writers read the log,
which nobody changes any more.

### What is hard

- *Two call stacks.* The guest has its own stacks. The callback sees one event
  at a time and rebuilds the nesting from return addresses. Unrecorded calls,
  recursion, several threads and frames that are left without a return all
  interleave.
- *A cut at any moment.* A cancel can stop the replay between any two events;
  the prefix has to be a report in its own right.
- *A watcher nobody joins.* It reads a pointer that the main thread publishes
  and withdraws, and may be blocked for ever.
- *Memory read twice.* Between call and return the callee changes memory; the
  length of a buffer can be in another parameter, before or after it, by value
  or behind a pointer, and may itself be an output.
- *Layouts that fail silently.* On x86 one parameter of the wrong width shifts
  all that follow. In the binary report one wrong offset does the same.
- *Files that fail late.* A stream reports an error at once, or when it is
  closed; and an exit code may not tell.
- *Memory in patches.* A trace knows only the memory its threads touched. A
  structure can be there in part, at one position and not at another, and a
  read that ends early is taken for a success.
- *Addresses with a past.* One map holds the exports of every module that was
  ever loaded, by address.
- *Two reports of one log*, written by code that shares no condition.
- *Tables that refer to tables by position*, filled while entries are skipped.

`PROJECT.json`, "hazards", lists each of these at its line, with the properties
that would catch it, or why none does yet.

### What makes each component correct

- Sweep: the open entries are exactly the records without a return; a return
  value goes to its own call; the limit is exact; progress never goes back;
  seen from outside, the log is append-only and completed innermost first.
- Control: no cancel is invented or dropped early, the prefix of a cancelled
  sweep is correct, and the process ends.
- Decoder: contents of the call and of the return are never mixed, and
  truncation is told.
- Layout: an accepted signature is read where its arguments are.
- Binary report: following the offsets gives back what was recorded.
- Metadata index: whatever the file is, a signature or a table that can be
  reached is within its bounds; a flag value is spelled out with each bit once.
- Index builder: every function it keeps is served with its own parameters, each
  decoded by the enumeration its type leads to.
- JSON report: its reader and the binary report's are told the same, but for
  three things that are named.
- Report identity: one image is described, whole if it is known, and nothing
  that is not in it. Export map: a target has the name a module gave it.
- Options and driver: what was asked for arrives; success means a report; the
  temporary file does not stay; everything ends.

## 2. Modules

| Module | What it models | Used by |
| --- | --- | --- |
| `CallLog` | the abstract log a reader of the report relies on | refined by `CallSweep` |
| `CallSweep` | the callback, with the guest as its environment | `SweepControl`, the proofs |
| `SweepControl` | `wmain` around the replay, and the watcher; EXTENDS `CallSweep` | |
| `ArgDecode` | one call's arguments from entry to return | abstracted in `CallSweep` as `args`, the proofs |
| `StackLayout` | the x86 layout | the proofs |
| `BinReport` | `binreport::write` and a reader of its file | `JsonReport` |
| `JsonReport` | `writeReport`'s document, from the same records; EXTENDS `BinReport` | the proofs |
| `MetaIndex` | the metadata index: finding, loading, looking up, decoding | `IndexBuilder` |
| `IndexBuilder` | `build` of the index builder, its file loaded by `MetaIndex`, which it EXTENDS | the proofs |
| `PeImage` | the PE readers, as functions of a memory | `Prepare` |
| `Prepare` | `initializeReport` and `resolveTraceModuleExports` over a trace; EXTENDS `PeImage` | the proofs |
| `Pipeline` | `ttd-capa.py` and the extractor as two processes | the proofs |
| `Induction` | induction over numbers, minima and recursive functions, as lemmas | the proofs below |
| `ControlProofs` | theorems about `CallSweep` for any guest, about guests whose calls nest, and about sweeps that are cancelled | |
| `ArgDecodeProofs` | theorems about `ArgDecode` | |
| `LayoutProofs` | the theorem about `StackLayout` | |
| `BinReportProofs` | theorems about `BinReport` and `JsonReport` | |
| `MetaIndexProofs` | theorems about `MetaIndex` and `IndexBuilder` | |
| `PrepareProofs` | theorems about `Prepare`, and lemmas about the readers of `PeImage` | |
| `PipelineProofs` | theorems about `Pipeline` | |
| `MC...` | constants for TLC | |

A definition whose name starts with `Mut` is a faulty version of the
definition that follows it. No specification uses it. It is there so that each
property can be seen to fail when the code has that fault.

### CallSweep

`calls`, `in_flight`, `seq`, `events_seen`, `limit_hit` and `highest_pct` are
the variables of the callback. `stack`, `at` and `returned` belong to the
guest: the frames each thread really has, the position it has reached and the
logged calls whose frame really returned. No action of the callback reads them;
the properties compare the two sides.

One action is one event: `CallUnresolved`, `CallDropped` and `CallLogged` are
the three outcomes of a CALL (`main.cpp:246-346`), `Return` and `ReturnOld` a
RET (`:347-371`) from a frame of the recording or one older than it, `Unwind`
is control leaving frames with no event (an exception, `longjmp`, the end of a
thread). `Event` is the head of the callback, progress line included.
`CallsAt` says which targets a call instruction can reach: an indirect call can
reach several.

Abstractions. The arguments of a record have three states, captured, waiting
for the return, filled in; `ArgDecode` looks inside. The heuristic that runs
when there is no signature (`main.cpp:307-341`) is "captured" here. A return
value is identified by the frame that returns. Percentages are in units of a
hundredth of the last sequence number, positions run from 0 to `MaxPosition`
and may exceed the last one. The clock that throttles the progress line is a
free choice.

### SweepControl

`main` is the program counter of `wmain` from `g_replayingCursor.store` to its
return, `watcher` that of the lambda at `main.cpp:397-408`. The watcher's load
of the pointer and its use are two steps, so the main thread can withdraw the
cursor in between. `interrupt` is the engine's. The code does not say what an
engine does with a request made while it is not replaying, so the model lets it
remember or forget one. Whether `--cancel-on-stdin` was given is a choice at
the start.

### ArgDecode

A run of this module is one call: pass 1 (`Fetch`), pass 2 parameter by
parameter (`DecodeParam`), the callee, then the two loops of
`resolvePendingOuts`. Memory maps an address to a word and to the bytes that
can be read from there; bytes are distinguished by who wrote them and whether
they are NUL. `ByteCount`, `Captured`, `Dereferenced`, `WithUntypedString`,
`AtEntry`, `ReadAgain` and `Recaptured` are the functions of `abi.cpp` and keep
their order of tests. Left out: how numbers, enumerations and GUIDs are
printed, code pages and the test for printable characters, the width of a
pointer read on x86. A value behind a pointer is read only if all of its
`WordSize` bytes can be (`WordReadable`, `abi.cpp:25-31`); a text needs one
(`Readable`). `--max-buffer 0` given by hand is allowed.

`OutContentsAreFromReturn` is about values, bytes and texts. It has one
exception, the text of an opaque pointer: `decodeArgs` looks for it at the call
(`abi.cpp:507-510`) and nobody looks again, so what is reported of an `[Out]`
one is the text that was there before the callee ran. `UncappedIsComplete` says
what an unmarked capture is: the whole span, a text to its terminator, or all
that memory had.

### StackLayout

A signature grows one parameter at a time. `Slot`, `Footprint`, `SlotBytes` and
`Running` are what the indexer and `computeStackOffsets` compute, the last one
slot by slot in the fixed table of `kMaxParams`; `Offset` looks a parameter up
in it. `Pushed` and `TrueOffset` are what an x86 compiler does, parameter by
parameter. `AbiAssumption` is the calling convention: a double takes two words,
a pointer, a float and a value of up to four bytes one. Of the two cases in
which the x64 size does not tell, a scalar of 8 bytes and a structure by value,
it says nothing. The hidden-return flag is taken to be right on both
architectures.

### BinReport

`write` call by call and parameter by parameter, then the file. `Parts` are the
optional parts of a parameter, each with its place in the blob worked out from
those before it, as the code does. `Starts`, `UnitOf`, `BlobAt` and `ReadsAs`
are a reader that knows nothing but the format in `docs/ttdcapa-extract.md`. All
fields of a call record and of a parameter record are read back. The thread and
the two halves of a position keep 32 bits (`binreport.cpp:175-176`, `:295`), so
they are given back only if these hold them (`Stands`); a floating-point value
has no place in the format. A
capture is taken to be marked as cut short only if there was more, which is how
`abi.cpp:289` sets the mark. Sizes are scaled: a name, a fixed record and an
optional part count as one unit each, and offsets wrap at `OffsetLimit`, which
stands for 2^32. The wording of the search text is left out, its place and
length are not. Strings that the header refers to (trace path, sample name,
architecture) are left out of the table.

### MetaIndex

`candidates` is what lies at the places `loadIndex` looks in. The first file
found is the one used: `Reject` is a file that fails the checks of the header,
or no file at all. Loading then goes the way of `Index::load`: the parameters
with their enumeration checked (`LoadParams`), the functions one by one
(`LoadFunction`, which may stop half-way and leaves what it has), the
enumerations (`LoadEnums`). `wmain` carries on in either case, so `Ask` is
possible in either.

`Ask` and `TryEntry` are `decodeEnum`: an exact match, nothing, or the greedy
decomposition, one table entry per step. A 64-bit value is the set of its one
bits, so `value & mask` is a selection of bits and `(remaining & bits) == bits`
an inclusion. `width` counts bits here and bytes in the code. `std::sort` may
leave entries of equally many bits in any order, so `MayFollow` lets any of
them go next. Names of parameters and types, DLL names, the constants of the
heuristic and the record layout of the file are left out; `sound` stands for
the checks of magic, version, sizes and string pool.

### IndexBuilder

`Referenced` is `collect_enums`, `EnumIndex` `resolve_enum_index` and `Build`
`build`. The three tables the code fills in a loop are recursive functions of
how far the loop is: `Kept` the enumerations, `Values` their values, `Filled`
the functions with their parameters. The metadata is taken
after its references are resolved: a parameter's type is an enumeration or none.
The files it makes are among those `MetaIndex` may find, so the two sides are
checked as they meet. How a type becomes a kind and a size (`classify_param`,
`sizeof`) is not modelled, nor the string pool.

### JsonReport

`Document` is the list of calls that `writeReport` puts into the JSON report.
An object is a function on the keys it has, so that a key that is missing and
and one with an empty value are different things. `Told` and `BinTold` are the two
readers. `ReportsAgree` compares every key of a call and of a parameter with the
field it has in the binary report, as long as no region outgrows its offsets.
The two differ in three things. `float` is in the JSON report alone
(`utils.cpp:287-289`). A thread or a position is the same only if 32 bits hold
it. And an empty text is a key in the one and no part in the other. `seq` has no
field in the binary report, where it is the place in the list.

### PeImage and Prepare

A memory is a function from the cells that are known to their contents. A cell
is a field of a structure, half of a 64-bit thunk or a character. `ReadMemory`
gives zeros after the cells that can be had, as the zero-initialised structures
of the code do; `Unreadable` is a read of nothing, the only failure the code
sees. The operators `Headers`, `ExportList`, `ImportList`, `SectionList` and
`StringList` are the functions of `ttd_pe_utils.cpp`. `StringList` keeps the
code's way of finding texts: section by section, each gone through twice
(`BothPasses`) character by character (`Turn`), with one buffer for the text and
the limit tested where the code tests it. An ordinal is a cell taken modulo
`OrdinalRange`, 2^16 in the code.

`Prepare` runs `initializeReport` (`ParseLast`, `ParseMin`, `FindStrings`) and
`resolveTraceModuleExports` (one `ResolveLoad` per event). The environment is a
trace: modules, load events with the position up to which the module stays, and
a memory per position. `Mapped` says how a linker and a loader lay an image out;
the code's answers are compared with the image, not with the layout. Where
things are is a matter of constants (`ExportDirAt`, `NameAt` and the others), so
the proofs are about any layout; the run has one. `Uncut`
holds of a memory that knows of each structure of an image all its cells or
none, `Torn` of one that knows an export directory, but not to its end.
`ImageAssumption` is what is assumed of an image, for a run and for the
proofs: it is smaller than the flag in a thunk, its parts do not overlap, names
are not empty and have no NUL, ordinals are below `OrdinalRange`, what it
exports is code, a forwarder in the export directory or nothing; a module that
is loaded is in memory there, as far as anything is; and where a program is,
there are an image or no headers at either end of the trace.

The properties ask three things of the report. `WholeImageIsReported` is about
an image that is all known: its imports, exports and sections are the linker's,
in the linker's order, if no name is longer than what is read of one (`Fits`).
`NothingInvented` is about an image of which little is known.
It does not speak of a structure that is known in part, which is read with
zeros for the rest. `ExportsListedOnce` has no such condition and names the
three ways in which an export comes to be listed twice: the attempt at the end
of the trace found exports and no section, so the second one put its own behind
them; an image has two names for one function, and of both only the beginning
they share is known; or the export directory was torn. `TargetsResolveToOwner`
is about any memory too: an address in the map is a function of a module that
was there, or came with a module whose directory was torn (`torn_directory`).
`StringsAreReported` is about the texts of the sections: the first ones, in
order, as many as there is room for.
Left out: hashes, the sample's name beyond its last component, and the case of
letters.

### Pipeline

`pc` says which process is next: the driver, or the extractor it waits for, or
an extractor run by hand. `file` is the report on the disk. The driver builds
`cmd` with `ExtractCmd`; `ParseArgument` is one turn of `parse_args`. Behind
it, one step of `wmain` each: index, engine, trace, sweep, binary report, JSON
report. Each can fail where the code lets it, `Die` ends the extractor anywhere,
`Interrupt` the driver. What the steps do inside is in the other modules. Search
paths, standard streams and capa itself are left out; capa ends with some code.

## 3. Runs

| Run | Question | Bounds | Answer |
| --- | --- | --- | --- |
| `sweep` | any guest, unwinding included | 2 threads, 1 export, 1 other target, an indirect and a direct call site, 4 events, limit 2 | holds |
| `control` | a guest that nests, cancelled at any moment | 2 threads, 2 call sites, 4 events, no limit | holds |
| `args` | two-parameter calls, every way a length can be tied to a buffer | 75 signatures or so, pointers to texts among them, three addresses, counts 1-4 against limits of 2 and 3 | holds |
| `layout` | every x86 signature | 11 parameter types, up to 4 parameters, tables of 3 | holds |
| `report` | every report of up to three calls of five kinds, in both formats | offsets wrap at 12, search text at 2 | holds |
| `index` | every file, broken ones and built ones, and every value asked of it | values of 4 bits, tables of up to 3 entries, 2 places to look in, metadata of 3 functions and 3 enumerations | holds |
| `prepare` | any memory, known in patches, at either end and at each load | 2 programs, 2 libraries, 21 holes in an image, 3 positions, up to 3 loads, room for 4 texts | holds |
| `pipeline` | every combination of options, everything that can go wrong on the way | 2 to 4 values per option, traces named like an option, 10 command lines typed by hand | holds |
| `stuck_return` | are only open calls without a return? | as `sweep` | violated |
| `offer_exceeded` | is a buffer never read beyond the offer? | as `args` | violated |
| `stale_export` | does a call have the bitness of the module that owns the target? | as `prepare` | violated |
| `torn_directory` | is every address in the map a function? | as `prepare` | violated |

Why the bounds are enough. In `sweep`, four events reach two nested logged
calls and their returns, recursion, two threads interleaved, a limit that is
hit with calls still open, and a frame left under an open one; positions step
back between threads and exceed the last one; the second look at the clock
falls within the bound. Threads are symmetric, as nothing orders them. In
`control` the same length of trace is cut by a cancel at each of its points,
and the last position is 0, the case in which the percentage divides by it. In
`args` a count can be zero, right, above the buffer limit and above the count
limit, the buffer can be null, unreadable, shorter than the count, terminated
early, exactly at the limit or not at all, and the two parameters can alias; a
word is three bytes, and memory can end before one does with text still there. In
`layout` three is a table that a fourth parameter outgrows. In `report` the
largest reports pass the limit at which offsets wrap, so that `ReadsBack` is
tested on both sides of its condition; positions lie on both sides of it too,
and parameters have every bit, a floating-point value and an empty text.
In `index` a parameter names no table, an existing one, or one past the last; a
function's parameters end at, before and after the table's end, in the first
record and in a later one; two functions share a name; values have bits above
the width of their table; and tables contain equal, overlapping, nested and
zero entries. The metadata for the builder has functions that are skipped
before and between others, one name twice, an enumeration nobody refers to and
one that only a skipped function refers to.

In `prepare` the layout has room for ten exports and for three names of each
imported module; the images differ in width, number of sections, imports by name
and by ordinal, a bound and an unbound table, aliases, forwarders and unused
slots. One program has fewer texts than there is room for, the other more, and
the limit falls within a section. A hole takes one structure, one table or text, or a part of a structure,
at the end of the trace, at its beginning, or both; the image at the beginning
may be another one; the headers may have been erased. Of two libraries one can
be loaded where the other was, with exports that fall on the same address and
others that do not. In `pipeline` every option is given and not given, numbers
are also 0 and one that wraps, a name begins with a dash, a value is missing,
given twice or looks like an option, and each step fails, is killed and is
interrupted in some behaviour.

Deadlock is not checked: each of these behaviours ends (the trace, the call,
the signature, `write`, the process, the decoded value).

Fairness. `ControlSpec` assumes weak fairness of the main thread's steps alone:
it never blocks except in `ReplayForward`, which goes through a finite trace.
Nothing is assumed of the watcher or of stdin, so `ProcessEnds` includes the
runs in which `getline` never returns. `Pipeline`'s `Spec` assumes weak fairness
of the two processes: the driver's steps are system calls that end, it waits for
the extractor and for capa, whose end is a step here, and the extractor's loops
are over its arguments and a finite trace (`ProcessEnds`). Nothing is assumed of
`Die` and `Interrupt`. `MaxEvents` is the length of the trace,
not a cut of it: the main thread may leave the replay after any event.

## 4. Proofs

TLAPS proves the following for all threads, exports, call sites, limits and
trace lengths, from `SweepAssumption` alone (exports and other targets are
disjoint, and the numbers are naturals).

- `TypeCorrect`: `Spec => []TypeOK`.
- `OpenRecords`: `Spec => []EntriesAreOpenRecords`. The inductive invariant is
  `SweepInv == TypeOK /\ EntriesAreOpenRecords`. The second conjunct is
  inductive because it says of each entry both that its record is open and
  that it is newer than those below it: two entries never share a record, so a
  pop removes exactly the entry of the record that was finished.
- `SweepImplementsCallLog`: the refinement. `CallLogged` is `Record`; a return
  that matches is `Complete`, since by `OpenRecords` the newest entry names the
  thread's newest open record; everything else stutters.
- `LimitIsExact`: `LimitExact` with `LimitInv == SweepInv /\ LimitExact`.
- `OutputsFilledAtReturn`: `OutputsComeWithReturn`, from `SweepInv` and the fact
  that an entry knows whether its own record waits for outputs.
- `ProgressNeverBack`: the action property `ProgressForward`, step by step: the
  line is printed only for a higher percentage, and printing is the only step
  that changes it.
- `ReturnsAreOwn` and `OnlyOpenCallsLackReturns`: under `GuestNests` (no frame is left without
  returning, no limit, and a call instruction reaches exports only or other
  code only) every return value is that of its own call and only open calls
  lack one. The invariant is `NestInv`: the in-flight entries of a thread are
  its logged frames, height by height. An unlogged frame's return cannot match
  because its call site reaches no export while every entry's site reaches
  exports only.

About cancelled sweeps, from the same assumption:

- `ControlledSweepIsSweep`: `ControlSpec => Spec`. Every step of the two threads
  is a step of the sweep or leaves it alone, so the theorems above hold of a
  sweep cut at any moment. `CancelledReturnsAreOwn` and
  `CancelledLosesOnlyOpenCalls` are the two that matter, under `GuestNests`.
- `ControlTypeCorrect` and `CancelIsNotLost`: with `ControlInv`, which ties the
  published cursor to the place the main thread is at and says that no watcher
  exists before there is a cursor. That is what `NoCancelDroppedEarly` needs.

`GuestNests` is not a convenience: drop any part of it and TLC finds a guest
for which one of the two fails. The run `stuck_return` is the case of unwinding.

About the argument decoder, from `DecodeAssumption` (signatures have the shape
of signatures, numbers are naturals), for every
signature, every value that is passed and whatever the callee leaves in memory:

- `DecodeType`, `DecodeOneMoment`, `DecodeOutFromReturn`,
  `DecodeReportedLength`, `DecodeWithinOffer`, `DecodeComplete`,
  `DecodeFlatView`: the seven invariants of the run `args`, with the exceptions
  that these have: text behind an opaque pointer in `OutContentsAreFromReturn`,
  a length that comes too late in `WithinEarlyOffer`, memory that ends early in
  `UncappedIsComplete`.

They rest on one invariant, `DecodeInv`, which follows a parameter through both
passes. `AllPostponedInv` and `PostponedInv` say that exactly the `[Out]`
pointers are on the list for the return; `UntouchedInv` and `EntryInv` what the
entry pass knows at each of its steps; `MomentInv` that nothing comes from the
return before the return, and no buffer before all scalars, which is why a
length is there when a buffer needs it in whichever order the two come;
`FollowedInv` that such a length is the callee's; `CapacityInv` that the
capacity kept for a buffer is the caller's; `AgreesInv` that what was captured
is a prefix of one memory. `AgreesInv` alone is not inductive: the second read
of a buffer must replace all of the first, and does so only because a
parameter's kind and address do not change between the two.

About the x86 layout, from `LayoutAssumption` and `AbiAssumption`:

- `LayoutIsTrue`: `Spec => []AcceptedLayoutsAreTrue`, for signatures of every
  length. `FootprintIsPushed` is the case distinction over parameter types. The
  two running sums are then compared slot by slot, with the hidden pointer
  shifting one against the other; that they exist and are what their recursions
  say is shown by induction (`SumsExist`, `SumsAre`).

About both reports, from `ReportAssumption`, for reports of any number of calls,
parameters and bytes:

- `BinType`: `Spec => []TypeOK`.
- `BinReadsBack` and `BinTruncation`: `ReadsBack` and `TruncationIsTold`. The
  invariant is `BinInv`. `CallsWritten` says of each call that is out, and
  `CurrentWritten` of the one being written, where its parameters start and that
  each reads as it was recorded, in terms of the regions' sizes; it stays true
  because regions only grow at their ends and a name that is in the table stays
  where it is. `InOrder` ties the place in `write` to the sizes of the lists.
  `StartsAre` shows that the reader's recursion finds the same places.
- `BothReportsAgree`: `ReportsAgree`, from `BinInv` and a case per part, with
  the differences named in section 2.

`ReadsBack`, `TruncationIsTold` and `ReportsAgree` are about reports for which
`Fits` holds: no region outgrows its offsets. Beyond that a reader is lost.

About the index TLAPS proves, from `IndexAssumption` (files have the shape of a
file, bits are a finite set of naturals), for every file, table and value:

- `SignaturesAreSafe`: `Spec => []SignaturesInside`. `SignaturesInside` alone is
  not inductive: the parameters must not change any more once a name can be
  looked up, and a record that is being overwritten must not be one that can
  be. `NamesLoaded` says so: names point below `next` while functions are
  loaded, and there are none before.
- `NoBitLostOrTwice`: `ValueSpelledOut`, which is `BitsAccounted` and
  `RestIsNameless`. The `DecodeInv` of `MetaIndexProofs` adds that entries
  already tried are nameless in what remains, which stays true as `remaining`
  only shrinks, and that nothing is loaded any more once `decodeEnum` is asked.
  The order of trial does not matter.
- `OwnNameWins` and `CompositesBeatParts`: `ExactMatchWins` and
  `CompositesFirst`, with `NameInv`. Here the order matters: a composite that is
  still untried cannot have more bits than the entry that is named, and a strict
  part of a finite set has fewer; so it was tried before, and by
  `TriedIsNameless` a name given before must have taken some of its bits.
- `IndexTypeCorrect`: `Spec => []TypeOK`, from the same invariant.

About builder and index together, from `BuilderAssumption` as well (the metadata
has the shape of metadata), for metadata of any size:

- `IndexServes`: `Spec => []BuiltIndexServes`. There are two halves.
  `BuildFacts` follows the builder: `FilledOK`, true of the tables after every
  function, says that each record describes the first function of its name that
  can have one, that each such function has a record, and that each parameter
  stands for the type it was made from (`Stands`); `RecordsAreTrue` says that an
  enumeration's values stay where its record says while others are put behind
  them. `LoadedInv` follows the loader: what is loaded is what the file has, as
  far as loading is, and it fails only on a file that is `Broken`. A built file
  is not (`BuiltIsWhole`), so the two halves meet in `ReadyServes`.

About the pipeline, for all wishes and command lines:

- `SuccessIsOnAReport`, `ZeroIsWritten`, `FileIsRemoved`: `SuccessMeansReport`,
  `ZeroMeansWritten` and `NothingLeftBehind`, with `PipelineInv` and without any
  assumption. None is inductive alone. `FileInv` says that the driver's file
  stays the empty one it made until the extractor writes to it, so an extractor
  that ends early leaves a file the driver recognises; `WaitInv` and `CapaInv`
  carry what is known of the file from the extractor's end to capa's verdict.
- `PipelineType`: `Spec => []TypeOK`, from `PipelineAssumption` and
  `ParserAssumption`, which says that every number on a command line is a text
  for which `Wcstoull` is given; with `CmdInv`: the arguments are one of
  `CommandLines` or what `ExtractCmd` makes of a wish.
- `PipelineOptions`: `Spec => []OptionsArrive`, from the same. `ArgsInv` says
  where the parser stands on the driver's command line: at its first argument,
  behind the trace, or behind one of the pieces `P0` to `P6` that `ExtractCmd`
  puts together, and that what it has parsed is what the options up to there
  mean, each there or not. `ArrivedInv` hands this on to the extractor.
  `OptionsArrive` makes two exceptions, and both are real: a trace whose name is
  that of an option with a value takes the next argument for its own, and
  `--max-buffer 0` is lost on the way, as the driver drops a 0 and the
  extractor's default is another number.

About what is done before the sweep, from `PeAssumption`, `PrepareAssumption`,
`LayoutAssumption` and `ImageAssumption` (memories are finite, images have the
shape of images and their parts do not overlap), for every set of images, every
layout of them, every trace and whatever is known of the memory at each
position:

- `TargetsFound`: `Spec => []TargetsResolveToOwner`. The invariant is `MapInv`:
  the map keeps for an address what the first load that shows it says, and has
  every address that one of the loads so far has shown. It does not depend on
  what an image looks like. What a load shows is then tied to its image by
  `ExportsAreSound` (nothing is listed that the image does not export there, if
  its directory is not torn) and `ExportsAreComplete` (all of it is listed, if
  all is known). `ExportsAreSound` needs nothing of the rest of the image:
  headers that are cut have no directory or lie about its size only
  (`DirectoryLies`, `DirectoryIs`), and an entry of a table is one cell. The two
  rest on lemmas about the readers: what a read gets
  (`GotIs`, `ReadIs`), that a text read is the beginning of the text that is
  there (`CStrIsPrefix`), where a walk along a table ends (`WalkEnds`), that
  headers which are read are the image's (`HeadersAre`), and what a table of
  tables joined into one has (`FlattenFacts`).
- `ReportIsOfImages`: `Spec => []NothingInvented`. The invariant is `ReportInv`:
  every import and export in the report is one that its parser finds at one of
  the two ends of the trace, and the sections are those found at one of them.
  It has to say that of single entries, as the exports of a second attempt are
  put behind those of the first. That what is found is the image's is
  `ImportsAreSound`, `ExportsAreSound` and `SectionsAreSound`. For imports it
  takes three walks: along the descriptors, which cannot pass the one that ends
  the table (`DescriptorsAre`), along the thunks of one (`ThunksAre`), and along
  a name, with the ordinal's flag told from an address (`NameIs`): an image is
  smaller than the flag.

- `WholeIsReported`: `Spec => []WholeImageIsReported`. `ReportInv` does not say
  enough for this: entries that are each some image's may be few, in another
  order, or from two attempts. `HistoryInv` says what the attempts have left
  behind as a function of the trace: imports, sections and architecture of the
  last one, and the exports of the end of the trace, with those of its beginning
  behind them if there was a second attempt. The second attempt is only made if
  the first found no headers or no section, so an image that is known at the
  end is read once; and without headers the first attempt leaves no exports. The
  other half is that each list read is the image's, entry by entry
  (`KnownImports`, `KnownExports`, `KnownSections`). The walks of
  `NothingInvented` need not get far; here each must end where its table does:
  `KnownDescriptors` and `KnownThunks` show that no entry before the last stops
  them, which is where names and ordinals must not be taken for the end
  (`ThunkGoesOn`), and `CStrIsWhole` that a name is read up to its NUL.
- `ListedOnce`: `Spec => []ExportsListedOnce`, from `HistoryInv` too. If no
  section was missed, the exports are those of one attempt. Each entry of the
  name table gives one export or none, so two places in the list come from two
  entries (`FlattenComes`), and these are two names of the image
  (`EntryIsListed`); if the exports are the same, they have one address.
- `Typed`: `Spec => []TypeOK`, with `TypeInv` beside `MapInv`. The parsers must
  return lists of the right records whatever is in memory, headers that lie
  about sizes included. For the texts, `PassType` and what follows it go along
  the scan: no turn of a loop puts out more than there is room for.

How recursive functions are treated. The provers take no induction rule with a
predicate for a parameter. `SetInduction` is the rule for a set of numbers, from
the well-foundedness of finite sets, and is enough: the numbers a statement
holds of are a set. A recursive function is a CHOOSE over functions that satisfy
its equation; `RecursionExists` shows that there is one, as a function that is
right so far can be made one longer, and the equation can then be used.

Only model-checked:

- `StringsAreReported`. An image declares the texts of its sections and the run
  compares them with what the two passes find in the cells. A theorem would
  have to assume of every image that its texts are those runs, which is what
  the property is there to find out.
- `ProcessEnds` and `DriverEnds`, which are liveness properties.
- The four properties of section 5, which are false.

## 5. What the violated runs show

- `stuck_return`, `main.cpp:352`. An in-flight entry whose frame was left
  without a return is never removed. The calls below it that do return keep
  `has_ret` false, contrary to the comment at `main.cpp:389-392`.
- `offer_exceeded`, `abi.cpp:580`. A count behind a pointer that comes after
  its buffer is not known at the call, so the clamp that `abi.cpp:571-572`
  promises does not apply. `WithinEarlyOffer` is the part that holds.
- `stale_export`, `ttdutils.cpp:48`. The map of call targets is complete before
  the sweep begins and keeps the first export of an address. If a module of the
  other width comes to where one was before, its functions at the same addresses
  have the old one's name and bitness, contrary to `main.cpp:14` and
  `src/README.md:142`. `TargetsResolveToOwner` is the part that holds.
- `torn_directory`, `ttd_pe_utils.cpp:156`. The part of an export directory that
  is not known is read as zeros, the tables are then at the module's base, and
  a header field becomes a function's address in the map, contrary to
  `ttdutils.hpp:129`. `TargetsResolveToOwner` says where such addresses come
  from.

Divergences met while modelling that have no run. The properties above leave
these cases out, and where one has a case as its exception it is named.

- A recorded call whose call site is used again while it is open, by a call that
  is not recorded, takes that call's return value for its own (`main.cpp:352`),
  contrary to `docs/ttdcapa-extract.md:158`. `GuestNests` excludes it.
- The cursor is published before `ReplayForward` and withdrawn after it, so the
  watcher can interrupt one that does not replay (`main.cpp:393`), contrary to
  `main.cpp:53-54`. What becomes of the request is up to the engine.
- The text behind an `[Out]` opaque pointer is that of the call (`abi.cpp:508`),
  contrary to `src/README.md:26`. `OutContentsAreFromReturn` has it as its
  exception.
- A beginning of a buffer, kept because memory ends there, is not marked
  (`abi.cpp:292`), contrary to `docs/ttdcapa-extract.md:217`.
  `UncappedIsComplete` allows it.
- A load of the index that fails at a function record leaves the functions
  before it, and `lookup` finds them (`win32meta.cpp:118`), contrary to
  `win32meta.hpp:144` ("empty until loadIndex() succeeds") and to the message at
  `main.cpp:117`. `SignaturesInside` shows that what it finds is sound.
- The architecture is set only if the main module's exports can be read
  (`utils.cpp:125`). Where the headers are known and the export directory is
  not, the report keeps its default or what the other attempt set, contrary to
  `utils.cpp:121-122`. `WholeImageIsReported` is about whole images.
- `--max-buffer 0` never arrives (`ttd-capa.py:109`), contrary to the option's
  help. `OptionsArrive` has it as an exception.
- An engine that cannot be created is exit code 0 (`main.cpp:154`), and so is a
  report that could not be written (`main.cpp:445-454`). No text says what the
  code should be. `SuccessMeansReport` shows that the driver notices the first;
  it allows a report that is there in part, and `ZeroMeansWritten` has both as
  exceptions.
- A second attempt puts its exports behind those of the first
  (`utils.cpp:114-115` clears two of three lists). No text says that an export
  is listed once, and `ExportsListedOnce` has it as an exception.
- `seq` is the order of callbacks, not of positions (`main.cpp:264`), contrary
  to `ttdutils.hpp:86`; `main.cpp:237` itself says that threads may step back.
- A text that ends with the last byte kept is reported as truncated
  (`abi.cpp:310`), contrary to `utils.cpp:298-299`. `UncappedIsComplete` is
  about the other direction.
- `binreport::write` decides on success before `close` flushes the stream
  (`binreport.cpp:348`), so `true` can stand for an incomplete file, contrary to
  `binreport.hpp:119`.
- `paramOff` of a call without parameters is not 0 (`binreport.cpp:213`),
  contrary to `binreport.hpp:98`. A reader that looks at the count first does
  not notice.
- `process.name` is never set: the condition at `utils.cpp:147` is the wrong way
  round.
- `--max-buffer` is documented with a default of 256 (`ttd-capa.py:75`); it is
  65536 (`utils.hpp:53`).
- `_NO_POS_KEY` (`ttd-timeline.py:50-51`) is to make calls without a position
  sort last, and is not used: they sort by `seq` among the positions.
- An empty text is in the JSON report (`"str": ""`) and absent from the binary
  one. `ReportsAgree` takes the two for the same.

## 6. Not modelled

- The replay engine and the TTD SDK: external. The models contain what the code
  assumes of them.
- The timeline viewer: a stable sort of a finished report by one key, and text
  output. It keeps no state.
- The builder's classification of types and sizes: a case distinction over the
  metadata's JSON. `StackLayout` takes kinds and sizes as given.
- Hashes of the sample file, text output, logging, number formats, code pages.
- The conversion of invalid UTF-8: the JSON report replaces it, the binary one
  keeps the bytes.
- What becomes of `BinReport`'s result: `wmain` logs it, and nothing depends on
  it.

## 7. Plan

Done: everything in section 2, and a theorem for every safety property that the
runs check but `StringsAreReported`. What is left, most useful first:

1. Classification of parameters and the tie between a buffer and its length
   (`classify_param`), against what `ArgDecode` expects.
2. The index file that `initializeTTDEngine` may build for a trace.
3. The texts of a section, defined over its cells without an algorithm, and a
   proof that the two passes find them.
