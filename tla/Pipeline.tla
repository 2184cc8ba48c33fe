------------------------------ MODULE Pipeline ------------------------------
(***************************************************************************)
(* The way from a recorded trace to capa's verdict: ttd-capa.py makes a    *)
(* temporary report file, builds a command line for ttdcapa-extract, which *)
(* parses it (utils.cpp), prepares the replay, sweeps and writes its       *)
(* reports (main.cpp); the driver looks at the exit code and the file,     *)
(* runs capa on it and removes it.  The extractor can also be run by hand. *)
(*                                                                         *)
(* Anything outside can fail at its place: the engine, the trace, the      *)
(* disk, capa; the extractor can be killed and the driver interrupted.     *)
(***************************************************************************)
EXTENDS Naturals, Sequences

CONSTANTS
  Wishes,         \* what the driver may be asked for, each a Wish
  CommandLines,   \* what the extractor may be started with by hand
  Dashed,         \* the texts that begin with "-"
  Wcstoull,       \* the number wcstoull reads from a text
  DefaultBuffer,  \* Options::max_buffer, 65536
  CapaCodes       \* exit codes of capa

Texts == STRING

(* The driver's own options; "" is an option not given, and numbers are    *)
(* the texts argparse has checked to be numbers.                           *)
Wish ==
  [trace : Texts, sample : Texts, max_calls : Texts, with_stack_args : BOOLEAN,
   win32_index : Texts, no_metadata : BOOLEAN, max_buffer : Texts, keep_json : BOOLEAN]

ASSUME PipelineAssumption ==
  /\ Wishes \subseteq Wish
  /\ \A w \in Wishes : w.trace # ""
  /\ CommandLines \subseteq Seq(Texts)
  /\ Wcstoull \in [DOMAIN Wcstoull -> Nat]
  /\ {"0", ""} \subseteq DOMAIN Wcstoull /\ Wcstoull["0"] = 0 /\ Wcstoull[""] = 0
  /\ DefaultBuffer \in Nat
  /\ CapaCodes \subseteq Nat

VARIABLES
  wish,         \* what the driver is asked for
  by_hand,      \* is the extractor run without the driver?
  pc,           \* what happens next, and whose step it is
  cmd,          \* the extractor's arguments
  i,            \* the one it looks at
  opt,          \* its Options
  rc,           \* its exit code
  file,         \* the report: what is at json_path, or at opt.output
  given,        \* what file was when capa was started on it
  status,       \* the exit code of the whole
  no_engine,    \* MakeReplayEngine has failed
  disk_failed,  \* the report could not be opened or written completely
  interrupted   \* where the driver was interrupted

started == <<wish, by_hand>>
extractor == <<cmd, i, opt, rc, no_engine, disk_failed>>
driver == <<given, status, interrupted>>
vars == <<started, pc, extractor, file, driver>>
----------------------------------------------------------------------------
Contents == {"absent", "empty", "partial", "whole"}

ReportPath == "report.ttd.json"

NoOptions ==
  [trace |-> "", sample |-> "", output |-> "", binary_output |-> "", win32_index |-> "",
   ttd_dlls |-> "", dump_sig |-> "", max_calls |-> 0, max_buffer |-> DefaultBuffer,
   no_metadata |-> FALSE, report_progress |-> FALSE, cancel_on_stdin |-> FALSE,
   with_stack_args |-> FALSE]

Options ==
  [trace : Texts, sample : Texts, output : Texts, binary_output : Texts,
   win32_index : Texts, ttd_dlls : Texts, dump_sig : Texts, max_calls : Nat,
   max_buffer : Nat, no_metadata : BOOLEAN, report_progress : BOOLEAN,
   cancel_on_stdin : BOOLEAN, with_stack_args : BOOLEAN]

DriverSteps == {"check", "find", "make", "made", "try", "wait", "capa", "finally"}

ExtractorSteps == {"parse", "index", "engine", "open", "work", "binary", "json", "put"}

TypeOK ==
  /\ wish \in Wishes
  /\ by_hand \in BOOLEAN
  /\ pc \in DriverSteps \cup ExtractorSteps \cup {"done"}
  /\ cmd \in Seq(Texts)
  /\ i \in 1..(Len(cmd) + 1)
  /\ opt \in Options
  /\ rc \in 0..5
  /\ file \in Contents
  /\ given \in Contents
  /\ status \in Nat
  /\ no_engine \in BOOLEAN
  /\ disk_failed \in BOOLEAN
  /\ interrupted \in {"no", "outside", "within", "cleaning"}

Init ==
  /\ wish \in Wishes
  /\ by_hand \in BOOLEAN
  /\ IF by_hand THEN pc = "parse" /\ cmd \in CommandLines ELSE pc = "check" /\ cmd = <<>>
  /\ i = 1
  /\ opt = NoOptions
  /\ rc = 0
  /\ file = "absent"
  /\ given = "absent"
  /\ status = 0
  /\ no_engine = FALSE
  /\ disk_failed = FALSE
  /\ interrupted = "no"
----------------------------------------------------------------------------
(* The driver.  sys.exit with a message, an exception or an interrupt end  *)
(* it with code 1; within "try" the file is seen to first.                 *)
Stop(code) == pc' = "done" /\ status' = code

CheckInputs ==
  /\ pc = "check"
  /\ \/ pc' = "find" /\ UNCHANGED status
     \/ Stop(1)
  /\ UNCHANGED <<started, extractor, file, given, interrupted>>

FindExtractor ==
  /\ pc = "find"
  /\ \/ pc' = "make" /\ UNCHANGED status
     \/ Stop(1)
  /\ UNCHANGED <<started, extractor, file, given, interrupted>>

(* mkstemp and close.                                                      *)
MakeFile ==
  /\ pc = "make"
  /\ \/ file' = "empty" /\ pc' = "made" /\ UNCHANGED status
     \/ Stop(1) /\ UNCHANGED file
  /\ UNCHANGED <<started, extractor, given, interrupted>>

EnterTry ==
  /\ pc = "made"
  /\ pc' = "try"
  /\ UNCHANGED <<started, extractor, file, driver>>

(* An option of the command line, if it is asked for; the driver drops a   *)
(* number that is 0, which in Python is false.                             *)
Option(name, text) == IF text = "" THEN <<>> ELSE <<name, text>>

Number(name, text) == IF text \in {"", "0"} THEN <<>> ELSE <<name, text>>

Flag(name, wanted) == IF wanted THEN <<name>> ELSE <<>>

MutExtractCmd(w) ==
  <<w.trace, "-o", ReportPath>> \o Option("--sample", w.sample)
  \o Number("--max-calls", w.max_calls) \o Flag("--with-stack-args", w.with_stack_args)
  \o Option("--win32-index", w.win32_index) \o Flag("--no-metadata", w.no_metadata)
  \o Number("--max-calls", w.max_buffer)

ExtractCmd(w) ==
  <<w.trace, "-o", ReportPath>> \o Option("--sample", w.sample)
  \o Number("--max-calls", w.max_calls) \o Flag("--with-stack-args", w.with_stack_args)
  \o Option("--win32-index", w.win32_index) \o Flag("--no-metadata", w.no_metadata)
  \o Number("--max-buffer", w.max_buffer)

CallExtractor ==
  /\ pc = "try"
  /\ cmd' = ExtractCmd(wish)
  /\ pc' = "parse"
  /\ UNCHANGED <<started, i, opt, rc, no_engine, disk_failed, file, driver>>

MutReportIsThere == rc = 0

(* What the driver looks at when the extractor has ended.                  *)
ReportIsThere == rc = 0 /\ file # "empty"

MutRunCapa ==
  /\ pc = "wait"
  /\ IF ReportIsThere
       THEN given' = file /\ pc' = "capa" /\ UNCHANGED status
       ELSE pc' = "try" /\ UNCHANGED <<given, status>>
  /\ UNCHANGED <<started, extractor, file, interrupted>>

RunCapa ==
  /\ pc = "wait"
  /\ IF ReportIsThere
       THEN given' = file /\ pc' = "capa" /\ UNCHANGED status
       ELSE status' = 1 /\ pc' = "finally" /\ UNCHANGED given
  /\ UNCHANGED <<started, extractor, file, interrupted>>

CapaEnds ==
  /\ pc = "capa"
  /\ status' \in CapaCodes
  /\ pc' = "finally"
  /\ UNCHANGED <<started, extractor, file, given, interrupted>>

MutCleanUp ==
  /\ pc = "finally"
  /\ IF wish.keep_json \/ status # 0 THEN UNCHANGED file ELSE file' = "absent"
  /\ pc' = "done"
  /\ UNCHANGED <<started, extractor, driver>>

CleanUp ==
  /\ pc = "finally"
  /\ IF wish.keep_json THEN UNCHANGED file ELSE file' = "absent"
  /\ pc' = "done"
  /\ UNCHANGED <<started, extractor, driver>>

(* Ctrl-C: a running child is killed and waited for.  It can be too early  *)
(* for "finally", and it can hit "finally" itself.                         *)
Interrupt ==
  /\ ~by_hand /\ interrupted = "no" /\ pc # "done"
  /\ status' = 1
  /\ \/ /\ pc \in {"check", "find", "make", "made"}
        /\ interrupted' = "outside" /\ pc' = "done"
     \/ /\ pc \in {"try", "wait", "capa"} \cup ExtractorSteps
        /\ interrupted' = "within" /\ pc' = "finally"
     \/ pc = "finally" /\ interrupted' = "cleaning" /\ pc' = "done"
  /\ UNCHANGED <<started, extractor, file, given>>

DriverNext ==
  \/ CheckInputs \/ FindExtractor \/ MakeFile \/ EnterTry \/ CallExtractor
  \/ RunCapa \/ CapaEnds \/ CleanUp
----------------------------------------------------------------------------
(* The extractor ends: the driver goes on, or whoever started it.          *)
Exit(code) ==
  /\ rc' = code
  /\ IF by_hand THEN Stop(code) ELSE pc' = "wait" /\ UNCHANGED status

(* The options that take a value, and those that do not.                   *)
Valued ==
  [name \in {"--sample", "-o", "--output", "--max-calls", "--ttd-dlls", "--win32-index",
             "--max-buffer", "--dump-sig", "-b", "--binary"} |->
     CASE name = "--sample" -> "sample"
       [] name \in {"-o", "--output"} -> "output"
       [] name = "--max-calls" -> "max_calls"
       [] name = "--ttd-dlls" -> "ttd_dlls"
       [] name = "--win32-index" -> "win32_index"
       [] name = "--max-buffer" -> "max_buffer"
       [] name = "--dump-sig" -> "dump_sig"
       [] name \in {"-b", "--binary"} -> "binary_output"]

Flags ==
  [name \in {"--with-stack-args", "--no-metadata", "--progress", "--cancel-on-stdin"} |->
     CASE name = "--with-stack-args" -> "with_stack_args"
       [] name = "--no-metadata" -> "no_metadata"
       [] name = "--progress" -> "report_progress"
       [] name = "--cancel-on-stdin" -> "cancel_on_stdin"]

(* wcstoull reads a number from any text; Wcstoull has the ones it is      *)
(* given.  The names of options are texts.                                 *)
ASSUME ParserAssumption ==
  /\ \A c \in CommandLines \cup {ExtractCmd(w) : w \in Wishes} : \A k \in 1..(Len(c) - 1) :
       c[k] \in {"--max-calls", "--max-buffer"} => c[k + 1] \in DOMAIN Wcstoull
  /\ DOMAIN Valued \cup DOMAIN Flags \cup {"", ReportPath} \subseteq Texts

MutValue(field, text) ==
  IF field \in {"max_calls", "max_buffer"}
    THEN IF text = "-1" THEN 0 - 1 ELSE Wcstoull[text]
    ELSE text

Value(field, text) == IF field \in {"max_calls", "max_buffer"} THEN Wcstoull[text] ELSE text

TakesValue == cmd[i] \in DOMAIN Valued /\ i < Len(cmd)

MayBeTrace == cmd[i] \notin Dashed /\ opt.trace = ""

(* parse_args, one turn of its loop.                                       *)
ParseArgument ==
  /\ pc = "parse" /\ i <= Len(cmd)
  /\ \/ /\ TakesValue
        /\ opt' = [opt EXCEPT ![Valued[cmd[i]]] = Value(Valued[cmd[i]], cmd[i + 1])]
        /\ i' = i + 2
        /\ UNCHANGED <<pc, rc, status>>
     \/ /\ cmd[i] \in DOMAIN Flags
        /\ opt' = [opt EXCEPT ![Flags[cmd[i]]] = TRUE]
        /\ i' = i + 1
        /\ UNCHANGED <<pc, rc, status>>
     \/ /\ ~TakesValue /\ cmd[i] \notin DOMAIN Flags
        /\ MayBeTrace
        /\ opt' = [opt EXCEPT !.trace = cmd[i]]
        /\ i' = i + 1
        /\ UNCHANGED <<pc, rc, status>>
     \/ /\ ~TakesValue /\ cmd[i] \notin DOMAIN Flags
        /\ ~MayBeTrace
        /\ Exit(1)
        /\ UNCHANGED <<opt, i>>
  /\ UNCHANGED <<started, cmd, no_engine, disk_failed, file, given, interrupted>>

ParseEnds ==
  /\ pc = "parse" /\ i > Len(cmd)
  /\ \/ /\ opt.trace # "" \/ opt.dump_sig # ""
        /\ pc' = "index"
        /\ UNCHANGED <<rc, status>>
     \/ opt.trace = "" /\ opt.dump_sig = "" /\ Exit(1)
  /\ UNCHANGED <<started, cmd, i, opt, no_engine, disk_failed, file, given, interrupted>>

(* The index may fail to load, which changes what the sweep records and    *)
(* nothing here; dumpSignature ends the run, known function or not.        *)
LoadIndex ==
  /\ pc = "index"
  /\ \/ opt.dump_sig # "" /\ (Exit(0) \/ Exit(3))
     \/ opt.dump_sig = "" /\ pc' = "engine" /\ UNCHANGED <<rc, status>>
  /\ UNCHANGED <<started, cmd, i, opt, no_engine, disk_failed, file, given, interrupted>>

MutMakeEngine ==
  /\ pc = "engine"
  /\ \/ pc' = "open" /\ UNCHANGED <<rc, status, no_engine>>
     \/ Exit(0) /\ UNCHANGED no_engine
     \/ Exit(0) /\ no_engine' = TRUE
  /\ UNCHANGED <<started, cmd, i, opt, disk_failed, file, given, interrupted>>

(* The library is loaded and the engine made.  A failure of the latter is  *)
(* "return false" in a function that returns an exit code.                 *)
MakeEngine ==
  /\ pc = "engine"
  /\ \/ pc' = "open" /\ UNCHANGED <<rc, status, no_engine>>
     \/ Exit(4) /\ UNCHANGED no_engine
     \/ Exit(0) /\ no_engine' = TRUE
  /\ UNCHANGED <<started, cmd, i, opt, disk_failed, file, given, interrupted>>

(* initializeTTDEngine: the trace is opened, its index there or built.     *)
OpenTrace ==
  /\ pc = "open"
  /\ \/ pc' = "work" /\ UNCHANGED <<rc, status>>
     \/ Exit(5)
  /\ UNCHANGED <<started, cmd, i, opt, no_engine, disk_failed, file, given, interrupted>>

(* The report is prepared and the trace swept: Prepare, SweepControl.      *)
Sweep ==
  /\ pc = "work"
  /\ pc' = "binary"
  /\ UNCHANGED <<started, extractor, file, driver>>

(* The binary report goes to a file of its own: BinReport.  Whether it     *)
(* could be written is not looked at.                                      *)
WriteBinary ==
  /\ pc = "binary"
  /\ \/ opt.output # "" /\ pc' = "json" /\ UNCHANGED <<rc, status>>
     \/ opt.output = "" /\ Exit(0)
  /\ UNCHANGED <<started, cmd, i, opt, no_engine, disk_failed, file, given, interrupted>>

(* writeReport opens the file, which empties it.                           *)
OpenReport ==
  /\ pc = "json"
  /\ \/ file' = "empty" /\ pc' = "put" /\ UNCHANGED <<rc, status, disk_failed>>
     \/ Exit(0) /\ disk_failed' = TRUE /\ UNCHANGED file
  /\ UNCHANGED <<started, cmd, i, opt, no_engine, given, interrupted>>

(* The document goes to the stream; what of it reaches the disk is not     *)
(* looked at, neither here nor by wmain.                                   *)
PutReport ==
  /\ pc = "put"
  /\ file' \in {"empty", "partial", "whole"}
  /\ disk_failed' = (file' # "whole")
  /\ Exit(0)
  /\ UNCHANGED <<started, cmd, i, opt, no_engine, given, interrupted>>

(* The extractor dies: out of memory, an exception, a kill.                *)
Die ==
  /\ pc \in ExtractorSteps
  /\ \/ pc = "put" /\ file' \in {"empty", "partial"}
     \/ pc # "put" /\ UNCHANGED file
  /\ Exit(2)
  /\ UNCHANGED <<started, cmd, i, opt, no_engine, disk_failed, given, interrupted>>

ExtractorNext ==
  \/ ParseArgument \/ ParseEnds \/ LoadIndex \/ MakeEngine \/ OpenTrace \/ Sweep
  \/ WriteBinary \/ OpenReport \/ PutReport

Next == DriverNext \/ ExtractorNext \/ Interrupt \/ Die

(* Both programs go on, and capa ends.                                     *)
Spec == Init /\ [][Next]_vars /\ WF_vars(DriverNext) /\ WF_vars(ExtractorNext)
----------------------------------------------------------------------------
(* The extractor understands the driver: what it was asked for, it does.   *)
(* --max-buffer 0 alone is lost, since the driver takes 0 for not given    *)
(* and the extractor's default is not 0 (ttd-capa.py:109).  A trace whose  *)
(* name begins with a dash is refused, but if it is the name of an option  *)
(* that takes a value then what follows is taken for something else.       *)
OptionsArrive ==
  ~by_hand /\ pc = "index" /\ wish.trace \notin DOMAIN Valued =>
    /\ opt.trace = wish.trace
    /\ opt.output = ReportPath
    /\ opt.sample = wish.sample
    /\ opt.win32_index = wish.win32_index
    /\ opt.max_calls = Wcstoull[wish.max_calls]
    /\ opt.max_buffer = IF wish.max_buffer \in {"", "0"} THEN DefaultBuffer
                        ELSE Wcstoull[wish.max_buffer]
    /\ opt.no_metadata = wish.no_metadata
    /\ opt.with_stack_args = wish.with_stack_args
    /\ opt.dump_sig = "" /\ opt.binary_output = ""

(* The driver's success is capa's, on a report that is complete unless the *)
(* disk failed: an engine that could not be made is an exit code of 0      *)
(* without a report (main.cpp:154), and a report that could not be written *)
(* one with whatever is there (main.cpp:445-454).                          *)
SuccessMeansReport ==
  ~by_hand /\ pc = "done" /\ status = 0 =>
    /\ rc = 0 /\ ~no_engine
    /\ given = "whole" \/ (given = "partial" /\ disk_failed)

(* The extractor's exit code 0 says that the report is written, but for an *)
(* engine that could not be made and a disk that failed.                   *)
ZeroMeansWritten ==
  /\ pc = "wait" \/ (by_hand /\ pc = "done")
  /\ rc = 0 /\ opt.output # "" /\ opt.dump_sig = ""
  => file = "whole" \/ no_engine \/ disk_failed

(* The temporary file is removed however the run ends, unless it is to be  *)
(* kept, or an interrupt comes after mkstemp and before "try", or during   *)
(* the clean-up (ttd-capa.py:93-97, 133).                                  *)
NothingLeftBehind ==
  ~by_hand /\ pc = "done" /\ file # "absent" =>
    wish.keep_json \/ interrupted \in {"outside", "cleaning"}

(* The driver ends, whatever fails on the way.                             *)
DriverEnds == <>(pc = "done")
============================================================================
