--------------------------- MODULE PipelineProofs ---------------------------
(***************************************************************************)
(* What exit codes and the temporary file are worth, proved for every      *)
(* wish and every command line, whatever fails, dies or is interrupted.    *)
(***************************************************************************)
EXTENDS Pipeline, SequenceTheorems, TLAPS

Steps == DriverSteps \cup ExtractorSteps \cup {"done"}

(* An extractor started by hand knows nothing of the driver's steps.       *)
ByHandInv == pc \in Steps /\ (by_hand => pc \in ExtractorSteps \cup {"done"})

(* Until the extractor ends, the driver's file is the empty one it made.   *)
FileInv ==
  ~by_hand =>
    /\ pc \in {"check", "find", "make"} => file = "absent" /\ ~no_engine
    /\ pc \in {"made", "try"} \cup ExtractorSteps => file = "empty" /\ ~no_engine

(* What an exit code of 0 says of a file that is not empty.                *)
Outcome(code, contents) ==
  /\ ~no_engine
  /\ \/ contents = "whole"
     \/ contents = "partial" /\ (disk_failed \/ code # 0)

WaitInv == ~by_hand /\ pc = "wait" => file = "empty" \/ Outcome(rc, file)

(* capa was started on a good exit code and has decided.                   *)
CapaInv ==
  ~by_hand /\ (pc = "capa" \/ (pc \in {"finally", "done"} /\ status = 0)) =>
    rc = 0 /\ Outcome(0, given)

PipelineInv ==
  ByHandInv /\ FileInv /\ WaitInv /\ CapaInv /\ ZeroMeansWritten /\ NothingLeftBehind

LEMMA PipelineInvInit == Init => PipelineInv
  <1> SUFFICES ASSUME Init PROVE PipelineInv
    OBVIOUS
  <1>1. /\ by_hand => pc = "parse"
        /\ ~by_hand => pc = "check"
        /\ by_hand \in BOOLEAN
        /\ file = "absent"
    BY DEF Init
  <1>2. ByHandInv
    BY <1>1 DEF ByHandInv, Steps, DriverSteps, ExtractorSteps
  <1>3. FileInv /\ WaitInv /\ CapaInv
    BY <1>1 DEF Init, FileInv, WaitInv, CapaInv, ExtractorSteps
  <1>4. ZeroMeansWritten /\ NothingLeftBehind
    BY <1>1 DEF ZeroMeansWritten, NothingLeftBehind
  <1>5. QED
    BY <1>2, <1>3, <1>4 DEF PipelineInv

(* The driver's own steps.                                                 *)
LEMMA DriverKeeps == PipelineInv /\ DriverNext => PipelineInv'
  <1> SUFFICES ASSUME PipelineInv, DriverNext PROVE PipelineInv'
    OBVIOUS
  <1> USE DEF PipelineInv, ByHandInv, FileInv, WaitInv, CapaInv, Outcome, Steps,
              DriverSteps, ExtractorSteps, ZeroMeansWritten, NothingLeftBehind,
              started, extractor, driver, Stop
  <1>1. CASE CheckInputs
    <2>1. ~by_hand' /\ ~by_hand /\ ByHandInv'
      BY <1>1 DEF CheckInputs
    <2>2. FileInv' /\ WaitInv'
      BY <1>1, <2>1 DEF CheckInputs
    <2>3. CapaInv'
      BY <1>1, <2>1 DEF CheckInputs
    <2>4. ZeroMeansWritten' /\ NothingLeftBehind'
      BY <1>1, <2>1 DEF CheckInputs
    <2>5. QED
      BY <2>1, <2>2, <2>3, <2>4
  <1>2. CASE FindExtractor
    <2>1. ~by_hand' /\ ~by_hand /\ ByHandInv'
      BY <1>2 DEF FindExtractor
    <2>2. FileInv' /\ WaitInv'
      BY <1>2, <2>1 DEF FindExtractor
    <2>3. CapaInv'
      BY <1>2, <2>1 DEF FindExtractor
    <2>4. ZeroMeansWritten' /\ NothingLeftBehind'
      BY <1>2, <2>1 DEF FindExtractor
    <2>5. QED
      BY <2>1, <2>2, <2>3, <2>4
  <1>3. CASE MakeFile
    <2>1. ~by_hand' /\ ~by_hand /\ ByHandInv'
      BY <1>3 DEF MakeFile
    <2>2. FileInv' /\ WaitInv'
      BY <1>3, <2>1 DEF MakeFile
    <2>3. CapaInv'
      BY <1>3, <2>1 DEF MakeFile
    <2>4. ZeroMeansWritten' /\ NothingLeftBehind'
      BY <1>3, <2>1 DEF MakeFile
    <2>5. QED
      BY <2>1, <2>2, <2>3, <2>4
  <1>4. CASE EnterTry
    BY <1>4 DEF EnterTry
  <1>5. CASE CallExtractor
    BY <1>5 DEF CallExtractor
  <1>6. CASE RunCapa
    <2>1. ~by_hand' /\ ~by_hand /\ ByHandInv'
      BY <1>6 DEF RunCapa, ReportIsThere
    <2>2. FileInv' /\ WaitInv'
      BY <1>6, <2>1 DEF RunCapa, ReportIsThere
    <2>3. CapaInv'
      <3>1. CASE ReportIsThere
        <4>1. rc = 0 /\ Outcome(0, file)
          BY <1>6, <2>1, <3>1 DEF RunCapa, ReportIsThere
        <4>2. UNCHANGED <<rc, no_engine, disk_failed>> /\ given' = file
          BY <1>6, <3>1 DEF RunCapa
        <4>3. Outcome(0, given)'
          BY ONLY <4>1, <4>2, Zenon DEF Outcome
        <4>4. rc' = 0
          BY ONLY <4>1, <4>2
        <4>5. QED
          BY ONLY <4>3, <4>4 DEF CapaInv, Outcome
      <3>2. CASE ~ReportIsThere
        <4>1. status' = 1 /\ pc' = "finally"
          BY ONLY <1>6, <3>2, Zenon DEF RunCapa
        <4>2. QED
          BY ONLY <4>1 DEF CapaInv
      <3>3. QED
        BY <3>1, <3>2
    <2>4. ZeroMeansWritten' /\ NothingLeftBehind'
      BY <1>6, <2>1 DEF RunCapa, ReportIsThere
    <2>5. QED
      BY <2>1, <2>2, <2>3, <2>4
  <1>7. CASE CapaEnds
    BY <1>7 DEF CapaEnds
  <1>8. CASE CleanUp
    BY <1>8 DEF CleanUp
  <1>9. QED
    BY <1>1, <1>2, <1>3, <1>4, <1>5, <1>6, <1>7, <1>8 DEF DriverNext

(* The extractor ends: by hand that is the end, else the driver goes on.   *)
LEMMA ExitLeads ==
  ASSUME NEW code, Exit(code), by_hand' = by_hand
  PROVE  /\ rc' = code
         /\ by_hand => pc' = "done"
         /\ ~by_hand => pc' = "wait"
  BY DEF Exit, Stop

(* Steps of the extractor that go on, or end it, with the file as it was.  *)
LEMMA ExtractorGoesOn ==
  ASSUME PipelineInv, pc \in ExtractorSteps, pc' \in ExtractorSteps,
         by_hand' = by_hand, no_engine' = no_engine,
         file' = file \/ file' = "empty"
  PROVE  PipelineInv'
  <1>1. pc' \notin {"wait", "capa", "finally", "done", "check", "find", "make"}
    BY DEF ExtractorSteps
  <1>2. ByHandInv' /\ FileInv'
    BY <1>1 DEF PipelineInv, ByHandInv, FileInv, Steps
  <1>3. WaitInv' /\ CapaInv'
    BY <1>1 DEF WaitInv, CapaInv
  <1>4. ZeroMeansWritten' /\ NothingLeftBehind'
    BY <1>1 DEF ZeroMeansWritten, NothingLeftBehind
  <1>5. QED
    BY <1>2, <1>3, <1>4 DEF PipelineInv

(* The extractor ends with a code and a file that WaitInv and              *)
(* ZeroMeansWritten allow.                                                 *)
LEMMA ExtractorEnds ==
  ASSUME PipelineInv, NEW code, Exit(code), by_hand' = by_hand,
         ~by_hand => file' = "empty" \/ Outcome(code, file)',
         code = 0 /\ opt'.output # "" /\ opt'.dump_sig = "" =>
           file' = "whole" \/ no_engine' \/ disk_failed'
  PROVE  PipelineInv'
  <1>1. /\ rc' = code
        /\ by_hand => pc' = "done"
        /\ ~by_hand => pc' = "wait"
    BY ExitLeads
  <1>2. ByHandInv' /\ FileInv'
    BY <1>1 DEF PipelineInv, ByHandInv, FileInv, Steps, DriverSteps, ExtractorSteps
  <1>3. WaitInv'
    BY <1>1 DEF WaitInv
  <1>4. CapaInv' /\ NothingLeftBehind'
    BY <1>1 DEF CapaInv, NothingLeftBehind
  <1>5. ZeroMeansWritten'
    BY <1>1 DEF ZeroMeansWritten
  <1>6. QED
    BY <1>2, <1>3, <1>4, <1>5 DEF PipelineInv

(* A failure of the extractor before it has put anything into the file.    *)
LEMMA ExtractorFails ==
  ASSUME PipelineInv, pc \in ExtractorSteps, NEW code, code # 0, Exit(code),
         by_hand' = by_hand, file' = file
  PROVE  PipelineInv'
  <1>1. ~by_hand => file' = "empty"
    BY DEF PipelineInv, FileInv
  <1>2. QED
    BY <1>1, ExtractorEnds

LEMMA ExtractorKeeps == PipelineInv /\ (ExtractorNext \/ Die) => PipelineInv'
  <1> SUFFICES ASSUME PipelineInv, ExtractorNext \/ Die PROVE PipelineInv'
    OBVIOUS
  <1>0. ASSUME pc \in ExtractorSteps
        PROVE  ~by_hand => file = "empty" /\ ~no_engine
    BY <1>0 DEF PipelineInv, FileInv
  <1>1. CASE ParseArgument
    <2>1. /\ pc \in ExtractorSteps
          /\ UNCHANGED <<by_hand, no_engine, file>>
      BY <1>1 DEF ParseArgument, started, ExtractorSteps
    <2>2. pc' = pc \/ Exit(1)
      BY <1>1 DEF ParseArgument
    <2>3. CASE pc' = pc
      BY <1>0, <2>1, <2>3, ExtractorGoesOn
    <2>4. CASE Exit(1)
      BY <1>0, <2>1, <2>4, ExtractorFails
    <2>5. QED
      BY <2>2, <2>3, <2>4
  <1>2. CASE ParseEnds
    <2>1. /\ pc \in ExtractorSteps
          /\ UNCHANGED <<by_hand, no_engine, file>>
      BY <1>2 DEF ParseEnds, started, ExtractorSteps
    <2>2. pc' \in ExtractorSteps \/ Exit(1)
      BY <1>2 DEF ParseEnds, ExtractorSteps
    <2>3. CASE pc' \in ExtractorSteps
      BY <1>0, <2>1, <2>3, ExtractorGoesOn
    <2>4. CASE Exit(1)
      BY <1>0, <2>1, <2>4, ExtractorFails
    <2>5. QED
      BY <2>2, <2>3, <2>4
  <1>3. CASE LoadIndex
    <2>1. /\ pc \in ExtractorSteps
          /\ UNCHANGED <<by_hand, opt, no_engine, file>>
      BY <1>3 DEF LoadIndex, started, ExtractorSteps
    <2>2. pc' \in ExtractorSteps \/ (Exit(0) /\ opt.dump_sig # "") \/ Exit(3)
      BY <1>3 DEF LoadIndex, ExtractorSteps
    <2>3. CASE pc' \in ExtractorSteps
      BY <1>0, <2>1, <2>3, ExtractorGoesOn
    <2>4. CASE Exit(0) /\ opt.dump_sig # ""
      BY <1>0, <2>1, <2>4, ExtractorEnds
    <2>5. CASE Exit(3)
      BY <1>0, <2>1, <2>5, ExtractorFails
    <2>6. QED
      BY <2>2, <2>3, <2>4, <2>5
  <1>4. CASE MakeEngine
    <2>1. /\ pc \in ExtractorSteps
          /\ UNCHANGED <<by_hand, file>>
      BY <1>4 DEF MakeEngine, started, ExtractorSteps
    <2>2. \/ pc' \in ExtractorSteps /\ no_engine' = no_engine
          \/ Exit(4) /\ no_engine' = no_engine
          \/ Exit(0) /\ no_engine'
      BY <1>4 DEF MakeEngine, ExtractorSteps
    <2>3. CASE pc' \in ExtractorSteps /\ no_engine' = no_engine
      BY <1>0, <2>1, <2>3, ExtractorGoesOn
    <2>4. CASE Exit(4) /\ no_engine' = no_engine
      BY <1>0, <2>1, <2>4, ExtractorFails
    <2>5. CASE Exit(0) /\ no_engine'
      BY <1>0, <2>1, <2>5, ExtractorEnds
    <2>6. QED
      BY <2>2, <2>3, <2>4, <2>5
  <1>5. CASE OpenTrace
    <2>1. /\ pc \in ExtractorSteps
          /\ UNCHANGED <<by_hand, no_engine, file>>
      BY <1>5 DEF OpenTrace, started, ExtractorSteps
    <2>2. pc' \in ExtractorSteps \/ Exit(5)
      BY <1>5 DEF OpenTrace, ExtractorSteps
    <2>3. CASE pc' \in ExtractorSteps
      BY <1>0, <2>1, <2>3, ExtractorGoesOn
    <2>4. CASE Exit(5)
      BY <1>0, <2>1, <2>4, ExtractorFails
    <2>5. QED
      BY <2>2, <2>3, <2>4
  <1>6. CASE Sweep
    BY <1>6, ExtractorGoesOn DEF Sweep, started, extractor, ExtractorSteps
  <1>7. CASE WriteBinary
    <2>1. /\ pc \in ExtractorSteps
          /\ UNCHANGED <<by_hand, opt, no_engine, file>>
      BY <1>7 DEF WriteBinary, started, ExtractorSteps
    <2>2. pc' \in ExtractorSteps \/ (Exit(0) /\ opt.output = "")
      BY <1>7 DEF WriteBinary, ExtractorSteps
    <2>3. CASE pc' \in ExtractorSteps
      BY <1>0, <2>1, <2>3, ExtractorGoesOn
    <2>4. CASE Exit(0) /\ opt.output = ""
      BY <1>0, <2>1, <2>4, ExtractorEnds
    <2>5. QED
      BY <2>2, <2>3, <2>4
  <1>8. CASE OpenReport
    <2>1. /\ pc \in ExtractorSteps
          /\ UNCHANGED <<by_hand, no_engine>>
      BY <1>8 DEF OpenReport, started, ExtractorSteps
    <2>2. \/ pc' \in ExtractorSteps /\ file' = "empty"
          \/ Exit(0) /\ disk_failed' /\ file' = file
      BY <1>8 DEF OpenReport, ExtractorSteps
    <2>3. CASE pc' \in ExtractorSteps /\ file' = "empty"
      BY <1>0, <2>1, <2>3, ExtractorGoesOn
    <2>4. CASE Exit(0) /\ disk_failed' /\ file' = file
      BY <1>0, <2>1, <2>4, ExtractorEnds
    <2>5. QED
      BY <2>2, <2>3, <2>4
  <1>9. CASE PutReport
    <2>1. /\ pc \in ExtractorSteps
          /\ UNCHANGED <<by_hand, no_engine>>
          /\ Exit(0)
      BY <1>9 DEF PutReport, started, ExtractorSteps
    <2>2. file' = "empty" \/ file' = "whole" \/ (file' = "partial" /\ disk_failed')
      BY <1>9 DEF PutReport
    <2>3. file' = "whole" \/ disk_failed'
      BY <1>9 DEF PutReport
    <2>4. ~by_hand => file' = "empty" \/ Outcome(0, file)'
      BY <1>0, <2>1, <2>2 DEF Outcome
    <2>5. QED
      BY <2>1, <2>3, <2>4, ExtractorEnds
  <1>10. CASE Die
    <2>1. /\ pc \in ExtractorSteps
          /\ UNCHANGED <<by_hand, no_engine>>
          /\ Exit(2)
      BY <1>10 DEF Die, started
    <2>2. file' = file \/ file' \in {"empty", "partial"}
      BY <1>10 DEF Die
    <2>3. ~by_hand => file' = "empty" \/ Outcome(2, file)'
      BY <1>0, <2>1, <2>2 DEF Outcome
    <2>4. 2 # 0
      OBVIOUS
    <2>5. QED
      BY <2>1, <2>3, <2>4, ExtractorEnds
  <1>11. QED
    BY <1>1, <1>2, <1>3, <1>4, <1>5, <1>6, <1>7, <1>8, <1>9, <1>10 DEF ExtractorNext

LEMMA InterruptKeeps == PipelineInv /\ Interrupt => PipelineInv'
  <1> SUFFICES ASSUME PipelineInv, Interrupt PROVE PipelineInv'
    OBVIOUS
  <1>1. /\ ~by_hand /\ ~by_hand'
        /\ status' = 1
        /\ \/ pc' = "done" /\ interrupted' \in {"outside", "cleaning"}
           \/ pc' = "finally"
    BY DEF Interrupt, started
  <1>2. ByHandInv' /\ FileInv' /\ WaitInv' /\ CapaInv'
    BY <1>1 DEF ByHandInv, FileInv, WaitInv, CapaInv, Steps, DriverSteps, ExtractorSteps
  <1>3. ZeroMeansWritten' /\ NothingLeftBehind'
    BY <1>1 DEF ZeroMeansWritten, NothingLeftBehind
  <1>4. QED
    BY <1>2, <1>3 DEF PipelineInv

LEMMA PipelineInvStep == PipelineInv /\ [Next]_vars => PipelineInv'
  <1>1. ASSUME PipelineInv, UNCHANGED vars
        PROVE  PipelineInv'
    <2>1. UNCHANGED <<wish, by_hand, pc, opt, rc, no_engine, disk_failed, file, given,
                      status, interrupted>>
      BY <1>1 DEF vars, started, extractor, driver
    <2>2. ByHandInv' /\ FileInv'
      BY <1>1, <2>1 DEF PipelineInv, ByHandInv, FileInv
    <2>3. WaitInv' /\ CapaInv'
      BY <1>1, <2>1, Zenon DEF PipelineInv, WaitInv, CapaInv, Outcome
    <2>4. ZeroMeansWritten' /\ NothingLeftBehind'
      BY <1>1, <2>1 DEF PipelineInv, ZeroMeansWritten, NothingLeftBehind
    <2>5. QED
      BY <2>2, <2>3, <2>4 DEF PipelineInv
  <1>2. QED
    BY <1>1, DriverKeeps, ExtractorKeeps, InterruptKeeps DEF Next
----------------------------------------------------------------------------
(* A verdict of capa that the driver passes on as a success is one on a    *)
(* complete report, or on what a failing disk left of it.                  *)
THEOREM SuccessIsOnAReport == Spec => []SuccessMeansReport
  <1>1. PipelineInv => SuccessMeansReport
    BY DEF PipelineInv, CapaInv, Outcome, SuccessMeansReport
  <1>2. QED
    BY <1>1, PipelineInvInit, PipelineInvStep, PTL DEF Spec

(* The extractor's exit code 0 means a written report, with the two        *)
(* exceptions the property names, for every command line.                  *)
THEOREM ZeroIsWritten == Spec => []ZeroMeansWritten
  <1>1. PipelineInv => ZeroMeansWritten
    BY DEF PipelineInv
  <1>2. QED
    BY <1>1, PipelineInvInit, PipelineInvStep, PTL DEF Spec

(* The temporary report does not outlive the driver unless it is wanted or *)
(* an interrupt hits one of the two gaps.                                  *)
THEOREM FileIsRemoved == Spec => []NothingLeftBehind
  <1>1. PipelineInv => NothingLeftBehind
    BY DEF PipelineInv
  <1>2. QED
    BY <1>1, PipelineInvInit, PipelineInvStep, PTL DEF Spec
----------------------------------------------------------------------------
(* What the parser's two tables say.                                       *)
LEMMA OptionTables ==
  /\ DOMAIN Valued = {"--sample", "-o", "--output", "--max-calls", "--ttd-dlls",
                      "--win32-index", "--max-buffer", "--dump-sig", "-b", "--binary"}
  /\ DOMAIN Flags = {"--with-stack-args", "--no-metadata", "--progress", "--cancel-on-stdin"}
  /\ Valued["--sample"] = "sample" /\ Valued["-o"] = "output"
  /\ Valued["--max-calls"] = "max_calls" /\ Valued["--max-buffer"] = "max_buffer"
  /\ Valued["--win32-index"] = "win32_index"
  /\ Flags["--with-stack-args"] = "with_stack_args" /\ Flags["--no-metadata"] = "no_metadata"
  /\ \A name \in DOMAIN Valued :
       /\ Valued[name] \in {"sample", "output", "max_calls", "ttd_dlls", "win32_index",
                            "max_buffer", "dump_sig", "binary_output"}
       /\ Valued[name] = "max_calls" => name = "--max-calls"
       /\ Valued[name] = "max_buffer" => name = "--max-buffer"
  /\ \A name \in DOMAIN Flags :
       Flags[name] \in {"with_stack_args", "no_metadata", "report_progress", "cancel_on_stdin"}
  BY DEF Valued, Flags

LEMMA NamesAreTexts ==
  /\ \A name \in DOMAIN Valued : name \in Texts
  /\ \A name \in DOMAIN Flags : name \in Texts
  /\ "" \in Texts /\ ReportPath \in Texts
  <1>1. DOMAIN Valued \cup DOMAIN Flags \cup {"", ReportPath} \subseteq Texts
    BY ParserAssumption
  <1> HIDE DEF Texts
  <1>2. QED
    BY <1>1, Zenon

LEMMA TextSequences ==
  /\ <<>> \in Seq(Texts)
  /\ \A a \in Texts : <<a>> \in Seq(Texts)
  /\ \A a, b \in Texts : <<a, b>> \in Seq(Texts)
  /\ \A a, b, c \in Texts : <<a, b, c>> \in Seq(Texts)
  OBVIOUS

LEMMA NumbersAreKnown ==
  ASSUME NEW c \in CommandLines \cup {ExtractCmd(w) : w \in Wishes},
         NEW k \in 1..(Len(c) - 1), c[k] \in {"--max-calls", "--max-buffer"}
  PROVE  c[k + 1] \in DOMAIN Wcstoull
  BY ParserAssumption, Zenon

(* An option that is set is the only one that changes.                     *)
LEMMA TextSet ==
  ASSUME NEW o \in Options, NEW v \in Texts,
         NEW f \in {"sample", "output", "ttd_dlls", "win32_index", "dump_sig", "binary_output"}
  PROVE  [o EXCEPT ![f] = v] \in Options
  BY DEF Options

LEMMA NumberSet ==
  ASSUME NEW o \in Options, NEW v \in Nat, NEW f \in {"max_calls", "max_buffer"}
  PROVE  [o EXCEPT ![f] = v] \in Options
  BY DEF Options

LEMMA FlagSet ==
  ASSUME NEW o \in Options,
         NEW f \in {"with_stack_args", "no_metadata", "report_progress", "cancel_on_stdin"}
  PROVE  [o EXCEPT ![f] = TRUE] \in Options
  BY DEF Options

(* The driver's command line, option by option: what stands before each.   *)
P0(w) == <<w.trace, "-o", ReportPath>>
P1(w) == P0(w) \o Option("--sample", w.sample)
P2(w) == P1(w) \o Number("--max-calls", w.max_calls)
P3(w) == P2(w) \o Flag("--with-stack-args", w.with_stack_args)
P4(w) == P3(w) \o Option("--win32-index", w.win32_index)
P5(w) == P4(w) \o Flag("--no-metadata", w.no_metadata)
P6(w) == P5(w) \o Number("--max-buffer", w.max_buffer)

LEMMA PiecesType ==
  ASSUME NEW w \in Wishes
  PROVE  /\ P0(w) \in Seq(Texts) /\ P1(w) \in Seq(Texts) /\ P2(w) \in Seq(Texts)
         /\ P3(w) \in Seq(Texts) /\ P4(w) \in Seq(Texts) /\ P5(w) \in Seq(Texts)
         /\ P6(w) \in Seq(Texts)
  <1>1. /\ w.trace \in Texts /\ w.sample \in Texts /\ w.max_calls \in Texts
        /\ w.win32_index \in Texts /\ w.max_buffer \in Texts
    BY PipelineAssumption DEF Wish
  <1>2. \A name \in DOMAIN Valued, text \in Texts :
          Option(name, text) \in Seq(Texts) /\ Number(name, text) \in Seq(Texts)
    BY NamesAreTexts, TextSequences, Zenon DEF Option, Number
  <1>3. \A wanted : \A name \in DOMAIN Flags : Flag(name, wanted) \in Seq(Texts)
    BY NamesAreTexts, TextSequences, Zenon DEF Flag
  <1>4. /\ Option("--sample", w.sample) \in Seq(Texts)
        /\ Number("--max-calls", w.max_calls) \in Seq(Texts)
        /\ Flag("--with-stack-args", w.with_stack_args) \in Seq(Texts)
        /\ Option("--win32-index", w.win32_index) \in Seq(Texts)
        /\ Flag("--no-metadata", w.no_metadata) \in Seq(Texts)
        /\ Number("--max-buffer", w.max_buffer) \in Seq(Texts)
    BY <1>1, <1>2, <1>3, OptionTables
  <1>5. P0(w) \in Seq(Texts)
    <2>1. "-o" \in Texts
      BY NamesAreTexts, OptionTables
    <2>2. QED
      BY <1>1, <2>1, NamesAreTexts, TextSequences, Zenon DEF P0
  <1>6. P1(w) \in Seq(Texts)
    BY <1>4, <1>5, ConcatProperties DEF P1
  <1>7. P2(w) \in Seq(Texts)
    BY <1>4, <1>6, ConcatProperties DEF P2
  <1>8. P3(w) \in Seq(Texts)
    BY <1>4, <1>7, ConcatProperties DEF P3
  <1>9. P4(w) \in Seq(Texts)
    BY <1>4, <1>8, ConcatProperties DEF P4
  <1>10. P5(w) \in Seq(Texts)
    BY <1>4, <1>9, ConcatProperties DEF P5
  <1>11. P6(w) \in Seq(Texts)
    BY <1>4, <1>10, ConcatProperties DEF P6
  <1>12. QED
    BY <1>5, <1>6, <1>7, <1>8, <1>9, <1>10, <1>11

LEMMA CmdType ==
  ASSUME NEW w \in Wishes
  PROVE  ExtractCmd(w) \in Seq(Texts)
  <1>1. ExtractCmd(w) = P6(w)
    BY DEF ExtractCmd, P0, P1, P2, P3, P4, P5, P6
  <1>2. QED
    BY <1>1, PiecesType

(* The arguments the extractor is started with.                            *)
CmdInv ==
  /\ TypeOK
  /\ pc \in ExtractorSteps => cmd \in CommandLines \cup {ExtractCmd(w) : w \in Wishes}
  /\ ~by_hand /\ pc \in {"check", "find", "make", "made", "try"} => i = 1 /\ opt = NoOptions
  /\ ~by_hand /\ pc = "parse" => cmd = ExtractCmd(wish)

LEMMA CmdInvInit == Init => CmdInv
  <1> SUFFICES ASSUME Init PROVE CmdInv
    OBVIOUS
  <1>1. NoOptions \in Options
    BY PipelineAssumption, ParserAssumption DEF NoOptions, Options
  <1>2. /\ cmd \in Seq(Texts) /\ i = 1 /\ i \in 1..(Len(cmd) + 1)
        /\ by_hand => cmd \in CommandLines /\ pc = "parse"
        /\ ~by_hand => pc = "check"
    <2>1. CASE by_hand
      <3>1. cmd \in Seq(Texts)
        BY <2>1, PipelineAssumption DEF Init
      <3>2. QED
        BY <2>1, <3>1, LenProperties DEF Init
    <2>2. CASE ~by_hand
      <3>1. cmd = <<>> /\ cmd \in Seq(Texts)
        BY <2>2 DEF Init
      <3>2. QED
        BY <2>2, <3>1 DEF Init
    <2>3. QED
      BY <2>1, <2>2
  <1>3. TypeOK
    <2>1. pc \in DriverSteps \cup ExtractorSteps \cup {"done"}
      BY <1>2 DEF Init, DriverSteps, ExtractorSteps
    <2>2. opt \in Options
      BY <1>1 DEF Init
    <2>3. /\ wish \in Wishes /\ by_hand \in BOOLEAN
          /\ no_engine \in BOOLEAN /\ disk_failed \in BOOLEAN
      BY Zenon DEF Init
    <2>4. /\ file \in Contents /\ given \in Contents
          /\ interrupted \in {"no", "outside", "within", "cleaning"}
      BY DEF Init, Contents
    <2>5. status \in Nat /\ rc \in 0..5
      BY DEF Init
    <2>6. QED
      BY <1>2, <2>1, <2>2, <2>3, <2>4, <2>5 DEF TypeOK
  <1>4. QED
    BY <1>2, <1>3 DEF CmdInv, ExtractorSteps, Init

(* One argument, or two, are taken.                                        *)
LEMMA ParseType ==
  ASSUME CmdInv, ParseArgument
  PROVE  opt' \in Options /\ i' \in 1..(Len(cmd) + 1)
  <1>0. /\ TypeOK /\ cmd \in Seq(Texts) /\ Len(cmd) \in Nat /\ i \in 1..Len(cmd)
        /\ pc = "parse" /\ opt \in Options
        /\ cmd \in CommandLines \cup {ExtractCmd(w) : w \in Wishes}
    BY LenProperties DEF CmdInv, TypeOK, ParseArgument, ExtractorSteps
  <1>1. cmd[i] \in Texts
    BY <1>0, ElementOfSeq
  <1>2. CASE TakesValue
             /\ opt' = [opt EXCEPT ![Valued[cmd[i]]] = Value(Valued[cmd[i]], cmd[i + 1])]
             /\ i' = i + 2
    <2> DEFINE f == Valued[cmd[i]]
               v == Value(f, cmd[i + 1])
    <2>1. cmd[i] \in DOMAIN Valued /\ i < Len(cmd)
      BY <1>2 DEF TakesValue
    <2>2. cmd[i + 1] \in Texts
      BY <1>0, <2>1, ElementOfSeq
    <2>3. CASE f \in {"max_calls", "max_buffer"}
      <3>1. cmd[i] \in {"--max-calls", "--max-buffer"}
        BY <2>1, <2>3, OptionTables
      <3>2. cmd[i + 1] \in DOMAIN Wcstoull
        BY <1>0, <2>1, <3>1, NumbersAreKnown
      <3>3. v \in Nat
        BY <2>3, <3>2, PipelineAssumption DEF Value
      <3>4. opt' \in Options
        <4> HIDE DEF f, v
        <4>1. [opt EXCEPT ![f] = v] \in Options
          BY <1>0, <2>3, <3>3, NumberSet
        <4>2. QED
          BY <1>2, <4>1 DEF f, v
      <3>5. QED
        BY <1>0, <1>2, <2>1, <3>4
    <2>4. CASE f \notin {"max_calls", "max_buffer"}
      <3>1. f \in {"sample", "output", "ttd_dlls", "win32_index", "dump_sig", "binary_output"}
        BY <2>1, <2>4, OptionTables
      <3>2. v \in Texts
        BY <2>2, <2>4 DEF Value
      <3>3. opt' \in Options
        <4> HIDE DEF f, v
        <4>1. [opt EXCEPT ![f] = v] \in Options
          BY <1>0, <3>1, <3>2, TextSet
        <4>2. QED
          BY <1>2, <4>1 DEF f, v
      <3>4. QED
        BY <1>0, <1>2, <2>1, <3>3
    <2>5. QED
      BY <2>3, <2>4
  <1>3. CASE /\ cmd[i] \in DOMAIN Flags
             /\ opt' = [opt EXCEPT ![Flags[cmd[i]]] = TRUE] /\ i' = i + 1
    <2> DEFINE f == Flags[cmd[i]]
    <2>1. f \in {"with_stack_args", "no_metadata", "report_progress", "cancel_on_stdin"}
      BY <1>3, OptionTables
    <2> HIDE DEF f
    <2>2. [opt EXCEPT ![f] = TRUE] \in Options
      BY <1>0, <2>1, FlagSet
    <2>3. QED
      BY <1>0, <1>3, <2>2 DEF f
  <1>4. CASE opt' = [opt EXCEPT !.trace = cmd[i]] /\ i' = i + 1
    BY <1>0, <1>1, <1>4 DEF Options
  <1>5. CASE UNCHANGED <<opt, i>>
    BY <1>0, <1>5 DEF TypeOK
  <1>6. QED
    BY <1>2, <1>3, <1>4, <1>5 DEF ParseArgument

(* The driver has not started the extractor.                               *)
Early == {"check", "find", "make", "made", "try"}

(* A step that does not touch the command line.                            *)
LEMMA CmdKeeps ==
  ASSUME CmdInv, UNCHANGED <<wish, by_hand, cmd, i, opt>>,
         rc' \in 0..5, status' \in Nat, file' \in Contents, given' \in Contents,
         no_engine' \in BOOLEAN, disk_failed' \in BOOLEAN,
         interrupted' \in {"no", "outside", "within", "cleaning"},
         pc' \in DriverSteps \cup ExtractorSteps \cup {"done"},
         pc' \in ExtractorSteps => pc \in ExtractorSteps,
         pc' = "parse" => pc = "parse",
         pc' \in Early => pc \in Early
  PROVE  CmdInv'
  <1>1. TypeOK'
    BY SMTT(30) DEF CmdInv, TypeOK
  <1>2. pc' \in ExtractorSteps => (cmd \in CommandLines \cup {ExtractCmd(w) : w \in Wishes})'
    BY DEF CmdInv, ExtractCmd, Option, Number, Flag
  <1>3. ~by_hand /\ pc' \in Early => i = 1 /\ opt = NoOptions
    BY DEF CmdInv, Early
  <1>4. ~by_hand /\ pc' = "parse" => cmd = ExtractCmd(wish)
    BY DEF CmdInv
  <1>5. QED
    BY <1>1, <1>2, <1>3, <1>4, ZenonT(60)
       DEF CmdInv, Early, ExtractCmd, Option, Number, Flag, NoOptions

LEMMA ExitType ==
  ASSUME NEW code \in 0..5, Exit(code), status \in Nat
  PROVE  rc' \in 0..5 /\ status' \in Nat /\ pc' \in {"wait", "done"}
  BY DEF Exit, Stop

LEMMA CmdInvStep == PipelineInv /\ CmdInv /\ [Next]_vars => CmdInv'
  <1> SUFFICES ASSUME PipelineInv, CmdInv, [Next]_vars PROVE CmdInv'
    OBVIOUS
  <1>0. TypeOK
    BY DEF CmdInv
  <1>t. /\ rc \in 0..5 /\ status \in Nat /\ file \in Contents /\ given \in Contents
        /\ no_engine \in BOOLEAN /\ disk_failed \in BOOLEAN
        /\ interrupted \in {"no", "outside", "within", "cleaning"}
        /\ pc \in DriverSteps \cup ExtractorSteps \cup {"done"}
    BY <1>0 DEF TypeOK
  <1> USE DEF started, extractor, driver
  <1>1. CASE CheckInputs
    <2>1. pc' \in {"find", "done"} /\ pc \in Early /\ status' \in Nat
      BY <1>t, <1>1 DEF CheckInputs, Stop, Early
    <2>2. QED
      BY <1>t, <1>1, <2>1, CmdKeeps DEF CheckInputs, DriverSteps, ExtractorSteps, Early
  <1>2. CASE FindExtractor
    <2>1. pc' \in {"make", "done"} /\ pc \in Early /\ status' \in Nat
      BY <1>t, <1>2 DEF FindExtractor, Stop, Early
    <2>2. QED
      BY <1>t, <1>2, <2>1, CmdKeeps DEF FindExtractor, DriverSteps, ExtractorSteps, Early
  <1>3. CASE MakeFile
    <2>1. pc' \in {"made", "done"} /\ pc \in Early /\ status' \in Nat /\ file' \in Contents
      BY <1>t, <1>3 DEF MakeFile, Stop, Early, Contents
    <2>2. QED
      BY <1>t, <1>3, <2>1, CmdKeeps, SMTT(30) DEF MakeFile, DriverSteps, ExtractorSteps, Early
  <1>4. CASE EnterTry
    <2>1. pc' = "try" /\ pc \in Early
      BY <1>4, Zenon DEF EnterTry, Early
    <2>2. QED
      BY <1>t, <1>4, <2>1, CmdKeeps DEF EnterTry, DriverSteps, ExtractorSteps, Early
  <1>5. CASE CallExtractor
    <2>1. /\ pc = "try" /\ pc' = "parse" /\ cmd' = ExtractCmd(wish)
          /\ UNCHANGED <<wish, by_hand, i, opt, rc, no_engine, disk_failed, file, given,
                         status, interrupted>>
      BY <1>5 DEF CallExtractor
    <2>2. wish \in Wishes
      BY <1>0 DEF TypeOK
    <2>3. cmd' \in Seq(Texts) /\ Len(cmd') \in Nat
      BY <2>1, <2>2, CmdType, LenProperties
    <2>4. ~by_hand /\ i = 1
      BY <2>1 DEF PipelineInv, ByHandInv, ExtractorSteps, CmdInv
    <2>5. i' \in 1..(Len(cmd') + 1)
      BY <2>1, <2>3, <2>4
    <2>6. pc' \in DriverSteps \cup ExtractorSteps \cup {"done"} /\ pc' \notin Early
      BY <2>1 DEF ExtractorSteps, Early
    <2>7. TypeOK'
      BY <1>0, <1>t, <2>1, <2>3, <2>5, <2>6 DEF TypeOK
    <2>8. cmd' \in {ExtractCmd(w) : w \in Wishes}
      BY <2>1, <2>2
    <2>9. cmd' = ExtractCmd(wish')
      BY <2>1
    <2>10. (pc \in ExtractorSteps => cmd \in CommandLines \cup {ExtractCmd(w) : w \in Wishes})'
      BY <2>8 DEF ExtractCmd, Option, Number, Flag
    <2>11. QED
      BY <2>6, <2>7, <2>9, <2>10, ZenonT(60) DEF CmdInv, Early, ExtractCmd, Option, Number, Flag
  <1>6. CASE RunCapa
    <2>1. pc' \in {"capa", "finally"} /\ status' \in Nat /\ given' \in Contents
      BY <1>t, <1>6 DEF RunCapa
    <2>2. QED
      BY <1>t, <1>6, <2>1, CmdKeeps DEF RunCapa, DriverSteps, ExtractorSteps, Early
  <1>7. CASE CapaEnds
    <2>1. pc' = "finally" /\ status' \in Nat
      BY <1>7, PipelineAssumption DEF CapaEnds
    <2>2. QED
      BY <1>t, <1>7, <2>1, CmdKeeps DEF CapaEnds, DriverSteps, ExtractorSteps, Early
  <1>8. CASE CleanUp
    <2>1. pc' = "done" /\ file' \in Contents
      BY <1>t, <1>8 DEF CleanUp, Contents
    <2>2. QED
      BY <1>t, <1>8, <2>1, CmdKeeps DEF CleanUp, DriverSteps, ExtractorSteps, Early
  <1>9. CASE ParseArgument
    <2>1. /\ opt' \in Options /\ i' \in 1..(Len(cmd) + 1)
          /\ pc = "parse" /\ UNCHANGED <<wish, by_hand, cmd, no_engine, disk_failed, file,
                                          given, interrupted>>
      BY <1>9, ParseType DEF ParseArgument
    <2>2. /\ rc' \in 0..5 /\ status' \in Nat
          /\ pc' = "parse" \/ pc' \in {"wait", "done"}
      BY <1>t, <1>9, ExitType DEF ParseArgument
    <2>3. pc' \in DriverSteps \cup ExtractorSteps \cup {"done"} /\ pc' \notin Early
      BY <2>2 DEF DriverSteps, ExtractorSteps, Early
    <2>4. TypeOK'
      BY <1>0, <1>t, <2>1, <2>2, <2>3 DEF TypeOK
    <2>5. pc \in ExtractorSteps
      BY <2>1 DEF ExtractorSteps
    <2>6. (pc \in ExtractorSteps => cmd \in CommandLines \cup {ExtractCmd(w) : w \in Wishes})'
      BY <2>1, <2>5, ZenonT(60) DEF CmdInv, ExtractCmd, Option, Number, Flag
    <2>7. ~by_hand => cmd = ExtractCmd(wish)
      BY <2>1 DEF CmdInv
    <2>8. QED
      BY <2>1, <2>3, <2>4, <2>6, <2>7, ZenonT(60)
         DEF CmdInv, Early, ExtractCmd, Option, Number, Flag
  <1>10. CASE ParseEnds
    <2>0. (pc' = "index" /\ UNCHANGED <<rc, status>>) \/ Exit(1)
      BY <1>10 DEF ParseEnds
    <2>1. rc' \in 0..5 /\ status' \in Nat /\ pc' \in {"index", "wait", "done"}
      <3>1. CASE Exit(1)
        BY <1>t, <3>1, ExitType
      <3>2. CASE pc' = "index" /\ UNCHANGED <<rc, status>>
        BY <1>t, <3>2
      <3>3. QED
        BY <2>0, <3>1, <3>2
    <2>2. QED
      BY <1>t, <1>10, <2>1, CmdKeeps DEF ParseEnds, DriverSteps, ExtractorSteps, Early
  <1>11. CASE LoadIndex
    <2>0. (pc' = "engine" /\ UNCHANGED <<rc, status>>) \/ Exit(0) \/ Exit(3)
      BY <1>11 DEF LoadIndex
    <2>1. rc' \in 0..5 /\ status' \in Nat /\ pc' \in {"engine", "wait", "done"}
      <3>1. CASE Exit(0)
        BY <1>t, <3>1, ExitType
      <3>2. CASE Exit(3)
        BY <1>t, <3>2, ExitType
      <3>3. CASE pc' = "engine" /\ UNCHANGED <<rc, status>>
        BY <1>t, <3>3
      <3>4. QED
        BY <2>0, <3>1, <3>2, <3>3
    <2>2. QED
      BY <1>t, <1>11, <2>1, CmdKeeps DEF LoadIndex, DriverSteps, ExtractorSteps, Early
  <1>12. CASE MakeEngine
    <2>1. rc' \in 0..5 /\ status' \in Nat /\ pc' \in {"open", "wait", "done"}
      BY <1>t, <1>12, ExitType DEF MakeEngine
    <2>2. no_engine' \in BOOLEAN
      BY <1>t, <1>12 DEF MakeEngine
    <2>3. QED
      BY <1>t, <1>12, <2>1, <2>2, CmdKeeps DEF MakeEngine, DriverSteps, ExtractorSteps, Early
  <1>13. CASE OpenTrace
    <2>1. rc' \in 0..5 /\ status' \in Nat /\ pc' \in {"work", "wait", "done"}
      BY <1>t, <1>13, ExitType DEF OpenTrace
    <2>2. QED
      BY <1>t, <1>13, <2>1, CmdKeeps DEF OpenTrace, DriverSteps, ExtractorSteps, Early
  <1>14. CASE Sweep
    BY <1>t, <1>14, CmdKeeps DEF Sweep, DriverSteps, ExtractorSteps, Early
  <1>15. CASE WriteBinary
    <2>0. (pc' = "json" /\ UNCHANGED <<rc, status>>) \/ Exit(0)
      BY <1>15 DEF WriteBinary
    <2>1. rc' \in 0..5 /\ status' \in Nat /\ pc' \in {"json", "wait", "done"}
      <3>1. CASE Exit(0)
        BY <1>t, <3>1, ExitType
      <3>2. CASE pc' = "json" /\ UNCHANGED <<rc, status>>
        BY <1>t, <3>2
      <3>3. QED
        BY <2>0, <3>1, <3>2
    <2>2. QED
      BY <1>t, <1>15, <2>1, CmdKeeps DEF WriteBinary, DriverSteps, ExtractorSteps, Early
  <1>16. CASE OpenReport
    <2>1. rc' \in 0..5 /\ status' \in Nat /\ pc' \in {"put", "wait", "done"}
      BY <1>t, <1>16, ExitType DEF OpenReport
    <2>2. file' \in Contents /\ disk_failed' \in BOOLEAN
      BY <1>t, <1>16 DEF OpenReport, Contents
    <2>3. QED
      BY <1>t, <1>16, <2>1, <2>2, CmdKeeps DEF OpenReport, DriverSteps, ExtractorSteps, Early
  <1>17. CASE PutReport
    <2>1. rc' \in 0..5 /\ status' \in Nat /\ pc' \in {"wait", "done"}
      BY <1>t, <1>17, ExitType DEF PutReport
    <2>2. file' \in Contents /\ disk_failed' \in BOOLEAN
      BY <1>17 DEF PutReport, Contents
    <2>3. QED
      BY <1>t, <1>17, <2>1, <2>2, CmdKeeps DEF PutReport, DriverSteps, ExtractorSteps, Early
  <1>18. CASE Die
    <2>1. rc' \in 0..5 /\ status' \in Nat /\ pc' \in {"wait", "done"}
      BY <1>t, <1>18, ExitType DEF Die
    <2>2. file' \in Contents
      BY <1>t, <1>18 DEF Die, Contents
    <2>3. QED
      BY <1>t, <1>18, <2>1, <2>2, CmdKeeps DEF Die, DriverSteps, ExtractorSteps, Early
  <1>19. CASE Interrupt
    <2>1. /\ pc' \in {"finally", "done"} /\ status' \in Nat
          /\ interrupted' \in {"no", "outside", "within", "cleaning"}
      BY <1>19 DEF Interrupt
    <2>2. QED
      BY <1>t, <1>19, <2>1, CmdKeeps DEF Interrupt, DriverSteps, ExtractorSteps, Early
  <1>20. CASE UNCHANGED vars
    BY <1>t, <1>20, CmdKeeps DEF vars
  <1>21. QED
    BY <1>1, <1>2, <1>3, <1>4, <1>5, <1>6, <1>7, <1>8, <1>9, <1>10, <1>11, <1>12, <1>13,
       <1>14, <1>15, <1>16, <1>17, <1>18, <1>19, <1>20
    DEF Next, DriverNext, ExtractorNext

(* The driver's and the extractor's state is well formed: numbers are read *)
(* from texts that can be read, and the parser stays within its arguments. *)
THEOREM PipelineType == Spec => []TypeOK
  <1>1. Init => PipelineInv /\ CmdInv
    BY PipelineInvInit, CmdInvInit
  <1>2. PipelineInv /\ CmdInv /\ [Next]_vars => PipelineInv' /\ CmdInv'
    BY PipelineInvStep, CmdInvStep
  <1>3. CmdInv => TypeOK
    BY DEF CmdInv
  <1>4. QED
    BY <1>1, <1>2, <1>3, PTL DEF Spec
----------------------------------------------------------------------------
Begins(p, c) == Len(p) <= Len(c) /\ \A j \in 1..Len(p) : c[j] = p[j]

HasValue(c, n, name, text) == n + 2 <= Len(c) /\ c[n + 1] = name /\ c[n + 2] = text

HasFlag(c, n, name) == n + 1 <= Len(c) /\ c[n + 1] = name

LEMMA Begun ==
  ASSUME NEW p \in Seq(Texts), NEW q \in Seq(Texts), NEW c \in Seq(Texts), Begins(p \o q, c)
  PROVE  /\ Begins(p, c)
         /\ Len(p \o q) = Len(p) + Len(q)
         /\ \A j \in 1..Len(q) : c[Len(p) + j] = q[j]
  <1>1. /\ Len(p) \in Nat /\ Len(q) \in Nat /\ Len(p \o q) = Len(p) + Len(q)
        /\ \A j \in 1..(Len(p) + Len(q)) :
             (p \o q)[j] = IF j <= Len(p) THEN p[j] ELSE q[j - Len(p)]
    BY ConcatProperties, LenProperties
  <1>2. \A j \in 1..(Len(p) + Len(q)) : c[j] = (p \o q)[j]
    BY <1>1 DEF Begins
  <1>3. Len(c) \in Nat /\ Len(p) + Len(q) <= Len(c)
    BY <1>1, LenProperties DEF Begins
  <1>4. Begins(p, c)
    BY <1>1, <1>2, <1>3 DEF Begins
  <1>5. ASSUME NEW j \in 1..Len(q) PROVE c[Len(p) + j] = q[j]
    <2>1. Len(p) + j \in 1..(Len(p) + Len(q)) /\ ~(Len(p) + j <= Len(p))
          /\ (Len(p) + j) - Len(p) = j
      BY <1>1
    <2>2. QED
      BY <1>1, <1>2, <2>1
  <1>6. QED
    BY <1>1, <1>4, <1>5

(* An option with its value, at its place, or nothing.                     *)
LEMMA ValueBegun ==
  ASSUME NEW p \in Seq(Texts), NEW c \in Seq(Texts), NEW name \in Texts, NEW text \in Texts,
         NEW q, q = <<name, text>> \/ q = <<>>, Begins(p \o q, c)
  PROVE  /\ Begins(p, c)
         /\ q = <<name, text>> => HasValue(c, Len(p), name, text) /\ Len(p \o q) = Len(p) + 2
         /\ q = <<>> => Len(p \o q) = Len(p)
  <1>1. q \in Seq(Texts)
    BY TextSequences, Zenon
  <1>2. /\ Begins(p, c) /\ Len(p \o q) = Len(p) + Len(q)
        /\ \A j \in 1..Len(q) : c[Len(p) + j] = q[j]
    BY <1>1, Begun
  <1>3. Len(p) \in Nat /\ Len(c) \in Nat /\ Len(p \o q) <= Len(c)
    BY LenProperties DEF Begins
  <1>4. CASE q = <<name, text>>
    <2>1. Len(q) = 2 /\ q[1] = name /\ q[2] = text
      BY <1>4
    <2>2. c[Len(p) + 1] = name /\ c[Len(p) + 2] = text
      BY <1>2, <2>1
    <2>3. q # <<>>
      <3>1. ASSUME q = <<>> PROVE FALSE
        <4>1. Len(q) = 0
          BY <3>1
        <4>2. QED
          BY <2>1, <4>1
      <3>2. QED
        BY <3>1
    <2>4. QED
      BY <1>2, <1>3, <2>1, <2>2, <2>3 DEF HasValue
  <1>5. CASE q = <<>>
    <2>1. Len(q) = 0 /\ q # <<name, text>>
      BY <1>5
    <2>2. QED
      BY <1>2, <1>3, <1>5, <2>1
  <1>6. QED
    BY <1>4, <1>5

LEMMA NameBegun ==
  ASSUME NEW p \in Seq(Texts), NEW c \in Seq(Texts), NEW name \in Texts,
         NEW q, q = <<name>> \/ q = <<>>, Begins(p \o q, c)
  PROVE  /\ Begins(p, c)
         /\ q = <<name>> => HasFlag(c, Len(p), name) /\ Len(p \o q) = Len(p) + 1
         /\ q = <<>> => Len(p \o q) = Len(p)
  <1>1. q \in Seq(Texts)
    BY TextSequences, Zenon
  <1>2. /\ Begins(p, c) /\ Len(p \o q) = Len(p) + Len(q)
        /\ \A j \in 1..Len(q) : c[Len(p) + j] = q[j]
    BY <1>1, Begun
  <1>3. Len(p) \in Nat /\ Len(c) \in Nat /\ Len(p \o q) <= Len(c)
    BY LenProperties DEF Begins
  <1>4. CASE q = <<name>>
    <2>1. Len(q) = 1 /\ q[1] = name
      BY <1>4
    <2>2. c[Len(p) + 1] = name
      BY <1>2, <2>1
    <2>3. q # <<>>
      <3>1. ASSUME q = <<>> PROVE FALSE
        <4>1. Len(q) = 0
          BY <3>1
        <4>2. QED
          BY <2>1, <4>1
      <3>2. QED
        BY <3>1
    <2>4. QED
      BY <1>2, <1>3, <2>1, <2>2, <2>3 DEF HasFlag
  <1>5. CASE q = <<>>
    <2>1. Len(q) = 0 /\ q # <<name>>
      BY <1>5
    <2>2. QED
      BY <1>2, <1>3, <1>5, <2>1
  <1>6. QED
    BY <1>4, <1>5

(* The driver's three ways to add an option: q is p with the option.        *)
OptionAt(c, p, q, name, text) ==
  IF text = "" THEN Len(q) = Len(p)
  ELSE Len(q) = Len(p) + 2 /\ HasValue(c, Len(p), name, text)

NumberAt(c, p, q, name, text) ==
  IF text \in {"", "0"} THEN Len(q) = Len(p)
  ELSE Len(q) = Len(p) + 2 /\ HasValue(c, Len(p), name, text)

FlagAt(c, p, q, name, wanted) ==
  IF ~wanted THEN Len(q) = Len(p) ELSE Len(q) = Len(p) + 1 /\ HasFlag(c, Len(p), name)

LEMMA OptionBegun ==
  ASSUME NEW p \in Seq(Texts), NEW c \in Seq(Texts), NEW name \in Texts,
         NEW text \in Texts, Begins(p \o Option(name, text), c)
  PROVE  Begins(p, c) /\ OptionAt(c, p, p \o Option(name, text), name, text)
  <1> DEFINE q == Option(name, text)
  <1>1. IF text = "" THEN q = <<>> ELSE q = <<name, text>>
    BY DEF Option
  <1> HIDE DEF q
  <1>2. Begins(p \o q, c)
    BY DEF q
  <1>3. /\ Begins(p, c)
        /\ q = <<name, text>> => HasValue(c, Len(p), name, text) /\ Len(p \o q) = Len(p) + 2
        /\ q = <<>> => Len(p \o q) = Len(p)
    BY <1>1, <1>2, ValueBegun
  <1>4. QED
    BY <1>1, <1>3 DEF q, OptionAt

LEMMA NumberBegun ==
  ASSUME NEW p \in Seq(Texts), NEW c \in Seq(Texts), NEW name \in Texts,
         NEW text \in Texts, Begins(p \o Number(name, text), c)
  PROVE  Begins(p, c) /\ NumberAt(c, p, p \o Number(name, text), name, text)
  <1> DEFINE q == Number(name, text)
  <1>1. IF text \in {"", "0"} THEN q = <<>> ELSE q = <<name, text>>
    BY DEF Number
  <1> HIDE DEF q
  <1>2. Begins(p \o q, c)
    BY DEF q
  <1>3. /\ Begins(p, c)
        /\ q = <<name, text>> => HasValue(c, Len(p), name, text) /\ Len(p \o q) = Len(p) + 2
        /\ q = <<>> => Len(p \o q) = Len(p)
    BY <1>1, <1>2, ValueBegun
  <1>4. QED
    BY <1>1, <1>3 DEF q, NumberAt

LEMMA FlagBegun ==
  ASSUME NEW p \in Seq(Texts), NEW c \in Seq(Texts), NEW name \in Texts,
         NEW wanted \in BOOLEAN, Begins(p \o Flag(name, wanted), c)
  PROVE  Begins(p, c) /\ FlagAt(c, p, p \o Flag(name, wanted), name, wanted)
  <1> DEFINE q == Flag(name, wanted)
  <1>1. IF ~wanted THEN q = <<>> ELSE q = <<name>>
    BY DEF Flag
  <1> HIDE DEF q
  <1>2. Begins(p \o q, c)
    BY DEF q
  <1>3. /\ Begins(p, c)
        /\ q = <<name>> => HasFlag(c, Len(p), name) /\ Len(p \o q) = Len(p) + 1
        /\ q = <<>> => Len(p \o q) = Len(p)
    BY <1>1, <1>2, NameBegun
  <1>4. QED
    BY <1>1, <1>3 DEF q, FlagAt

(* Where everything is on the command line for a wish.                     *)
Laid(w, c) ==
  /\ Len(P0(w)) = 3 /\ 3 <= Len(c)
  /\ c[1] = w.trace /\ c[2] = "-o" /\ c[3] = ReportPath
  /\ OptionAt(c, P0(w), P1(w), "--sample", w.sample)
  /\ NumberAt(c, P1(w), P2(w), "--max-calls", w.max_calls)
  /\ FlagAt(c, P2(w), P3(w), "--with-stack-args", w.with_stack_args)
  /\ OptionAt(c, P3(w), P4(w), "--win32-index", w.win32_index)
  /\ FlagAt(c, P4(w), P5(w), "--no-metadata", w.no_metadata)
  /\ NumberAt(c, P5(w), P6(w), "--max-buffer", w.max_buffer)
  /\ Len(P6(w)) = Len(c)

LEMMA CmdLaid ==
  ASSUME NEW w \in Wishes
  PROVE  Laid(w, ExtractCmd(w))
  <1> DEFINE c == ExtractCmd(w)
  <1>0. /\ w.trace \in Texts /\ w.sample \in Texts /\ w.max_calls \in Texts
        /\ w.win32_index \in Texts /\ w.max_buffer \in Texts
    BY PipelineAssumption DEF Wish
  <1>b. w.with_stack_args \in BOOLEAN /\ w.no_metadata \in BOOLEAN
    BY PipelineAssumption, Zenon DEF Wish
  <1>n. /\ "--sample" \in Texts /\ "--max-calls" \in Texts /\ "--win32-index" \in Texts
        /\ "--max-buffer" \in Texts /\ "--with-stack-args" \in Texts
        /\ "--no-metadata" \in Texts
    BY NamesAreTexts, OptionTables
  <1>1. c = P6(w) /\ c \in Seq(Texts)
    BY PiecesType DEF ExtractCmd, P0, P1, P2, P3, P4, P5, P6
  <1> HIDE DEF c
  <1>2. Begins(P6(w), c)
    BY <1>1, LenProperties DEF Begins
  <1>3. Begins(P5(w), c) /\ NumberAt(c, P5(w), P6(w), "--max-buffer", w.max_buffer)
    <2>1. P6(w) = P5(w) \o Number("--max-buffer", w.max_buffer)
      BY DEF P6
    <2>2. P5(w) \in Seq(Texts)
      BY PiecesType
    <2>3. Begins(P5(w) \o Number("--max-buffer", w.max_buffer), c)
      BY <1>2, <2>1
    <2>4. QED
      BY <1>0, <1>b, <1>n, <1>1, <2>1, <2>2, <2>3, NumberBegun
  <1>4. Begins(P4(w), c) /\ FlagAt(c, P4(w), P5(w), "--no-metadata", w.no_metadata)
    <2>1. P5(w) = P4(w) \o Flag("--no-metadata", w.no_metadata)
      BY DEF P5
    <2>2. P4(w) \in Seq(Texts)
      BY PiecesType
    <2>3. Begins(P4(w) \o Flag("--no-metadata", w.no_metadata), c)
      BY <1>3, <2>1
    <2>4. QED
      BY <1>0, <1>b, <1>n, <1>1, <2>1, <2>2, <2>3, FlagBegun
  <1>5. Begins(P3(w), c) /\ OptionAt(c, P3(w), P4(w), "--win32-index", w.win32_index)
    <2>1. P4(w) = P3(w) \o Option("--win32-index", w.win32_index)
      BY DEF P4
    <2>2. P3(w) \in Seq(Texts)
      BY PiecesType
    <2>3. Begins(P3(w) \o Option("--win32-index", w.win32_index), c)
      BY <1>4, <2>1
    <2>4. QED
      BY <1>0, <1>b, <1>n, <1>1, <2>1, <2>2, <2>3, OptionBegun
  <1>6. Begins(P2(w), c) /\ FlagAt(c, P2(w), P3(w), "--with-stack-args", w.with_stack_args)
    <2>1. P3(w) = P2(w) \o Flag("--with-stack-args", w.with_stack_args)
      BY DEF P3
    <2>2. P2(w) \in Seq(Texts)
      BY PiecesType
    <2>3. Begins(P2(w) \o Flag("--with-stack-args", w.with_stack_args), c)
      BY <1>5, <2>1
    <2>4. QED
      BY <1>0, <1>b, <1>n, <1>1, <2>1, <2>2, <2>3, FlagBegun
  <1>7. Begins(P1(w), c) /\ NumberAt(c, P1(w), P2(w), "--max-calls", w.max_calls)
    <2>1. P2(w) = P1(w) \o Number("--max-calls", w.max_calls)
      BY DEF P2
    <2>2. P1(w) \in Seq(Texts)
      BY PiecesType
    <2>3. Begins(P1(w) \o Number("--max-calls", w.max_calls), c)
      BY <1>6, <2>1
    <2>4. QED
      BY <1>0, <1>b, <1>n, <1>1, <2>1, <2>2, <2>3, NumberBegun
  <1>8. Begins(P0(w), c) /\ OptionAt(c, P0(w), P1(w), "--sample", w.sample)
    <2>1. P1(w) = P0(w) \o Option("--sample", w.sample)
      BY DEF P1
    <2>2. P0(w) \in Seq(Texts)
      BY PiecesType
    <2>3. Begins(P0(w) \o Option("--sample", w.sample), c)
      BY <1>7, <2>1
    <2>4. QED
      BY <1>0, <1>b, <1>n, <1>1, <2>1, <2>2, <2>3, OptionBegun
  <1>9. /\ Len(P0(w)) = 3 /\ 3 <= Len(c)
        /\ c[1] = w.trace /\ c[2] = "-o" /\ c[3] = ReportPath
    <2>1. Len(P0(w)) = 3 /\ P0(w)[1] = w.trace /\ P0(w)[2] = "-o" /\ P0(w)[3] = ReportPath
      BY DEF P0
    <2>2. QED
      BY <1>8, <2>1 DEF Begins
  <1>10. Len(P6(w)) = Len(c)
    BY <1>1
  <1>11. Laid(w, c)
    BY <1>3, <1>4, <1>5, <1>6, <1>7, <1>8, <1>9, <1>10, Zenon DEF Laid
  <1>12. QED
    BY <1>11 DEF c
----------------------------------------------------------------------------
(* What the parser has gathered when it stands behind the n-th option of   *)
(* the driver's six.                                                       *)
NoText == ""
NoNumber(text) == text \in {"", "0"}

Parsed(o, w, n) ==
  /\ o.trace = w.trace /\ o.output = ReportPath
  /\ o.dump_sig = NoText /\ o.binary_output = NoText
  /\ o.sample = IF n >= 1 THEN w.sample ELSE NoText
  /\ o.max_calls = IF n >= 2 THEN Wcstoull[w.max_calls] ELSE 0
  /\ o.with_stack_args = TRUE <=> n >= 3 /\ w.with_stack_args = TRUE
  /\ o.win32_index = IF n >= 4 THEN w.win32_index ELSE NoText
  /\ o.no_metadata = TRUE <=> n >= 5 /\ w.no_metadata = TRUE
  /\ o.max_buffer = IF n >= 6 /\ ~NoNumber(w.max_buffer) THEN Wcstoull[w.max_buffer]
                    ELSE DefaultBuffer

(* A trace named as a flag is taken for one, and then there is no trace.   *)
Misled(o, w) == w.trace \in DOMAIN Flags /\ o.trace = NoText /\ o.dump_sig = NoText

(* The first argument is taken.                                            *)
OneArgument(o, w) ==
  \/ o = [NoOptions EXCEPT !.trace = w.trace]
  \/ w.trace \in DOMAIN Flags /\ o = [NoOptions EXCEPT ![Flags[w.trace]] = TRUE]

(* The parser stands behind p, n options on.                               *)
At(p, n, w, j, o) == j = Len(p) + 1 /\ (Parsed(o, w, n) \/ Misled(o, w))

ArgsInv ==
  ~by_hand /\ pc = "parse" /\ wish.trace \notin DOMAIN Valued =>
    \/ i = 1 /\ opt = NoOptions
    \/ i = 2 /\ OneArgument(opt, wish)
    \/ At(P0(wish), 0, wish, i, opt) \/ At(P1(wish), 1, wish, i, opt)
    \/ At(P2(wish), 2, wish, i, opt) \/ At(P3(wish), 3, wish, i, opt)
    \/ At(P4(wish), 4, wish, i, opt) \/ At(P5(wish), 5, wish, i, opt)
    \/ At(P6(wish), 6, wish, i, opt)

(* The parser's answer to an option with its value, and to a flag.         *)
LEMMA TakesTheValue ==
  ASSUME NEW n, NEW name \in DOMAIN Valued, NEW text,
         ParseArgument, i = n + 1, n \in Nat, HasValue(cmd, n, name, text)
  PROVE  /\ opt' = [opt EXCEPT ![Valued[name]] = Value(Valued[name], text)]
         /\ i' = n + 3 /\ UNCHANGED <<wish, by_hand, cmd, pc>>
  <1>1. cmd[i] = name /\ cmd[i + 1] = text /\ n + 2 <= Len(cmd)
    BY DEF HasValue
  <1>2. name \notin DOMAIN Flags
    BY OptionTables
  <1>3. Len(cmd) \in Nat => TakesValue
    BY <1>1 DEF TakesValue
  <1>4. TakesValue
    BY <1>1 DEF TakesValue, ParseArgument
  <1>5. QED
    BY <1>1, <1>2, <1>4 DEF ParseArgument, started

LEMMA TakesTheFlag ==
  ASSUME NEW n, NEW name \in DOMAIN Flags,
         ParseArgument, i = n + 1, n \in Nat, HasFlag(cmd, n, name)
  PROVE  /\ opt' = [opt EXCEPT ![Flags[name]] = TRUE]
         /\ i' = n + 2 /\ UNCHANGED <<wish, by_hand, cmd, pc>>
  <1>1. cmd[i] = name
    BY DEF HasFlag
  <1>2. name \notin DOMAIN Valued
    BY OptionTables
  <1>3. ~TakesValue
    BY <1>1, <1>2 DEF TakesValue
  <1>4. QED
    BY <1>1, <1>3 DEF ParseArgument, started

(* One more option gathered.                                               *)
LEMMA ParsedNext ==
  ASSUME NEW w \in Wishes, NEW o \in Options
  PROVE  /\ Parsed(o, w, 0) => Parsed([o EXCEPT !.sample = w.sample], w, 1)
         /\ Parsed(o, w, 1) => Parsed([o EXCEPT !.max_calls = Wcstoull[w.max_calls]], w, 2)
         /\ w.with_stack_args /\ Parsed(o, w, 2) =>
              Parsed([o EXCEPT !.with_stack_args = TRUE], w, 3)
         /\ Parsed(o, w, 3) => Parsed([o EXCEPT !.win32_index = w.win32_index], w, 4)
         /\ w.no_metadata /\ Parsed(o, w, 4) =>
              Parsed([o EXCEPT !.no_metadata = TRUE], w, 5)
         /\ ~NoNumber(w.max_buffer) /\ Parsed(o, w, 5) =>
              Parsed([o EXCEPT !.max_buffer = Wcstoull[w.max_buffer]], w, 6)
  <1>b. /\ w.with_stack_args => w.with_stack_args = TRUE
        /\ w.no_metadata => w.no_metadata = TRUE
    BY PipelineAssumption, Zenon DEF Wish
  <1>1. Parsed(o, w, 0) => Parsed([o EXCEPT !.sample = w.sample], w, 1)
    BY DEF Parsed, Options
  <1>2. Parsed(o, w, 1) => Parsed([o EXCEPT !.max_calls = Wcstoull[w.max_calls]], w, 2)
    BY DEF Parsed, Options
  <1>3. w.with_stack_args /\ Parsed(o, w, 2) =>
          Parsed([o EXCEPT !.with_stack_args = TRUE], w, 3)
    BY <1>b DEF Parsed, Options
  <1>4. Parsed(o, w, 3) => Parsed([o EXCEPT !.win32_index = w.win32_index], w, 4)
    BY DEF Parsed, Options
  <1>5. w.no_metadata /\ Parsed(o, w, 4) => Parsed([o EXCEPT !.no_metadata = TRUE], w, 5)
    BY <1>b DEF Parsed, Options
  <1>6. ~NoNumber(w.max_buffer) /\ Parsed(o, w, 5) =>
          Parsed([o EXCEPT !.max_buffer = Wcstoull[w.max_buffer]], w, 6)
    BY DEF Parsed, Options
  <1>7. QED
    BY <1>1, <1>2, <1>3, <1>4, <1>5, <1>6

(* An option that was not asked for is as gathered.                        *)
LEMMA ParsedSame ==
  ASSUME NEW w \in Wishes, NEW o
  PROVE  /\ w.sample = NoText /\ Parsed(o, w, 0) => Parsed(o, w, 1)
         /\ NoNumber(w.max_calls) /\ Parsed(o, w, 1) => Parsed(o, w, 2)
         /\ ~w.with_stack_args /\ Parsed(o, w, 2) => Parsed(o, w, 3)
         /\ w.win32_index = NoText /\ Parsed(o, w, 3) => Parsed(o, w, 4)
         /\ ~w.no_metadata /\ Parsed(o, w, 4) => Parsed(o, w, 5)
         /\ NoNumber(w.max_buffer) /\ Parsed(o, w, 5) => Parsed(o, w, 6)
  <1>z. NoNumber(w.max_calls) => Wcstoull[w.max_calls] = 0
    BY PipelineAssumption, Zenon DEF NoNumber
  <1>b. /\ ~w.with_stack_args => w.with_stack_args # TRUE
        /\ ~w.no_metadata => w.no_metadata # TRUE
    BY Zenon
  <1>1. w.sample = NoText /\ Parsed(o, w, 0) => Parsed(o, w, 1)
    BY DEF Parsed
  <1>2. NoNumber(w.max_calls) /\ Parsed(o, w, 1) => Parsed(o, w, 2)
    BY <1>z DEF Parsed
  <1>3. ~w.with_stack_args /\ Parsed(o, w, 2) => Parsed(o, w, 3)
    BY <1>b DEF Parsed
  <1>4. w.win32_index = NoText /\ Parsed(o, w, 3) => Parsed(o, w, 4)
    BY DEF Parsed
  <1>5. ~w.no_metadata /\ Parsed(o, w, 4) => Parsed(o, w, 5)
    BY <1>b DEF Parsed
  <1>6. NoNumber(w.max_buffer) /\ Parsed(o, w, 5) => Parsed(o, w, 6)
    BY DEF Parsed
  <1>7. QED
    BY <1>1, <1>2, <1>3, <1>4, <1>5, <1>6
(* From one option of the driver to the next: nothing to do, or a turn.    *)
LEMMA OptionTurn ==
  ASSUME TypeOK, ParseArgument, NEW p, NEW q, NEW n, NEW m, NEW name \in DOMAIN Valued,
         NEW text, Len(p) \in Nat, OptionAt(cmd, p, q, name, text), At(p, n, wish, i, opt),
         Valued[name] \notin {"trace", "dump_sig"},
         text = NoText /\ Parsed(opt, wish, n) => Parsed(opt, wish, m),
         Parsed(opt, wish, n) =>
           Parsed([opt EXCEPT ![Valued[name]] = Value(Valued[name], text)], wish, m)
  PROVE  At(q, m, wish, i, opt) \/ At(q, m, wish, i', opt')
  <1>1. CASE text = NoText
    <2>1. Len(q) = Len(p)
      BY <1>1, Zenon DEF OptionAt, NoText
    <2>2. QED
      BY <1>1, <2>1 DEF At
  <1>2. CASE text # NoText
    <2>1. Len(q) = Len(p) + 2 /\ HasValue(cmd, Len(p), name, text)
      BY <1>2, Zenon DEF OptionAt, NoText
    <2>2. i = Len(p) + 1
      BY DEF At
    <2>3. /\ opt' = [opt EXCEPT ![Valued[name]] = Value(Valued[name], text)]
          /\ i' = Len(p) + 3
      BY <2>1, <2>2, TakesTheValue
    <2>4. i' = Len(q) + 1
      BY <2>1, <2>3
    <2>5. Misled(opt, wish) => Misled(opt', wish)
      BY <2>3 DEF Misled, TypeOK, Options
    <2>6. QED
      BY <2>3, <2>4, <2>5 DEF At
  <1>3. QED
    BY <1>1, <1>2

LEMMA NumberTurn ==
  ASSUME TypeOK, ParseArgument, NEW p, NEW q, NEW n, NEW m, NEW name \in DOMAIN Valued,
         NEW text, Len(p) \in Nat, NumberAt(cmd, p, q, name, text), At(p, n, wish, i, opt),
         Valued[name] \notin {"trace", "dump_sig"},
         NoNumber(text) /\ Parsed(opt, wish, n) => Parsed(opt, wish, m),
         ~NoNumber(text) /\ Parsed(opt, wish, n) =>
           Parsed([opt EXCEPT ![Valued[name]] = Value(Valued[name], text)], wish, m)
  PROVE  At(q, m, wish, i, opt) \/ At(q, m, wish, i', opt')
  <1>1. CASE NoNumber(text)
    <2>1. Len(q) = Len(p)
      BY <1>1, Zenon DEF NumberAt, NoNumber
    <2>2. QED
      BY <1>1, <2>1 DEF At
  <1>2. CASE ~NoNumber(text)
    <2>1. Len(q) = Len(p) + 2 /\ HasValue(cmd, Len(p), name, text)
      BY <1>2, Zenon DEF NumberAt, NoNumber
    <2>2. i = Len(p) + 1
      BY DEF At
    <2>3. /\ opt' = [opt EXCEPT ![Valued[name]] = Value(Valued[name], text)]
          /\ i' = Len(p) + 3
      BY <2>1, <2>2, TakesTheValue
    <2>4. i' = Len(q) + 1
      BY <2>1, <2>3
    <2>5. Misled(opt, wish) => Misled(opt', wish)
      BY <2>3 DEF Misled, TypeOK, Options
    <2>6. QED
      BY <1>2, <2>3, <2>4, <2>5 DEF At
  <1>3. QED
    BY <1>1, <1>2

LEMMA FlagTurn ==
  ASSUME TypeOK, ParseArgument, NEW p, NEW q, NEW n, NEW m, NEW name \in DOMAIN Flags,
         NEW wanted, Len(p) \in Nat, FlagAt(cmd, p, q, name, wanted), At(p, n, wish, i, opt),
         ~wanted /\ Parsed(opt, wish, n) => Parsed(opt, wish, m),
         wanted /\ Parsed(opt, wish, n) => Parsed([opt EXCEPT ![Flags[name]] = TRUE], wish, m)
  PROVE  At(q, m, wish, i, opt) \/ At(q, m, wish, i', opt')
  <1>1. CASE ~wanted
    <2>1. Len(q) = Len(p)
      BY <1>1, Zenon DEF FlagAt
    <2>2. QED
      BY <1>1, <2>1 DEF At
  <1>2. CASE wanted
    <2>1. Len(q) = Len(p) + 1 /\ HasFlag(cmd, Len(p), name)
      BY <1>2, Zenon DEF FlagAt
    <2>2. i = Len(p) + 1
      BY DEF At
    <2>3. /\ opt' = [opt EXCEPT ![Flags[name]] = TRUE]
          /\ i' = Len(p) + 2
      BY <2>1, <2>2, TakesTheFlag
    <2>4. i' = Len(q) + 1
      BY <2>1, <2>3
    <2>5. Flags[name] \notin {"trace", "dump_sig"}
      BY OptionTables
    <2>6. Misled(opt, wish) => Misled(opt', wish)
      BY <2>3, <2>5 DEF Misled, TypeOK, Options
    <2>7. QED
      BY <1>2, <2>3, <2>4, <2>6 DEF At
  <1>3. QED
    BY <1>1, <1>2

(* The six options of the driver, in its order.                            *)
LEMMA OptionTurns ==
  ASSUME TypeOK, ParseArgument, Laid(wish, cmd)
  PROVE  /\ At(P0(wish), 0, wish, i, opt) =>
              At(P1(wish), 1, wish, i, opt) \/ At(P1(wish), 1, wish, i', opt')
         /\ At(P1(wish), 1, wish, i, opt) =>
              At(P2(wish), 2, wish, i, opt) \/ At(P2(wish), 2, wish, i', opt')
         /\ At(P2(wish), 2, wish, i, opt) =>
              At(P3(wish), 3, wish, i, opt) \/ At(P3(wish), 3, wish, i', opt')
         /\ At(P3(wish), 3, wish, i, opt) =>
              At(P4(wish), 4, wish, i, opt) \/ At(P4(wish), 4, wish, i', opt')
         /\ At(P4(wish), 4, wish, i, opt) =>
              At(P5(wish), 5, wish, i, opt) \/ At(P5(wish), 5, wish, i', opt')
         /\ At(P5(wish), 5, wish, i, opt) =>
              At(P6(wish), 6, wish, i, opt) \/ At(P6(wish), 6, wish, i', opt')
  <1>0. wish \in Wishes /\ opt \in Options
    BY DEF TypeOK
  <1>1. /\ Len(P0(wish)) \in Nat /\ Len(P1(wish)) \in Nat /\ Len(P2(wish)) \in Nat
        /\ Len(P3(wish)) \in Nat /\ Len(P4(wish)) \in Nat /\ Len(P5(wish)) \in Nat
    BY <1>0, PiecesType, LenProperties
  <1>2. \A text : Value("sample", text) = text /\ Value("win32_index", text) = text
                  /\ Value("max_calls", text) = Wcstoull[text]
                  /\ Value("max_buffer", text) = Wcstoull[text]
    BY DEF Value
  <1>3. /\ "--sample" \in DOMAIN Valued /\ "--max-calls" \in DOMAIN Valued
        /\ "--win32-index" \in DOMAIN Valued /\ "--max-buffer" \in DOMAIN Valued
        /\ "--with-stack-args" \in DOMAIN Flags /\ "--no-metadata" \in DOMAIN Flags
    BY OptionTables
  <1>4. /\ OptionAt(cmd, P0(wish), P1(wish), "--sample", wish.sample)
        /\ NumberAt(cmd, P1(wish), P2(wish), "--max-calls", wish.max_calls)
        /\ FlagAt(cmd, P2(wish), P3(wish), "--with-stack-args", wish.with_stack_args)
        /\ OptionAt(cmd, P3(wish), P4(wish), "--win32-index", wish.win32_index)
        /\ FlagAt(cmd, P4(wish), P5(wish), "--no-metadata", wish.no_metadata)
        /\ NumberAt(cmd, P5(wish), P6(wish), "--max-buffer", wish.max_buffer)
    BY Zenon DEF Laid
  <1>5. /\ wish.sample = NoText /\ Parsed(opt, wish, 0) => Parsed(opt, wish, 1)
        /\ NoNumber(wish.max_calls) /\ Parsed(opt, wish, 1) => Parsed(opt, wish, 2)
        /\ ~wish.with_stack_args /\ Parsed(opt, wish, 2) => Parsed(opt, wish, 3)
        /\ wish.win32_index = NoText /\ Parsed(opt, wish, 3) => Parsed(opt, wish, 4)
        /\ ~wish.no_metadata /\ Parsed(opt, wish, 4) => Parsed(opt, wish, 5)
        /\ NoNumber(wish.max_buffer) /\ Parsed(opt, wish, 5) => Parsed(opt, wish, 6)
    BY <1>0, ParsedSame, Zenon
  <1>6. ASSUME At(P0(wish), 0, wish, i, opt)
        PROVE  At(P1(wish), 1, wish, i, opt) \/ At(P1(wish), 1, wish, i', opt')
    <2>1. /\ Valued["--sample"] = "sample" /\ "sample" \notin {"trace", "dump_sig"}
          /\ Value("sample", wish.sample) = wish.sample
      BY <1>2, OptionTables
    <2>2. Parsed(opt, wish, 0) =>
            Parsed([opt EXCEPT !["sample"] = wish.sample], wish, 1)
      BY <1>0, ParsedNext, Zenon
    <2>3. Parsed(opt, wish, 0) =>
            Parsed([opt EXCEPT ![Valued["--sample"]] =
                      Value(Valued["--sample"], wish.sample)], wish, 1)
      BY <2>1, <2>2
    <2>4. QED
      BY <1>1, <1>3, <1>4, <1>5, <1>6, <2>1, <2>3, OptionTurn
  <1>7. ASSUME At(P1(wish), 1, wish, i, opt)
        PROVE  At(P2(wish), 2, wish, i, opt) \/ At(P2(wish), 2, wish, i', opt')
    <2>1. /\ Valued["--max-calls"] = "max_calls" /\ "max_calls" \notin {"trace", "dump_sig"}
          /\ Value("max_calls", wish.max_calls) = Wcstoull[wish.max_calls]
      BY <1>2, OptionTables
    <2>2. Parsed(opt, wish, 1) =>
            Parsed([opt EXCEPT !["max_calls"] = Wcstoull[wish.max_calls]], wish, 2)
      BY <1>0, ParsedNext, Zenon
    <2>3. ~NoNumber(wish.max_calls) /\ Parsed(opt, wish, 1) =>
            Parsed([opt EXCEPT ![Valued["--max-calls"]] =
                      Value(Valued["--max-calls"], wish.max_calls)], wish, 2)
      BY <2>1, <2>2
    <2>4. QED
      BY <1>1, <1>3, <1>4, <1>5, <1>7, <2>1, <2>3, NumberTurn
  <1>8. ASSUME At(P2(wish), 2, wish, i, opt)
        PROVE  At(P3(wish), 3, wish, i, opt) \/ At(P3(wish), 3, wish, i', opt')
    <2>1. Flags["--with-stack-args"] = "with_stack_args"
      BY OptionTables
    <2>2. wish.with_stack_args /\ Parsed(opt, wish, 2) =>
            Parsed([opt EXCEPT !["with_stack_args"] = TRUE], wish, 3)
      BY <1>0, ParsedNext, Zenon
    <2>3. wish.with_stack_args /\ Parsed(opt, wish, 2) =>
            Parsed([opt EXCEPT ![Flags["--with-stack-args"]] = TRUE], wish, 3)
      BY <2>1, <2>2
    <2>4. QED
      BY <1>1, <1>3, <1>4, <1>5, <1>8, <2>3, FlagTurn
  <1>9. ASSUME At(P3(wish), 3, wish, i, opt)
        PROVE  At(P4(wish), 4, wish, i, opt) \/ At(P4(wish), 4, wish, i', opt')
    <2>1. /\ Valued["--win32-index"] = "win32_index"
          /\ "win32_index" \notin {"trace", "dump_sig"}
          /\ Value("win32_index", wish.win32_index) = wish.win32_index
      BY <1>2, OptionTables
    <2>2. Parsed(opt, wish, 3) =>
            Parsed([opt EXCEPT !["win32_index"] = wish.win32_index], wish, 4)
      BY <1>0, ParsedNext, Zenon
    <2>3. Parsed(opt, wish, 3) =>
            Parsed([opt EXCEPT ![Valued["--win32-index"]] =
                      Value(Valued["--win32-index"], wish.win32_index)], wish, 4)
      BY <2>1, <2>2
    <2>4. QED
      BY <1>1, <1>3, <1>4, <1>5, <1>9, <2>1, <2>3, OptionTurn
  <1>10. ASSUME At(P4(wish), 4, wish, i, opt)
         PROVE  At(P5(wish), 5, wish, i, opt) \/ At(P5(wish), 5, wish, i', opt')
    <2>1. Flags["--no-metadata"] = "no_metadata"
      BY OptionTables
    <2>2. wish.no_metadata /\ Parsed(opt, wish, 4) =>
            Parsed([opt EXCEPT !["no_metadata"] = TRUE], wish, 5)
      BY <1>0, ParsedNext, Zenon
    <2>3. wish.no_metadata /\ Parsed(opt, wish, 4) =>
            Parsed([opt EXCEPT ![Flags["--no-metadata"]] = TRUE], wish, 5)
      BY <2>1, <2>2
    <2>4. QED
      BY <1>1, <1>3, <1>4, <1>5, <1>10, <2>3, FlagTurn
  <1>11. ASSUME At(P5(wish), 5, wish, i, opt)
         PROVE  At(P6(wish), 6, wish, i, opt) \/ At(P6(wish), 6, wish, i', opt')
    <2>1. /\ Valued["--max-buffer"] = "max_buffer" /\ "max_buffer" \notin {"trace", "dump_sig"}
          /\ Value("max_buffer", wish.max_buffer) = Wcstoull[wish.max_buffer]
      BY <1>2, OptionTables
    <2>2. ~NoNumber(wish.max_buffer) /\ Parsed(opt, wish, 5) =>
            Parsed([opt EXCEPT !["max_buffer"] = Wcstoull[wish.max_buffer]], wish, 6)
      BY <1>0, ParsedNext, Zenon
    <2>3. ~NoNumber(wish.max_buffer) /\ Parsed(opt, wish, 5) =>
            Parsed([opt EXCEPT ![Valued["--max-buffer"]] =
                      Value(Valued["--max-buffer"], wish.max_buffer)], wish, 6)
      BY <2>1, <2>2
    <2>4. QED
      BY <1>1, <1>3, <1>4, <1>5, <1>11, <2>1, <2>3, NumberTurn
  <1>12. QED
    BY <1>6, <1>7, <1>8, <1>9, <1>10, <1>11
(* Behind the last argument there is nothing left to do.                   *)
LEMMA NothingLeft ==
  ASSUME TypeOK, Laid(wish, cmd), i = Len(cmd) + 1
  PROVE  /\ At(P0(wish), 0, wish, i, opt) => At(P1(wish), 1, wish, i, opt)
         /\ At(P1(wish), 1, wish, i, opt) => At(P2(wish), 2, wish, i, opt)
         /\ At(P2(wish), 2, wish, i, opt) => At(P3(wish), 3, wish, i, opt)
         /\ At(P3(wish), 3, wish, i, opt) => At(P4(wish), 4, wish, i, opt)
         /\ At(P4(wish), 4, wish, i, opt) => At(P5(wish), 5, wish, i, opt)
         /\ At(P5(wish), 5, wish, i, opt) => At(P6(wish), 6, wish, i, opt)
  <1>0. wish \in Wishes /\ Len(cmd) \in Nat
    BY LenProperties DEF TypeOK
  <1>1. /\ Len(P0(wish)) \in Nat /\ Len(P1(wish)) \in Nat /\ Len(P2(wish)) \in Nat
        /\ Len(P3(wish)) \in Nat /\ Len(P4(wish)) \in Nat /\ Len(P5(wish)) \in Nat
    BY <1>0, PiecesType, LenProperties
  <1>2. \A p, n, name, text : Len(p) \in Nat /\ At(p, n, wish, i, opt) =>
          ~HasValue(cmd, Len(p), name, text) /\ ~HasFlag(cmd, Len(p), name)
    BY <1>0 DEF At, HasValue, HasFlag
  <1>3. /\ OptionAt(cmd, P0(wish), P1(wish), "--sample", wish.sample)
        /\ NumberAt(cmd, P1(wish), P2(wish), "--max-calls", wish.max_calls)
        /\ FlagAt(cmd, P2(wish), P3(wish), "--with-stack-args", wish.with_stack_args)
        /\ OptionAt(cmd, P3(wish), P4(wish), "--win32-index", wish.win32_index)
        /\ FlagAt(cmd, P4(wish), P5(wish), "--no-metadata", wish.no_metadata)
        /\ NumberAt(cmd, P5(wish), P6(wish), "--max-buffer", wish.max_buffer)
    BY Zenon DEF Laid
  <1>4. /\ wish.sample = NoText /\ Parsed(opt, wish, 0) => Parsed(opt, wish, 1)
        /\ NoNumber(wish.max_calls) /\ Parsed(opt, wish, 1) => Parsed(opt, wish, 2)
        /\ ~wish.with_stack_args /\ Parsed(opt, wish, 2) => Parsed(opt, wish, 3)
        /\ wish.win32_index = NoText /\ Parsed(opt, wish, 3) => Parsed(opt, wish, 4)
        /\ ~wish.no_metadata /\ Parsed(opt, wish, 4) => Parsed(opt, wish, 5)
        /\ NoNumber(wish.max_buffer) /\ Parsed(opt, wish, 5) => Parsed(opt, wish, 6)
    BY <1>0, ParsedSame, Zenon
  <1>5. At(P0(wish), 0, wish, i, opt) => At(P1(wish), 1, wish, i, opt)
    BY <1>1, <1>2, <1>3, <1>4, Zenon DEF At, OptionAt, NoText
  <1>6. At(P1(wish), 1, wish, i, opt) => At(P2(wish), 2, wish, i, opt)
    BY <1>1, <1>2, <1>3, <1>4, Zenon DEF At, NumberAt, NoNumber
  <1>7. At(P2(wish), 2, wish, i, opt) => At(P3(wish), 3, wish, i, opt)
    BY <1>1, <1>2, <1>3, <1>4, Zenon DEF At, FlagAt
  <1>8. At(P3(wish), 3, wish, i, opt) => At(P4(wish), 4, wish, i, opt)
    BY <1>1, <1>2, <1>3, <1>4, Zenon DEF At, OptionAt, NoText
  <1>9. At(P4(wish), 4, wish, i, opt) => At(P5(wish), 5, wish, i, opt)
    BY <1>1, <1>2, <1>3, <1>4, Zenon DEF At, FlagAt
  <1>10. At(P5(wish), 5, wish, i, opt) => At(P6(wish), 6, wish, i, opt)
    BY <1>1, <1>2, <1>3, <1>4, Zenon DEF At, NumberAt, NoNumber
  <1>11. QED
    BY <1>5, <1>6, <1>7, <1>8, <1>9, <1>10

LEMMA NothingGathered ==
  /\ NoOptions \in Options
  /\ NoOptions.trace = NoText /\ NoOptions.dump_sig = NoText
  /\ NoOptions.binary_output = NoText /\ NoOptions.sample = NoText
  /\ NoOptions.win32_index = NoText /\ NoOptions.max_calls = 0
  /\ NoOptions.with_stack_args = FALSE /\ NoOptions.no_metadata = FALSE
  /\ NoOptions.max_buffer = DefaultBuffer
  <1>1. NoOptions \in Options
    BY PipelineAssumption, ParserAssumption DEF NoOptions, Options
  <1>2. QED
    BY <1>1 DEF NoOptions, NoText

(* The first three arguments: the trace, and where the report goes.        *)
LEMMA FirstArguments ==
  ASSUME TypeOK, ParseArgument, Laid(wish, cmd), wish.trace \notin DOMAIN Valued, pc' = "parse"
  PROVE  /\ i = 1 /\ opt = NoOptions =>
              i' = 2 /\ OneArgument(opt', wish)
         /\ /\ i = 2
            /\ OneArgument(opt, wish)
            => At(P0(wish), 0, wish, i', opt')
  <1>0. wish \in Wishes /\ Len(cmd) \in Nat
    BY LenProperties DEF TypeOK
  <1>1. /\ Len(P0(wish)) = 3 /\ 3 <= Len(cmd)
        /\ cmd[1] = wish.trace /\ cmd[2] = "-o" /\ cmd[3] = ReportPath
    BY Zenon DEF Laid
  <1>2. ASSUME i = 1, opt = NoOptions
        PROVE  i' = 2 /\ OneArgument(opt', wish)
    <2>1. ~TakesValue /\ cmd[i] = wish.trace
      BY <1>1, <1>2 DEF TakesValue
    <2>2. ~Exit(1)
      BY DEF Exit, Stop
    <2>3. \/ /\ cmd[i] \in DOMAIN Flags
             /\ opt' = [opt EXCEPT ![Flags[cmd[i]]] = TRUE] /\ i' = i + 1
          \/ opt' = [opt EXCEPT !.trace = cmd[i]] /\ i' = i + 1
      BY <2>1, <2>2, Zenon DEF ParseArgument
    <2>4. i' = 2
      BY <1>2, <2>3
    <2>5. \/ /\ wish.trace \in DOMAIN Flags
             /\ opt' = [NoOptions EXCEPT ![Flags[wish.trace]] = TRUE]
          \/ opt' = [NoOptions EXCEPT !.trace = wish.trace]
      BY <1>2, <2>1, <2>3
    <2>6. QED
      BY <2>4, <2>5, Zenon DEF OneArgument
  <1>3. ASSUME i = 2,
               OneArgument(opt, wish)
        PROVE  At(P0(wish), 0, wish, i', opt')
    <2>1. HasValue(cmd, 1, "-o", ReportPath)
      BY <1>1 DEF HasValue
    <2>2. "-o" \in DOMAIN Valued /\ Valued["-o"] = "output"
      BY OptionTables
    <2>3. Value("output", ReportPath) = ReportPath
      BY DEF Value
    <2>4. /\ opt' = [opt EXCEPT ![Valued["-o"]] = Value(Valued["-o"], ReportPath)]
          /\ i' = 1 + 3
      <3>1. i = 1 + 1 /\ 1 \in Nat
        BY <1>3
      <3>2. QED
        BY <2>1, <2>2, <3>1, TakesTheValue
    <2>5. opt' = [opt EXCEPT !["output"] = ReportPath]
      BY <2>2, <2>3, <2>4
    <2>6. CASE opt = [NoOptions EXCEPT !.trace = wish.trace]
      <3>1. Parsed(opt', wish, 0)
        BY <2>5, <2>6, NothingGathered DEF Parsed, Options
      <3>2. QED
        BY <1>1, <2>4, <3>1 DEF At
    <2>7. CASE wish.trace \in DOMAIN Flags
               /\ opt = [NoOptions EXCEPT ![Flags[wish.trace]] = TRUE]
      <3>1. Flags[wish.trace] \notin {"trace", "dump_sig"}
        BY <2>7, OptionTables
      <3>2. Misled(opt', wish)
        BY <2>5, <2>7, <3>1, NothingGathered DEF Misled, Options
      <3>3. QED
        BY <1>1, <2>4, <3>2 DEF At
    <2>8. QED
      BY <1>3, <2>6, <2>7, Zenon DEF OneArgument
  <1>4. QED
    BY <1>2, <1>3

(* What the parser hands on.                                               *)
ArrivedInv ==
  ~by_hand /\ pc = "index" /\ wish.trace \notin DOMAIN Valued => Parsed(opt, wish, 6)

LEMMA ArgsTurn ==
  ASSUME TypeOK, CmdInv, ArgsInv, ParseArgument, pc' = "parse", ~by_hand
  PROVE  ArgsInv'
  <1> SUFFICES ASSUME wish.trace \notin DOMAIN Valued PROVE ArgsInv'
    BY DEF ArgsInv, ParseArgument, started, Valued
  <1>0. pc = "parse" /\ UNCHANGED <<wish, by_hand, cmd>> /\ i <= Len(cmd)
    BY DEF ParseArgument, started
  <1>1. Laid(wish, cmd)
    BY <1>0, CmdLaid DEF CmdInv, TypeOK
  <1>2. \/ i = 1 /\ opt = NoOptions
        \/ i = 2 /\ OneArgument(opt, wish)
        \/ At(P0(wish), 0, wish, i, opt) \/ At(P1(wish), 1, wish, i, opt)
        \/ At(P2(wish), 2, wish, i, opt) \/ At(P3(wish), 3, wish, i, opt)
        \/ At(P4(wish), 4, wish, i, opt) \/ At(P5(wish), 5, wish, i, opt)
        \/ At(P6(wish), 6, wish, i, opt)
    BY <1>0, Zenon DEF ArgsInv
  <1>3. ~At(P6(wish), 6, wish, i, opt)
    <2>1. Len(P6(wish)) = Len(cmd) /\ Len(cmd) \in Nat
      BY <1>1, LenProperties DEF Laid, TypeOK
    <2>2. QED
      BY <1>0, <2>1 DEF At
  <1>4. \/ i' = 2 /\ OneArgument(opt', wish)
        \/ At(P0(wish), 0, wish, i', opt') \/ At(P1(wish), 1, wish, i', opt')
        \/ At(P2(wish), 2, wish, i', opt') \/ At(P3(wish), 3, wish, i', opt')
        \/ At(P4(wish), 4, wish, i', opt') \/ At(P5(wish), 5, wish, i', opt')
        \/ At(P6(wish), 6, wish, i', opt')
    BY <1>1, <1>2, <1>3, FirstArguments, OptionTurns, Zenon
  <1>5. /\ P0(wish') = P0(wish) /\ P1(wish') = P1(wish) /\ P2(wish') = P2(wish)
        /\ P3(wish') = P3(wish) /\ P4(wish') = P4(wish) /\ P5(wish') = P5(wish)
        /\ P6(wish') = P6(wish) /\ wish' = wish
    BY <1>0
  <1>6. QED
    BY <1>4, <1>5, Zenon DEF ArgsInv, Flags, NoOptions

LEMMA ArgsEnd ==
  ASSUME TypeOK, CmdInv, ArgsInv, ParseEnds, pc' = "index", ~by_hand
  PROVE  ArrivedInv'
  <1> SUFFICES ASSUME wish.trace \notin DOMAIN Valued PROVE ArrivedInv'
    BY DEF ArrivedInv, ParseEnds, started, Valued
  <1>0. /\ pc = "parse" /\ UNCHANGED <<wish, by_hand, cmd, opt, i>> /\ i > Len(cmd)
        /\ ~Exit(1)
    BY DEF ParseEnds, started, Exit, Stop
  <1>1. Laid(wish, cmd)
    BY <1>0, CmdLaid DEF CmdInv, TypeOK
  <1>2. i = Len(cmd) + 1 /\ i \notin {1, 2}
    <2>1. Len(cmd) \in Nat /\ 3 <= Len(cmd) /\ i \in 1..(Len(cmd) + 1)
      BY <1>1, LenProperties DEF Laid, TypeOK
    <2>2. QED
      BY <1>0, <2>1
  <1>3. At(P6(wish), 6, wish, i, opt)
    <2>1. \/ At(P0(wish), 0, wish, i, opt) \/ At(P1(wish), 1, wish, i, opt)
          \/ At(P2(wish), 2, wish, i, opt) \/ At(P3(wish), 3, wish, i, opt)
          \/ At(P4(wish), 4, wish, i, opt) \/ At(P5(wish), 5, wish, i, opt)
          \/ At(P6(wish), 6, wish, i, opt)
      <3>1. i # 1 /\ i # 2
        BY <1>2
      <3>2. QED
        BY <1>0, <3>1, Zenon DEF ArgsInv
    <2>2. QED
      BY <1>1, <1>2, <2>1, NothingLeft, Zenon
  <1>4. ~Misled(opt, wish)
    BY <1>0, Zenon DEF ParseEnds, Misled, NoText
  <1>5. Parsed(opt, wish, 6)
    BY <1>3, <1>4, Zenon DEF At
  <1>6. QED
    BY <1>0, <1>5 DEF ArrivedInv, Parsed, NoNumber, NoText

LEMMA ArgsStep ==
  CmdInv /\ ArgsInv /\ ArrivedInv /\ [Next]_vars => ArgsInv' /\ ArrivedInv'
  <1> SUFFICES ASSUME CmdInv, ArgsInv, ArrivedInv, [Next]_vars
               PROVE  ArgsInv' /\ ArrivedInv'
    OBVIOUS
  <1>0. TypeOK
    BY DEF CmdInv
  <1>1. CASE UNCHANGED vars
    <2>1. UNCHANGED <<wish, by_hand, pc, i, opt>>
      BY <1>1 DEF vars, started, extractor
    <2>2. ArgsInv'
      <3>1. /\ P0(wish') = P0(wish) /\ P1(wish') = P1(wish) /\ P2(wish') = P2(wish)
            /\ P3(wish') = P3(wish) /\ P4(wish') = P4(wish) /\ P5(wish') = P5(wish)
            /\ P6(wish') = P6(wish)
        BY <2>1
      <3>2. QED
        BY <2>1, <3>1, Zenon DEF ArgsInv, Flags, NoOptions, Valued
    <2>3. ArrivedInv'
      BY <2>1, Zenon DEF ArrivedInv, Parsed, Valued, NoNumber, NoText
    <2>4. QED
      BY <2>2, <2>3
  <1>2. CASE ParseArgument
    <2>1. pc' # "index" /\ by_hand' = by_hand
      BY <1>2 DEF ParseArgument, Exit, Stop, started
    <2>2. ArrivedInv'
      BY <2>1 DEF ArrivedInv
    <2>3. CASE pc' = "parse" /\ ~by_hand
      BY <1>0, <1>2, <2>2, <2>3, ArgsTurn
    <2>4. CASE ~(pc' = "parse" /\ ~by_hand)
      BY <2>1, <2>2, <2>4 DEF ArgsInv
    <2>5. QED
      BY <2>3, <2>4
  <1>3. CASE ParseEnds
    <2>1. pc' # "parse" /\ by_hand' = by_hand
      BY <1>3 DEF ParseEnds, Exit, Stop, started
    <2>2. ArgsInv'
      BY <2>1 DEF ArgsInv
    <2>3. CASE pc' = "index" /\ ~by_hand
      BY <1>0, <1>3, <2>2, <2>3, ArgsEnd
    <2>4. CASE ~(pc' = "index" /\ ~by_hand)
      BY <2>1, <2>2, <2>4 DEF ArrivedInv
    <2>5. QED
      BY <2>3, <2>4
  <1>4. CASE CallExtractor
    <2>1. pc = "try" /\ pc' = "parse" /\ UNCHANGED <<wish, by_hand, i, opt>>
      BY <1>4 DEF CallExtractor, started
    <2>2. ~by_hand => i' = 1 /\ opt' = NoOptions
      BY <2>1 DEF CmdInv
    <2>3. ArgsInv'
      BY <2>1, <2>2 DEF ArgsInv, NoOptions
    <2>4. ArrivedInv'
      BY <2>1 DEF ArrivedInv
    <2>5. QED
      BY <2>3, <2>4
  <1>5. CASE \/ CheckInputs \/ FindExtractor \/ MakeFile \/ EnterTry \/ RunCapa \/ CapaEnds
             \/ CleanUp \/ Interrupt
    <2>1. pc' # "parse" /\ pc' # "index"
      BY <1>5 DEF CheckInputs, FindExtractor, MakeFile, EnterTry, RunCapa, CapaEnds, CleanUp,
         Interrupt, Stop
    <2>2. QED
      BY <2>1 DEF ArgsInv, ArrivedInv
  <1>6. CASE \/ LoadIndex \/ MakeEngine \/ OpenTrace \/ Sweep \/ WriteBinary \/ OpenReport
             \/ PutReport \/ Die
    <2>1. pc' # "parse" /\ pc' # "index"
      BY <1>6 DEF LoadIndex, MakeEngine, OpenTrace, Sweep, WriteBinary, OpenReport, PutReport,
         Die, Exit, Stop
    <2>2. QED
      BY <2>1 DEF ArgsInv, ArrivedInv
  <1>7. QED
    BY <1>1, <1>2, <1>3, <1>4, <1>5, <1>6 DEF Next, DriverNext, ExtractorNext

(* What the driver was asked for is what the extractor does, for every     *)
(* wish: the command line the one builds says to the other's parser what   *)
(* was meant, whichever of the options are there.                          *)
THEOREM PipelineOptions == Spec => []OptionsArrive
  <1>1. Init => ArgsInv /\ ArrivedInv
    <2>1. Init => (~by_hand => pc = "check") /\ (by_hand => pc = "parse")
      BY DEF Init
    <2>2. QED
      BY <2>1 DEF ArgsInv, ArrivedInv
  <1>2. CmdInv /\ ArrivedInv => OptionsArrive
    <2> SUFFICES ASSUME CmdInv, ArrivedInv, ~by_hand, pc = "index",
                        wish.trace \notin DOMAIN Valued
                 PROVE  /\ opt.trace = wish.trace
                        /\ opt.output = ReportPath
                        /\ opt.sample = wish.sample
                        /\ opt.win32_index = wish.win32_index
                        /\ opt.max_calls = Wcstoull[wish.max_calls]
                        /\ opt.max_buffer = IF wish.max_buffer \in {"", "0"} THEN DefaultBuffer
                                            ELSE Wcstoull[wish.max_buffer]
                        /\ opt.no_metadata = wish.no_metadata
                        /\ opt.with_stack_args = wish.with_stack_args
                        /\ opt.dump_sig = "" /\ opt.binary_output = ""
      BY DEF OptionsArrive
    <2>1. Parsed(opt, wish, 6)
      BY DEF ArrivedInv
    <2>2. /\ opt.with_stack_args \in BOOLEAN /\ opt.no_metadata \in BOOLEAN
          /\ wish.with_stack_args \in BOOLEAN /\ wish.no_metadata \in BOOLEAN
      BY PipelineAssumption, Zenon DEF CmdInv, TypeOK, Options, Wish
    <2>3. /\ opt.with_stack_args = TRUE <=> wish.with_stack_args = TRUE
          /\ opt.no_metadata = TRUE <=> wish.no_metadata = TRUE
      BY <2>1 DEF Parsed
    <2>4. /\ opt.no_metadata = wish.no_metadata
          /\ opt.with_stack_args = wish.with_stack_args
      BY <2>2, <2>3, Zenon
    <2>5. /\ opt.trace = wish.trace /\ opt.output = ReportPath
          /\ opt.sample = wish.sample /\ opt.win32_index = wish.win32_index
          /\ opt.max_calls = Wcstoull[wish.max_calls]
          /\ opt.max_buffer = IF NoNumber(wish.max_buffer) THEN DefaultBuffer
                              ELSE Wcstoull[wish.max_buffer]
          /\ opt.dump_sig = NoText /\ opt.binary_output = NoText
      BY <2>1 DEF Parsed
    <2>6. QED
      BY <2>4, <2>5, Zenon DEF NoNumber, NoText
  <1>3. QED
    BY <1>1, <1>2, PipelineInvInit, PipelineInvStep, CmdInvInit, CmdInvStep, ArgsStep, PTL
    DEF Spec
=============================================================================
