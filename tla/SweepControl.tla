---------------------------- MODULE SweepControl ----------------------------
(***************************************************************************)
(* The life of the sweep in wmain (ttd/src/main.cpp): the main thread      *)
(* publishes its cursor, may start a watcher that reads stdin, replays,    *)
(* withdraws the cursor and writes the report.  A line that begins with    *)
(* "cancel" makes the watcher interrupt the replay, at any moment.         *)
(*                                                                         *)
(* While the main thread is in ReplayForward the steps are those of        *)
(* CallSweep; the replay engine and stdin are the environment.             *)
(***************************************************************************)
EXTENDS CallSweep

VARIABLES
  main,           \* where the main thread is
  watcher,        \* where the stdin watcher is
  cursor,         \* is g_replayingCursor non-null?
  interrupt,      \* the engine has a request to stop the replay
  stop_reason,    \* what ReplayForward returned
  cancel_dropped  \* history: it was read and found no cursor

control == <<main, watcher, cursor, interrupt, stop_reason, cancel_dropped>>

MainStates == {"prepared", "published", "ready", "replaying", "stopped",
               "withdrawn", "binary", "json", "returned"}

WatcherStates == {"none", "reading", "holding cursor", "finished"}

ControlTypeOK ==
  /\ main \in MainStates
  /\ watcher \in WatcherStates
  /\ cursor \in BOOLEAN
  /\ interrupt \in BOOLEAN
  /\ stop_reason \in {"none", "end", "interrupted"}
  /\ cancel_dropped \in BOOLEAN

ControlInit ==
  /\ Init
  /\ main = "prepared"
  /\ watcher = "none"
  /\ cursor = FALSE
  /\ interrupt = FALSE
  /\ stop_reason = "none"
  /\ cancel_dropped = FALSE
----------------------------------------------------------------------------
(* The main thread goes from one point to the next.                        *)
Goto(from, to) == main = from /\ main' = to

MutPublish ==
  /\ Goto("prepared", "published")
  /\ UNCHANGED cursor

(* g_replayingCursor.store(sweep.get()).                                   *)
Publish ==
  /\ Goto("prepared", "published")
  /\ cursor' = TRUE

StartPublishing ==
  /\ Publish
  /\ UNCHANGED <<vars, watcher, interrupt, stop_reason, cancel_dropped>>

(* The watcher is started, and detached, under --cancel-on-stdin only.     *)
StartWatcher ==
  /\ Goto("published", "ready")
  /\ watcher' \in {"none", "reading"}
  /\ UNCHANGED <<vars, cursor, interrupt, stop_reason, cancel_dropped>>

(* ReplayForward is entered.  Whether a request made before that is still  *)
(* there is the engine's affair: see WatcherInterrupts.                    *)
BeginReplay ==
  /\ Goto("ready", "replaying")
  /\ UNCHANGED <<vars, watcher, cursor, interrupt, stop_reason, cancel_dropped>>

(* The engine replays an event, or the guest moves between two of them.    *)
Replay ==
  /\ main = "replaying"
  /\ Next
  /\ UNCHANGED control

(* ReplayForward returns.  The trace may end after any event, and a        *)
(* request is noticed some time after it was made.                         *)
EndReplay(reason) ==
  /\ Goto("replaying", "stopped")
  /\ reason = "interrupted" => interrupt
  /\ stop_reason' = reason
  /\ UNCHANGED <<vars, watcher, cursor, interrupt, cancel_dropped>>

(* g_replayingCursor.store(nullptr).                                       *)
Withdraw ==
  /\ Goto("stopped", "withdrawn")
  /\ cursor' = FALSE
  /\ UNCHANGED <<vars, watcher, interrupt, stop_reason, cancel_dropped>>

MutMayReturn == watcher \in {"none", "finished"}

(* wmain does not wait for the watcher, which may be parked in getline.    *)
MayReturn == TRUE

(* The reports are written, each one if it was asked for, and wmain        *)
(* returns 0 whatever becomes of them.                                     *)
WriteReports ==
  /\ \/ Goto("withdrawn", "binary")
     \/ Goto("binary", "json")
     \/ Goto("json", "returned") /\ MayReturn
  /\ UNCHANGED <<vars, watcher, cursor, interrupt, stop_reason, cancel_dropped>>

MainNext ==
  \/ StartPublishing
  \/ StartWatcher
  \/ BeginReplay
  \/ Replay
  \/ \E reason \in {"end", "interrupted"} : EndReplay(reason)
  \/ Withdraw
  \/ WriteReports
----------------------------------------------------------------------------
(* Does a line of stdin ask for the replay to stop?                        *)
IsCancel(text) == text = "cancel"

(* getline returns a line, and the watcher looks for the cursor if it asks *)
(* to stop.  Any other line is passed over.                                *)
WatcherReads(text) ==
  /\ watcher = "reading"
  /\ IF IsCancel(text)
       THEN /\ watcher' = IF cursor THEN "holding cursor" ELSE "finished"
            /\ cancel_dropped' = ~cursor
       ELSE UNCHANGED <<watcher, cancel_dropped>>
  /\ UNCHANGED <<vars, main, cursor, interrupt, stop_reason>>

(* stdin is closed.                                                        *)
WatcherAtEof ==
  /\ watcher = "reading"
  /\ watcher' = "finished"
  /\ UNCHANGED <<vars, main, cursor, interrupt, stop_reason, cancel_dropped>>

(* InterruptReplay on the pointer read before.  During ReplayForward it    *)
(* makes a request.  The source does not say what the engine does with one *)
(* made to an idle cursor, so it may remember or ignore it.                *)
WatcherInterrupts ==
  /\ watcher = "holding cursor"
  /\ watcher' = "finished"
  /\ interrupt' \in IF main = "replaying" THEN {TRUE} ELSE {TRUE, interrupt}
  /\ UNCHANGED <<vars, main, cursor, stop_reason, cancel_dropped>>

(* The process is gone once wmain has returned, and the watcher with it.   *)
WatcherNext ==
  /\ main # "returned"
  /\ \/ \E text \in {"cancel", "other"} : WatcherReads(text)
     \/ WatcherAtEof
     \/ WatcherInterrupts

ControlNext == MainNext \/ WatcherNext

ControlVars == <<vars, control>>

(* The main thread runs whenever it can.  Nothing is assumed of the        *)
(* watcher, nor of whoever holds the other end of stdin.                   *)
ControlSpec ==
  ControlInit /\ [][ControlNext]_ControlVars /\ WF_ControlVars(MainNext)
----------------------------------------------------------------------------
(* The watcher gives up on a cancel for want of a cursor only when the     *)
(* replay is over: the cursor is published before the watcher can read     *)
(* (main.cpp:393-396), and withdrawn after ReplayForward returns (:413).   *)
NoCancelDroppedEarly ==
  cancel_dropped => main \notin {"prepared", "published", "ready", "replaying"}

(* The process ends, even when stdin stays open and nobody ever cancels.   *)
ProcessEnds == <>(main = "returned")
============================================================================
