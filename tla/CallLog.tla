------------------------------ MODULE CallLog ------------------------------
(***************************************************************************)
(* What the execution sweep promises to whoever reads its report: a log of *)
(* API calls.  A call enters the log once, at its end, as an open call.    *)
(* It is completed at most once, and the open calls of one thread are      *)
(* completed innermost first.  Nothing else about a logged call changes,   *)
(* and no call leaves the log.                                             *)
(*                                                                         *)
(* CallSweep implements this specification: its variable calls is the log  *)
(* (ReportedLog there is the refinement mapping).                          *)
(***************************************************************************)
EXTENDS Naturals, Sequences

CONSTANTS
  Threads,    \* the recorded process's threads, by TTD UniqueThreadId
  Apis,       \* the exports a call may be logged for
  Limit       \* the most calls the log may hold, 0 for no limit

(* What the sweep has reported so far, oldest call first: the thread, the  *)
(* export, and whether the return was seen.                                *)
VARIABLE log

Init == log = <<>>

(* The calls of thread t whose return has not been seen.                   *)
Open(t) == {i \in DOMAIN log : log[i].tid = t /\ ~log[i].done}

(* Thread t calls api and the call is logged.                              *)
Record(t, api) ==
  /\ Limit # 0 => Len(log) < Limit
  /\ log' = Append(log, [tid |-> t, api |-> api, done |-> FALSE])

(* Thread t's innermost open call returns.                                 *)
Complete(t) ==
  \E i \in Open(t) :
    /\ \A j \in Open(t) : j <= i
    /\ log' = [log EXCEPT ![i].done = TRUE]

Next ==
  \E t \in Threads :
    \/ \E api \in Apis : Record(t, api)
    \/ Complete(t)

Spec == Init /\ [][Next]_log
============================================================================
