----------------------------- MODULE CallSweep -----------------------------
(***************************************************************************)
(* The execution sweep of ttdcapa-extract (ttd/src/main.cpp): the replay   *)
(* engine plays a recorded trace and calls on_call_return at every CALL    *)
(* and RET instruction of the guest; the callback writes the call log.     *)
(*                                                                         *)
(* The guest is the environment.  Each thread has its real call stack,     *)
(* which the callback never sees: it is told the target, the fall-through  *)
(* address and the thread of one event at a time, and rebuilds the nesting *)
(* in in_flight.  The properties compare the two.                          *)
(***************************************************************************)
EXTENDS Naturals, Sequences, SequencesExt

CONSTANTS
  Threads,        \* UniqueThreadIds of the trace
  Exports,        \* keys of resolvedTraceModuleExports: VAs of known exports
  Others,         \* call targets that are no known export
  Described,      \* the exports the metadata index has a signature for
  Sites,          \* return addresses, one per call instruction of the guest
  CallsAt,        \* the targets the call instruction before a site can reach
  MaxCalls,       \* opt.max_calls, 0 for no limit
  CanUnwind,      \* may the guest drop frames without returning (longjmp, SEH)?
  FinalSequence,  \* sequence number of the trace's last position
  ProgressPeriod, \* events between two looks at the clock (1024 in the code)
  MaxPosition,    \* bound: positions of events are 0 .. MaxPosition
  MaxEvents       \* bound: events in the trace

Targets == Exports \cup Others

ASSUME SweepAssumption ==
  /\ Exports \cap Others = {}
  /\ Described \subseteq Exports
  /\ CallsAt \in [Sites -> SUBSET Targets]
  /\ MaxCalls \in Nat
  /\ CanUnwind \in BOOLEAN
  /\ FinalSequence \in Nat
  /\ ProgressPeriod \in Nat \ {0}
  /\ MaxPosition \in Nat
  /\ MaxEvents \in Nat

VARIABLES
  stack,        \* guest: the frames of each thread, innermost last
  at,           \* guest: the position each thread has reached
  returned,     \* guest: the logged calls whose frame has really returned
  calls,        \* g_report.process.calls
  in_flight,    \* per thread, the logged calls not seen to return yet
  seq,          \* number of the next record
  events_seen,  \* call and return events so far
  limit_hit,    \* did max_calls suppress a call?
  highest_pct,  \* largest percentage printed
  line          \* the last [progress] line

guest == <<stack, at, returned>>
progress == <<highest_pct, line>>
log == <<calls, in_flight, seq, limit_hit>>
vars == <<guest, progress, log, events_seen>>
----------------------------------------------------------------------------
(* How far a record's arguments are: captured on entry, by the heuristic   *)
(* or from a signature, or with [Out] parameters that wait for the return. *)
ArgStates == {"captured", "outs pending", "outs filled"}

(* What the entry pass can leave behind for a target.  Only a signature    *)
(* yields [Out] parameters; decodeArgs may still decline it, and the       *)
(* heuristic that takes over clears what it had postponed.                 *)
Decodings(x) ==
  {"captured"} \cup IF x \in Described THEN {"outs pending"} ELSE {}

(* A guest frame.  rec is the log index of the call that made it, 0 if it  *)
(* was not logged; below is the number of logged frames under it.          *)
Frame == [target : Targets, ret_addr : Sites, rec : Nat, below : Nat]

CallRecord ==
  [tid : Threads, seq : Nat, target : Targets, ret_addr : Sites,
   position : 0..MaxPosition, args : ArgStates, has_ret : BOOLEAN, ret : Nat]

InFlight == [ret_addr : Sites, call_index : Nat, pending : BOOLEAN]

MutPercent(p) == p

(* Percentages are in units of FinalSequence / 100, so that 100% is        *)
(* FinalSequence, and an empty trace is at 0 throughout.  The code does    *)
(* not rely on positions staying within the trace's last.                  *)
Percent(p) == IF p > FinalSequence THEN FinalSequence ELSE p

TypeOK ==
  /\ stack \in [Threads -> Seq(Frame)]
  /\ at \in [Threads -> 0..MaxPosition]
  /\ returned \in SUBSET Nat
  /\ calls \in Seq(CallRecord)
  /\ in_flight \in [Threads -> Seq(InFlight)]
  /\ seq \in Nat
  /\ events_seen \in 0..MaxEvents
  /\ limit_hit \in BOOLEAN
  /\ highest_pct \in 0..FinalSequence
  /\ line \in [pct : 0..FinalSequence, calls : Nat]

(* The sweep starts at Position::Min with every thread inside frames that  *)
(* were entered before the recording: stack lists only newer ones.         *)
Init ==
  /\ stack = [t \in Threads |-> <<>>]
  /\ at = [t \in Threads |-> 0]
  /\ returned = {}
  /\ calls = <<>>
  /\ in_flight = [t \in Threads |-> <<>>]
  /\ seq = 0
  /\ events_seen = 0
  /\ limit_hit = FALSE
  /\ highest_pct = 0
  /\ line = [pct |-> 0, calls |-> 0]
----------------------------------------------------------------------------
MutPrintProgress(p) ==
  /\ (events_seen + 1) % ProgressPeriod = 0
  /\ highest_pct' = Percent(p)
  /\ line' = [pct |-> highest_pct', calls |-> Len(calls)]

(* The head of the callback.  The clock decides whether an eligible event  *)
(* prints a line, so any subset of them may.                               *)
PrintProgress(p) ==
  /\ (events_seen + 1) % ProgressPeriod = 0
  /\ highest_pct' = IF Percent(p) < highest_pct THEN highest_pct ELSE Percent(p)
  /\ line' = [pct |-> highest_pct', calls |-> Len(calls)]

(* Thread t reports an event at position p.  A thread's own positions only *)
(* grow; those of different threads are not ordered.                       *)
Event(t, p) ==
  /\ events_seen < MaxEvents
  /\ events_seen' = events_seen + 1
  /\ p \in at[t]..MaxPosition
  /\ at' = [at EXCEPT ![t] = p]
  /\ PrintProgress(p) \/ UNCHANGED progress

(* Logged frames under a frame thread t would push now.                    *)
Below(t) ==
  IF stack[t] = <<>> THEN 0
  ELSE Last(stack[t]).below + (IF Last(stack[t]).rec = 0 THEN 0 ELSE 1)

(* Thread t enters target x, called from the instruction before site s.    *)
Push(t, x, s, rec) ==
  stack' = [stack EXCEPT ![t] =
    Append(@, [target |-> x, ret_addr |-> s, rec |-> rec, below |-> Below(t)])]

MutAtLimit == MaxCalls # 0 /\ Len(calls) > MaxCalls

AtLimit == MaxCalls # 0 /\ Len(calls) >= MaxCalls

(* A call whose target is no known export: skipped.                        *)
CallUnresolved(t, x, s, p) ==
  /\ x \in Others \cap CallsAt[s]
  /\ Event(t, p)
  /\ Push(t, x, s, 0)
  /\ UNCHANGED <<log, returned>>

(* A call of an export once max_calls is reached: noted and dropped.       *)
CallDropped(t, x, s, p) ==
  /\ x \in Exports \cap CallsAt[s]
  /\ AtLimit
  /\ Event(t, p)
  /\ Push(t, x, s, 0)
  /\ limit_hit' = TRUE
  /\ UNCHANGED <<calls, in_flight, seq, returned>>

(* A call of an export: a record, and an in-flight entry that names it.    *)
CallLogged(t, x, s, p, args) ==
  /\ x \in Exports \cap CallsAt[s]
  /\ ~AtLimit
  /\ Event(t, p)
  /\ Push(t, x, s, Len(calls) + 1)
  /\ seq' = seq + 1
  /\ in_flight' = [in_flight EXCEPT ![t] =
       Append(@, [ret_addr |-> s, call_index |-> Len(calls) + 1,
                  pending |-> args = "outs pending"])]
  /\ calls' = Append(calls,
       [tid |-> t, seq |-> seq, target |-> x, ret_addr |-> s, position |-> p,
        args |-> args, has_ret |-> FALSE, ret |-> 0])
  /\ UNCHANGED <<limit_hit, returned>>

MutNewestEntry(t) == Head(in_flight[t])

(* The entry a return is compared with: it.second.back().                  *)
NewestEntry(t) == Last(in_flight[t])

MutMatches(t, s) == in_flight[t] # <<>>

(* Does a return of thread t to address s close its newest entry?          *)
Matches(t, s) == in_flight[t] # <<>> /\ NewestEntry(t).ret_addr = s

MutFinished(record, top, v) == [record EXCEPT !.has_ret = TRUE, !.ret = v]

(* A record once its return is seen: the return value, and the [Out]       *)
(* parameters if some were waiting for it.                                 *)
Finished(record, top, v) ==
  [record EXCEPT !.has_ret = TRUE, !.ret = v,
                 !.args = IF top.pending THEN "outs filled" ELSE @]

MutClose(t, v) ==
  LET top == NewestEntry(t) IN
  /\ calls' = [calls EXCEPT ![top.call_index] = Finished(@, top, v)]
  /\ UNCHANGED <<in_flight, seq, limit_hit>>

(* The newest entry's record is finished and the entry popped.             *)
Close(t, v) ==
  LET top == NewestEntry(t) IN
  /\ calls' = [calls EXCEPT ![top.call_index] = Finished(@, top, v)]
  /\ in_flight' = [in_flight EXCEPT ![t] = Front(@)]
  /\ UNCHANGED <<seq, limit_hit>>

(* The callback on a RET of thread t to address s with return value v.     *)
OnReturn(t, s, v) ==
  \/ Matches(t, s) /\ Close(t, v)
  \/ ~Matches(t, s) /\ UNCHANGED log

(* Thread t's innermost frame returns.  Its return value is identified by  *)
(* the frame's own record, so a record that gets another frame's value     *)
(* shows it.                                                               *)
Return(t, p) ==
  /\ stack[t] # <<>>
  /\ LET frame == Last(stack[t]) IN
       /\ Event(t, p)
       /\ OnReturn(t, frame.ret_addr, frame.rec)
       /\ returned' = returned \cup ({frame.rec} \ {0})
  /\ stack' = [stack EXCEPT ![t] = Front(@)]

(* A frame entered before the recording began returns.                     *)
ReturnOld(t, s, p) ==
  /\ stack[t] = <<>>
  /\ Event(t, p)
  /\ OnReturn(t, s, 0)
  /\ UNCHANGED <<stack, returned>>

(* Control leaves n frames without returning from them: an exception is    *)
(* caught further out, longjmp, or the thread ends.  The engine reports no *)
(* event, so the callback does not run.                                    *)
Unwind(t, n) ==
  /\ CanUnwind
  /\ n \in 1..Len(stack[t])
  /\ stack' = [stack EXCEPT ![t] = SubSeq(@, 1, Len(@) - n)]
  /\ UNCHANGED <<at, returned, log, progress, events_seen>>

ThreadNext(t) ==
  \/ \E p \in 0..MaxPosition :
       \/ \E s \in Sites :
            \/ \E x \in Targets : CallUnresolved(t, x, s, p)
            \/ \E x \in Targets : CallDropped(t, x, s, p)
            \/ \E x \in Targets : \E args \in Decodings(x) : CallLogged(t, x, s, p, args)
            \/ ReturnOld(t, s, p)
       \/ Return(t, p)
  \/ \E n \in 1..MaxEvents : Unwind(t, n)

Next == \E t \in Threads : ThreadNext(t)

Spec == Init /\ [][Next]_vars
----------------------------------------------------------------------------
(* Entry k of thread t stands for an open record: one of this thread, with *)
(* the same return address and the same word on waiting outputs, and newer *)
(* than the record of any entry below.                                     *)
NamesOpenRecord(t, k) ==
  LET e == in_flight[t][k]
      record == calls[e.call_index]
  IN
  /\ e.call_index \in DOMAIN calls
  /\ record.tid = t
  /\ record.ret_addr = e.ret_addr
  /\ ~record.has_ret
  /\ e.pending <=> record.args = "outs pending"
  /\ \A j \in 1..(k - 1) : in_flight[t][j].call_index < e.call_index

(* Some entry of its thread stands for record i.                           *)
HasEntry(i) ==
  LET t == calls[i].tid IN
  \E k \in DOMAIN in_flight[t] : in_flight[t][k].call_index = i

(* The entries of a thread are exactly its records that have no return     *)
(* value yet, oldest first.  A pop too few, a pop too many or an entry in  *)
(* another thread's stack (main.cpp:343-369) would let one return          *)
(* overwrite a finished record, or strand an open one.                     *)
EntriesAreOpenRecords ==
  /\ \A t \in Threads : \A k \in DOMAIN in_flight[t] : NamesOpenRecord(t, k)
  /\ \A i \in DOMAIN calls : ~calls[i].has_ret => HasEntry(i)

(* [Out] parameters are filled in by the return that gives the call its    *)
(* return value: none is filled while the call is open, and none is left   *)
(* waiting once it has returned.                                           *)
OutputsComeWithReturn ==
  \A i \in DOMAIN calls :
    /\ calls[i].args = "outs pending" => ~calls[i].has_ret
    /\ calls[i].args = "outs filled" => calls[i].has_ret

(* The limit is exact: the log never passes it, and a call of an export    *)
(* is missing from the log only when the log is full and limit_hit tells.  *)
LimitExact ==
  /\ MaxCalls # 0 => Len(calls) <= MaxCalls
  /\ limit_hit => MaxCalls # 0 /\ Len(calls) = MaxCalls
  /\ \A t \in Threads : \A k \in DOMAIN stack[t] :
       stack[t][k].target \in Exports /\ stack[t][k].rec = 0 => limit_hit

(* The progress line never walks backwards, though the positions it is     *)
(* computed from do (main.cpp:237-245), and the call count with it.        *)
ProgressForward ==
  [][line'.pct >= line.pct /\ line'.calls >= line.calls]_line

(* A guest whose returns the callback can pair with their calls: no frame  *)
(* is left without returning, nothing is suppressed by a limit, and each   *)
(* call instruction reaches exports only or other code only.               *)
GuestNests ==
  /\ ~CanUnwind
  /\ MaxCalls = 0
  /\ \A s \in Sites : CallsAt[s] \subseteq Exports \/ CallsAt[s] \subseteq Others

(* Only a call that is still open may lack its return value: what          *)
(* main.cpp:389-392 says of the report at any moment the sweep can end.    *)
ReturnedCallsHaveReturns == \A i \in returned : calls[i].has_ret

(* A return value is that of the call it is recorded for, though the       *)
(* callback knows the call only by its return address (main.cpp:352).      *)
ReturnIsOwn == \A i \in DOMAIN calls : calls[i].has_ret => calls[i].ret = i
----------------------------------------------------------------------------
(* The sweep implements the abstract call log.                             *)
LogOf(records) ==
  [i \in DOMAIN records |-> [tid  |-> records[i].tid,
                             api  |-> records[i].target,
                             done |-> records[i].has_ret]]

ReportedLog == LogOf(calls)

Abstract == INSTANCE CallLog WITH
  Apis <- Exports, Limit <- MaxCalls, log <- ReportedLog

ImplementsCallLog == Abstract!Spec
============================================================================
