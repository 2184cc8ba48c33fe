--------------------------- MODULE ControlProofs ---------------------------
(***************************************************************************)
(* Proofs about the execution sweep, for every guest, every trace length   *)
(* and every limit: the log is what CallLog promises, the limit is exact,  *)
(* outputs come with their return, and progress does not go back.          *)
(*                                                                         *)
(* The sweep rebuilds the guest's call stacks from return addresses alone. *)
(* The second part proves when that works: if no frame is left without     *)
(* returning, no limit is set, and every call instruction reaches only     *)
(* exports or only other code, then in_flight is the stack of logged       *)
(* frames at every moment, so each return value goes to the call it        *)
(* belongs to and no call that has returned is left without one.           *)
(*                                                                         *)
(* The third part is about cancellation, for every moment of the cancel:   *)
(* what is true of the sweep stays true of one that is cut short, and no   *)
(* cancel is lost before the replay.                                       *)
(***************************************************************************)
EXTENDS SweepControl, SequenceTheorems, TLAPS

(* The last element of a sequence, and what is left without it.            *)
LEMMA LastAndFront ==
  ASSUME NEW S, NEW q \in Seq(S), q # <<>>
  PROVE  /\ Len(q) \in Nat \ {0}
         /\ Last(q) = q[Len(q)]
         /\ Last(q) \in S
         /\ Front(q) \in Seq(S)
         /\ Len(Front(q)) = Len(q) - 1
         /\ \A k \in 1..(Len(q) - 1) : Front(q)[k] = q[k]
  <1>1. Len(q) \in Nat \ {0}
    BY EmptySeq
  <1>2. QED
    BY <1>1, SubSeqProperties DEF Last, Front

LEMMA EventType ==
  ASSUME TypeOK, NEW t \in Threads, NEW p \in 0..MaxPosition, Event(t, p)
  PROVE  /\ at' \in [Threads -> 0..MaxPosition]
         /\ events_seen' \in 0..MaxEvents
         /\ highest_pct' \in 0..FinalSequence
         /\ line' \in [pct : 0..FinalSequence, calls : Nat]
  <1>1. Percent(p) \in 0..FinalSequence
    BY SweepAssumption DEF Percent
  <1>2. Len(calls) \in Nat
    BY DEF TypeOK
  <1>3. CASE PrintProgress(p)
    BY <1>1, <1>2, <1>3, SweepAssumption DEF TypeOK, Event, PrintProgress
  <1>4. CASE UNCHANGED progress
    BY <1>4, SweepAssumption DEF TypeOK, Event, progress
  <1>5. QED
    BY <1>3, <1>4 DEF Event

(* The guest's stacks stay well typed when a frame is pushed.              *)
LEMMA PushType ==
  ASSUME TypeOK, NEW t \in Threads, NEW x \in Targets, NEW s \in Sites,
         NEW rec \in Nat, Push(t, x, s, rec)
  PROVE  stack' \in [Threads -> Seq(Frame)]
  <1>1. Below(t) \in Nat
    <2>1. CASE stack[t] = <<>>
      BY <2>1 DEF Below
    <2>2. CASE stack[t] # <<>>
      <3>1. Last(stack[t]) \in Frame
        BY <2>2, LastAndFront DEF TypeOK
      <3>2. QED
        BY <2>2, <3>1 DEF Below, Frame
    <2>3. QED
      BY <2>1, <2>2
  <1>2. [target |-> x, ret_addr |-> s, rec |-> rec, below |-> Below(t)] \in Frame
    BY <1>1 DEF Frame
  <1>3. Append(stack[t], [target |-> x, ret_addr |-> s, rec |-> rec, below |-> Below(t)])
          \in Seq(Frame)
    BY <1>2, AppendProperties DEF TypeOK
  <1>4. QED
    BY <1>3 DEF Push, TypeOK

(* The invariant that carries the other proofs: types, and in_flight as    *)
(* the list of each thread's open records.                                 *)
SweepInv == TypeOK /\ EntriesAreOpenRecords

(* What logging a call does to the log, element by element.                *)
LEMMA LoggedEffect ==
  ASSUME TypeOK, NEW t \in Threads, NEW x \in Targets, NEW s \in Sites,
         NEW p \in 0..MaxPosition, NEW args \in Decodings(x),
         CallLogged(t, x, s, p, args)
  PROVE  LET n == Len(calls) + 1
             m == Len(in_flight[t]) + 1
         IN
         /\ calls' \in Seq(CallRecord)
         /\ Len(calls') = n
         /\ \A i \in 1..Len(calls) : calls'[i] = calls[i]
         /\ calls'[n] = [tid |-> t, seq |-> seq, target |-> x, ret_addr |-> s,
                         position |-> p, args |-> args, has_ret |-> FALSE, ret |-> 0]
         /\ in_flight' \in [Threads -> Seq(InFlight)]
         /\ \A u \in Threads \ {t} : in_flight'[u] = in_flight[u]
         /\ Len(in_flight'[t]) = m
         /\ \A k \in 1..Len(in_flight[t]) : in_flight'[t][k] = in_flight[t][k]
         /\ in_flight'[t][m] = [ret_addr |-> s, call_index |-> n,
                                pending |-> args = "outs pending"]
  <1> DEFINE record == [tid |-> t, seq |-> seq, target |-> x, ret_addr |-> s,
                        position |-> p, args |-> args, has_ret |-> FALSE, ret |-> 0]
             entry == [ret_addr |-> s, call_index |-> Len(calls) + 1,
                       pending |-> args = "outs pending"]
  <1>1. record \in CallRecord
    BY DEF TypeOK, CallRecord, Decodings, ArgStates
  <1>2. entry \in InFlight
    <2>1. Len(calls) + 1 \in Nat
      BY DEF TypeOK
    <2>2. (args = "outs pending") \in BOOLEAN
      OBVIOUS
    <2>3. QED
      BY <2>1, <2>2 DEF InFlight
  <1>3. /\ calls' = Append(calls, record)
        /\ in_flight' = [in_flight EXCEPT ![t] = Append(@, entry)]
    BY DEF CallLogged
  <1>4. in_flight[t] \in Seq(InFlight) /\ calls \in Seq(CallRecord)
    BY DEF TypeOK
  <1> HIDE DEF record, entry
  <1>5. /\ Append(in_flight[t], entry) \in Seq(InFlight)
        /\ Len(Append(in_flight[t], entry)) = Len(in_flight[t]) + 1
        /\ \A k \in 1..Len(in_flight[t]) :
             Append(in_flight[t], entry)[k] = in_flight[t][k]
        /\ Append(in_flight[t], entry)[Len(in_flight[t]) + 1] = entry
    BY <1>2, <1>4, AppendProperties
  <1>6. /\ calls' \in Seq(CallRecord)
        /\ Len(calls') = Len(calls) + 1
        /\ \A i \in 1..Len(calls) : calls'[i] = calls[i]
        /\ calls'[Len(calls) + 1] = record
    BY <1>1, <1>3, <1>4, AppendProperties
  <1>7. /\ in_flight' \in [Threads -> Seq(InFlight)]
        /\ \A u \in Threads \ {t} : in_flight'[u] = in_flight[u]
        /\ in_flight'[t] = Append(in_flight[t], entry)
    BY <1>3, <1>5 DEF TypeOK
  <1>8. QED
    BY <1>5, <1>6, <1>7 DEF record, entry

(* What closing thread t's newest entry, a call from site s, does: its      *)
(* record c is finished with value v, the entry popped and nothing else    *)
(* changed.                                                                *)
CloseResult(t, s, v) ==
  LET m == Len(in_flight[t])
      top == in_flight[t][m]
      c == top.call_index
  IN
  /\ m \in Nat \ {0}
  /\ top = NewestEntry(t)
  /\ top.ret_addr = s
  /\ c \in 1..Len(calls)
  /\ calls' \in Seq(CallRecord)
  /\ Len(calls') = Len(calls)
  /\ \A i \in 1..Len(calls) \ {c} : calls'[i] = calls[i]
  /\ calls'[c] = Finished(calls[c], top, v)
  /\ in_flight' \in [Threads -> Seq(InFlight)]
  /\ \A u \in Threads \ {t} : in_flight'[u] = in_flight[u]
  /\ Len(in_flight'[t]) = m - 1
  /\ \A k \in 1..(m - 1) : in_flight'[t][k] = in_flight[t][k]

(* What a matching return does to the log.                                 *)
LEMMA CloseEffect ==
  ASSUME SweepInv, NEW t \in Threads, NEW s \in Sites, NEW v \in Nat,
         Matches(t, s), Close(t, v)
  PROVE  CloseResult(t, s, v)
  <1> DEFINE m == Len(in_flight[t])
             top == in_flight[t][m]
             c == top.call_index
  <1>1. in_flight[t] \in Seq(InFlight) /\ in_flight[t] # <<>>
    BY DEF SweepInv, TypeOK, Matches
  <1>2. /\ m \in Nat \ {0}
        /\ top = NewestEntry(t)
        /\ Front(in_flight[t]) \in Seq(InFlight)
        /\ Len(Front(in_flight[t])) = m - 1
        /\ \A k \in 1..(m - 1) : Front(in_flight[t])[k] = in_flight[t][k]
    BY <1>1, LastAndFront DEF NewestEntry
  <1>3. top.ret_addr = s
    BY <1>2 DEF Matches
  <1>4. c \in 1..Len(calls)
    <2>1. m \in DOMAIN in_flight[t]
      BY <1>1, <1>2, LenProperties
    <2>2. DOMAIN calls = 1..Len(calls)
      BY DEF SweepInv, TypeOK
    <2>3. top.call_index \in DOMAIN calls
      BY <2>1 DEF SweepInv, EntriesAreOpenRecords, NamesOpenRecord
    <2>4. QED
      BY <2>2, <2>3
  <1>5. calls[c] \in CallRecord
    BY <1>4, ElementOfSeq DEF SweepInv, TypeOK
  <1>6. Finished(calls[c], top, v) \in CallRecord
    BY <1>5 DEF Finished, CallRecord, ArgStates
  <1>7. /\ calls' = [calls EXCEPT ![c] = Finished(calls[c], top, v)]
        /\ in_flight' = [in_flight EXCEPT ![t] = Front(in_flight[t])]
    BY <1>2 DEF Close
  <1>8. /\ calls' \in Seq(CallRecord)
        /\ Len(calls') = Len(calls)
        /\ \A i \in 1..Len(calls) : calls'[i] = IF i = c THEN Finished(calls[c], top, v)
                                                ELSE calls[i]
    <2>1. calls \in Seq(CallRecord)
      BY DEF SweepInv, TypeOK
    <2> HIDE DEF c, top
    <2>2. QED
      BY <1>4, <1>6, <1>7, <2>1, ExceptSeq
  <1>9. /\ in_flight' \in [Threads -> Seq(InFlight)]
        /\ \A u \in Threads \ {t} : in_flight'[u] = in_flight[u]
        /\ in_flight'[t] = Front(in_flight[t])
    BY <1>2, <1>7 DEF SweepInv, TypeOK
  <1> HIDE DEF m, c, top
  <1>10. QED
    BY <1>2, <1>3, <1>4, <1>8, <1>9 DEF CloseResult, m, c, top

(* The domains of the log's sequences, and the types of their elements.    *)
LEMMA LogShape ==
  ASSUME TypeOK
  PROVE  /\ Len(calls) \in Nat
         /\ DOMAIN calls = 1..Len(calls)
         /\ \A i \in DOMAIN calls : calls[i] \in CallRecord
         /\ \A i \in DOMAIN calls : calls[i].tid \in Threads
         /\ \A u \in Threads : Len(in_flight[u]) \in Nat
         /\ \A u \in Threads : DOMAIN in_flight[u] = 1..Len(in_flight[u])
         /\ \A u \in Threads : \A k \in DOMAIN in_flight[u] : in_flight[u][k] \in InFlight
  <1>1. calls \in Seq(CallRecord)
    BY DEF TypeOK
  <1>2. \A u \in Threads : in_flight[u] \in Seq(InFlight)
    BY DEF TypeOK
  <1>3. /\ Len(calls) \in Nat
        /\ DOMAIN calls = 1..Len(calls)
        /\ \A i \in DOMAIN calls : calls[i] \in CallRecord
    BY <1>1, LenProperties, ElementOfSeq
  <1>4. \A i \in DOMAIN calls : calls[i].tid \in Threads
    BY <1>3 DEF CallRecord
  <1>5. \A u \in Threads :
          /\ Len(in_flight[u]) \in Nat
          /\ DOMAIN in_flight[u] = 1..Len(in_flight[u])
          /\ \A k \in DOMAIN in_flight[u] : in_flight[u][k] \in InFlight
    BY <1>2, LenProperties, ElementOfSeq
  <1>6. QED
    BY <1>3, <1>4, <1>5

(* Logging a call keeps in_flight the list of open records.                *)
LEMMA LoggedKeepsEntries ==
  ASSUME SweepInv, NEW t \in Threads, NEW x \in Targets, NEW s \in Sites,
         NEW p \in 0..MaxPosition, NEW args \in Decodings(x),
         CallLogged(t, x, s, p, args)
  PROVE  EntriesAreOpenRecords'
  <1> DEFINE n == Len(calls) + 1
             m == Len(in_flight[t]) + 1
             entry == [ret_addr |-> s, call_index |-> n, pending |-> args = "outs pending"]
  <1>1. /\ Len(calls) \in Nat
        /\ DOMAIN calls = 1..Len(calls)
        /\ \A i \in DOMAIN calls : calls[i].tid \in Threads
        /\ \A u \in Threads : Len(in_flight[u]) \in Nat
        /\ \A u \in Threads : DOMAIN in_flight[u] = 1..Len(in_flight[u])
    BY LogShape DEF SweepInv
  <1>2. /\ calls' \in Seq(CallRecord)
        /\ Len(calls') = n
        /\ \A i \in 1..Len(calls) : calls'[i] = calls[i]
        /\ calls'[n] = [tid |-> t, seq |-> seq, target |-> x, ret_addr |-> s,
                        position |-> p, args |-> args, has_ret |-> FALSE, ret |-> 0]
        /\ in_flight' \in [Threads -> Seq(InFlight)]
        /\ \A u \in Threads \ {t} : in_flight'[u] = in_flight[u]
        /\ Len(in_flight'[t]) = m
        /\ \A k \in 1..Len(in_flight[t]) : in_flight'[t][k] = in_flight[t][k]
        /\ in_flight'[t][m] = entry
    BY LoggedEffect DEF SweepInv
  <1>3. /\ calls'[n].tid = t
        /\ calls'[n].ret_addr = s
        /\ calls'[n].args = args
        /\ ~calls'[n].has_ret
    <2>1. calls'[n] = [tid |-> t, seq |-> seq, target |-> x, ret_addr |-> s,
                       position |-> p, args |-> args, has_ret |-> FALSE, ret |-> 0]
      BY <1>2
    <2> HIDE DEF n
    <2>2. QED
      BY <2>1
  <1>e. entry.ret_addr = s /\ entry.call_index = n
    BY Zenon
  <1>p. entry.pending <=> args = "outs pending"
    BY Zenon
  <1>4. /\ DOMAIN calls' = 1..n
        /\ DOMAIN in_flight'[t] = 1..m
    BY <1>2, LenProperties
  <1>5. m \in Nat /\ n \in Nat /\ m - 1 = Len(in_flight[t]) /\ n \notin DOMAIN calls
    BY <1>1
  <1>6. \A i \in DOMAIN calls : i \in DOMAIN calls' /\ calls'[i] = calls[i]
    <2>1. Len(calls) \in Nat /\ DOMAIN calls = 1..Len(calls)
      BY <1>1
    <2>2. DOMAIN calls' = 1..(Len(calls) + 1)
      BY <1>4
    <2>3. \A i \in 1..Len(calls) : calls'[i] = calls[i]
      BY <1>2
    <2>4. QED
      BY <2>1, <2>2, <2>3
  <1> HIDE DEF n, m, entry
  <1>7. ASSUME NEW u \in Threads, NEW k \in DOMAIN in_flight'[u]
        PROVE  NamesOpenRecord(u, k)'
    <2>1. CASE u = t /\ k = m
      <3>1. \A j \in 1..(m - 1) : NamesOpenRecord(t, j)
        BY <1>1, <1>5 DEF SweepInv, EntriesAreOpenRecords
      <3>2. \A j \in 1..(m - 1) : in_flight[t][j].call_index \in DOMAIN calls
        BY <3>1 DEF NamesOpenRecord
      <3>3. \A i \in DOMAIN calls : i < n
        BY <1>1 DEF n
      <3>4. \A j \in 1..(m - 1) : in_flight'[t][j] = in_flight[t][j]
        BY <1>2, <1>5
      <3>5. n \in DOMAIN calls'
        BY <1>1, <1>4 DEF n
      <3>6. QED
        BY <1>2, <1>3, <1>e, <1>p, <2>1, <3>2, <3>3, <3>4, <3>5, ZenonT(60) DEF NamesOpenRecord
    <2>2. CASE ~(u = t /\ k = m)
      <3>1. k \in DOMAIN in_flight[u] /\ in_flight'[u][k] = in_flight[u][k]
        BY <1>1, <1>2, <1>4, <1>5, <2>2
      <3>2. \A j \in 1..(k - 1) : in_flight'[u][j] = in_flight[u][j]
        <4>1. k \in 1..Len(in_flight[u]) /\ Len(in_flight[u]) \in Nat
          BY <1>1, <3>1
        <4>2. \A j \in 1..(k - 1) : j \in 1..Len(in_flight[u])
          BY <4>1
        <4>3. \A j \in 1..Len(in_flight[u]) : in_flight'[u][j] = in_flight[u][j]
          BY <1>2
        <4>4. QED
          BY <4>2, <4>3
      <3>3. NamesOpenRecord(u, k)
        BY <3>1 DEF SweepInv, EntriesAreOpenRecords
      <3>4. QED
        BY <1>6, <3>1, <3>2, <3>3 DEF NamesOpenRecord
    <2>3. QED
      BY <2>1, <2>2
  <1>8. ASSUME NEW i \in DOMAIN calls', ~calls'[i].has_ret
        PROVE  HasEntry(i)'
    <2>1. CASE i = n
      <3>1. m \in DOMAIN in_flight'[t]
        BY <1>1, <1>4 DEF m
      <3>2. QED
        BY <1>2, <1>3, <1>e, <2>1, <3>1 DEF HasEntry
    <2>2. CASE i # n
      <3>1. i \in DOMAIN calls /\ calls'[i] = calls[i]
        BY <1>1, <1>2, <1>4, <2>2 DEF n
      <3>2. HasEntry(i)
        BY <1>8, <3>1 DEF SweepInv, EntriesAreOpenRecords
      <3>3. \A k \in DOMAIN in_flight[calls[i].tid] :
              /\ k \in DOMAIN in_flight'[calls[i].tid]
              /\ in_flight'[calls[i].tid][k] = in_flight[calls[i].tid][k]
        <4>1. CASE calls[i].tid = t
          <5>1. \A k \in DOMAIN in_flight[t] : k \in 1..m /\ in_flight'[t][k] = in_flight[t][k]
            <6>1. DOMAIN in_flight[t] = 1..Len(in_flight[t]) /\ Len(in_flight[t]) \in Nat
              BY <1>1
            <6>2. \A k \in 1..Len(in_flight[t]) : k \in 1..m
              BY <6>1 DEF m
            <6>3. QED
              BY <1>2, <6>1, <6>2
          <5>2. QED
            BY <1>4, <4>1, <5>1
        <4>2. CASE calls[i].tid # t
          BY <1>1, <1>2, <3>1, <4>2
        <4>3. QED
          BY <4>1, <4>2
      <3>4. QED
        BY <3>1, <3>2, <3>3 DEF HasEntry
    <2>3. QED
      BY <2>1, <2>2
  <1>9. QED
    BY <1>7, <1>8 DEF EntriesAreOpenRecords

(* So does a matching return: the finished record is named by the popped   *)
(* entry and by no other.                                                  *)
LEMMA CloseKeepsEntries ==
  ASSUME SweepInv, NEW t \in Threads, NEW s \in Sites, NEW v \in Nat,
         Matches(t, s), Close(t, v)
  PROVE  EntriesAreOpenRecords'
  <1> DEFINE m == Len(in_flight[t])
             top == in_flight[t][m]
             c == top.call_index
  <1>1. /\ Len(calls) \in Nat
        /\ DOMAIN calls = 1..Len(calls)
        /\ \A i \in DOMAIN calls : calls[i] \in CallRecord
        /\ \A i \in DOMAIN calls : calls[i].tid \in Threads
        /\ \A u \in Threads : Len(in_flight[u]) \in Nat
        /\ \A u \in Threads : DOMAIN in_flight[u] = 1..Len(in_flight[u])
    BY LogShape DEF SweepInv
  <1>2. /\ m \in Nat \ {0}
        /\ c \in 1..Len(calls)
        /\ calls' \in Seq(CallRecord)
        /\ Len(calls') = Len(calls)
        /\ \A i \in 1..Len(calls) \ {c} : calls'[i] = calls[i]
        /\ calls'[c] = Finished(calls[c], top, v)
        /\ in_flight' \in [Threads -> Seq(InFlight)]
        /\ \A u \in Threads \ {t} : in_flight'[u] = in_flight[u]
        /\ Len(in_flight'[t]) = m - 1
        /\ \A k \in 1..(m - 1) : in_flight'[t][k] = in_flight[t][k]
    <2>1. CloseResult(t, s, v)
      BY CloseEffect
    <2>2. QED
      BY ONLY <2>1 DEF CloseResult
  <1>3. calls'[c].has_ret
    <2>1. calls[c] \in CallRecord
      BY <1>1, <1>2
    <2> HIDE DEF c, top
    <2>2. QED
      BY <1>2, <2>1 DEF Finished, CallRecord
  <1>4. /\ DOMAIN calls' = DOMAIN calls
        /\ DOMAIN in_flight'[t] = 1..(m - 1)
    BY <1>1, <1>2, LenProperties
  <1>5. m \in DOMAIN in_flight[t]
    BY <1>1, <1>2
  <1>6. NamesOpenRecord(t, m)
    BY <1>5 DEF SweepInv, EntriesAreOpenRecords
  <1> HIDE DEF m, top, c
  <1>7. calls[c].tid = t
    BY <1>6 DEF NamesOpenRecord, c, top
  <1>8. \A j \in 1..(m - 1) : in_flight[t][j].call_index # c
    <2>1. \A j \in 1..(m - 1) : in_flight[t][j].call_index < c
      BY <1>6 DEF NamesOpenRecord, c, top
    <2>2. \A j \in 1..(m - 1) : NamesOpenRecord(t, j)
      BY <1>1, <1>5 DEF SweepInv, EntriesAreOpenRecords
    <2>3. \A j \in 1..(m - 1) : in_flight[t][j].call_index \in 1..Len(calls)
      BY <1>1, <2>2 DEF NamesOpenRecord
    <2>4. QED
      BY <1>1, <1>2, <2>1, <2>3
  <1>9. ASSUME NEW u \in Threads, NEW k \in DOMAIN in_flight'[u]
        PROVE  NamesOpenRecord(u, k)'
    <2>1. k \in DOMAIN in_flight[u] /\ in_flight'[u][k] = in_flight[u][k]
      BY <1>1, <1>2, <1>4, <1>5, SMTT(30)
    <2>2. \A j \in 1..(k - 1) : in_flight'[u][j] = in_flight[u][j]
      <3>1. CASE u = t
        <4>1. k \in 1..(m - 1)
          BY <1>4, <3>1
        <4>2. \A j \in 1..(k - 1) : j \in 1..(m - 1)
          BY ONLY <1>2, <4>1
        <4>3. QED
          BY ONLY <1>2, <3>1, <4>2
      <3>2. CASE u # t
        BY <1>2, <3>2
      <3>3. QED
        BY <3>1, <3>2
    <2>3. NamesOpenRecord(u, k)
      BY <2>1 DEF SweepInv, EntriesAreOpenRecords
    <2>4. in_flight[u][k].call_index # c
      <3>1. CASE u = t
        BY <1>4, <1>8, <3>1
      <3>2. CASE u # t
        BY <1>7, <2>3, <3>2 DEF NamesOpenRecord
      <3>3. QED
        BY <3>1, <3>2
    <2>5. \A i \in DOMAIN calls \ {c} : i \in DOMAIN calls' /\ calls'[i] = calls[i]
      BY <1>1, <1>2, <1>4
    <2>6. QED
      BY <2>1, <2>2, <2>3, <2>4, <2>5 DEF NamesOpenRecord
  <1>10. ASSUME NEW i \in DOMAIN calls', ~calls'[i].has_ret
         PROVE  HasEntry(i)'
    <2>1. i \in DOMAIN calls /\ i # c /\ calls'[i] = calls[i]
      BY <1>1, <1>2, <1>3, <1>4, <1>10
    <2>2. HasEntry(i)
      BY <1>10, <2>1 DEF SweepInv, EntriesAreOpenRecords
    <2>3. PICK k \in DOMAIN in_flight[calls[i].tid] :
            in_flight[calls[i].tid][k].call_index = i
      BY <2>2 DEF HasEntry
    <2>4. ~(calls[i].tid = t /\ k = m)
      BY <2>1, <2>3 DEF c, top
    <2>5. /\ k \in DOMAIN in_flight'[calls[i].tid]
          /\ in_flight'[calls[i].tid][k] = in_flight[calls[i].tid][k]
      <3>1. CASE calls[i].tid = t
        <4>1. k \in 1..(m - 1)
          BY <1>1, <1>2, <2>3, <2>4, <3>1 DEF m
        <4>2. QED
          BY <1>2, <1>4, <3>1, <4>1
      <3>2. CASE calls[i].tid # t
        BY <1>1, <1>2, <2>1, <2>3, <3>2
      <3>3. QED
        BY <3>1, <3>2
    <2>6. QED
      BY <2>1, <2>3, <2>5 DEF HasEntry
  <1>11. QED
    BY <1>9, <1>10 DEF EntriesAreOpenRecords

(* The frames left after a return or an unwinding are still frames.        *)
LEMMA FrontType ==
  ASSUME TypeOK, NEW t \in Threads, NEW n \in 0..Len(stack[t])
  PROVE  SubSeq(stack[t], 1, Len(stack[t]) - n) \in Seq(Frame)
  <1>1. stack[t] \in Seq(Frame)
    BY DEF TypeOK
  <1>2. Len(stack[t]) \in Nat /\ \A i \in 1..Len(stack[t]) : stack[t][i] \in Frame
    BY <1>1, ElementOfSeq, LenProperties
  <1>3. \A i \in 1..(Len(stack[t]) - n) : stack[t][i] \in Frame
    BY <1>2
  <1>4. QED
    BY <1>2, <1>3, SubSeqProperties

LEMMA SweepInvInit == Init => SweepInv
  <1> SUFFICES ASSUME Init PROVE SweepInv
    OBVIOUS
  <1>1. <<>> \in Seq(Frame) /\ <<>> \in Seq(CallRecord) /\ <<>> \in Seq(InFlight)
    BY EmptySeq
  <1>2. TypeOK
    <2>1. /\ stack \in [Threads -> Seq(Frame)]
          /\ in_flight \in [Threads -> Seq(InFlight)]
          /\ calls \in Seq(CallRecord)
      BY <1>1 DEF Init
    <2>2. /\ at \in [Threads -> 0..MaxPosition]
          /\ events_seen \in 0..MaxEvents
          /\ highest_pct \in 0..FinalSequence
      BY SweepAssumption DEF Init
    <2>3. /\ returned \in SUBSET Nat
          /\ seq \in Nat
          /\ limit_hit \in BOOLEAN
          /\ line \in [pct : 0..FinalSequence, calls : Nat]
      <3>1. 0 \in Nat /\ 0 \in 0..FinalSequence
        BY SweepAssumption
      <3>2. line = [pct |-> 0, calls |-> 0]
        BY DEF Init
      <3>3. line \in [pct : 0..FinalSequence, calls : Nat]
        BY <3>1, <3>2
      <3>4. returned \in SUBSET Nat /\ seq \in Nat /\ limit_hit \in BOOLEAN
        BY <3>1 DEF Init
      <3>5. QED
        BY <3>3, <3>4
    <2>4. QED
      BY <2>1, <2>2, <2>3 DEF TypeOK
  <1>3. EntriesAreOpenRecords
    <2>1. calls = <<>> /\ \A t \in Threads : in_flight[t] = <<>>
      BY DEF Init
    <2>2. DOMAIN calls = {} /\ \A t \in Threads : DOMAIN in_flight[t] = {}
      BY <2>1
    <2>3. QED
      BY <2>2 DEF EntriesAreOpenRecords
  <1>4. QED
    BY <1>2, <1>3 DEF SweepInv

(* Where the log does not change, neither does what is open.               *)
LEMMA SameLogKeepsEntries ==
  ASSUME SweepInv, calls' = calls, in_flight' = in_flight
  PROVE  EntriesAreOpenRecords'
  <1>1. \A t \in Threads : \A k \in DOMAIN in_flight[t] :
          NamesOpenRecord(t, k) => NamesOpenRecord(t, k)'
    BY DEF NamesOpenRecord
  <1>2. \A i \in DOMAIN calls : HasEntry(i) => HasEntry(i)'
    BY DEF HasEntry
  <1>3. QED
    BY <1>1, <1>2 DEF SweepInv, EntriesAreOpenRecords

(* What a return, of a frame or of one older than the recording, keeps.    *)
LEMMA OnReturnKeeps ==
  ASSUME SweepInv, NEW t \in Threads, NEW s \in Sites, NEW v \in Nat,
         OnReturn(t, s, v)
  PROVE  /\ calls' \in Seq(CallRecord)
         /\ in_flight' \in [Threads -> Seq(InFlight)]
         /\ seq' = seq
         /\ limit_hit' = limit_hit
         /\ EntriesAreOpenRecords'
  <1>1. CASE Matches(t, s) /\ Close(t, v)
    BY <1>1, CloseEffect, CloseKeepsEntries DEF Close, CloseResult
  <1>2. CASE UNCHANGED log
    BY <1>2, SameLogKeepsEntries DEF log, SweepInv, TypeOK
  <1>3. QED
    BY <1>1, <1>2 DEF OnReturn

LEMMA SweepInvStep == SweepInv /\ [Next]_vars => SweepInv'
  <1> SUFFICES ASSUME SweepInv, [Next]_vars PROVE SweepInv'
    OBVIOUS
  <1>t. TypeOK
    BY DEF SweepInv
  <1>n. Len(calls) + 1 \in Nat /\ 0 \in Nat
    BY <1>t, LogShape
  <1>1. ASSUME NEW t \in Threads, NEW p \in 0..MaxPosition, NEW s \in Sites,
               NEW x \in Targets, CallUnresolved(t, x, s, p)
        PROVE  SweepInv'
    <2>1. stack' \in [Threads -> Seq(Frame)]
      BY <1>1, <1>t, <1>n, PushType DEF CallUnresolved
    <2>2. calls' = calls /\ in_flight' = in_flight
      BY <1>1 DEF CallUnresolved, log
    <2>3. QED
      BY <1>1, <1>t, <2>1, <2>2, EventType, SameLogKeepsEntries
      DEF CallUnresolved, log, TypeOK, SweepInv
  <1>2. ASSUME NEW t \in Threads, NEW p \in 0..MaxPosition, NEW s \in Sites,
               NEW x \in Targets, CallDropped(t, x, s, p)
        PROVE  SweepInv'
    <2>1. stack' \in [Threads -> Seq(Frame)]
      BY <1>2, <1>t, <1>n, PushType DEF CallDropped
    <2>2. QED
      BY <1>2, <1>t, <2>1, EventType, SameLogKeepsEntries
      DEF CallDropped, TypeOK, SweepInv
  <1>3. ASSUME NEW t \in Threads, NEW p \in 0..MaxPosition, NEW s \in Sites,
               NEW x \in Targets, NEW args \in Decodings(x),
               CallLogged(t, x, s, p, args)
        PROVE  SweepInv'
    <2>1. stack' \in [Threads -> Seq(Frame)]
      BY <1>3, <1>t, <1>n, PushType DEF CallLogged
    <2>2. calls' \in Seq(CallRecord) /\ in_flight' \in [Threads -> Seq(InFlight)]
      BY <1>3, <1>t, LoggedEffect
    <2>3. EntriesAreOpenRecords'
      BY <1>3, LoggedKeepsEntries
    <2>4. seq' \in Nat /\ limit_hit' = limit_hit /\ returned' = returned
      <3>1. seq' = seq + 1 /\ limit_hit' = limit_hit /\ returned' = returned
        BY <1>3, Zenon DEF CallLogged
      <3>2. QED
        BY <1>t, <3>1 DEF TypeOK
    <2>5. QED
      BY <1>3, <1>t, <2>1, <2>2, <2>3, <2>4, EventType
      DEF CallLogged, TypeOK, SweepInv
  <1>4. ASSUME NEW t \in Threads, NEW p \in 0..MaxPosition, Return(t, p)
        PROVE  SweepInv'
    <2> DEFINE frame == Last(stack[t])
    <2>1. frame \in Frame /\ Len(stack[t]) \in Nat \ {0}
      BY <1>4, <1>t, LastAndFront DEF Return, TypeOK
    <2>2. frame.ret_addr \in Sites /\ frame.rec \in Nat
      BY <2>1 DEF Frame
    <2>3. stack' \in [Threads -> Seq(Frame)]
      <3>1. stack' = [stack EXCEPT ![t] = SubSeq(stack[t], 1, Len(stack[t]) - 1)]
        BY <1>4 DEF Return, Front
      <3>2. SubSeq(stack[t], 1, Len(stack[t]) - 1) \in Seq(Frame)
        BY <1>t, <2>1, FrontType
      <3>3. QED
        BY <1>t, <3>1, <3>2 DEF TypeOK
    <2>4. Event(t, p) /\ OnReturn(t, frame.ret_addr, frame.rec)
      BY <1>4 DEF Return
    <2>5. returned' \in SUBSET Nat
      BY <1>4, <1>t, <2>2 DEF Return, TypeOK
    <2> HIDE DEF frame
    <2>6. QED
      BY <1>t, <2>2, <2>3, <2>4, <2>5, OnReturnKeeps, EventType DEF TypeOK, SweepInv
  <1>5. ASSUME NEW t \in Threads, NEW p \in 0..MaxPosition, NEW s \in Sites,
               ReturnOld(t, s, p)
        PROVE  SweepInv'
    BY <1>5, <1>t, <1>n, OnReturnKeeps, EventType DEF ReturnOld, TypeOK, SweepInv
  <1>6. ASSUME NEW t \in Threads, NEW n \in 1..MaxEvents, Unwind(t, n)
        PROVE  SweepInv'
    <2>1. n \in 0..Len(stack[t])
      BY <1>6, <1>t, LenProperties DEF Unwind, TypeOK
    <2>2. stack' \in [Threads -> Seq(Frame)]
      BY <1>6, <1>t, <2>1, FrontType DEF Unwind, TypeOK
    <2>3. QED
      BY <1>6, <1>t, <2>2, SameLogKeepsEntries DEF Unwind, log, progress, TypeOK, SweepInv
  <1>7. CASE UNCHANGED vars
    BY <1>7, <1>t, SameLogKeepsEntries DEF vars, guest, progress, log, TypeOK, SweepInv
  <1>8. QED
    BY <1>1, <1>2, <1>3, <1>4, <1>5, <1>6, <1>7 DEF Next, ThreadNext

(* Every variable of the sweep keeps its type.                             *)
THEOREM TypeCorrect == Spec => []TypeOK
  <1>1. SweepInv => TypeOK
    BY DEF SweepInv
  <1>2. QED
    BY <1>1, SweepInvInit, SweepInvStep, PTL DEF Spec

(* In every guest, unwinding or not, and under every limit, the entries    *)
(* of in_flight are exactly the open records of their thread.              *)
THEOREM OpenRecords == Spec => []EntriesAreOpenRecords
  <1>1. SweepInv => EntriesAreOpenRecords
    BY DEF SweepInv
  <1>2. QED
    BY <1>1, SweepInvInit, SweepInvStep, PTL DEF Spec
----------------------------------------------------------------------------
(* The log reported for a list of records is a sequence as long as it.     *)
LEMMA LogOfType ==
  ASSUME NEW records \in Seq(CallRecord)
  PROVE  /\ LogOf(records) \in Seq([tid : Threads, api : Targets, done : BOOLEAN])
         /\ Len(LogOf(records)) = Len(records)
         /\ DOMAIN LogOf(records) = 1..Len(records)
         /\ \A i \in 1..Len(records) :
              LogOf(records)[i] = [tid |-> records[i].tid, api |-> records[i].target,
                                   done |-> records[i].has_ret]
  <1> DEFINE E == [tid : Threads, api : Targets, done : BOOLEAN]
             n == Len(records)
  <1>1. n \in Nat /\ DOMAIN records = 1..n
    BY LenProperties
  <1>2. \A i \in 1..n : records[i] \in CallRecord
    BY ElementOfSeq
  <1>3. \A i \in 1..n :
          [tid |-> records[i].tid, api |-> records[i].target, done |-> records[i].has_ret] \in E
    BY <1>2 DEF CallRecord
  <1>4. LogOf(records) \in [1..n -> E]
    BY <1>1, <1>3 DEF LogOf
  <1> HIDE DEF E
  <1>5. LogOf(records) \in Seq(E)
    <2>1. Seq(E) = UNION {[1..k -> E] : k \in Nat}
      BY SeqDef
    <2>2. [1..n -> E] \in {[1..k -> E] : k \in Nat}
      BY <1>1
    <2>3. QED
      BY <1>4, <2>1, <2>2
  <1>6. DOMAIN LogOf(records) = 1..n
    BY <1>4
  <1>7. Len(LogOf(records)) = n
    BY <1>1, <1>5, <1>6, LenProperties
  <1>8. QED
    BY <1>1, <1>5, <1>6, <1>7 DEF LogOf, E

(* Logging a call appends an open call to the abstract log.                *)
LEMMA LoggedIsRecord ==
  ASSUME TypeOK, NEW t \in Threads, NEW x \in Targets, NEW s \in Sites,
         NEW p \in 0..MaxPosition, NEW args \in Decodings(x),
         CallLogged(t, x, s, p, args)
  PROVE  x \in Exports /\ Abstract!Record(t, x)
  <1> DEFINE n == Len(calls) + 1
             e == [tid |-> t, api |-> x, done |-> FALSE]
             E == [tid : Threads, api : Targets, done : BOOLEAN]
  <1>1. calls \in Seq(CallRecord) /\ Len(calls) \in Nat
    BY LogShape DEF TypeOK
  <1>2. /\ calls' \in Seq(CallRecord)
        /\ Len(calls') = n
        /\ \A i \in 1..Len(calls) : calls'[i] = calls[i]
        /\ calls'[n] = [tid |-> t, seq |-> seq, target |-> x, ret_addr |-> s,
                        position |-> p, args |-> args, has_ret |-> FALSE, ret |-> 0]
    BY LoggedEffect, ZenonT(60)
  <1>3. /\ ReportedLog \in Seq(E)
        /\ Len(ReportedLog) = Len(calls)
        /\ \A i \in 1..Len(calls) :
             ReportedLog[i] = [tid |-> calls[i].tid, api |-> calls[i].target,
                               done |-> calls[i].has_ret]
    BY <1>1, LogOfType DEF ReportedLog
  <1>4. /\ ReportedLog' \in Seq(E)
        /\ Len(ReportedLog') = n
        /\ \A i \in 1..n :
             ReportedLog'[i] = [tid |-> calls'[i].tid, api |-> calls'[i].target,
                                done |-> calls'[i].has_ret]
    BY <1>2, LogOfType DEF ReportedLog
  <1>5. e \in E
    OBVIOUS
  <1> HIDE DEF E, e
  <1>6. /\ Append(ReportedLog, e) \in Seq(E)
        /\ Len(Append(ReportedLog, e)) = n
        /\ \A i \in 1..Len(calls) : Append(ReportedLog, e)[i] = ReportedLog[i]
        /\ Append(ReportedLog, e)[n] = e
    BY <1>3, <1>5, AppendProperties
  <1>7. ReportedLog'[n] = e
    <2>1. n \in 1..n
      BY <1>1
    <2>2. calls'[n].tid = t /\ calls'[n].target = x /\ calls'[n].has_ret = FALSE
      <3> HIDE DEF n
      <3>1. QED
        BY <1>2
    <2> HIDE DEF n
    <2>3. QED
      BY <1>4, <2>1, <2>2 DEF e
  <1>8. \A i \in 1..Len(calls) : ReportedLog'[i] = ReportedLog[i]
    BY <1>1, <1>2, <1>3, <1>4
  <1>9. \A i \in 1..n : ReportedLog'[i] = Append(ReportedLog, e)[i]
    BY <1>1, <1>6, <1>7, <1>8
  <1>10. ReportedLog' = Append(ReportedLog, e)
    BY <1>4, <1>6, <1>9, SeqEqual
  <1>11. x \in Exports /\ ~AtLimit
    BY DEF CallLogged
  <1>12. MaxCalls # 0 => Len(ReportedLog) < MaxCalls
    BY <1>1, <1>3, <1>11, SweepAssumption DEF AtLimit
  <1>13. QED
    BY <1>10, <1>11, <1>12 DEF Abstract!Record, e

(* A matching return completes the innermost open call of its thread.      *)
LEMMA CloseIsComplete ==
  ASSUME SweepInv, NEW t \in Threads, NEW s \in Sites, NEW v \in Nat,
         Matches(t, s), Close(t, v)
  PROVE  Abstract!Complete(t)
  <1> DEFINE m == Len(in_flight[t])
             top == in_flight[t][m]
             c == top.call_index
  <1>1. /\ calls \in Seq(CallRecord)
        /\ DOMAIN calls = 1..Len(calls)
        /\ \A i \in DOMAIN calls : calls[i] \in CallRecord
        /\ DOMAIN in_flight[t] = 1..m
    BY LogShape DEF SweepInv, TypeOK
  <1>2. /\ m \in Nat \ {0}
        /\ c \in 1..Len(calls)
        /\ calls' \in Seq(CallRecord)
        /\ Len(calls') = Len(calls)
        /\ \A i \in 1..Len(calls) \ {c} : calls'[i] = calls[i]
        /\ calls'[c] = Finished(calls[c], top, v)
    <2>1. CloseResult(t, s, v)
      BY CloseEffect
    <2>2. QED
      BY ONLY <2>1 DEF CloseResult
  <1>3. /\ DOMAIN ReportedLog = 1..Len(calls)
        /\ \A i \in 1..Len(calls) :
             ReportedLog[i] = [tid |-> calls[i].tid, api |-> calls[i].target,
                               done |-> calls[i].has_ret]
    BY <1>1, LogOfType DEF ReportedLog
  <1>4. /\ ReportedLog' \in [1..Len(calls) -> [tid : Threads, api : Targets, done : BOOLEAN]]
        /\ \A i \in 1..Len(calls) :
             ReportedLog'[i] = [tid |-> calls'[i].tid, api |-> calls'[i].target,
                                done |-> calls'[i].has_ret]
    BY <1>2, LogOfType, LenProperties, ZenonT(60) DEF ReportedLog
  <1>5. NamesOpenRecord(t, m)
    BY <1>1, <1>2 DEF SweepInv, EntriesAreOpenRecords
  <1> HIDE DEF m, top, c
  <1>6. calls'[c].tid = calls[c].tid /\ calls'[c].target = calls[c].target
        /\ calls'[c].has_ret = TRUE
    <2>1. calls[c] \in CallRecord
      BY <1>1, <1>2
    <2>2. QED
      BY <1>2, <2>1 DEF Finished, CallRecord
  <1>7. ReportedLog' = [ReportedLog EXCEPT ![c].done = TRUE]
    <2>1. ReportedLog'[c] = [ReportedLog[c] EXCEPT !.done = TRUE]
      BY <1>2, <1>3, <1>4, <1>6
    <2>2. \A i \in 1..Len(calls) \ {c} : ReportedLog'[i] = ReportedLog[i]
      BY <1>2, <1>3, <1>4
    <2>3. ReportedLog = [i \in 1..Len(calls) |-> ReportedLog[i]]
      BY <1>3 DEF ReportedLog, LogOf
    <2>4. QED
      BY <1>2, <1>3, <1>4, <2>1, <2>2, <2>3
  <1>8. c \in Abstract!Open(t)
    <2>1. c \in DOMAIN calls /\ calls[c].tid = t /\ ~calls[c].has_ret
      BY <1>1, <1>2, <1>5 DEF NamesOpenRecord, c, top
    <2>2. ReportedLog[c].tid = t /\ ~ReportedLog[c].done
      BY <1>2, <1>3, <2>1
    <2>3. QED
      BY <1>2, <1>3, <2>2 DEF Abstract!Open
  <1>9. ASSUME NEW j \in Abstract!Open(t)
        PROVE  j <= c
    <2>1. j \in DOMAIN calls /\ calls[j].tid = t /\ ~calls[j].has_ret
      BY <1>1, <1>3 DEF Abstract!Open
    <2>2. PICK k \in DOMAIN in_flight[t] : in_flight[t][k].call_index = j
      BY <2>1 DEF SweepInv, EntriesAreOpenRecords, HasEntry
    <2>3. CASE k = m
      BY <1>1, <1>2, <2>1, <2>2, <2>3 DEF c, top
    <2>4. CASE k # m
      <3>1. k \in 1..(m - 1)
        BY <1>1, <1>2, <2>2, <2>4
      <3>2. j < c
        BY <1>5, <2>2, <3>1 DEF NamesOpenRecord, c, top
      <3>3. QED
        BY <1>1, <1>2, <2>1, <3>2
    <2>5. QED
      BY <2>3, <2>4
  <1>10. QED
    BY <1>7, <1>8, <1>9 DEF Abstract!Complete

(* The sweep implements the abstract call log: it only appends open calls, *)
(* while there is room, and completes each call at most once, in each      *)
(* thread the innermost open one first.                                    *)
THEOREM SweepImplementsCallLog == Spec => ImplementsCallLog
  <1>1. Init => Abstract!Init
    <2> SUFFICES ASSUME Init PROVE ReportedLog = <<>>
      BY DEF Abstract!Init
    <2>1. calls = <<>> /\ DOMAIN calls = {}
      BY DEF Init
    <2>2. QED
      BY <2>1 DEF ReportedLog, LogOf
  <1>2. SweepInv /\ [Next]_vars => [Abstract!Next]_ReportedLog
    <2> SUFFICES ASSUME SweepInv, [Next]_vars PROVE [Abstract!Next]_ReportedLog
      OBVIOUS
    <2>0. TypeOK
      BY DEF SweepInv
    <2>1. calls' = calls => ReportedLog' = ReportedLog
      BY DEF ReportedLog
    <2>2. ASSUME NEW t \in Threads, NEW s \in Sites, NEW v \in Nat, OnReturn(t, s, v)
          PROVE  [Abstract!Next]_ReportedLog
      <3>1. CASE Matches(t, s) /\ Close(t, v)
        BY <3>1, CloseIsComplete DEF Abstract!Next
      <3>2. CASE UNCHANGED log
        BY <2>1, <3>2 DEF log
      <3>3. QED
        BY <2>2, <3>1, <3>2 DEF OnReturn
    <2>3. ASSUME NEW t \in Threads, NEW p \in 0..MaxPosition, NEW s \in Sites,
                 NEW x \in Targets, CallUnresolved(t, x, s, p) \/ CallDropped(t, x, s, p)
          PROVE  [Abstract!Next]_ReportedLog
      BY <2>1, <2>3 DEF CallUnresolved, CallDropped, log
    <2>4. ASSUME NEW t \in Threads, NEW p \in 0..MaxPosition, NEW s \in Sites,
                 NEW x \in Targets, NEW args \in Decodings(x),
                 CallLogged(t, x, s, p, args)
          PROVE  [Abstract!Next]_ReportedLog
      BY <2>0, <2>4, LoggedIsRecord DEF Abstract!Next
    <2>5. ASSUME NEW t \in Threads, NEW p \in 0..MaxPosition, Return(t, p)
          PROVE  [Abstract!Next]_ReportedLog
      <3>1. Last(stack[t]) \in Frame
        BY <2>0, <2>5, LastAndFront DEF Return, TypeOK
      <3>2. Last(stack[t]).ret_addr \in Sites /\ Last(stack[t]).rec \in Nat
        BY <3>1 DEF Frame
      <3>3. OnReturn(t, Last(stack[t]).ret_addr, Last(stack[t]).rec)
        BY <2>5 DEF Return
      <3>4. QED
        BY <2>2, <3>2, <3>3
    <2>6. ASSUME NEW t \in Threads, NEW p \in 0..MaxPosition, NEW s \in Sites,
                 ReturnOld(t, s, p)
          PROVE  [Abstract!Next]_ReportedLog
      BY <2>2, <2>6 DEF ReturnOld
    <2>7. ASSUME NEW t \in Threads, NEW n \in 1..MaxEvents, Unwind(t, n)
          PROVE  [Abstract!Next]_ReportedLog
      BY <2>1, <2>7 DEF Unwind, log
    <2>8. CASE UNCHANGED vars
      BY <2>1, <2>8 DEF vars, log
    <2>9. QED
      BY <2>3, <2>4, <2>5, <2>6, <2>7, <2>8 DEF Next, ThreadNext
  <1>3. QED
    BY <1>1, <1>2, SweepInvInit, SweepInvStep, PTL
    DEF Spec, ImplementsCallLog, Abstract!Spec
----------------------------------------------------------------------------
(* What entering a target does to the guest's stacks.                      *)
LEMMA PushEffect ==
  ASSUME TypeOK, NEW t \in Threads, NEW x \in Targets, NEW s \in Sites,
         NEW rec \in Nat, Push(t, x, s, rec)
  PROVE  /\ Len(stack[t]) \in Nat
         /\ \A u \in Threads \ {t} : stack'[u] = stack[u]
         /\ Len(stack'[t]) = Len(stack[t]) + 1
         /\ DOMAIN stack'[t] = 1..(Len(stack[t]) + 1)
         /\ \A k \in 1..Len(stack[t]) : stack'[t][k] = stack[t][k]
         /\ stack'[t][Len(stack[t]) + 1] =
              [target |-> x, ret_addr |-> s, rec |-> rec, below |-> Below(t)]
  <1> DEFINE frame == [target |-> x, ret_addr |-> s, rec |-> rec, below |-> Below(t)]
  <1>1. stack' \in [Threads -> Seq(Frame)] /\ stack[t] \in Seq(Frame)
    BY PushType DEF TypeOK
  <1>2. stack' = [stack EXCEPT ![t] = Append(stack[t], frame)]
    BY DEF Push
  <1> HIDE DEF frame
  <1>3. /\ \A u \in Threads \ {t} : stack'[u] = stack[u]
        /\ stack'[t] = Append(stack[t], frame)
    BY <1>2 DEF TypeOK
  <1>4. /\ Len(stack[t]) \in Nat
        /\ Len(stack'[t]) = Len(stack[t]) + 1
        /\ \A k \in 1..Len(stack[t]) : stack'[t][k] = stack[t][k]
        /\ stack'[t][Len(stack[t]) + 1] = frame
    <2>1. \A k \in 1..Len(stack[t]) : Append(stack[t], frame)[k] = stack[t][k]
      BY <1>1
    <2>2. Len(stack[t]) \in Nat /\ Len(Append(stack[t], frame)) = Len(stack[t]) + 1
      BY <1>1
    <2>3. Append(stack[t], frame)[Len(stack[t]) + 1] = frame
      BY <1>1
    <2>4. QED
      BY <1>3, <2>1, <2>2, <2>3
  <1>5. DOMAIN stack'[t] = 1..(Len(stack[t]) + 1)
    BY <1>1, <1>4, LenProperties
  <1>6. QED
    BY <1>3, <1>4, <1>5 DEF frame

(* What is left of a stack when n frames are dropped.                      *)
LEMMA DropEffect ==
  ASSUME TypeOK, NEW t \in Threads, NEW n \in 0..Len(stack[t]),
         stack' = [stack EXCEPT ![t] = SubSeq(stack[t], 1, Len(stack[t]) - n)]
  PROVE  /\ Len(stack[t]) \in Nat
         /\ \A u \in Threads \ {t} : stack'[u] = stack[u]
         /\ Len(stack'[t]) = Len(stack[t]) - n
         /\ DOMAIN stack'[t] = 1..(Len(stack[t]) - n)
         /\ \A k \in 1..(Len(stack[t]) - n) : stack'[t][k] = stack[t][k]
  <1> DEFINE rest == SubSeq(stack[t], 1, Len(stack[t]) - n)
  <1>1. stack[t] \in Seq(Frame) /\ Len(stack[t]) \in Nat
    BY LenProperties DEF TypeOK
  <1>2. rest \in Seq(Frame)
    BY FrontType
  <1>3. \A i \in 1..(Len(stack[t]) - n) : stack[t][i] \in Frame
    <2>1. \A i \in 1..(Len(stack[t]) - n) : i \in 1..Len(stack[t])
      BY <1>1
    <2>2. QED
      BY <1>1, <2>1, ElementOfSeq
  <1>4. /\ Len(rest) = Len(stack[t]) - n
        /\ \A k \in 1..(Len(stack[t]) - n) : rest[k] = stack[t][k]
    BY <1>1, <1>3, SubSeqProperties
  <1>5. DOMAIN rest = 1..(Len(stack[t]) - n)
    BY <1>2, <1>4, LenProperties
  <1>6. stack'[t] = rest /\ \A u \in Threads \ {t} : stack'[u] = stack[u]
    BY DEF TypeOK
  <1> HIDE DEF rest
  <1>7. QED
    BY <1>1, <1>4, <1>5, <1>6

(* The two ways a frame leaves its stack, as a drop of n frames.           *)
LEMMA ReturnDropsOne ==
  ASSUME TypeOK, NEW t \in Threads, NEW p \in 0..MaxPosition, Return(t, p)
  PROVE  /\ 1 \in 0..Len(stack[t])
         /\ stack' = [stack EXCEPT ![t] = SubSeq(stack[t], 1, Len(stack[t]) - 1)]
         /\ Last(stack[t]) = stack[t][Len(stack[t])]
         /\ Len(stack[t]) \in DOMAIN stack[t]
         /\ Last(stack[t]).ret_addr \in Sites
         /\ Last(stack[t]).rec \in Nat
  <1>1. stack[t] \in Seq(Frame) /\ stack[t] # <<>>
    BY DEF Return, TypeOK
  <1>2. Len(stack[t]) \in Nat \ {0} /\ Last(stack[t]) \in Frame
    BY <1>1, LastAndFront
  <1>3. Last(stack[t]).ret_addr \in Sites /\ Last(stack[t]).rec \in Nat
    BY <1>2 DEF Frame
  <1>4. Len(stack[t]) \in DOMAIN stack[t]
    BY <1>1, <1>2, LenProperties
  <1>5. QED
    BY <1>2, <1>3, <1>4 DEF Return, Front, Last

(* A frame of a call that was dropped at the limit.                        *)
FrameTold(t, k) ==
  stack[t][k].target \in Exports /\ stack[t][k].rec = 0 => limit_hit

LimitInv == SweepInv /\ LimitExact

(* Dropping frames drops no evidence about the limit.                      *)
LEMMA DropKeepsTold ==
  ASSUME TypeOK, LimitExact, NEW t \in Threads, NEW n \in 0..Len(stack[t]),
         stack' = [stack EXCEPT ![t] = SubSeq(stack[t], 1, Len(stack[t]) - n)],
         limit_hit' = limit_hit
  PROVE  \A u \in Threads : \A k \in DOMAIN stack'[u] : FrameTold(u, k)'
  <1> SUFFICES ASSUME NEW u \in Threads, NEW k \in DOMAIN stack'[u]
               PROVE  FrameTold(u, k)'
    OBVIOUS
  <1>1. k \in DOMAIN stack[u] /\ stack'[u][k] = stack[u][k]
    <2>1. CASE u = t
      <3>1. /\ Len(stack[t]) \in Nat
            /\ DOMAIN stack'[t] = 1..(Len(stack[t]) - n)
            /\ \A j \in 1..(Len(stack[t]) - n) : stack'[t][j] = stack[t][j]
        BY DropEffect
      <3>2. k \in 1..(Len(stack[t]) - n)
        BY ONLY <2>1, <3>1, k \in DOMAIN stack'[u]
      <3>3. k \in 1..Len(stack[t])
        BY ONLY <3>1, <3>2, n \in 0..Len(stack[t])
      <3>4. DOMAIN stack[t] = 1..Len(stack[t])
        BY LenProperties DEF TypeOK
      <3>5. QED
        BY ONLY <2>1, <3>1, <3>2, <3>3, <3>4
    <2>2. CASE u # t
      BY <2>2, DropEffect
    <2>3. QED
      BY <2>1, <2>2
  <1>2. FrameTold(u, k)
    BY <1>1 DEF LimitExact, FrameTold
  <1>3. QED
    BY <1>1, <1>2 DEF FrameTold

(* Nor does entering a target, if it is logged, no export, or told.        *)
LEMMA PushKeepsTold ==
  ASSUME TypeOK, LimitExact, NEW t \in Threads, NEW x \in Targets, NEW s \in Sites,
         NEW rec \in Nat, Push(t, x, s, rec),
         limit_hit => limit_hit',
         x \in Exports /\ rec = 0 => limit_hit'
  PROVE  \A u \in Threads : \A k \in DOMAIN stack'[u] : FrameTold(u, k)'
  <1> SUFFICES ASSUME NEW u \in Threads, NEW k \in DOMAIN stack'[u]
               PROVE  FrameTold(u, k)'
    OBVIOUS
  <1>1. CASE u = t /\ k = Len(stack[t]) + 1
    <2>1. stack'[u][k] = [target |-> x, ret_addr |-> s, rec |-> rec, below |-> Below(t)]
      BY <1>1, PushEffect
    <2>2. stack'[u][k].target = x /\ stack'[u][k].rec = rec
      BY <2>1
    <2>3. QED
      BY <2>2 DEF FrameTold
  <1>2. CASE ~(u = t /\ k = Len(stack[t]) + 1)
    <2>1. k \in DOMAIN stack[u] /\ stack'[u][k] = stack[u][k]
      <3>1. CASE u = t
        <4>1. k \in 1..(Len(stack[t]) + 1) /\ Len(stack[t]) \in Nat
          BY <3>1, PushEffect
        <4>2. k \in 1..Len(stack[t])
          BY <1>2, <3>1, <4>1
        <4>3. DOMAIN stack[t] = 1..Len(stack[t])
          BY LenProperties DEF TypeOK
        <4>4. QED
          BY <3>1, <4>2, <4>3, PushEffect
      <3>2. CASE u # t
        BY <3>2, PushEffect
      <3>3. QED
        BY <3>1, <3>2
    <2>2. FrameTold(u, k)
      BY <2>1 DEF LimitExact, FrameTold
    <2>3. QED
      BY <2>1, <2>2 DEF FrameTold
  <1>3. QED
    BY <1>1, <1>2

(* The number of records changes only when a call is logged.               *)
LEMMA OnReturnKeepsCount ==
  ASSUME SweepInv, NEW t \in Threads, NEW s \in Sites, NEW v \in Nat,
         OnReturn(t, s, v)
  PROVE  Len(calls') = Len(calls) /\ limit_hit' = limit_hit
  <1>1. CASE Matches(t, s) /\ Close(t, v)
    BY <1>1, CloseEffect DEF Close, CloseResult
  <1>2. CASE UNCHANGED log
    BY <1>2 DEF log
  <1>3. QED
    BY <1>1, <1>2 DEF OnReturn

(* The limit is exact, and a call of an export that is missing from the    *)
(* log was suppressed by it and reported as suppressed.                    *)
THEOREM LimitIsExact == Spec => []LimitExact
  <1>1. Init => LimitInv
    <2> SUFFICES ASSUME Init PROVE LimitExact
      BY SweepInvInit DEF LimitInv
    <2>1. Len(calls) = 0 /\ ~limit_hit
      BY DEF Init
    <2>2. \A t \in Threads : DOMAIN stack[t] = {}
      BY DEF Init
    <2>3. QED
      BY <2>1, <2>2, SweepAssumption DEF LimitExact
  <1>2. LimitInv /\ [Next]_vars => LimitInv'
    <2> SUFFICES ASSUME LimitInv, [Next]_vars PROVE LimitExact'
      BY SweepInvStep DEF LimitInv
    <2>0. SweepInv /\ TypeOK /\ LimitExact /\ Len(calls) \in Nat /\ limit_hit \in BOOLEAN
      BY LogShape DEF LimitInv, SweepInv, TypeOK
    <2> DEFINE Told == \A u \in Threads : \A k \in DOMAIN stack[u] : FrameTold(u, k)
               Count == /\ MaxCalls # 0 => Len(calls) <= MaxCalls
                        /\ limit_hit => MaxCalls # 0 /\ Len(calls) = MaxCalls
    <2>c. (Told' /\ Count' => LimitExact') /\ Count
      BY <2>0 DEF LimitExact, FrameTold
    <2>d. Len(calls') = Len(calls) /\ limit_hit' = limit_hit => Count'
      BY <2>c
    <2> HIDE DEF Told
    <2>1. ASSUME NEW t \in Threads, NEW p \in 0..MaxPosition, NEW s \in Sites,
                 NEW x \in Targets, CallUnresolved(t, x, s, p)
          PROVE  LimitExact'
      <3>1. x \notin Exports /\ limit_hit' = limit_hit /\ calls' = calls
        BY <2>1, SweepAssumption DEF CallUnresolved, log
      <3>2. Told'
        BY <2>0, <2>1, <3>1, PushKeepsTold DEF CallUnresolved, Told
      <3>3. QED
        BY <2>c, <2>d, <3>1, <3>2
    <2>2. ASSUME NEW t \in Threads, NEW p \in 0..MaxPosition, NEW s \in Sites,
                 NEW x \in Targets, CallDropped(t, x, s, p)
          PROVE  LimitExact'
      <3>1. limit_hit' /\ calls' = calls /\ AtLimit
        BY <2>2 DEF CallDropped
      <3>2. Told'
        BY <2>0, <2>2, <3>1, PushKeepsTold DEF CallDropped, Told
      <3>3. Count'
        BY <2>0, <2>c, <3>1, SweepAssumption DEF AtLimit
      <3>4. QED
        BY <2>c, <3>2, <3>3
    <2>3. ASSUME NEW t \in Threads, NEW p \in 0..MaxPosition, NEW s \in Sites,
                 NEW x \in Targets, NEW args \in Decodings(x),
                 CallLogged(t, x, s, p, args)
          PROVE  LimitExact'
      <3>1. /\ limit_hit' = limit_hit
            /\ ~AtLimit
            /\ Push(t, x, s, Len(calls) + 1)
        BY <2>3, Zenon DEF CallLogged
      <3>2. Len(calls') = Len(calls) + 1
        BY <2>0, <2>3, LoggedEffect
      <3>3. Len(calls) + 1 \in Nat \ {0}
        BY <2>0
      <3>4. Told'
        BY <2>0, <3>1, <3>3, PushKeepsTold DEF Told
      <3>5. Count'
        BY <2>0, <2>c, <3>1, <3>2, SweepAssumption DEF AtLimit
      <3>6. QED
        BY <2>c, <3>4, <3>5
    <2>4. ASSUME NEW t \in Threads, NEW p \in 0..MaxPosition, Return(t, p)
          PROVE  LimitExact'
      <3>1. OnReturn(t, Last(stack[t]).ret_addr, Last(stack[t]).rec)
        BY <2>4 DEF Return
      <3>2. Len(calls') = Len(calls) /\ limit_hit' = limit_hit
        BY <2>0, <2>4, <3>1, ReturnDropsOne, OnReturnKeepsCount
      <3>3. Told'
        BY <2>0, <2>4, <3>2, ReturnDropsOne, DropKeepsTold DEF Told
      <3>4. QED
        BY <2>c, <2>d, <3>2, <3>3
    <2>5. ASSUME NEW t \in Threads, NEW p \in 0..MaxPosition, NEW s \in Sites,
                 ReturnOld(t, s, p)
          PROVE  LimitExact'
      <3>1. Len(calls') = Len(calls) /\ limit_hit' = limit_hit /\ stack' = stack
        BY <2>0, <2>5, OnReturnKeepsCount DEF ReturnOld
      <3>2. QED
        BY <2>0, <3>1 DEF LimitExact
    <2>6. ASSUME NEW t \in Threads, NEW n \in 1..MaxEvents, Unwind(t, n)
          PROVE  LimitExact'
      <3>1. limit_hit' = limit_hit /\ calls' = calls
        BY <2>6 DEF Unwind, log
      <3>2. n \in 0..Len(stack[t])
        BY <2>0, <2>6, LenProperties DEF Unwind, TypeOK
      <3>3. Told'
        BY <2>0, <2>6, <3>1, <3>2, DropKeepsTold DEF Unwind, Told
      <3>4. QED
        BY <2>c, <2>d, <3>1, <3>3
    <2>7. CASE UNCHANGED vars
      BY <2>0, <2>7 DEF vars, guest, log, LimitExact
    <2>8. QED
      BY <2>1, <2>2, <2>3, <2>4, <2>5, <2>6, <2>7 DEF Next, ThreadNext
  <1>3. LimitInv => LimitExact
    BY DEF LimitInv
  <1>4. QED
    BY <1>1, <1>2, <1>3, PTL DEF Spec
----------------------------------------------------------------------------
(* What the sweep reports while it goes on: the [Out] parameters of a     *)
(* call, and the progress lines.                                           *)

(* A record whose outputs and return value are in step.                    *)
InStep(record) ==
  /\ record.args = "outs pending" => ~record.has_ret
  /\ record.args = "outs filled" => record.has_ret

LEMMA LoggedInStep ==
  ASSUME TypeOK, OutputsComeWithReturn,
         NEW t \in Threads, NEW x \in Targets, NEW s \in Sites,
         NEW p \in 0..MaxPosition, NEW args \in Decodings(x),
         CallLogged(t, x, s, p, args)
  PROVE  OutputsComeWithReturn'
  <1>1. /\ calls' \in Seq(CallRecord)
        /\ Len(calls) \in Nat
        /\ Len(calls') = Len(calls) + 1
        /\ \A i \in 1..Len(calls) : calls'[i] = calls[i]
    BY LoggedEffect, LogShape
  <1> DEFINE record == [tid |-> t, seq |-> seq, target |-> x, ret_addr |-> s,
                        position |-> p, args |-> args, has_ret |-> FALSE, ret |-> 0]
  <1>a. record.args = args /\ ~record.has_ret
    OBVIOUS
  <1>b. calls'[Len(calls) + 1] = record
    BY LoggedEffect
  <1> HIDE DEF record
  <1>2. DOMAIN calls' = 1..(Len(calls) + 1) /\ DOMAIN calls = 1..Len(calls)
    BY <1>1, LenProperties, LogShape
  <1>3. args # "outs filled"
    BY DEF Decodings
  <1>4. \A i \in 1..Len(calls) : InStep(calls'[i])
    BY <1>1, <1>2 DEF OutputsComeWithReturn, InStep
  <1>5. InStep(calls'[Len(calls) + 1])
    BY <1>3, <1>a, <1>b DEF InStep
  <1>6. \A i \in 1..(Len(calls) + 1) : i \in 1..Len(calls) \/ i = Len(calls) + 1
    BY <1>1
  <1>7. \A i \in DOMAIN calls' : InStep(calls'[i])
    BY <1>2, <1>4, <1>5, <1>6
  <1>8. QED
    BY <1>7 DEF OutputsComeWithReturn, InStep

(* The entry that is closed knows whether its record has outputs waiting.  *)
LEMMA CloseInStep ==
  ASSUME SweepInv, OutputsComeWithReturn,
         NEW t \in Threads, NEW s \in Sites, NEW v \in Nat,
         Matches(t, s), Close(t, v)
  PROVE  OutputsComeWithReturn'
  <1> DEFINE m == Len(in_flight[t])
             top == in_flight[t][m]
             c == top.call_index
  <1>1. /\ m \in Nat \ {0}
        /\ c \in 1..Len(calls)
        /\ calls' \in Seq(CallRecord)
        /\ Len(calls') = Len(calls)
        /\ \A i \in 1..Len(calls) \ {c} : calls'[i] = calls[i]
        /\ calls'[c] = Finished(calls[c], top, v)
    BY CloseEffect DEF CloseResult
  <1>2. /\ DOMAIN calls = 1..Len(calls)
        /\ DOMAIN calls' = 1..Len(calls)
        /\ m \in DOMAIN in_flight[t]
        /\ calls[c] \in CallRecord
    BY <1>1, LogShape, LenProperties DEF SweepInv
  <1>3. top.pending <=> calls[c].args = "outs pending"
    BY <1>1, <1>2 DEF SweepInv, EntriesAreOpenRecords, NamesOpenRecord
  <1> HIDE DEF m, top, c
  <1>4. calls'[c].has_ret = TRUE
    BY <1>1, <1>2, Zenon DEF Finished, CallRecord
  <1>5. calls'[c].args = IF top.pending THEN "outs filled" ELSE calls[c].args
    BY <1>1, <1>2 DEF Finished, CallRecord
  <1>6. InStep(calls'[c])
    BY <1>3, <1>4, <1>5 DEF InStep
  <1>7. \A i \in 1..Len(calls) \ {c} : InStep(calls'[i])
    BY <1>1, <1>2 DEF OutputsComeWithReturn, InStep
  <1>8. \A i \in DOMAIN calls' : InStep(calls'[i])
    BY <1>2, <1>6, <1>7
  <1>9. QED
    BY <1>8 DEF OutputsComeWithReturn, InStep

LEMMA OnReturnInStep ==
  ASSUME SweepInv, OutputsComeWithReturn,
         NEW t \in Threads, NEW s \in Sites, NEW v \in Nat, OnReturn(t, s, v)
  PROVE  OutputsComeWithReturn'
  <1>1. CASE Matches(t, s) /\ Close(t, v)
    BY <1>1, CloseInStep
  <1>2. CASE UNCHANGED log
    BY <1>2 DEF log, OutputsComeWithReturn
  <1>3. QED
    BY <1>1, <1>2 DEF OnReturn

(* For every guest and at every moment the sweep can be cut, [Out]         *)
(* parameters have been filled in for exactly the calls whose return was   *)
(* seen, if they have any (main.cpp:356-366).                              *)
THEOREM OutputsFilledAtReturn == Spec => []OutputsComeWithReturn
  <1> DEFINE Inv == SweepInv /\ OutputsComeWithReturn
  <1>1. Init => Inv
    <2> SUFFICES ASSUME Init PROVE OutputsComeWithReturn
      BY SweepInvInit
    <2>1. DOMAIN calls = {}
      BY DEF Init
    <2>2. QED
      BY <2>1 DEF OutputsComeWithReturn
  <1>2. Inv /\ [Next]_vars => Inv'
    <2> SUFFICES ASSUME Inv, [Next]_vars PROVE OutputsComeWithReturn'
      BY SweepInvStep
    <2>0. SweepInv /\ TypeOK /\ OutputsComeWithReturn
      BY DEF SweepInv
    <2>s. calls' = calls => OutputsComeWithReturn'
      BY <2>0 DEF OutputsComeWithReturn
    <2> HIDE DEF Inv
    <2>1. ASSUME NEW t \in Threads, NEW p \in 0..MaxPosition, NEW s \in Sites,
                 NEW x \in Targets, NEW args \in Decodings(x),
                 CallLogged(t, x, s, p, args)
          PROVE  OutputsComeWithReturn'
      BY <2>0, <2>1, LoggedInStep
    <2>2. ASSUME NEW t \in Threads, NEW p \in 0..MaxPosition, Return(t, p)
          PROVE  OutputsComeWithReturn'
      <3>1. OnReturn(t, Last(stack[t]).ret_addr, Last(stack[t]).rec)
        BY <2>2 DEF Return
      <3>2. QED
        BY <2>0, <2>2, <3>1, ReturnDropsOne, OnReturnInStep
    <2>3. ASSUME NEW t \in Threads, NEW p \in 0..MaxPosition, NEW s \in Sites,
                 ReturnOld(t, s, p)
          PROVE  OutputsComeWithReturn'
      BY <2>0, <2>3, OnReturnInStep DEF ReturnOld
    <2>4. ASSUME NEW t \in Threads, NEW p \in 0..MaxPosition, NEW s \in Sites,
                 NEW x \in Targets,
                 CallUnresolved(t, x, s, p) \/ CallDropped(t, x, s, p)
          PROVE  OutputsComeWithReturn'
      BY <2>s, <2>4 DEF CallUnresolved, CallDropped, log
    <2>5. ASSUME NEW t \in Threads, NEW n \in 1..MaxEvents, Unwind(t, n)
          PROVE  OutputsComeWithReturn'
      BY <2>s, <2>5 DEF Unwind, log
    <2>6. CASE UNCHANGED vars
      BY <2>s, <2>6 DEF vars, log
    <2>7. QED
      BY <2>1, <2>2, <2>3, <2>4, <2>5, <2>6 DEF Next, ThreadNext
  <1>3. QED
    BY <1>1, <1>2, PTL DEF Spec
----------------------------------------------------------------------------
(* No step takes a record out of the log.                                  *)
LEMMA LogGrows ==
  ASSUME SweepInv, [Next]_vars
  PROVE  Len(calls) \in Nat /\ Len(calls') \in Nat /\ Len(calls) <= Len(calls')
  <1>0. TypeOK /\ Len(calls) \in Nat
    BY LogShape DEF SweepInv
  <1>s. Len(calls') = Len(calls) => Len(calls') \in Nat /\ Len(calls) <= Len(calls')
    BY <1>0
  <1> DEFINE Goal == Len(calls') \in Nat /\ Len(calls) <= Len(calls')
  <1>1. ASSUME NEW t \in Threads, NEW p \in 0..MaxPosition, NEW s \in Sites,
               NEW x \in Targets, NEW args \in Decodings(x),
               CallLogged(t, x, s, p, args)
        PROVE  Goal
    <2>1. Len(calls') = Len(calls) + 1
      BY <1>0, <1>1, LoggedEffect
    <2>2. QED
      BY <1>0, <2>1
  <1>2. ASSUME NEW t \in Threads, NEW p \in 0..MaxPosition, Return(t, p)
        PROVE  Goal
    <2>1. OnReturn(t, Last(stack[t]).ret_addr, Last(stack[t]).rec)
      BY <1>2 DEF Return
    <2>2. QED
      BY <1>0, <1>2, <1>s, <2>1, ReturnDropsOne, OnReturnKeepsCount
  <1>3. ASSUME NEW t \in Threads, NEW p \in 0..MaxPosition, NEW s \in Sites,
               ReturnOld(t, s, p)
        PROVE  Goal
    BY <1>0, <1>3, <1>s, OnReturnKeepsCount DEF ReturnOld
  <1>4. ASSUME NEW t \in Threads, NEW p \in 0..MaxPosition, NEW s \in Sites,
               NEW x \in Targets, CallUnresolved(t, x, s, p) \/ CallDropped(t, x, s, p)
        PROVE  Goal
    BY <1>s, <1>4 DEF CallUnresolved, CallDropped, log
  <1>5. ASSUME NEW t \in Threads, NEW n \in 1..MaxEvents, Unwind(t, n)
        PROVE  Goal
    BY <1>s, <1>5 DEF Unwind, log
  <1>6. CASE UNCHANGED vars
    BY <1>s, <1>6 DEF vars, log
  <1>7. QED
    BY <1>0, <1>1, <1>2, <1>3, <1>4, <1>5, <1>6 DEF Next, ThreadNext

(* A step prints no line, or one at the highest percentage so far with the *)
(* number of records so far.                                               *)
LEMMA LineOfStep ==
  ASSUME TypeOK, [Next]_vars
  PROVE  \/ UNCHANGED progress
         \/ /\ line' = [pct |-> highest_pct', calls |-> Len(calls)]
            /\ highest_pct <= highest_pct'
  <1>1. ASSUME NEW t \in Threads, NEW p \in 0..MaxPosition, Event(t, p)
        PROVE  \/ UNCHANGED progress
               \/ /\ line' = [pct |-> highest_pct', calls |-> Len(calls)]
                  /\ highest_pct <= highest_pct'
    <2>1. Percent(p) \in 0..FinalSequence
      BY SweepAssumption DEF Percent
    <2>2. highest_pct \in 0..FinalSequence
      BY DEF TypeOK
    <2>3. CASE PrintProgress(p)
      BY <2>1, <2>2, <2>3, SweepAssumption DEF PrintProgress
    <2>4. QED
      BY <1>1, <2>3 DEF Event
  <1>2. UNCHANGED vars => UNCHANGED progress
    BY DEF vars
  <1>3. \A t \in Threads : \A n \in 1..MaxEvents : Unwind(t, n) => UNCHANGED progress
    BY DEF Unwind
  <1>4. ASSUME NEW t \in Threads, NEW p \in 0..MaxPosition, NEW s \in Sites,
               NEW x \in Targets
        PROVE  /\ CallUnresolved(t, x, s, p) => Event(t, p)
               /\ CallDropped(t, x, s, p) => Event(t, p)
               /\ \A args \in Decodings(x) : CallLogged(t, x, s, p, args) => Event(t, p)
    BY DEF CallUnresolved, CallDropped, CallLogged
  <1>5. ASSUME NEW t \in Threads, NEW p \in 0..MaxPosition
        PROVE  /\ Return(t, p) => Event(t, p)
               /\ \A s \in Sites : ReturnOld(t, s, p) => Event(t, p)
    BY DEF Return, ReturnOld
  <1>6. CASE Next
    <2>1. PICK t \in Threads : ThreadNext(t)
      BY <1>6 DEF Next
    <2>2. \/ \E p \in 0..MaxPosition : Event(t, p)
          \/ UNCHANGED progress
      BY <2>1, <1>3, <1>4, <1>5 DEF ThreadNext
    <2>3. QED
      BY <1>1, <2>2
  <1>7. QED
    BY <1>2, <1>6

(* The progress a reader of stderr sees never goes backwards, in whatever  *)
(* order the engine reports positions (main.cpp:237-245).                  *)
THEOREM ProgressNeverBack == Spec => ProgressForward
  <1> DEFINE Reached == line.pct <= highest_pct /\ line.calls <= Len(calls)
             Inv == SweepInv /\ Reached
             Forward == line'.pct >= line.pct /\ line'.calls >= line.calls
  <1>1. Init => Inv
    <2> SUFFICES ASSUME Init PROVE Reached
      BY SweepInvInit
    <2>1. line = [pct |-> 0, calls |-> 0] /\ highest_pct = 0 /\ calls = <<>>
      BY DEF Init
    <2>2. QED
      BY <2>1
  <1>2. Inv /\ [Next]_vars => Inv' /\ [Forward]_line
    <2> SUFFICES ASSUME Inv, [Next]_vars PROVE Reached' /\ [Forward]_line
      BY SweepInvStep
    <2>0. /\ SweepInv /\ TypeOK /\ Reached
          /\ SweepInv'
      BY SweepInvStep DEF SweepInv
    <2>1. /\ highest_pct \in Nat /\ highest_pct' \in Nat
          /\ line.pct \in Nat /\ line.calls \in Nat
      <3>1. TypeOK /\ TypeOK'
        BY <2>0 DEF SweepInv
      <3>2. QED
        BY <3>1, SweepAssumption DEF TypeOK
    <2>2. Len(calls) \in Nat /\ Len(calls') \in Nat /\ Len(calls) <= Len(calls')
      BY <2>0, LogGrows
    <2>3. CASE UNCHANGED progress
      BY <2>0, <2>1, <2>2, <2>3 DEF progress
    <2>4. CASE /\ line' = [pct |-> highest_pct', calls |-> Len(calls)]
               /\ highest_pct <= highest_pct'
      <3>1. line'.pct = highest_pct' /\ line'.calls = Len(calls)
        BY <2>4
      <3>2. QED
        BY <2>0, <2>1, <2>2, <2>4, <3>1
    <2>5. QED
      BY <2>0, <2>3, <2>4, LineOfStep
  <1>3. QED
    BY <1>1, <1>2, PTL DEF Spec, ProgressForward
----------------------------------------------------------------------------
Logged(frame) == IF frame.rec = 0 THEN 0 ELSE 1

(* Frame k of thread t sits where its below field says, and if it is       *)
(* logged then the entry at that height is its own.                        *)
FrameInPlace(t, k) ==
  LET f == stack[t][k] IN
  /\ f.target \in CallsAt[f.ret_addr]
  /\ f.rec # 0 <=> f.target \in Exports
  /\ f.below = IF k = 1 THEN 0
               ELSE stack[t][k - 1].below + Logged(stack[t][k - 1])
  /\ \A j \in 1..(k - 1) : stack[t][j].below + Logged(stack[t][j]) <= f.below
  /\ f.rec # 0 => /\ f.below + 1 \in DOMAIN in_flight[t]
                  /\ in_flight[t][f.below + 1].call_index = f.rec
                  /\ in_flight[t][f.below + 1].ret_addr = f.ret_addr

(* Entries come from call instructions that reach exports only.            *)
EntryFromExportSite(t, k) == CallsAt[in_flight[t][k].ret_addr] \subseteq Exports

NestInv ==
  /\ SweepInv
  /\ \A t \in Threads :
       /\ \A k \in DOMAIN stack[t] : FrameInPlace(t, k)
       /\ \A k \in DOMAIN in_flight[t] : EntryFromExportSite(t, k)
       /\ Len(in_flight[t]) = Below(t)
  /\ returned \subseteq DOMAIN calls
  /\ ReturnedCallsHaveReturns
  /\ ReturnIsOwn

(* A stack's frames, and the height its next frame gets.                   *)
LEMMA StackShape ==
  ASSUME TypeOK, NEW t \in Threads
  PROVE  /\ Len(stack[t]) \in Nat
         /\ DOMAIN stack[t] = 1..Len(stack[t])
         /\ \A k \in DOMAIN stack[t] :
              /\ stack[t][k] \in Frame
              /\ stack[t][k].below \in Nat
              /\ stack[t][k].rec \in Nat
              /\ Logged(stack[t][k]) \in {0, 1}
         /\ Below(t) = IF Len(stack[t]) = 0 THEN 0
                       ELSE stack[t][Len(stack[t])].below + Logged(stack[t][Len(stack[t])])
         /\ Below(t) \in Nat
  <1>1. stack[t] \in Seq(Frame)
    BY DEF TypeOK
  <1>2. Len(stack[t]) \in Nat /\ DOMAIN stack[t] = 1..Len(stack[t])
    BY <1>1, LenProperties
  <1>3. \A k \in DOMAIN stack[t] : stack[t][k] \in Frame
    BY <1>1, <1>2, ElementOfSeq
  <1>4. \A k \in DOMAIN stack[t] : /\ stack[t][k].below \in Nat
                                   /\ stack[t][k].rec \in Nat
                                   /\ Logged(stack[t][k]) \in {0, 1}
    BY <1>3 DEF Frame, Logged
  <1>5. stack[t] = <<>> <=> Len(stack[t]) = 0
    BY <1>1, EmptySeq
  <1>6. Below(t) = IF Len(stack[t]) = 0 THEN 0
                   ELSE stack[t][Len(stack[t])].below + Logged(stack[t][Len(stack[t])])
    BY <1>5 DEF Below, Last, Logged
  <1>7. Below(t) \in Nat
    <2>1. CASE Len(stack[t]) = 0
      BY <1>6, <2>1
    <2>2. CASE Len(stack[t]) # 0
      <3>1. Len(stack[t]) \in DOMAIN stack[t]
        BY <1>2, <2>2
      <3>2. QED
        BY <1>4, <1>6, <2>2, <3>1
    <2>3. QED
      BY <2>1, <2>2
  <1>8. QED
    BY <1>2, <1>3, <1>4, <1>6, <1>7

(* The nesting after a call: the new frame is in place, with an entry of   *)
(* its own if it is logged, and the frames below it stay where they are.   *)
LEMMA PushKeepsNesting ==
  ASSUME NestInv, TypeOK', NEW t \in Threads, NEW x \in Targets, NEW s \in Sites,
         NEW rec \in Nat, Push(t, x, s, rec), x \in CallsAt[s],
         rec # 0 <=> x \in Exports,
         \A u \in Threads \ {t} : in_flight'[u] = in_flight[u],
         \A k \in 1..Len(in_flight[t]) : in_flight'[t][k] = in_flight[t][k],
         Len(in_flight'[t]) = Len(in_flight[t]) + (IF rec = 0 THEN 0 ELSE 1),
         rec # 0 => /\ in_flight'[t][Len(in_flight[t]) + 1].call_index = rec
                    /\ in_flight'[t][Len(in_flight[t]) + 1].ret_addr = s
  PROVE  \A u \in Threads : /\ \A k \in DOMAIN stack'[u] : FrameInPlace(u, k)'
                            /\ Len(in_flight'[u]) = Below(u)'
  <1> DEFINE n == Len(stack[t])
             f == [target |-> x, ret_addr |-> s, rec |-> rec, below |-> Below(t)]
  <1>0. TypeOK
    BY DEF NestInv, SweepInv
  <1>1. /\ \A u \in Threads \ {t} : stack'[u] = stack[u]
        /\ Len(stack'[t]) = n + 1
        /\ DOMAIN stack'[t] = 1..(n + 1)
        /\ \A k \in 1..n : stack'[t][k] = stack[t][k]
        /\ stack'[t][n + 1] = f
    BY <1>0, PushEffect
  <1>2. /\ n \in Nat
        /\ DOMAIN stack[t] = 1..n
        /\ Below(t) \in Nat
        /\ Below(t) = IF n = 0 THEN 0 ELSE stack[t][n].below + Logged(stack[t][n])
        /\ \A k \in 1..n : stack[t][k].below \in Nat /\ Logged(stack[t][k]) \in {0, 1}
    BY <1>0, StackShape
  <1>3. /\ f.target = x
        /\ f.ret_addr = s
        /\ f.rec = rec
        /\ f.below = Below(t)
    OBVIOUS
  <1>4. Len(in_flight[t]) = Below(t) /\ \A k \in 1..n : FrameInPlace(t, k)
    BY <1>2 DEF NestInv
  <1>5. DOMAIN in_flight'[t] = 1..Len(in_flight'[t])
    <2>1. in_flight'[t] \in Seq(InFlight)
      BY DEF TypeOK
    <2>2. QED
      BY <2>1, LenProperties
  <1>6. DOMAIN in_flight[t] = 1..Len(in_flight[t])
    BY <1>0, LogShape
  <1> HIDE DEF n, f
  <1>7. ASSUME NEW u \in Threads \ {t}
        PROVE  /\ \A k \in DOMAIN stack'[u] : FrameInPlace(u, k)'
               /\ Len(in_flight'[u]) = Below(u)'
    BY <1>1, SMTT(30) DEF NestInv, FrameInPlace, Below
  <1>8. ASSUME NEW k \in 1..n
        PROVE  FrameInPlace(t, k)'
    <2>1. FrameInPlace(t, k) /\ stack'[t][k] = stack[t][k]
      BY <1>1, <1>4
    <2>2. \A j \in 1..(k - 1) : stack'[t][j] = stack[t][j]
      BY <1>1, <1>2
    <2>3. k # 1 => stack'[t][k - 1] = stack[t][k - 1]
      BY <1>2, <2>2
    <2>4. \A i \in DOMAIN in_flight[t] :
            i \in DOMAIN in_flight'[t] /\ in_flight'[t][i] = in_flight[t][i]
      <3>1. Len(in_flight[t]) \in Nat
        BY <1>2, <1>4
      <3>2. \A i \in 1..Len(in_flight[t]) : i \in 1..Len(in_flight'[t])
        <4>1. CASE rec = 0
          BY <3>1, <4>1
        <4>2. CASE rec # 0
          <5>1. Len(in_flight'[t]) = Len(in_flight[t]) + 1
            BY <4>2
          <5>2. \A i \in 1..Len(in_flight[t]) : i \in 1..(Len(in_flight[t]) + 1)
            BY <3>1
          <5>3. QED
            BY <5>1, <5>2
        <4>3. QED
          BY <4>1, <4>2
      <3>3. QED
        BY <1>5, <1>6, <3>2
    <2>5. QED
      BY <2>1, <2>2, <2>3, <2>4 DEF FrameInPlace
  <1>9. ASSUME NEW k \in Nat, k = n + 1
        PROVE  FrameInPlace(t, k)'
    <2>1. n # 0 => stack'[t][n] = stack[t][n]
      BY <1>1, <1>2
    <2>2. f.below = IF n + 1 = 1 THEN 0
                    ELSE stack'[t][n].below + Logged(stack'[t][n])
      BY <1>2, <1>3, <2>1
    <2>3. \A j \in 1..n : stack'[t][j].below + Logged(stack'[t][j]) <= f.below
      <3> SUFFICES ASSUME NEW j \in 1..n
                   PROVE  stack[t][j].below + Logged(stack[t][j]) <= f.below
        BY <1>1
      <3>0. n \in 1..n /\ f.below = stack[t][n].below + Logged(stack[t][n])
        BY <1>2, <1>3
      <3>1. CASE j = n
        BY <1>2, <3>0, <3>1
      <3>2. CASE j # n
        <4>1. j \in 1..(n - 1)
          BY <1>2, <3>2
        <4>2. stack[t][j].below + Logged(stack[t][j]) <= stack[t][n].below
          BY <1>4, <3>0, <4>1 DEF FrameInPlace
        <4>3. QED
          BY <1>2, <3>0, <4>2
      <3>3. QED
        BY <3>1, <3>2
    <2>4. rec # 0 => f.below + 1 \in DOMAIN in_flight'[t]
      BY <1>2, <1>3, <1>4, <1>5
    <2>5. k - 1 = n /\ stack'[t][k] = f
      BY <1>1, <1>2, <1>9
    <2>6. rec # 0 => /\ in_flight'[t][f.below + 1].call_index = rec
                     /\ in_flight'[t][f.below + 1].ret_addr = s
      BY <1>3, <1>4
    <2>7. QED
      BY <1>3, <1>9, <2>2, <2>3, <2>4, <2>5, <2>6 DEF FrameInPlace
  <1>10. Len(in_flight'[t]) = Below(t)'
    <2>1. Below(t)' = f.below + Logged(f)
      <3>1. Last(stack'[t]) = f /\ stack'[t] # <<>>
        BY <1>1, <1>2 DEF Last
      <3>2. QED
        BY <3>1 DEF Below, Logged
    <2>2. QED
      BY <1>3, <1>4, <2>1 DEF Logged
  <1>11. \A k \in DOMAIN stack'[t] : FrameInPlace(t, k)'
    <2> SUFFICES ASSUME NEW k \in DOMAIN stack'[t] PROVE FrameInPlace(t, k)'
      OBVIOUS
    <2>1. k \in Nat /\ (k \in 1..n \/ k = n + 1)
      BY <1>1, <1>2
    <2>2. QED
      BY <1>8, <1>9, <2>1
  <1>12. QED
    BY <1>7, <1>10, <1>11

(* The nesting after a frame has returned and its entry, if it had one,    *)
(* has been popped.                                                        *)
LEMMA PopKeepsNesting ==
  ASSUME NestInv, NEW t \in Threads, Len(stack[t]) # 0,
         stack' = [stack EXCEPT ![t] = SubSeq(stack[t], 1, Len(stack[t]) - 1)],
         in_flight' \in [Threads -> Seq(InFlight)],
         \A u \in Threads \ {t} : in_flight'[u] = in_flight[u],
         Len(in_flight'[t]) = stack[t][Len(stack[t])].below,
         \A k \in 1..stack[t][Len(stack[t])].below : in_flight'[t][k] = in_flight[t][k]
  PROVE  \A u \in Threads : /\ \A k \in DOMAIN stack'[u] : FrameInPlace(u, k)'
                            /\ Len(in_flight'[u]) = Below(u)'
  <1> DEFINE n == Len(stack[t])
             b == stack[t][n].below
  <1>0. TypeOK
    BY DEF NestInv, SweepInv
  <1>1. /\ n \in Nat \ {0}
        /\ DOMAIN stack[t] = 1..n
        /\ \A k \in 1..n : stack[t][k].below \in Nat /\ Logged(stack[t][k]) \in {0, 1}
        /\ \A k \in 1..n : stack[t][k].rec \in Nat
    BY <1>0, StackShape
  <1>2. /\ \A u \in Threads \ {t} : stack'[u] = stack[u]
        /\ Len(stack'[t]) = n - 1
        /\ DOMAIN stack'[t] = 1..(n - 1)
        /\ \A k \in 1..(n - 1) : stack'[t][k] = stack[t][k]
    <2>1. 1 \in 0..Len(stack[t])
      BY <1>1
    <2>2. QED
      BY <1>0, <2>1, DropEffect
  <1>3. \A k \in 1..n : FrameInPlace(t, k)
    BY <1>1 DEF NestInv
  <1>4. DOMAIN in_flight'[t] = 1..b
    BY LenProperties
  <1>5. b \in Nat
    BY <1>1
  <1>6. stack'[t] \in Seq(Frame)
    BY <1>0, FrontType, <1>1 DEF TypeOK
  <1> HIDE DEF n, b
  <1>7. ASSUME NEW u \in Threads \ {t}
        PROVE  /\ \A k \in DOMAIN stack'[u] : FrameInPlace(u, k)'
               /\ Len(in_flight'[u]) = Below(u)'
    BY <1>2 DEF NestInv, FrameInPlace, Below
  <1>8. ASSUME NEW k \in DOMAIN stack'[t]
        PROVE  FrameInPlace(t, k)'
    <2>1. k \in 1..(n - 1) /\ k \in 1..n
      BY <1>1, <1>2
    <2>2. FrameInPlace(t, k) /\ stack'[t][k] = stack[t][k]
      BY <1>2, <1>3, <2>1
    <2>3. \A j \in 1..(k - 1) : stack'[t][j] = stack[t][j]
      BY <1>1, <1>2, <2>1
    <2>4. k # 1 => stack'[t][k - 1] = stack[t][k - 1]
      BY <2>1, <2>3, <1>1
    <2>5. stack[t][k].rec # 0 => stack[t][k].below + 1 \in 1..b
      <3>1. FrameInPlace(t, n)
        BY <1>1, <1>3
      <3>2. stack[t][k].below + Logged(stack[t][k]) <= b
        BY <2>1, <3>1 DEF FrameInPlace, b
      <3>3. stack[t][k].rec # 0 => Logged(stack[t][k]) = 1
        BY DEF Logged
      <3>4. QED
        BY <1>1, <1>5, <2>1, <3>2, <3>3
    <2>6. stack[t][k].rec # 0 =>
            /\ stack[t][k].below + 1 \in DOMAIN in_flight'[t]
            /\ in_flight'[t][stack[t][k].below + 1] = in_flight[t][stack[t][k].below + 1]
      BY <1>4, <2>5 DEF b, n
    <2>7. QED
      BY <2>2, <2>3, <2>4, <2>6 DEF FrameInPlace
  <1>9. Len(in_flight'[t]) = Below(t)'
    <2>1. FrameInPlace(t, n)
      BY <1>1, <1>3
    <2>2. b = IF n = 1 THEN 0 ELSE stack[t][n - 1].below + Logged(stack[t][n - 1])
      BY <2>1 DEF FrameInPlace, b
    <2>3. CASE n = 1
      <3>1. stack'[t] = <<>>
        BY <1>2, <1>6, <2>3, EmptySeq
      <3>2. QED
        BY <2>2, <2>3, <3>1 DEF Below, b, n
    <2>4. CASE n # 1
      <3>1. n - 1 \in 1..(n - 1)
        BY <1>1, <2>4
      <3>2. stack'[t] # <<>> /\ Last(stack'[t]) = stack[t][n - 1]
        BY <1>2, <3>1 DEF Last
      <3>3. QED
        BY <2>2, <2>4, <3>2 DEF Below, Logged, b, n
    <2>5. QED
      BY <2>3, <2>4
  <1>10. QED
    BY <1>7, <1>8, <1>9

LEMMA NestInvInit == Init => NestInv
  <1> SUFFICES ASSUME Init PROVE NestInv
    OBVIOUS
  <1>1. SweepInv
    BY SweepInvInit
  <1>2. \A t \in Threads : stack[t] = <<>> /\ in_flight[t] = <<>>
    BY DEF Init
  <1>3. \A t \in Threads : /\ DOMAIN stack[t] = {}
                           /\ DOMAIN in_flight[t] = {}
                           /\ Len(in_flight[t]) = 0
                           /\ Below(t) = 0
    BY <1>2 DEF Below
  <1>4. returned = {} /\ DOMAIN calls = {}
    BY DEF Init
  <1>5. QED
    BY <1>1, <1>3, <1>4 DEF NestInv, ReturnedCallsHaveReturns, ReturnIsOwn

(* A logged frame's return closes its own entry; that of any other frame   *)
(* is ignored.                                                             *)
LEMMA ReturnPairs ==
  ASSUME GuestNests, NestInv, NEW t \in Threads, NEW p \in 0..MaxPosition, Return(t, p)
  PROVE  LET f == Last(stack[t]) IN
         /\ f = stack[t][Len(stack[t])]
         /\ f.rec # 0 => /\ Matches(t, f.ret_addr)
                         /\ Close(t, f.rec)
                         /\ NewestEntry(t).call_index = f.rec
                         /\ Len(in_flight[t]) = f.below + 1
         /\ f.rec = 0 => UNCHANGED log /\ Len(in_flight[t]) = f.below
  <1> DEFINE f == Last(stack[t])
             n == Len(stack[t])
             m == Len(in_flight[t])
  <1>0. TypeOK
    BY DEF NestInv, SweepInv
  <1>1. f = stack[t][n] /\ n \in DOMAIN stack[t] /\ f.rec \in Nat
    BY <1>0, ReturnDropsOne
  <1>2. n \in Nat \ {0} /\ f.below \in Nat
    BY <1>0, <1>1, StackShape
  <1>3. FrameInPlace(t, n)
    BY <1>1 DEF NestInv
  <1>4. m = f.below + Logged(f)
    <2>1. m = Below(t)
      BY DEF NestInv
    <2>2. QED
      BY <1>0, <1>1, <1>2, <2>1, StackShape
  <1>5. OnReturn(t, f.ret_addr, f.rec)
    BY DEF Return
  <1>6. in_flight[t] \in Seq(InFlight) /\ DOMAIN in_flight[t] = 1..m
    BY <1>0, LogShape DEF TypeOK
  <1> HIDE DEF f, n
  <1>7. ASSUME f.rec # 0
        PROVE  /\ Matches(t, f.ret_addr)
               /\ Close(t, f.rec)
               /\ NewestEntry(t).call_index = f.rec
               /\ m = f.below + 1
    <2>1. m = f.below + 1
      BY <1>4, <1>7 DEF Logged
    <2>2. in_flight[t][m].call_index = f.rec /\ in_flight[t][m].ret_addr = f.ret_addr
      BY <1>1, <1>3, <1>7, <2>1 DEF FrameInPlace
    <2>3. in_flight[t] # <<>> /\ NewestEntry(t) = in_flight[t][m]
      BY <1>2, <2>1 DEF NewestEntry, Last
    <2>4. Matches(t, f.ret_addr)
      BY <2>2, <2>3 DEF Matches
    <2>5. QED
      BY <1>5, <2>1, <2>2, <2>3, <2>4 DEF OnReturn
  <1>8. ASSUME f.rec = 0
        PROVE  UNCHANGED log /\ m = f.below
    <2>1. m = f.below
      BY <1>2, <1>4, <1>8 DEF Logged
    <2>2. f.target \notin Exports /\ f.target \in CallsAt[f.ret_addr]
      BY <1>1, <1>3, <1>8 DEF FrameInPlace
    <2>3. ~Matches(t, f.ret_addr)
      <3> SUFFICES ASSUME Matches(t, f.ret_addr) PROVE FALSE
        OBVIOUS
      <3>1. NewestEntry(t) = in_flight[t][m] /\ m \in DOMAIN in_flight[t]
        <4>1. in_flight[t] # <<>>
          BY DEF Matches
        <4>2. m \in Nat \ {0} /\ Last(in_flight[t]) = in_flight[t][m]
          BY <1>6, <4>1, LastAndFront
        <4>3. QED
          BY <1>6, <4>2 DEF NewestEntry
      <3>2. EntryFromExportSite(t, m)
        BY <3>1 DEF NestInv
      <3>3. CallsAt[f.ret_addr] \subseteq Exports
        BY <3>1, <3>2 DEF EntryFromExportSite, Matches
      <3>4. QED
        BY <2>2, <3>3
    <2>4. QED
      BY <1>5, <2>1, <2>3 DEF OnReturn
  <1>9. QED
    BY <1>1, <1>7, <1>8 DEF f, n

(* The parts of NestInv that speak of the records alone.                   *)
Attributed ==
  /\ returned \subseteq DOMAIN calls
  /\ ReturnedCallsHaveReturns
  /\ ReturnIsOwn

NestedStacks ==
  \A t \in Threads : /\ \A k \in DOMAIN stack[t] : FrameInPlace(t, k)
                     /\ Len(in_flight[t]) = Below(t)

ExportSites ==
  \A t \in Threads : \A k \in DOMAIN in_flight[t] : EntryFromExportSite(t, k)

(* A call that is not logged.                                              *)
LEMMA UnloggedKeepsNesting ==
  ASSUME NestInv, SweepInv', NEW t \in Threads, NEW x \in Others, NEW s \in Sites,
         Push(t, x, s, 0), x \in CallsAt[s], UNCHANGED <<log, returned>>
  PROVE  NestInv'
  <1>1. in_flight' = in_flight /\ calls' = calls /\ returned' = returned
    BY DEF log
  <1>2. NestedStacks'
    <2>1. x \in Targets /\ x \notin Exports /\ 0 \in Nat
      BY SweepAssumption DEF Targets
    <2>2. Len(in_flight[t]) \in Nat /\ TypeOK'
      BY LogShape DEF NestInv, SweepInv
    <2>3. /\ 0 # 0 <=> x \in Exports
          /\ \A u \in Threads \ {t} : in_flight'[u] = in_flight[u]
          /\ \A k \in 1..Len(in_flight[t]) : in_flight'[t][k] = in_flight[t][k]
          /\ Len(in_flight'[t]) = Len(in_flight[t]) + (IF 0 = 0 THEN 0 ELSE 1)
      BY <1>1, <2>1, <2>2
    <2>4. \A u \in Threads : /\ \A k \in DOMAIN stack'[u] : FrameInPlace(u, k)'
                             /\ Len(in_flight'[u]) = Below(u)'
      BY ONLY <2>1, <2>2, <2>3, PushKeepsNesting, NestInv, Push(t, x, s, 0),
              x \in CallsAt[s], t \in Threads, s \in Sites
    <2>5. QED
      BY <2>4 DEF NestedStacks
  <1>3. ExportSites' /\ Attributed'
    BY <1>1 DEF NestInv, ExportSites, EntryFromExportSite, Attributed,
                ReturnedCallsHaveReturns, ReturnIsOwn
  <1>4. QED
    BY <1>2, <1>3 DEF NestInv, NestedStacks, ExportSites, Attributed

(* A logged call.                                                          *)
LEMMA LoggedKeepsNesting ==
  ASSUME GuestNests, NestInv, SweepInv', NEW t \in Threads, NEW p \in 0..MaxPosition,
         NEW s \in Sites, NEW x \in Targets, NEW args \in Decodings(x),
         CallLogged(t, x, s, p, args)
  PROVE  NestInv'
  <1> DEFINE n == Len(calls) + 1
             m == Len(in_flight[t]) + 1
             entry == [ret_addr |-> s, call_index |-> n, pending |-> args = "outs pending"]
  <1>1. TypeOK /\ TypeOK'
    BY DEF NestInv, SweepInv
  <1>2. /\ Len(calls) \in Nat
        /\ DOMAIN calls = 1..Len(calls)
        /\ Len(in_flight[t]) \in Nat
        /\ DOMAIN in_flight[t] = 1..Len(in_flight[t])
    BY <1>1, LogShape
  <1>3. /\ x \in Exports \cap CallsAt[s]
        /\ Push(t, x, s, n)
        /\ returned' = returned
    BY Zenon DEF CallLogged
  <1>4. /\ Len(calls') = n
        /\ \A i \in 1..Len(calls) : calls'[i] = calls[i]
        /\ calls'[n] = [tid |-> t, seq |-> seq, target |-> x, ret_addr |-> s,
                        position |-> p, args |-> args, has_ret |-> FALSE, ret |-> 0]
        /\ calls' \in Seq(CallRecord)
    BY <1>1, LoggedEffect, ZenonT(60)
  <1>5. /\ \A u \in Threads \ {t} : in_flight'[u] = in_flight[u]
        /\ Len(in_flight'[t]) = m
        /\ \A k \in 1..Len(in_flight[t]) : in_flight'[t][k] = in_flight[t][k]
        /\ in_flight'[t][m] = entry
        /\ in_flight' \in [Threads -> Seq(InFlight)]
    BY <1>1, LoggedEffect
  <1>6. entry.ret_addr = s /\ entry.call_index = n
    BY Zenon
  <1>7. DOMAIN in_flight'[t] = 1..m /\ DOMAIN calls' = 1..n
    BY <1>4, <1>5, LenProperties
  <1> HIDE DEF entry
  <1>8. n \in Nat /\ n # 0
    BY <1>2
  <1>9. ~calls'[n].has_ret
    <2> HIDE DEF n
    <2>1. QED
      BY <1>4
  <1> HIDE DEF n
  <1>10. NestedStacks'
    <2>1. Len(in_flight'[t]) = Len(in_flight[t]) + (IF n = 0 THEN 0 ELSE 1)
      BY <1>5, <1>8
    <2>2. in_flight'[t][Len(in_flight[t]) + 1].call_index = n
          /\ in_flight'[t][Len(in_flight[t]) + 1].ret_addr = s
      BY <1>5, <1>6
    <2>3. QED
      BY <1>1, <1>3, <1>5, <1>8, <2>1, <2>2, PushKeepsNesting DEF NestedStacks
  <1>11. ExportSites'
    <2> SUFFICES ASSUME NEW u \in Threads, NEW k \in DOMAIN in_flight'[u]
                 PROVE  EntryFromExportSite(u, k)'
      BY DEF ExportSites
    <2>1. CASE u = t /\ k = m
      <3>1. CallsAt[s] \subseteq Exports
        BY <1>3, SweepAssumption DEF GuestNests
      <3>2. in_flight'[u][k].ret_addr = s
        BY <1>5, <1>6, <2>1
      <3>3. QED
        BY <3>1, <3>2 DEF EntryFromExportSite
    <2>2. CASE ~(u = t /\ k = m)
      <3>1. k \in DOMAIN in_flight[u] /\ in_flight'[u][k] = in_flight[u][k]
        <4>1. CASE u = t
          <5>1. k \in 1..m /\ k # m
            BY <1>7, <2>2, <4>1
          <5>2. k \in 1..Len(in_flight[t])
            BY <1>2, <5>1
          <5>3. QED
            BY <1>2, <1>5, <4>1, <5>2
        <4>2. CASE u # t
          BY <1>5, <4>2
        <4>3. QED
          BY <4>1, <4>2
      <3>2. QED
        BY <3>1 DEF NestInv, EntryFromExportSite
    <2>3. QED
      BY <2>1, <2>2
  <1>12. Attributed'
    <2>1. \A i \in DOMAIN calls : i \in DOMAIN calls' /\ calls'[i] = calls[i]
      <3>1. \A i \in 1..Len(calls) : i \in 1..n
        BY <1>2 DEF n
      <3>2. QED
        BY <1>2, <1>4, <1>7, <3>1
    <2>2. \A i \in DOMAIN calls' : i \in DOMAIN calls \/ i = n
      BY <1>2, <1>7 DEF n
    <2>3. QED
      BY <1>3, <1>9, <2>1, <2>2
      DEF NestInv, Attributed, ReturnedCallsHaveReturns, ReturnIsOwn
  <1>13. QED
    BY <1>10, <1>11, <1>12 DEF NestInv, NestedStacks, ExportSites, Attributed

(* A return.                                                               *)
LEMMA ReturnKeepsNesting ==
  ASSUME GuestNests, NestInv, SweepInv', NEW t \in Threads, NEW p \in 0..MaxPosition,
         Return(t, p)
  PROVE  NestInv'
  <1> DEFINE n == Len(stack[t])
             f == stack[t][n]
             m == Len(in_flight[t])
  <1>0. TypeOK /\ SweepInv
    BY DEF NestInv, SweepInv
  <1>1. /\ n \in DOMAIN stack[t]
        /\ stack' = [stack EXCEPT ![t] = SubSeq(stack[t], 1, n - 1)]
        /\ f = Last(stack[t])
        /\ f.ret_addr \in Sites
        /\ f.rec \in Nat
    BY <1>0, ReturnDropsOne
  <1>2. n \in Nat \ {0} /\ f.below \in Nat
    BY <1>0, <1>1, StackShape
  <1>3. /\ f.rec # 0 => /\ Matches(t, f.ret_addr)
                        /\ Close(t, f.rec)
                        /\ NewestEntry(t).call_index = f.rec
                        /\ m = f.below + 1
        /\ f.rec = 0 => UNCHANGED log /\ m = f.below
    BY <1>1, ReturnPairs
  <1>4. returned' = returned \cup ({f.rec} \ {0})
    BY <1>1 DEF Return
  <1>5. in_flight' \in [Threads -> Seq(InFlight)]
    BY DEF SweepInv, TypeOK
  <1>6. /\ \A u \in Threads : DOMAIN in_flight[u] = 1..Len(in_flight[u])
        /\ DOMAIN calls = 1..Len(calls)
        /\ \A i \in DOMAIN calls : calls[i] \in CallRecord
    BY <1>0, LogShape
  <1> HIDE DEF f, n
  <1>7. CASE f.rec # 0
    <2> DEFINE c == in_flight[t][m].call_index
    <2>1. /\ c = f.rec
          /\ c \in 1..Len(calls)
          /\ calls' \in Seq(CallRecord)
          /\ Len(calls') = Len(calls)
          /\ \A i \in 1..Len(calls) \ {c} : calls'[i] = calls[i]
          /\ calls'[c] = Finished(calls[c], in_flight[t][m], f.rec)
          /\ \A u \in Threads \ {t} : in_flight'[u] = in_flight[u]
          /\ Len(in_flight'[t]) = m - 1
          /\ \A k \in 1..(m - 1) : in_flight'[t][k] = in_flight[t][k]
      BY <1>0, <1>1, <1>3, <1>7, CloseEffect DEF CloseResult
    <2>2. calls'[c].has_ret /\ calls'[c].ret = f.rec
      <3>1. calls[c] \in CallRecord
        BY <1>6, <2>1
      <3> HIDE DEF c, m
      <3>2. QED
        BY <2>1, <3>1 DEF Finished, CallRecord
    <2>3. m - 1 = f.below
      BY <1>2, <1>3, <1>7
    <2> HIDE DEF m, c
    <2>4. NestedStacks'
      BY <1>1, <1>2, <1>5, <2>1, <2>3, PopKeepsNesting DEF NestedStacks, f, n
    <2>5. ExportSites'
      <3> SUFFICES ASSUME NEW u \in Threads, NEW k \in DOMAIN in_flight'[u]
                   PROVE  EntryFromExportSite(u, k)'
        BY DEF ExportSites
      <3>1. k \in DOMAIN in_flight[u] /\ in_flight'[u][k] = in_flight[u][k]
        <4>1. CASE u = t
          <5>1. k \in 1..(m - 1)
            BY <1>5, <2>1, <4>1, LenProperties
          <5>2. m \in Nat /\ k \in 1..m
            BY <1>2, <1>3, <1>7, <5>1 DEF m
          <5>3. QED
            BY <1>6, <2>1, <4>1, <5>1, <5>2 DEF m
        <4>2. CASE u # t
          BY <2>1, <4>2
        <4>3. QED
          BY <4>1, <4>2
      <3>2. QED
        BY <3>1 DEF NestInv, EntryFromExportSite
    <2>6. Attributed'
      <3>1. DOMAIN calls' = DOMAIN calls
        BY <1>6, <2>1, LenProperties
      <3>2. c \in DOMAIN calls /\ returned' = returned \cup {c}
        BY <1>4, <1>6, <1>7, <2>1
      <3>3. \A i \in DOMAIN calls : i # c => calls'[i] = calls[i]
        BY <1>6, <2>1
      <3>4. QED
        BY <2>1, <2>2, <3>1, <3>2, <3>3
        DEF NestInv, Attributed, ReturnedCallsHaveReturns, ReturnIsOwn
    <2>7. QED
      BY <2>4, <2>5, <2>6 DEF NestInv, NestedStacks, ExportSites, Attributed
  <1>8. CASE f.rec = 0
    <2>1. in_flight' = in_flight /\ calls' = calls /\ returned' = returned
      BY <1>3, <1>4, <1>8 DEF log
    <2>2. NestedStacks'
      BY <1>1, <1>2, <1>3, <1>5, <1>8, <2>1, PopKeepsNesting DEF NestedStacks, f, n
    <2>3. ExportSites' /\ Attributed'
      BY <2>1 DEF NestInv, ExportSites, EntryFromExportSite, Attributed,
                  ReturnedCallsHaveReturns, ReturnIsOwn
    <2>4. QED
      BY <2>2, <2>3 DEF NestInv, NestedStacks, ExportSites, Attributed
  <1>9. QED
    BY <1>7, <1>8

(* A return of a frame older than the recording closes nothing.            *)
LEMMA ReturnOldIgnored ==
  ASSUME NestInv, NEW t \in Threads, NEW p \in 0..MaxPosition, NEW s \in Sites,
         ReturnOld(t, s, p)
  PROVE  UNCHANGED <<stack, returned, log>>
  <1>1. stack[t] = <<>> /\ OnReturn(t, s, 0)
    BY DEF ReturnOld
  <1>2. Len(in_flight[t]) = 0
    BY <1>1 DEF NestInv, Below
  <1>3. ~Matches(t, s)
    BY <1>2, EmptySeq DEF Matches, NestInv, SweepInv, TypeOK
  <1>4. QED
    BY <1>1, <1>3 DEF OnReturn, ReturnOld

LEMMA NestInvStep ==
  ASSUME GuestNests
  PROVE  NestInv /\ [Next]_vars => NestInv'
  <1> SUFFICES ASSUME NestInv, [Next]_vars PROVE NestInv'
    OBVIOUS
  <1>0. SweepInv'
    BY SweepInvStep DEF NestInv
  <1>1. ASSUME UNCHANGED <<stack, returned, log>>
        PROVE  NestInv'
    BY <1>0, <1>1 DEF NestInv, log, FrameInPlace, EntryFromExportSite, Below,
                      ReturnedCallsHaveReturns, ReturnIsOwn
  <1>2. ASSUME NEW t \in Threads, NEW p \in 0..MaxPosition, NEW s \in Sites,
               NEW x \in Targets, CallUnresolved(t, x, s, p)
        PROVE  NestInv'
    BY <1>0, <1>2, UnloggedKeepsNesting DEF CallUnresolved
  <1>3. ASSUME NEW t \in Threads, NEW p \in 0..MaxPosition, NEW s \in Sites,
               NEW x \in Targets, CallDropped(t, x, s, p)
        PROVE  NestInv'
    BY <1>3 DEF CallDropped, AtLimit, GuestNests
  <1>4. ASSUME NEW t \in Threads, NEW p \in 0..MaxPosition, NEW s \in Sites,
               NEW x \in Targets, NEW args \in Decodings(x),
               CallLogged(t, x, s, p, args)
        PROVE  NestInv'
    BY <1>0, <1>4, LoggedKeepsNesting
  <1>5. ASSUME NEW t \in Threads, NEW p \in 0..MaxPosition, Return(t, p)
        PROVE  NestInv'
    BY <1>0, <1>5, ReturnKeepsNesting
  <1>6. ASSUME NEW t \in Threads, NEW p \in 0..MaxPosition, NEW s \in Sites,
               ReturnOld(t, s, p)
        PROVE  NestInv'
    BY <1>1, <1>6, ReturnOldIgnored
  <1>7. ASSUME NEW t \in Threads, NEW n \in 1..MaxEvents, Unwind(t, n)
        PROVE  NestInv'
    BY <1>7 DEF Unwind, GuestNests
  <1>8. CASE UNCHANGED vars
    BY <1>1, <1>8 DEF vars, guest
  <1>9. QED
    BY <1>2, <1>3, <1>4, <1>5, <1>6, <1>7, <1>8 DEF Next, ThreadNext

(* For every guest whose calls nest, each recorded return value is that of *)
(* the call it is recorded for (main.cpp:347-369).                         *)
THEOREM ReturnsAreOwn ==
  ASSUME GuestNests
  PROVE  Spec => []ReturnIsOwn
  <1>1. NestInv => ReturnIsOwn
    BY DEF NestInv
  <1>2. QED
    BY <1>1, NestInvInit, NestInvStep, PTL DEF Spec

(* For every guest whose calls nest, a call lacks its return value only    *)
(* while it is open (main.cpp:389-392).                                    *)
THEOREM OnlyOpenCallsLackReturns ==
  ASSUME GuestNests
  PROVE  Spec => []ReturnedCallsHaveReturns
  <1>1. NestInv => ReturnedCallsHaveReturns
    BY DEF NestInv
  <1>2. QED
    BY <1>1, NestInvInit, NestInvStep, PTL DEF Spec
----------------------------------------------------------------------------
(* Every step of the two threads is a step of the sweep or leaves it.      *)
LEMMA ControlStepIsSweepStep ==
  ASSUME [ControlNext]_ControlVars
  PROVE  [Next]_vars
  <1>1. Replay => Next
    BY DEF Replay
  <1>2. StartPublishing \/ StartWatcher \/ BeginReplay \/ Withdraw => UNCHANGED vars
    BY DEF StartPublishing, StartWatcher, BeginReplay, Withdraw
  <1>3. WriteReports => UNCHANGED vars
    BY DEF WriteReports
  <1>4. \A reason : EndReplay(reason) => UNCHANGED vars
    BY DEF EndReplay
  <1>5. WatcherNext => UNCHANGED vars
    BY DEF WatcherNext, WatcherReads, WatcherAtEof, WatcherInterrupts
  <1>6. UNCHANGED ControlVars => UNCHANGED vars
    BY DEF ControlVars
  <1>7. QED
    BY <1>1, <1>2, <1>3, <1>4, <1>5, <1>6 DEF ControlNext, MainNext

(* A sweep under the control of wmain and its watcher is a sweep, ended    *)
(* where they end it (main.cpp:389-419): a cancel adds nothing to the log  *)
(* and takes nothing from it.                                              *)
THEOREM ControlledSweepIsSweep == ControlSpec => Spec
  <1>1. ControlInit => Init
    BY DEF ControlInit
  <1>2. [ControlNext]_ControlVars => [Next]_vars
    BY ControlStepIsSweepStep
  <1>3. QED
    BY <1>1, <1>2, PTL DEF ControlSpec, Spec

(* If the guest's calls nest, a cancel at any moment leaves every recorded *)
(* return value with the call it belongs to.                               *)
THEOREM CancelledReturnsAreOwn ==
  ASSUME GuestNests
  PROVE  ControlSpec => []ReturnIsOwn
  BY ControlledSweepIsSweep, ReturnsAreOwn, PTL

(* And only calls that had not returned at that moment lack theirs         *)
(* (main.cpp:389-392).                                                     *)
THEOREM CancelledLosesOnlyOpenCalls ==
  ASSUME GuestNests
  PROVE  ControlSpec => []ReturnedCallsHaveReturns
  BY ControlledSweepIsSweep, OnlyOpenCallsLackReturns, PTL
----------------------------------------------------------------------------
(* Where the main thread is tells whether the cursor can be found, and the *)
(* watcher is started after it can.                                        *)
ControlInv ==
  /\ ControlTypeOK
  /\ cursor <=> main \in {"published", "ready", "replaying", "stopped"}
  /\ main \in {"prepared", "published"} => watcher = "none"
  /\ NoCancelDroppedEarly

LEMMA ControlInvInit == ControlInit => ControlInv
  BY DEF ControlInit, ControlInv, ControlTypeOK, MainStates, WatcherStates,
         NoCancelDroppedEarly

LEMMA ControlInvStep == ControlInv /\ [ControlNext]_ControlVars => ControlInv'
  <1> SUFFICES ASSUME ControlInv, [ControlNext]_ControlVars PROVE ControlInv'
    OBVIOUS
  <1> USE DEF ControlInv, ControlTypeOK, MainStates, WatcherStates,
              NoCancelDroppedEarly, Goto
  <1>1. CASE StartPublishing
    BY <1>1 DEF StartPublishing, Publish
  <1>2. CASE StartWatcher
    BY <1>2 DEF StartWatcher
  <1>3. CASE BeginReplay
    BY <1>3 DEF BeginReplay
  <1>4. CASE Replay
    BY <1>4 DEF Replay, control
  <1>5. ASSUME NEW reason \in {"end", "interrupted"}, EndReplay(reason)
        PROVE  ControlInv'
    BY <1>5 DEF EndReplay
  <1>6. CASE Withdraw
    BY <1>6 DEF Withdraw
  <1>7. CASE WriteReports
    BY <1>7 DEF WriteReports
  <1>8. ASSUME NEW text, WatcherReads(text)
        PROVE  ControlInv'
    BY <1>8 DEF WatcherReads
  <1>9. CASE WatcherAtEof
    BY <1>9 DEF WatcherAtEof
  <1>10. CASE WatcherInterrupts
    BY <1>10 DEF WatcherInterrupts
  <1>11. CASE UNCHANGED ControlVars
    BY <1>11 DEF ControlVars, control
  <1>12. QED
    BY <1>1, <1>2, <1>3, <1>4, <1>5, <1>6, <1>7, <1>8, <1>9, <1>10, <1>11
    DEF ControlNext, MainNext, WatcherNext

(* The two threads, the cursor and the interrupt keep their types, as the  *)
(* sweep's own variables do (TypeCorrect).                                 *)
THEOREM ControlTypeCorrect == ControlSpec => [](TypeOK /\ ControlTypeOK)
  <1>1. ControlInv => ControlTypeOK
    BY DEF ControlInv
  <1>2. QED
    BY <1>1, ControlInvInit, ControlInvStep, ControlledSweepIsSweep, TypeCorrect, PTL
    DEF ControlSpec

(* No cancel that the watcher reads before the replay is over is dropped:  *)
(* the cursor is there before the watcher is (main.cpp:393-396).           *)
THEOREM CancelIsNotLost == ControlSpec => []NoCancelDroppedEarly
  <1>1. ControlInv => NoCancelDroppedEarly
    BY DEF ControlInv
  <1>2. QED
    BY <1>1, ControlInvInit, ControlInvStep, PTL DEF ControlSpec
============================================================================
