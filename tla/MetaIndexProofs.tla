-------------------------- MODULE MetaIndexProofs --------------------------
(***************************************************************************)
(* What MetaIndex guarantees for every index file, every table and every   *)
(* value: a signature that can be looked up is within its table, however   *)
(* far loading got, and the names decodeEnum gives, with the rest it       *)
(* leaves, make up the value exactly.  And what IndexBuilder makes of any  *)
(* metadata is served as it was meant.                                     *)
(***************************************************************************)
EXTENDS IndexBuilder, Induction

(* The elements of a sequence, and its domain.                             *)
LEMMA SeqFacts ==
  ASSUME NEW S, NEW s \in Seq(S)
  PROVE  /\ Len(s) \in Nat
         /\ DOMAIN s = 1..Len(s)
         /\ \A i \in DOMAIN s : s[i] \in S
  OBVIOUS

(* A sequence with one more element.                                       *)
LEMMA AppendFacts ==
  ASSUME NEW S, NEW s \in Seq(S), NEW x \in S
  PROVE  /\ Append(s, x) \in Seq(S)
         /\ DOMAIN Append(s, x) = DOMAIN s \cup {Len(s) + 1}
         /\ Len(s) + 1 \notin DOMAIN s
         /\ \A i \in DOMAIN s : Append(s, x)[i] = s[i]
         /\ Append(s, x)[Len(s) + 1] = x
  OBVIOUS

(* A function over 1..n is a sequence.                                     *)
LEMMA SeqByDomain ==
  ASSUME NEW S, NEW n \in Nat, NEW s \in [1..n -> S]
  PROVE  s \in Seq(S) /\ Len(s) = n /\ DOMAIN s = 1..n
  OBVIOUS
----------------------------------------------------------------------------
(* The tables of a file.                                                   *)
LEMMA FileTables ==
  ASSUME NEW file \in IndexFile
  PROVE  /\ file.funcs \in Seq(FuncRec)
         /\ file.params \in Seq(Nat \cup {NoEnum})
         /\ file.enums \in Seq(EnumRec)
         /\ file.values \in Seq(SUBSET Bits)
  BY Zenon DEF IndexFile

(* A sequence with one element replaced.                                   *)
LEMMA ExceptFacts ==
  ASSUME NEW S, NEW s \in Seq(S), NEW i \in DOMAIN s, NEW x \in S
  PROVE  /\ [s EXCEPT ![i] = x] \in Seq(S)
         /\ Len([s EXCEPT ![i] = x]) = Len(s)
         /\ DOMAIN [s EXCEPT ![i] = x] = DOMAIN s
         /\ [s EXCEPT ![i] = x][i] = x
         /\ \A k \in DOMAIN s : k # i => [s EXCEPT ![i] = x][k] = s[k]
  <1>1. /\ Len(s) \in Nat
        /\ DOMAIN s = 1..Len(s)
        /\ \A k \in DOMAIN s : s[k] \in S
    BY SeqFacts
  <1>2. [s EXCEPT ![i] = x] \in [1..Len(s) -> S]
    BY <1>1
  <1>3. [s EXCEPT ![i] = x] \in Seq(S) /\ Len([s EXCEPT ![i] = x]) = Len(s)
    BY ONLY <1>1, <1>2, SeqByDomain
  <1>4. QED
    BY <1>1, <1>3
----------------------------------------------------------------------------
(* What loading relies on and keeps: the tables have their types, the      *)
(* functions that can be looked up are among those loaded, and what they   *)
(* refer to is there.                                                      *)
FuncSig == [name : Names \cup {""}, first : Nat, count : Nat]

TablesTyped ==
  /\ candidates \in Candidates
  /\ phase \in {"closed", "functions", "ready", "failed"}
  /\ blob \in IndexFile
  /\ next \in Nat \ {0}
  /\ params \in Seq(Nat \cup {NoEnum})
  /\ funcs \in Seq(FuncSig)
  /\ enums \in Seq(EnumRec)

NamesLoaded ==
  /\ phase = "functions" => Len(funcs) = Len(blob.funcs)
  /\ phase = "closed" => DOMAIN by_name = {}
  /\ \A name \in DOMAIN by_name :
       /\ by_name[name] \in DOMAIN funcs
       /\ phase = "functions" => by_name[name] < next

LoadInv == TablesTyped /\ NamesLoaded /\ SignaturesInside

LEMMA LoadInvInit == Init => LoadInv
  <1> SUFFICES ASSUME Init PROVE LoadInv
    OBVIOUS
  <1>1. NoFile \in IndexFile
    BY DEF NoFile, IndexFile
  <1>2. TablesTyped
    BY <1>1 DEF Init, TablesTyped
  <1>3. DOMAIN by_name = {}
    BY DEF Init
  <1>4. phase = "closed"
    BY DEF Init
  <1>5. QED
    BY <1>2, <1>3, <1>4 DEF LoadInv, NamesLoaded, SignaturesInside

(* The file is taken over.                                                 *)
LEMMA LoadParamsKeeps ==
  ASSUME LoadInv, NEW i \in DOMAIN candidates, LoadParams(i)
  PROVE  LoadInv'
  <1> DEFINE file == candidates[i]
  <1>1. candidates \in Seq(Files \cup {Missing})
    BY IndexAssumption DEF LoadInv, TablesTyped
  <1>2. file \in Files
    BY <1>1 DEF LoadParams, Found
  <1>3. file \in IndexFile
    BY <1>2, IndexAssumption
  <1>4. /\ file.params \in Seq(Nat \cup {NoEnum})
        /\ file.funcs \in Seq(FuncRec)
        /\ Len(file.enums) \in Nat
    BY <1>3, FileTables, SeqFacts
  <1>5. /\ blob' = file
        /\ params' = [k \in DOMAIN file.params |-> Checked(file.params[k], Len(file.enums))]
        /\ funcs' = [k \in DOMAIN file.funcs |-> Unloaded]
        /\ phase' = "functions"
        /\ candidates' = candidates /\ next' = next
        /\ by_name' = by_name /\ enums' = enums
        /\ DOMAIN by_name = {}
    BY DEF LoadParams, LoadInv, NamesLoaded
  <1> HIDE DEF file
  <1>6. params' \in Seq(Nat \cup {NoEnum})
    <2>1. DOMAIN file.params = 1..Len(file.params) /\ Len(file.params) \in Nat
      BY <1>4, SeqFacts
    <2>2. \A k \in DOMAIN file.params : file.params[k] \in Nat \cup {NoEnum}
      BY <1>4, SeqFacts
    <2>3. \A k \in DOMAIN file.params :
            Checked(file.params[k], Len(file.enums)) \in Nat \cup {NoEnum}
      BY <2>2 DEF Checked
    <2>4. params' \in [1..Len(file.params) -> Nat \cup {NoEnum}]
      BY <1>5, <2>1, <2>3
    <2>5. QED
      BY <2>1, <2>4, SeqByDomain
  <1>7. funcs' \in Seq(FuncSig) /\ Len(funcs') = Len(file.funcs)
    <2>1. DOMAIN file.funcs = 1..Len(file.funcs) /\ Len(file.funcs) \in Nat
      BY <1>4, SeqFacts
    <2>2. Unloaded \in FuncSig
      BY DEF Unloaded, FuncSig
    <2>3. funcs' \in [1..Len(file.funcs) -> FuncSig]
      BY <1>5, <2>1, <2>2
    <2>4. QED
      BY ONLY <2>1, <2>3, SeqByDomain
  <1>8. TablesTyped'
    BY <1>3, <1>5, <1>6, <1>7 DEF LoadInv, TablesTyped
  <1>9. NamesLoaded'
    BY <1>5, <1>7 DEF NamesLoaded
  <1>10. SignaturesInside'
    BY <1>5 DEF SignaturesInside
  <1>11. QED
    BY <1>8, <1>9, <1>10 DEF LoadInv

(* A function record is loaded, or loading stops there.                    *)
LEMMA LoadFunctionKeeps ==
  ASSUME LoadInv, LoadFunction
  PROVE  LoadInv'
  <1> DEFINE rec == blob.funcs[next]
  <1>1. /\ next \in DOMAIN blob.funcs
        /\ phase = "functions"
        /\ funcs' = [funcs EXCEPT ![next] = rec]
        /\ candidates' = candidates /\ blob' = blob /\ params' = params /\ enums' = enums
    BY DEF LoadFunction
  <1>t. /\ candidates \in Candidates /\ blob \in IndexFile /\ next \in Nat \ {0}
        /\ params \in Seq(Nat \cup {NoEnum}) /\ funcs \in Seq(FuncSig)
        /\ enums \in Seq(EnumRec)
    BY DEF LoadInv, TablesTyped
  <1>2. rec \in FuncSig
    <2>1. blob.funcs \in Seq(FuncRec)
      BY <1>t, FileTables
    <2>2. rec \in FuncRec
      BY ONLY <1>1, <2>1, SeqFacts
    <2>3. QED
      BY <2>2 DEF FuncRec, FuncSig
  <1>3. next \in DOMAIN funcs /\ DOMAIN funcs \subseteq Nat
    <2>1. /\ Len(blob.funcs) \in Nat
          /\ DOMAIN blob.funcs = 1..Len(blob.funcs)
      BY <1>t, FileTables, SeqFacts
    <2>2. DOMAIN funcs = 1..Len(funcs) /\ Len(funcs) \in Nat
      BY <1>t, SeqFacts
    <2>3. Len(funcs) = Len(blob.funcs)
      BY <1>1 DEF LoadInv, NamesLoaded
    <2>4. QED
      BY ONLY <1>1, <2>1, <2>2, <2>3
  <1> HIDE DEF rec
  <1>5. /\ funcs' \in Seq(FuncSig)
        /\ DOMAIN funcs' = DOMAIN funcs
        /\ Len(funcs') = Len(funcs)
        /\ funcs'[next] = rec
        /\ \A k \in DOMAIN funcs : k # next => funcs'[k] = funcs[k]
    BY ONLY <1>1, <1>t, <1>2, <1>3, ExceptFacts
  <1>6. \A name \in DOMAIN by_name : by_name[name] \in DOMAIN funcs /\ by_name[name] # next
    BY <1>1, <1>3, <1>t DEF LoadInv, NamesLoaded
  <1>7. \A name \in DOMAIN by_name : funcs'[by_name[name]] = funcs[by_name[name]]
    BY <1>5, <1>6
  <1>8. CASE rec.first + rec.count > Len(params)
    <2>1. phase' = "failed" /\ by_name' = by_name /\ next' = next
      BY <1>8 DEF LoadFunction, rec
    <2>2. TablesTyped'
      BY <1>1, <1>t, <1>5, <2>1 DEF TablesTyped
    <2>3. NamesLoaded'
      BY <1>5, <1>6, <2>1 DEF NamesLoaded
    <2>4. SignaturesInside'
      BY <1>1, <1>7, <2>1 DEF LoadInv, SignaturesInside
    <2>5. QED
      BY <2>2, <2>3, <2>4 DEF LoadInv
  <1>9. CASE ~(rec.first + rec.count > Len(params))
    <2>1. by_name' = Emplaced(rec.name, next) /\ next' = next + 1 /\ phase' = phase
      BY <1>9 DEF LoadFunction, rec
    <2>2. TablesTyped'
      <3>1. next' \in Nat \ {0}
        BY <1>t, <2>1
      <3>2. QED
        BY <1>1, <1>t, <1>5, <2>1, <3>1 DEF TablesTyped
    <2>3. \A name \in DOMAIN by_name' :
            \/ name \in DOMAIN by_name /\ by_name'[name] = by_name[name]
            \/ name = rec.name /\ by_name'[name] = next
      BY <2>1 DEF Emplaced
    <2>4. NamesLoaded'
      <3>1. Len(funcs') = Len(blob'.funcs)
        BY <1>1, <1>5 DEF LoadInv, NamesLoaded
      <3>2. \A name \in DOMAIN by_name : by_name[name] \in DOMAIN funcs /\ by_name[name] < next
        BY <1>1 DEF LoadInv, NamesLoaded
      <3>3. \A name \in DOMAIN by_name' :
              by_name'[name] \in DOMAIN funcs /\ by_name'[name] < next + 1
        <4>1. ASSUME NEW name \in DOMAIN by_name', name \in DOMAIN by_name,
                     by_name'[name] = by_name[name]
              PROVE  by_name'[name] \in DOMAIN funcs /\ by_name'[name] < next + 1
          BY <1>t, <1>3, <3>2, <4>1
        <4>2. ASSUME NEW name \in DOMAIN by_name', by_name'[name] = next
              PROVE  by_name'[name] \in DOMAIN funcs /\ by_name'[name] < next + 1
          BY <1>t, <1>3, <4>2
        <4>3. QED
          BY <2>3, <4>1, <4>2
      <3>4. QED
        BY <1>1, <1>5, <2>1, <3>1, <3>3 DEF NamesLoaded
    <2>5. SignaturesInside'
      <3>1. rec.first + rec.count <= Len(params)
        <4>1. rec.first \in Nat /\ rec.count \in Nat
          BY <1>2 DEF FuncSig
        <4>2. Len(params) \in Nat
          BY <1>t, SeqFacts
        <4>3. QED
          BY ONLY <1>9, <4>1, <4>2
      <3>2. \A name \in DOMAIN by_name' :
              /\ funcs'[by_name'[name]].name = name
              /\ funcs'[by_name'[name]].first + funcs'[by_name'[name]].count <= Len(params)
        <4>1. ASSUME NEW name \in DOMAIN by_name
              PROVE  /\ funcs'[by_name[name]].name = name
                     /\ funcs'[by_name[name]].first + funcs'[by_name[name]].count <= Len(params)
          BY <1>7 DEF LoadInv, SignaturesInside
        <4>2. QED
          BY <1>5, <2>3, <3>1, <4>1
      <3>3. QED
        BY <1>1, <3>2 DEF SignaturesInside
    <2>6. QED
      BY <2>2, <2>4, <2>5 DEF LoadInv
  <1>10. QED
    BY <1>8, <1>9

(* The enumerations are loaded.                                            *)
LEMMA LoadEnumsKeeps ==
  ASSUME LoadInv, LoadEnums
  PROVE  LoadInv'
  <1>1. /\ blob.enums \in Seq(EnumRec)
        /\ Len(blob.values) \in Nat
    BY FileTables, SeqFacts DEF LoadInv, TablesTyped
  <1>2. /\ enums' = [i \in DOMAIN blob.enums |-> CheckedEnum(blob.enums[i], Len(blob.values))]
        /\ phase' = "ready"
        /\ candidates' = candidates /\ blob' = blob /\ next' = next
        /\ params' = params /\ funcs' = funcs /\ by_name' = by_name
    BY DEF LoadEnums
  <1>3. enums' \in Seq(EnumRec)
    <2>1. DOMAIN blob.enums = 1..Len(blob.enums) /\ Len(blob.enums) \in Nat
      BY <1>1, SeqFacts
    <2>2. \A i \in DOMAIN blob.enums : blob.enums[i] \in EnumRec
      BY <1>1, SeqFacts
    <2>3. \A i \in DOMAIN blob.enums : CheckedEnum(blob.enums[i], Len(blob.values)) \in EnumRec
      BY <2>2, Zenon DEF CheckedEnum, EnumRec
    <2>4. enums' \in [1..Len(blob.enums) -> EnumRec]
      BY <1>2, <2>1, <2>3
    <2>5. QED
      BY <2>1, <2>4, SeqByDomain
  <1>4. TablesTyped'
    BY <1>2, <1>3 DEF LoadInv, TablesTyped
  <1>5. QED
    BY <1>2, <1>4 DEF LoadInv, NamesLoaded, SignaturesInside

(* Steps that leave the tables alone.                                      *)
LEMMA SameTablesKeep ==
  ASSUME LoadInv, UNCHANGED <<candidates, index>>,
         phase' = phase \/ (phase = "closed" /\ phase' = "failed")
  PROVE  LoadInv'
  BY DEF LoadInv, TablesTyped, NamesLoaded, SignaturesInside, index

LEMMA LoadInvStep == LoadInv /\ [Next]_vars => LoadInv'
  <1> SUFFICES ASSUME LoadInv, [Next]_vars PROVE LoadInv'
    OBVIOUS
  <1>1. CASE Reject
    BY <1>1, SameTablesKeep DEF Reject
  <1>2. ASSUME NEW i \in DOMAIN candidates, LoadParams(i)
        PROVE  LoadInv'
    BY <1>2, LoadParamsKeeps
  <1>3. CASE LoadFunction
    BY <1>3, LoadFunctionKeeps
  <1>4. CASE LoadEnums
    BY <1>4, LoadEnumsKeeps
  <1>5. ASSUME NEW e \in 1..(Len(blob.enums) + 1), NEW value \in Registers, Ask(e, value)
        PROVE  LoadInv'
    <2>1. UNCHANGED <<candidates, index>> /\ phase' = phase
      BY <1>5 DEF Ask
    <2>2. QED
      BY <2>1, SameTablesKeep
  <1>6. ASSUME NEW i \in left, TryEntry(i)
        PROVE  LoadInv'
    <2>1. UNCHANGED <<candidates, index>> /\ phase' = phase
      BY <1>6 DEF TryEntry
    <2>2. QED
      BY <2>1, SameTablesKeep
  <1>7. CASE UNCHANGED vars
    BY <1>7, SameTablesKeep DEF vars
  <1>8. QED
    BY <1>1, <1>2, <1>3, <1>4, <1>5, <1>6, <1>7 DEF Next

(* However a file is broken, and wherever loading stopped, a signature     *)
(* that lookup finds has its parameters within the table.                  *)
THEOREM SignaturesAreSafe == Spec => []SignaturesInside
  <1>1. LoadInv => SignaturesInside
    BY DEF LoadInv
  <1>2. QED
    BY <1>1, LoadInvInit, LoadInvStep, PTL DEF Spec
----------------------------------------------------------------------------
(* What decodeEnum relies on and keeps.  While an answer is being given    *)
(* the index is at rest; an entry that has been tried has no bits left     *)
(* that could be named by it.                                              *)
AnswerTyped ==
  /\ names \in Seq(Nat)
  /\ left \subseteq Nat
  /\ outcome # "none" => phase \in {"ready", "failed"}
  /\ outcome = "none" => names = <<>>
  /\ outcome # "greedy" => left = {}

TriedIsNameless ==
  outcome = "greedy" =>
    \A i \in Table(query.enum) \ left :
      EntryBits(query.enum, i) # {} => ~(EntryBits(query.enum, i) \subseteq remaining)

DecodeInv == LoadInv /\ AnswerTyped /\ BitsAccounted /\ TriedIsNameless

LEMMA DecodeInvInit == Init => DecodeInv
  <1> SUFFICES ASSUME Init PROVE DecodeInv
    OBVIOUS
  <1>1. names = <<>> /\ left = {} /\ outcome = "none"
    BY DEF Init
  <1>2. QED
    BY <1>1, LoadInvInit DEF DecodeInv, AnswerTyped, BitsAccounted, TriedIsNameless

(* No step changes what the entries of a table stand for once decodeEnum   *)
(* has been asked.                                                         *)
LEMMA LoadingKeepsAnswer ==
  ASSUME DecodeInv, LoadInv', outcome = "none", outcome' = "none", UNCHANGED <<left, names>>
  PROVE  DecodeInv'
  BY DEF DecodeInv, AnswerTyped, BitsAccounted, TriedIsNameless

LEMMA RestKeepsAnswer ==
  ASSUME DecodeInv, LoadInv', UNCHANGED <<phase, index, answer>>
  PROVE  DecodeInv'
  <1>1. AnswerTyped'
    BY DEF DecodeInv, AnswerTyped, answer
  <1>2. BitsAccounted'
    BY DEF DecodeInv, BitsAccounted, EntryBits, Wanted, Masked, index, answer
  <1>3. TriedIsNameless'
    BY DEF DecodeInv, TriedIsNameless, Table, EntryBits, Masked, index, answer
  <1>4. QED
    BY <1>1, <1>2, <1>3 DEF DecodeInv

LEMMA AskKeepsAnswer ==
  ASSUME DecodeInv, LoadInv', NEW e \in Nat, NEW value \in Registers, Ask(e, value)
  PROVE  DecodeInv'
  <1>1. /\ phase \in {"ready", "failed"} /\ outcome = "none" /\ names = <<>>
        /\ UNCHANGED <<phase, index>>
        /\ query' = [enum |-> e, value |-> value]
    BY DEF Ask, DecodeInv, AnswerTyped
  <1>2. CASE outcome' # "greedy"
    <2>1. outcome' \in {"nothing", "exact"} /\ left' = left
      BY <1>2 DEF Ask
    <2>2. names' = <<>> \/ \E i \in Table(e) : names' = <<i>>
      BY <1>1, <1>2 DEF Ask, Matching
    <2>3. names' \in Seq(Nat)
      <3>1. CASE names' = <<>>
        BY <3>1
      <3>2. ASSUME NEW i \in Table(e), names' = <<i>>
            PROVE  names' \in Seq(Nat)
        <4>1. i \in Nat
          BY DEF Table
        <4>2. <<i>> \in Seq(Nat)
          BY ONLY <4>1
        <4>3. QED
          BY ONLY <3>2, <4>2
      <3>3. QED
        BY ONLY <2>2, <3>1, <3>2
    <2>4. QED
      BY <1>1, <1>2, <2>1, <2>3 DEF DecodeInv, AnswerTyped, BitsAccounted, TriedIsNameless
  <1>3. CASE outcome' = "greedy"
    <2>1. /\ left' = Table(e) /\ names' = <<>>
          /\ remaining' = Masked(value, enums[e].width)
      BY <1>1, <1>3 DEF Ask
    <2>2. Table(e) \subseteq Nat
      BY DEF Table
    <2>3. enums' = enums /\ query'.enum = e /\ query'.value = value
      BY <1>1 DEF index
    <2>4. BitsAccounted'
      BY <2>1, <2>3 DEF BitsAccounted, Wanted, Masked
    <2>5. TriedIsNameless'
      BY <2>1, <2>3 DEF TriedIsNameless, Table
    <2>6. AnswerTyped'
      BY <1>1, <1>3, <2>1, <2>2 DEF AnswerTyped
    <2>7. QED
      BY <2>4, <2>5, <2>6 DEF DecodeInv
  <1>4. QED
    BY <1>2, <1>3

LEMMA TryEntryKeepsAnswer ==
  ASSUME DecodeInv, LoadInv', NEW i \in left, TryEntry(i)
  PROVE  DecodeInv'
  <1> DEFINE Part(k) == EntryBits(query.enum, k)
             all == Wanted
  <1>1. /\ UNCHANGED <<phase, outcome>>
        /\ outcome = "greedy"
        /\ left' = left \ {i}
        /\ i \in Nat /\ left \subseteq Nat /\ names \in Seq(Nat)
    BY DEF TryEntry, DecodeInv, AnswerTyped
  <1>2. UNCHANGED <<blob, enums, query>>
    BY DEF TryEntry, index
  <1>3. \/ /\ names' = Append(names, i) /\ remaining' = remaining \ Part(i)
           /\ Part(i) # {} /\ Part(i) \subseteq remaining
        \/ /\ names' = names /\ remaining' = remaining
           /\ ~(Part(i) # {} /\ Part(i) \subseteq remaining)
    BY DEF TryEntry, Fits
  <1>4. /\ \A k \in DOMAIN names : Part(names[k]) \subseteq all
        /\ \A j, k \in DOMAIN names : j # k => Part(names[j]) \cap Part(names[k]) = {}
        /\ remaining = all \ UNION {Part(names[k]) : k \in DOMAIN names}
    BY <1>1 DEF DecodeInv, BitsAccounted
  <1>5. \A k \in Table(query.enum) \ left : Part(k) # {} => ~(Part(k) \subseteq remaining)
    BY <1>1 DEF DecodeInv, TriedIsNameless
  <1>6. ASSUME /\ \A k \in DOMAIN names' : Part(names'[k]) \subseteq all
               /\ \A j, k \in DOMAIN names' : j # k => Part(names'[j]) \cap Part(names'[k]) = {}
               /\ remaining' = all \ UNION {Part(names'[k]) : k \in DOMAIN names'}
        PROVE  BitsAccounted'
    BY <1>2, <1>6 DEF BitsAccounted, EntryBits, Wanted, Masked
  <1>7. ASSUME \A k \in Table(query.enum) \ left' : Part(k) # {} => ~(Part(k) \subseteq remaining')
        PROVE  TriedIsNameless'
    BY <1>2, <1>7 DEF TriedIsNameless, Table, EntryBits, Masked
  <1>8. AnswerTyped'
    <2>1. names' \in Seq(Nat)
      BY <1>1, <1>3, AppendFacts
    <2>2. QED
      BY <1>1, <2>1 DEF DecodeInv, AnswerTyped
  <1> HIDE DEF Part, all
  <1>9. TriedIsNameless'
    <2>1. \A k \in Table(query.enum) \ left' : k \in Table(query.enum) \ left \/ k = i
      BY <1>1
    <2>2. remaining' \subseteq remaining
      BY <1>3
    <2>3. Part(i) # {} => ~(Part(i) \subseteq remaining')
      BY <1>3
    <2>4. QED
      BY <1>5, <1>7, <2>1, <2>2, <2>3
  <1>10. BitsAccounted'
    <2>1. CASE names' = names /\ remaining' = remaining
      BY <1>4, <1>6, <2>1
    <2>2. CASE /\ names' = Append(names, i) /\ remaining' = remaining \ Part(i)
               /\ Part(i) \subseteq remaining
      <3> DEFINE last == Len(names) + 1
      <3>1. /\ DOMAIN names' = DOMAIN names \cup {last}
            /\ last \notin DOMAIN names
            /\ \A k \in DOMAIN names : names'[k] = names[k]
            /\ names'[last] = i
        BY <1>1, <2>2, AppendFacts
      <3> HIDE DEF last
      <3>2. Part(i) \subseteq all /\ \A k \in DOMAIN names : Part(i) \cap Part(names[k]) = {}
        BY <1>4, <2>2
      <3>3. \A k \in DOMAIN names' : Part(names'[k]) \subseteq all
        BY <1>4, <3>1, <3>2
      <3>4. \A j, k \in DOMAIN names' : j # k => Part(names'[j]) \cap Part(names'[k]) = {}
        BY <1>4, <3>1, <3>2
      <3>5. UNION {Part(names'[k]) : k \in DOMAIN names'}
              = (UNION {Part(names[k]) : k \in DOMAIN names}) \cup Part(i)
        BY <3>1
      <3>6. remaining' = all \ UNION {Part(names'[k]) : k \in DOMAIN names'}
        BY <1>4, <2>2, <3>5
      <3>7. QED
        BY <1>6, <3>3, <3>4, <3>6
    <2>3. QED
      BY ONLY <1>3, <2>1, <2>2
  <1>11. QED
    BY <1>8, <1>9, <1>10 DEF DecodeInv

LEMMA DecodeInvStep == DecodeInv /\ [Next]_vars => DecodeInv'
  <1> SUFFICES ASSUME DecodeInv, [Next]_vars PROVE DecodeInv'
    OBVIOUS
  <1>1. LoadInv'
    BY LoadInvStep DEF DecodeInv
  <1>2. \/ Reject
        \/ \E i \in DOMAIN candidates : LoadParams(i)
        \/ LoadFunction \/ LoadEnums
        => outcome = "none" /\ outcome' = "none" /\ UNCHANGED <<left, names>>
    BY DEF Reject, LoadParams, LoadFunction, LoadEnums, DecodeInv, AnswerTyped, answer
  <1>3. ASSUME NEW e \in 1..(Len(blob.enums) + 1), NEW value \in Registers, Ask(e, value)
        PROVE  DecodeInv'
    <2>1. e \in Nat
      OBVIOUS
    <2>2. QED
      BY <1>1, <1>3, <2>1, AskKeepsAnswer
  <1>4. ASSUME NEW i \in left, TryEntry(i)
        PROVE  DecodeInv'
    BY <1>1, <1>4, TryEntryKeepsAnswer
  <1>5. CASE UNCHANGED vars
    BY <1>1, <1>5, RestKeepsAnswer DEF vars
  <1>6. QED
    BY <1>1, <1>2, <1>3, <1>4, <1>5, LoadingKeepsAnswer DEF Next

(* The names of a value and its rest in hex are the value, for every       *)
(* table: no bit is missing and none is given twice.  And no name is       *)
(* missed, whatever order std::sort gives the entries: what is left in hex *)
(* contains no entry of the table.                                         *)
THEOREM NoBitLostOrTwice == Spec => []ValueSpelledOut
  <1>1. DecodeInv => BitsAccounted
    BY DEF DecodeInv
  <1>2. DecodeInv => RestIsNameless
    BY DEF DecodeInv, TriedIsNameless, RestIsNameless
  <1>3. DecodeInv => ValueSpelledOut
    BY <1>1, <1>2 DEF ValueSpelledOut
  <1>4. QED
    BY <1>3, DecodeInvInit, DecodeInvStep, PTL DEF Spec
----------------------------------------------------------------------------
(* What the choice among names relies on besides: the value asked about    *)
(* has bits of the register only, so that its parts are finite sets.       *)
AnswerInTypes ==
  /\ DOMAIN by_name \subseteq Names
  /\ outcome \in {"none", "exact", "nothing", "greedy"}
  /\ query \in [enum : Nat, value : SUBSET Bits]
  /\ remaining \subseteq Bits

NameInv == DecodeInv /\ AnswerInTypes /\ ExactMatchWins /\ CompositesFirst

LEMMA NameInvInit == Init => NameInv
  <1> SUFFICES ASSUME Init PROVE NameInv
    OBVIOUS
  <1>1. DecodeInv
    BY DecodeInvInit
  <1>2. AnswerInTypes
    BY DEF Init, AnswerInTypes
  <1>3. outcome = "none"
    BY DEF Init
  <1>4. QED
    BY <1>1, <1>2, <1>3 DEF NameInv, ExactMatchWins, CompositesFirst

(* The steps that load tables come before any question.                    *)
LEMMA LoadingKeepsNames ==
  ASSUME NameInv, DecodeInv', Reject \/ (\E i \in DOMAIN candidates : LoadParams(i))
                                \/ LoadFunction \/ LoadEnums
  PROVE  NameInv'
  <1>1. /\ outcome = "none" /\ outcome' = "none"
        /\ query' = query /\ remaining' = remaining
    BY DEF Reject, LoadParams, LoadFunction, LoadEnums, answer, NameInv, DecodeInv, AnswerTyped
  <1>2. DOMAIN by_name' \subseteq Names
    <2>1. CASE by_name' = by_name
      BY <2>1 DEF NameInv, AnswerInTypes
    <2>2. CASE LoadFunction /\ by_name' # by_name
      <3>1. next \in DOMAIN blob.funcs /\ by_name' = Emplaced(blob.funcs[next].name, next)
        BY <2>2 DEF LoadFunction
      <3>2. blob.funcs[next] \in FuncRec
        <4>1. blob.funcs \in Seq(FuncRec)
          BY FileTables DEF NameInv, DecodeInv, LoadInv, TablesTyped
        <4>2. QED
          BY ONLY <3>1, <4>1, SeqFacts
      <3>3. blob.funcs[next].name \in Names
        BY <3>2 DEF FuncRec
      <3>4. DOMAIN by_name' \subseteq DOMAIN by_name \cup {blob.funcs[next].name}
        BY <3>1 DEF Emplaced
      <3>5. QED
        BY <3>3, <3>4 DEF NameInv, AnswerInTypes
    <2>3. QED
      BY <2>1, <2>2 DEF Reject, LoadParams, LoadEnums, index
  <1>3. AnswerInTypes'
    BY <1>1, <1>2 DEF NameInv, AnswerInTypes
  <1>4. QED
    BY <1>1, <1>3 DEF NameInv, ExactMatchWins, CompositesFirst

LEMMA AskKeepsNames ==
  ASSUME NameInv, DecodeInv', NEW e \in Nat, NEW value \in Registers, Ask(e, value)
  PROVE  NameInv'
  <1>1. /\ outcome = "none" /\ names = <<>>
        /\ UNCHANGED <<blob, enums, by_name>>
        /\ query' = [enum |-> e, value |-> value]
    BY DEF Ask, index, NameInv, DecodeInv, AnswerTyped
  <1>2. value \subseteq Bits
    BY IndexAssumption
  <1>3. outcome' \in {"exact", "nothing", "greedy"}
    BY DEF Ask
  <1>4. remaining' = remaining \/ remaining' = Masked(value, enums[e].width)
    BY DEF Ask
  <1>5. AnswerInTypes'
    BY <1>1, <1>2, <1>3, <1>4 DEF NameInv, AnswerInTypes, Masked
  <1>6. ExactMatchWins'
    <2>1. SUFFICES ASSUME e \in DOMAIN enums, NEW i \in Table(e),
                          EntryBits(e, i) = Masked(value, enums[e].width)
                   PROVE  outcome' = "exact" /\ Len(names') = 1
      BY <1>1 DEF ExactMatchWins, Table, EntryBits, Wanted, Masked
    <2>2. Matching(e, Masked(value, enums[e].width)) # {}
      BY <2>1 DEF Matching
    <2>3. outcome' = "exact" /\ \E k \in Nat : names' = <<k>>
      BY <2>1, <2>2 DEF Ask, Matching, Table
    <2>4. QED
      BY <2>3
  <1>7. CompositesFirst'
    <2>1. outcome' = "greedy" => names' = <<>>
      BY <1>1 DEF Ask
    <2>2. QED
      BY <2>1 DEF CompositesFirst
  <1>8. QED
    BY <1>5, <1>6, <1>7 DEF NameInv

LEMMA TryEntryKeepsNames ==
  ASSUME NameInv, DecodeInv', NEW i \in left, TryEntry(i)
  PROVE  NameInv'
  <1> DEFINE Part(k) == EntryBits(query.enum, k)
             all == Wanted
             entries == Table(query.enum)
  <1>1. /\ UNCHANGED <<blob, enums, by_name, query, outcome>>
        /\ outcome = "greedy"
        /\ left \subseteq Nat /\ names \in Seq(Nat)
    BY DEF TryEntry, index, NameInv, DecodeInv, AnswerTyped
  <1>2. \/ names' = Append(names, i) /\ remaining' = remaining \ Part(i)
        \/ names' = names /\ remaining' = remaining
    BY DEF TryEntry, Fits
  <1>3. AnswerInTypes'
    BY <1>1, <1>2 DEF NameInv, AnswerInTypes
  <1>4. ExactMatchWins'
    BY <1>1 DEF NameInv, ExactMatchWins, Table, EntryBits, Wanted, Masked
  <1>5. ASSUME NEW k \in DOMAIN names', NEW w \in entries,
               Part(names'[k]) \subseteq Part(w), Part(names'[k]) # Part(w), Part(w) \subseteq all
        PROVE  \E j \in 1..(k - 1) : Part(names'[j]) \cap Part(w) # {}
    <2>1. \A n \in DOMAIN names : \A u \in entries :
            Part(names[n]) \subseteq Part(u) /\ Part(names[n]) # Part(u) /\ Part(u) \subseteq all =>
              \E j \in 1..(n - 1) : Part(names[j]) \cap Part(u) # {}
      BY <1>1 DEF NameInv, CompositesFirst
    <2>2. \A u \in entries \ left : Part(u) # {} => ~(Part(u) \subseteq remaining)
      BY <1>1 DEF NameInv, DecodeInv, TriedIsNameless
    <2>3. remaining = all \ UNION {Part(names[n]) : n \in DOMAIN names}
      BY <1>1 DEF NameInv, DecodeInv, BitsAccounted
    <2>4. w \in left => Cardinality(Part(w)) <= Cardinality(Part(i))
      BY DEF TryEntry, MayFollow
    <2>5. IsFiniteSet(Part(w))
      <3>1. query.value \subseteq Bits
        BY DEF NameInv, AnswerInTypes
      <3>2. all \subseteq Bits
        BY <3>1 DEF Wanted, Masked
      <3>3. QED
        BY <1>5, <3>2, IndexAssumption, FS_Subset
    <2> HIDE DEF Part, all, entries
    <2>6. DOMAIN names = 1..Len(names) /\ Len(names) \in Nat
      BY <1>1, SeqFacts
    <2>7. CASE k \in DOMAIN names /\ \A j \in DOMAIN names : names'[j] = names[j]
      <3>1. \E j \in 1..(k - 1) : Part(names[j]) \cap Part(w) # {}
        BY <1>5, <2>1, <2>7
      <3>2. 1..(k - 1) \subseteq DOMAIN names
        BY <2>6, <2>7
      <3>3. QED
        BY <2>7, <3>1, <3>2
    <2>8. CASE names' = Append(names, i) /\ k \notin DOMAIN names
      <3>1. /\ k = Len(names) + 1 /\ names'[k] = i
            /\ \A j \in DOMAIN names : names'[j] = names[j]
        BY <1>1, <1>5, <2>8, AppendFacts
      <3>2. Part(i) \subseteq Part(w) /\ Part(i) # Part(w)
        BY <1>5, <3>1
      <3>3. w \notin left
        <4>1. ASSUME Cardinality(Part(w)) <= Cardinality(Part(i)) PROVE FALSE
          <5>1. /\ IsFiniteSet(Part(i))
                /\ Cardinality(Part(i)) <= Cardinality(Part(w))
                /\ Cardinality(Part(w)) = Cardinality(Part(i)) => Part(w) = Part(i)
            BY <2>5, <3>2, FS_Subset
          <5>2. Cardinality(Part(w)) \in Nat /\ Cardinality(Part(i)) \in Nat
            BY <2>5, <5>1, FS_CardinalityType
          <5>3. QED
            BY <3>2, <4>1, <5>1, <5>2
        <4>2. QED
          BY <2>4, <4>1
      <3>4. ~(Part(w) \subseteq remaining)
        BY <1>5, <2>2, <3>2, <3>3
      <3>5. \E j \in DOMAIN names : Part(names[j]) \cap Part(w) # {}
        BY <1>5, <2>3, <3>4
      <3>6. 1..(k - 1) = DOMAIN names
        BY <2>6, <3>1
      <3>7. QED
        BY <3>1, <3>5, <3>6
    <2>9. QED
      BY <1>1, <1>2, <1>5, <2>7, <2>8, AppendFacts
  <1>6. CompositesFirst'
    BY <1>1, <1>5 DEF CompositesFirst, Table, EntryBits, Wanted, Masked
  <1>7. QED
    BY <1>3, <1>4, <1>6 DEF NameInv

LEMMA NameInvStep == NameInv /\ [Next]_vars => NameInv'
  <1> SUFFICES ASSUME NameInv, [Next]_vars PROVE NameInv'
    OBVIOUS
  <1>1. DecodeInv'
    BY DecodeInvStep DEF NameInv
  <1>2. ASSUME NEW e \in 1..(Len(blob.enums) + 1), NEW value \in Registers, Ask(e, value)
        PROVE  NameInv'
    <2>1. e \in Nat
      OBVIOUS
    <2>2. QED
      BY <1>1, <1>2, <2>1, AskKeepsNames
  <1>3. ASSUME NEW i \in left, TryEntry(i)
        PROVE  NameInv'
    BY <1>1, <1>3, TryEntryKeepsNames
  <1>4. CASE UNCHANGED vars
    <2>1. AnswerInTypes'
      BY <1>4 DEF vars, index, answer, NameInv, AnswerInTypes
    <2>2. ExactMatchWins'
      BY <1>4 DEF vars, index, answer, NameInv, ExactMatchWins, Table, EntryBits, Wanted, Masked
    <2>3. CompositesFirst'
      BY <1>4 DEF vars, index, answer, NameInv, CompositesFirst, Table, EntryBits, Wanted, Masked
    <2>4. QED
      BY <1>1, <2>1, <2>2, <2>3 DEF NameInv
  <1>5. QED
    BY <1>1, <1>2, <1>3, <1>4, LoadingKeepsNames DEF Next

(* A value with a name of its own is given that name alone, for every      *)
(* table and whatever stands above the enumeration's width.                *)
THEOREM OwnNameWins == Spec => []ExactMatchWins
  <1>1. NameInv => ExactMatchWins
    BY DEF NameInv
  <1>2. QED
    BY <1>1, NameInvInit, NameInvStep, PTL DEF Spec

(* Composites beat their constituents, for every table and every order     *)
(* that std::sort may leave equally large entries in.                      *)
THEOREM CompositesBeatParts == Spec => []CompositesFirst
  <1>1. NameInv => CompositesFirst
    BY DEF NameInv
  <1>2. QED
    BY <1>1, NameInvInit, NameInvStep, PTL DEF Spec

(* Every variable of the index keeps its type, for every index file.       *)
THEOREM IndexTypeCorrect == Spec => []TypeOK
  <1>1. NameInv => TypeOK
    BY DEF NameInv, DecodeInv, LoadInv, TablesTyped, NamesLoaded, AnswerTyped,
           AnswerInTypes, FuncSig, TypeOK
  <1>2. QED
    BY <1>1, NameInvInit, NameInvStep, PTL DEF Spec
----------------------------------------------------------------------------
(* The index builder.  What its recursions compute is followed element by  *)
(* element, from the enumerations that are referred to, to the file.       *)
EnumTypes == ToSet(EnumNames)

LEMMA EnumNamesSeq ==
  /\ EnumNames \in Seq(EnumTypes)
  /\ Len(EnumNames) \in Nat
  /\ DOMAIN EnumNames = 1..Len(EnumNames)
  /\ \A n \in 1..Len(EnumNames) : EnumNames[n] \in EnumTypes
  /\ \A e \in EnumTypes : \E n \in 1..Len(EnumNames) : EnumNames[n] = e
  <1>1. EnumNames \in Seq(EnumTypes)
    BY BuilderAssumption DEF EnumTypes
  <1>2. Len(EnumNames) \in Nat /\ DOMAIN EnumNames = 1..Len(EnumNames)
    BY <1>1
  <1>3. QED
    BY <1>1, <1>2 DEF EnumTypes, ToSet

(* The recursions of the builder, element by element.                      *)
LEMMA KeptIs ==
  ASSUME NEW surface
  PROVE  /\ Kept(surface) \in [0..Len(EnumNames) -> Seq(EnumTypes)]
         /\ Kept(surface)[0] = <<>>
         /\ \A n \in 1..Len(EnumNames) :
              Kept(surface)[n] =
                IF IsReferenced(surface, EnumNames[n])
                  THEN Append(Kept(surface)[n - 1], EnumNames[n])
                  ELSE Kept(surface)[n - 1]
  <1> DEFINE N == Len(EnumNames)
             X == Seq(EnumTypes)
             Step == [n \in 1..N |-> [s \in X |->
                        IF IsReferenced(surface, EnumNames[n])
                          THEN Append(s, EnumNames[n]) ELSE s]]
             Eq(f) == f = [n \in 0..N |->
                        IF n = 0 THEN <<>>
                        ELSE IF IsReferenced(surface, EnumNames[n])
                               THEN Append(f[n - 1], EnumNames[n])
                        ELSE f[n - 1]]
             t == CHOOSE f : Eq(f)
  <1>1. N \in Nat /\ <<>> \in X
    BY EnumNamesSeq
  <1>2. \A n \in 1..N : \A s \in X : Append(s, EnumNames[n]) \in X
    BY EnumNamesSeq
  <1>3. Step \in [1..N -> [X -> X]]
    BY <1>2
  <1>4. Kept(surface) = t
    BY DEF Kept
  <1>5. PICK f \in [0..N -> X] : Recurs(f, N, <<>>, Step)
    <2> HIDE DEF X, Step, N
    <2>1. QED
      BY <1>1, <1>3, RecursionExists
  <1>6. \A n \in 1..N : n - 1 \in 0..N /\ n # 0
    BY <1>1
  <1>7. \A n \in 0..N : f[n] = IF n = 0 THEN <<>>
                               ELSE IF IsReferenced(surface, EnumNames[n])
                                      THEN Append(f[n - 1], EnumNames[n])
                               ELSE f[n - 1]
    <2>1. \A n \in 0..N : f[n] = IF n = 0 THEN <<>> ELSE Step[n][f[n - 1]]
      BY <1>5 DEF Recurs
    <2>2. \A n \in 0..N : n # 0 => n \in 1..N
      BY <1>1
    <2>3. QED
      BY <1>6, <2>1, <2>2
  <1>8. Eq(f)
    <2> HIDE DEF N, X
    <2>1. QED
      BY <1>7
  <1>9. Eq(t)
    BY <1>8, Zenon
  <1> HIDE DEF t
  <1>10. \A n \in 0..N : t[n] = IF n = 0 THEN <<>>
                                ELSE IF IsReferenced(surface, EnumNames[n])
                                       THEN Append(t[n - 1], EnumNames[n])
                                ELSE t[n - 1]
    BY <1>9
  <1>11. \A n \in 1..N : n \in 0..N
    BY <1>1
  <1>12. 0..N \subseteq {n \in 0..N : t[n] \in X}
    <2> DEFINE S == {n \in 0..N : t[n] \in X}
    <2>1. 0 \in S
      <3>1. 0 \in 0..N
        BY <1>1
      <3>2. t[0] = <<>>
        BY <1>10, <3>1
      <3>3. QED
        BY ONLY <1>1, <3>1, <3>2
    <2>2. ASSUME NEW n \in 1..N, n - 1 \in S PROVE n \in S
      BY <1>2, <1>6, <1>10, <1>11, <2>2
    <2> HIDE DEF S
    <2>3. 0..N \subseteq S
      BY <1>1, <2>1, <2>2, BoundedInduction
    <2>4. QED
      BY <2>3 DEF S
  <1>13. t \in [0..N -> X]
    BY <1>9, <1>12
  <1>14. t[0] = <<>>
    <2>1. 0 \in 0..N
      BY <1>1
    <2>2. QED
      BY <1>10, <2>1
  <1>15. \A n \in 1..N : t[n] = IF IsReferenced(surface, EnumNames[n])
                                   THEN Append(t[n - 1], EnumNames[n])
                                 ELSE t[n - 1]
    BY <1>6, <1>10, <1>11
  <1>16. QED
    BY <1>4, <1>13, <1>14, <1>15
(* The enumerations in the index are those some parameter refers to.       *)
LEMMA ReferencedFacts ==
  ASSUME NEW surface
  PROVE  /\ Referenced(surface) \in Seq(EnumTypes)
         /\ \A e \in EnumTypes : IsReferenced(surface, e) =>
              \E i \in DOMAIN Referenced(surface) : Referenced(surface)[i] = e
  <1> DEFINE N == Len(EnumNames)
             kept == Kept(surface)
             Has(m, j) == \E i \in DOMAIN kept[m] : kept[m][i] = EnumNames[j]
             S == {m \in 0..N : \A j \in 1..m :
                     IsReferenced(surface, EnumNames[j]) => Has(m, j)}
  <1>1. /\ N \in Nat
        /\ kept \in [0..N -> Seq(EnumTypes)]
        /\ \A n \in 1..N : kept[n] = IF IsReferenced(surface, EnumNames[n])
                                       THEN Append(kept[n - 1], EnumNames[n])
                                       ELSE kept[n - 1]
    BY KeptIs, EnumNamesSeq
  <1> HIDE DEF kept
  <1>2. 0 \in S
    BY <1>1
  <1>3. ASSUME NEW n \in 1..N, n - 1 \in S PROVE n \in S
    <2>1. n \in 0..N /\ kept[n - 1] \in Seq(EnumTypes) /\ EnumNames[n] \in EnumTypes
      <3>1. n - 1 \in 0..N /\ n \in 0..N
        BY <1>1
      <3>2. EnumNames[n] \in EnumTypes
        BY EnumNamesSeq
      <3>3. QED
        BY ONLY <1>1, <3>1, <3>2
    <2>2. \A j \in 1..(n - 1) : IsReferenced(surface, EnumNames[j]) => Has(n - 1, j)
      BY <1>3
    <2>3. CASE IsReferenced(surface, EnumNames[n])
      <3>1. kept[n] = Append(kept[n - 1], EnumNames[n])
        BY <1>1, <2>3
      <3>2. /\ DOMAIN kept[n] = DOMAIN kept[n - 1] \cup {Len(kept[n - 1]) + 1}
            /\ \A i \in DOMAIN kept[n - 1] : kept[n][i] = kept[n - 1][i]
            /\ kept[n][Len(kept[n - 1]) + 1] = EnumNames[n]
        BY ONLY <2>1, <3>1, AppendFacts
      <3>3. Has(n, n)
        BY <3>2
      <3>4. \A j \in 1..(n - 1) : Has(n - 1, j) => Has(n, j)
        BY <3>2
      <3>5. \A j \in 1..n : j = n \/ j \in 1..(n - 1)
        OBVIOUS
      <3> HIDE DEF Has
      <3>6. QED
        BY <2>1, <2>2, <3>3, <3>4, <3>5
    <2>4. CASE ~IsReferenced(surface, EnumNames[n])
      <3>1. kept[n] = kept[n - 1]
        BY <1>1, <2>4
      <3>2. \A j \in 1..(n - 1) : Has(n - 1, j) => Has(n, j)
        BY <3>1
      <3>3. \A j \in 1..n : j = n \/ j \in 1..(n - 1)
        OBVIOUS
      <3> HIDE DEF Has
      <3>4. QED
        BY <2>1, <2>2, <2>4, <3>2, <3>3
    <2>5. QED
      BY <2>3, <2>4
  <1> HIDE DEF S
  <1>4. 0..N \subseteq S
    BY <1>1, <1>2, <1>3, BoundedInduction
  <1>5. N \in S /\ N \in 0..N
    BY <1>1, <1>4
  <1>6. \A j \in 1..N : IsReferenced(surface, EnumNames[j]) => Has(N, j)
    BY <1>5 DEF S
  <1>7. Referenced(surface) = kept[N]
    BY DEF Referenced, kept
  <1>8. QED
    BY <1>1, <1>5, <1>6, <1>7, EnumNamesSeq

LEMMA ValuesAre ==
  ASSUME NEW order \in Seq(EnumTypes)
  PROVE  /\ Values(order) \in [0..Len(order) -> Seq(SUBSET Bits)]
         /\ \A n \in 1..Len(order) :
              Values(order)[n] = Values(order)[n - 1] \o Enumeration[order[n]].values
  <1> DEFINE N == Len(order)
             X == Seq(SUBSET Bits)
             V(n) == Enumeration[order[n]].values
             Step == [n \in 1..N |-> [s \in X |-> s \o V(n)]]
             Eq(f) == f = [n \in 0..N |-> IF n = 0 THEN <<>> ELSE f[n - 1] \o V(n)]
             t == CHOOSE f : Eq(f)
  <1>1. N \in Nat /\ <<>> \in X
    OBVIOUS
  <1>2. \A n \in 1..N : V(n) \in X
    <2>1. \A n \in 1..N : order[n] \in EnumTypes
      OBVIOUS
    <2>2. QED
      BY <2>1, BuilderAssumption DEF EnumTypes
  <1>3. Values(order) = t
    BY DEF Values
  <1> HIDE DEF V
  <1>4. \A n \in 1..N : \A s \in X : s \o V(n) \in X
    BY <1>2
  <1>5. Step \in [1..N -> [X -> X]]
    BY <1>4
  <1>6. PICK f \in [0..N -> X] : Recurs(f, N, <<>>, Step)
    <2> HIDE DEF X, Step, N
    <2>1. QED
      BY <1>1, <1>5, RecursionExists
  <1>7. \A n \in 1..N : n - 1 \in 0..N /\ n # 0 /\ n \in 0..N
    BY <1>1
  <1>8. \A n \in 0..N : f[n] = IF n = 0 THEN <<>> ELSE f[n - 1] \o V(n)
    <2>1. \A n \in 0..N : f[n] = IF n = 0 THEN <<>> ELSE Step[n][f[n - 1]]
      BY <1>6 DEF Recurs
    <2>2. \A n \in 0..N : n # 0 => n \in 1..N
      BY <1>1
    <2>3. QED
      BY <1>7, <2>1, <2>2
  <1>9. Eq(t)
    <2> HIDE DEF N, X
    <2>1. Eq(f)
      BY <1>8
    <2>2. QED
      BY <2>1, Zenon
  <1> HIDE DEF t
  <1>10. \A n \in 0..N : t[n] = IF n = 0 THEN <<>> ELSE t[n - 1] \o V(n)
    BY <1>9
  <1>11. 0..N \subseteq {n \in 0..N : t[n] \in X}
    <2> DEFINE S == {n \in 0..N : t[n] \in X}
    <2>1. 0 \in S
      <3>1. 0 \in 0..N
        BY <1>1
      <3>2. t[0] = <<>>
        BY <1>10, <3>1
      <3>3. QED
        BY ONLY <1>1, <3>1, <3>2
    <2>2. ASSUME NEW n \in 1..N, n - 1 \in S PROVE n \in S
      <3>1. t[n] = t[n - 1] \o V(n)
        BY <1>7, <1>10
      <3>2. QED
        BY <1>4, <1>7, <2>2, <3>1
    <2> HIDE DEF S
    <2>3. 0..N \subseteq S
      BY <1>1, <2>1, <2>2, BoundedInduction
    <2>4. QED
      BY <2>3 DEF S
  <1>12. t \in [0..N -> X]
    BY <1>9, <1>11
  <1>13. \A n \in 1..N : t[n] = t[n - 1] \o V(n)
    BY <1>7, <1>10
  <1>14. QED
    BY <1>3, <1>12, <1>13 DEF V
LEMMA ConcatFacts ==
  ASSUME NEW S, NEW s \in Seq(S), NEW v \in Seq(S)
  PROVE  /\ s \o v \in Seq(S)
         /\ Len(s \o v) = Len(s) + Len(v)
         /\ Len(s) \in Nat /\ Len(v) \in Nat
         /\ \A k \in 1..Len(s) : (s \o v)[k] = s[k]
         /\ \A k \in 1..Len(v) : (s \o v)[Len(s) + k] = v[k]
  OBVIOUS

(* The values of an enumeration are where its record says.                 *)
LEMMA RecordsAreTrue ==
  ASSUME NEW order \in Seq(EnumTypes), NEW i \in 1..Len(order)
  PROVE  LET all == Values(order)[Len(order)]
             own == Enumeration[order[i]].values
             off == Len(Values(order)[i - 1])
         IN /\ off \in Nat /\ Len(own) \in Nat
            /\ off + Len(own) <= Len(all)
            /\ SubSeq(all, off + 1, off + Len(own)) = own
  <1> DEFINE N == Len(order)
             X == Seq(SUBSET Bits)
             val == Values(order)
             own == Enumeration[order[i]].values
             off == Len(val[i - 1])
             V(n) == Enumeration[order[n]].values
             Holds(m) == /\ off + Len(own) <= Len(val[m])
                         /\ \A k \in 1..Len(own) : val[m][off + k] = own[k]
             S == {m \in 0..N : m >= i => Holds(m)}
  <1>1. /\ N \in Nat
        /\ val \in [0..N -> X]
        /\ \A n \in 1..N : val[n] = val[n - 1] \o V(n)
    <2>1. N \in Nat
      OBVIOUS
    <2>2. QED
      BY ONLY order \in Seq(EnumTypes), <2>1, ValuesAre
  <1>2. \A n \in 1..N : V(n) \in X
    <2>1. \A n \in 1..N : order[n] \in EnumTypes
      OBVIOUS
    <2>2. QED
      BY <2>1, BuilderAssumption DEF EnumTypes
  <1>3. \A n \in 1..N : n - 1 \in 0..N /\ n \in 0..N
    BY <1>1
  <1> HIDE DEF val, V
  <1>4. ASSUME NEW n \in 1..N
        PROVE  /\ val[n - 1] \in X /\ V(n) \in X
               /\ Len(val[n]) = Len(val[n - 1]) + Len(V(n))
               /\ Len(val[n - 1]) \in Nat /\ Len(V(n)) \in Nat
               /\ \A k \in 1..Len(val[n - 1]) : val[n][k] = val[n - 1][k]
               /\ \A k \in 1..Len(V(n)) : val[n][Len(val[n - 1]) + k] = V(n)[k]
    <2>1. val[n - 1] \in X /\ V(n) \in X /\ val[n] = val[n - 1] \o V(n)
      BY <1>1, <1>2, <1>3
    <2>2. QED
      BY ONLY <2>1, ConcatFacts
  <1>5. own = V(i) /\ off \in Nat /\ Len(own) \in Nat
    <2>1. own = V(i)
      BY DEF V
    <2>2. QED
      BY <1>4, <2>1
  <1> HIDE DEF own, off, X
  <1>6. 0 \in S
    BY <1>1
  <1>7. ASSUME NEW n \in 1..N, n - 1 \in S PROVE n \in S
    <2>1. CASE n = i
      <3>1. off = Len(val[n - 1]) /\ own = V(n)
        BY <1>5, <2>1 DEF off
      <3>2. Holds(n)
        BY ONLY <1>4, <1>5, <3>1
      <3>3. QED
        BY <1>3, <3>2
    <2>2. CASE n > i
      <3>1. Holds(n - 1)
        BY <1>7, <2>2
      <3>2. \A k \in 1..Len(own) : off + k \in 1..Len(val[n - 1])
        BY <1>4, <1>5, <3>1
      <3>3. Holds(n)
        <4>1. off + Len(own) <= Len(val[n])
          BY ONLY <1>4, <1>5, <3>1
        <4>2. \A k \in 1..Len(own) : val[n][off + k] = val[n - 1][off + k]
          BY ONLY <1>4, <3>2
        <4>3. QED
          BY ONLY <3>1, <4>1, <4>2
      <3>4. QED
        BY <1>3, <3>3
    <2>3. CASE n < i
      BY <1>3, <2>3
    <2>4. QED
      BY <2>1, <2>2, <2>3
  <1> HIDE DEF S
  <1>8. 0..N \subseteq S
    BY <1>1, <1>6, <1>7, BoundedInduction
  <1>9. N \in S /\ N >= i
    BY <1>1, <1>8
  <1>10. Holds(N)
    BY <1>9 DEF S
  <1>11. val[N] \in X /\ own \in X
    BY <1>1, <1>2, <1>5
  <1>12. SubSeq(val[N], off + 1, off + Len(own)) = own
    <2>1. off + 1 \in 1..(Len(val[N]) + 1) /\ off + Len(own) \in off..Len(val[N])
      BY <1>5, <1>10
    <2>2. /\ SubSeq(val[N], off + 1, off + Len(own)) \in X
          /\ Len(SubSeq(val[N], off + 1, off + Len(own))) = Len(own)
          /\ \A k \in 1..Len(own) :
               SubSeq(val[N], off + 1, off + Len(own))[k] = val[N][off + k]
      BY <1>5, <1>11, <2>1, SubSeqProperties DEF X
    <2>3. QED
      BY <1>5, <1>10, <1>11, <2>2, SeqEqual DEF X
  <1>13. QED
    BY <1>5, <1>10, <1>12 DEF val, own, off
(* The position of the first element that is e.                            *)
LEMMA SelectFacts ==
  ASSUME NEW S, NEW s \in Seq(S), NEW e, \E i \in DOMAIN s : s[i] = e
  PROVE  /\ SelectInSeq(s, LAMBDA x : x = e) \in DOMAIN s
         /\ s[SelectInSeq(s, LAMBDA x : x = e)] = e
  <1> DEFINE I == {i \in 1..Len(s) : s[i] = e}
  <1>1. Len(s) \in Nat /\ DOMAIN s = 1..Len(s)
    OBVIOUS
  <1>2. I \subseteq Nat /\ I # {}
    BY <1>1
  <1>3. SelectInSeq(s, LAMBDA x : x = e) = IF I # {} THEN Min(I) ELSE 0
    BY Zenon DEF SelectInSeq
  <1>4. Min(I) \in I
    <2> HIDE DEF I
    <2>1. QED
      BY <1>2, MinIsLeast
  <1>5. QED
    BY <1>1, <1>2, <1>3, <1>4

(* Does position p in the parameters stand for that type?                  *)
Stands(surface, p, type) ==
  IF type = NoEnum THEN p = NoEnum
  ELSE p \in Nat /\ p + 1 \in DOMAIN Referenced(surface) /\ Referenced(surface)[p + 1] = type

LEMMA EnumIndexFacts ==
  ASSUME NEW surface, NEW type \in TypeRef, type # NoEnum => IsReferenced(surface, type)
  PROVE  /\ EnumIndex(surface, type) \in Nat \cup {NoEnum}
         /\ Stands(surface, EnumIndex(surface, type), type)
  <1> DEFINE order == Referenced(surface)
             at == SelectInSeq(order, LAMBDA e : e = type)
  <1>1. CASE type = NoEnum
    BY <1>1 DEF EnumIndex, Stands
  <1>2. CASE type # NoEnum
    <2>1. type \in EnumTypes
      BY <1>2 DEF TypeRef, EnumTypes
    <2>2. order \in Seq(EnumTypes) /\ \E i \in DOMAIN order : order[i] = type
      BY <1>2, <2>1, ReferencedFacts
    <2>3. at \in DOMAIN order /\ order[at] = type
      <3> HIDE DEF order
      <3>1. QED
        BY <2>2, SelectFacts
    <2>4. EnumIndex(surface, type) = at - 1
      BY <1>2 DEF EnumIndex
    <2> HIDE DEF at
    <2>5. DOMAIN order \subseteq Nat \ {0}
      BY <2>2
    <2>6. at - 1 \in Nat /\ (at - 1) + 1 = at
      BY <2>3, <2>5
    <2>7. QED
      BY <1>2, <2>3, <2>4, <2>6 DEF Stands
  <1>3. QED
    BY <1>1, <1>2
(* The parameters a function puts into the table.                          *)
Numbers(surface, fn) == [k \in DOMAIN fn.types |-> EnumIndex(surface, fn.types[k])]

NewRecord(tables, fn) ==
  [name |-> fn.name, first |-> Len(tables.params), count |-> Len(fn.types)]

Skipped(tables, fn) ==
  ~HasRecord(fn) \/ \E i \in DOMAIN tables.funcs : tables.funcs[i].name = fn.name

(* The functions of the metadata.                                          *)
LEMMA SurfaceFacts ==
  ASSUME NEW surface \in Surfaces
  PROVE  /\ surface \in Seq(ApiFunction)
         /\ Len(surface) \in Nat /\ DOMAIN surface = 1..Len(surface)
         /\ \A n \in 1..Len(surface) :
              LET fn == surface[n] IN
              /\ fn.name \in Names
              /\ fn.types \in Seq(TypeRef)
              /\ Len(fn.types) \in Nat /\ DOMAIN fn.types = 1..Len(fn.types)
              /\ \A k \in 1..Len(fn.types) :
                   /\ fn.types[k] \in TypeRef
                   /\ fn.types[k] # NoEnum => IsReferenced(surface, fn.types[k])
  <1>1. surface \in Seq(ApiFunction)
    BY BuilderAssumption
  <1>2. /\ Len(surface) \in Nat /\ DOMAIN surface = 1..Len(surface)
        /\ \A n \in 1..Len(surface) : surface[n] \in ApiFunction
    BY <1>1
  <1>3. ASSUME NEW n \in 1..Len(surface)
        PROVE  LET fn == surface[n] IN
               /\ fn.name \in Names
               /\ fn.types \in Seq(TypeRef)
               /\ Len(fn.types) \in Nat /\ DOMAIN fn.types = 1..Len(fn.types)
               /\ \A k \in 1..Len(fn.types) :
                    /\ fn.types[k] \in TypeRef
                    /\ fn.types[k] # NoEnum => IsReferenced(surface, fn.types[k])
    <2> DEFINE fn == surface[n]
    <2>1. fn.name \in Names /\ fn.types \in Seq(TypeRef)
      BY <1>2 DEF ApiFunction
    <2>2. fn \in ToSet(surface)
      BY <1>2 DEF ToSet
    <2> HIDE DEF fn
    <2>3. /\ Len(fn.types) \in Nat /\ DOMAIN fn.types = 1..Len(fn.types)
          /\ \A k \in 1..Len(fn.types) : fn.types[k] \in TypeRef
      BY <2>1
    <2>4. \A k \in 1..Len(fn.types) : IsReferenced(surface, fn.types[k])
      BY <2>2, <2>3 DEF IsReferenced, ToSet
    <2>5. QED
      BY <2>1, <2>3, <2>4 DEF fn
  <1>4. QED
    BY <1>1, <1>2, <1>3

LEMMA NumbersFacts ==
  ASSUME NEW surface \in Surfaces, NEW n \in 1..Len(surface)
  PROVE  LET fn == surface[n]
             numbers == Numbers(surface, fn)
         IN /\ numbers \in Seq(Nat \cup {NoEnum})
            /\ Len(numbers) = Len(fn.types)
            /\ \A k \in 1..Len(fn.types) : Stands(surface, numbers[k], fn.types[k])
  <1> DEFINE fn == surface[n]
             numbers == Numbers(surface, fn)
  <1>1. /\ Len(fn.types) \in Nat /\ DOMAIN fn.types = 1..Len(fn.types)
        /\ \A k \in 1..Len(fn.types) :
             /\ fn.types[k] \in TypeRef
             /\ fn.types[k] # NoEnum => IsReferenced(surface, fn.types[k])
    BY SurfaceFacts
  <1> HIDE DEF fn
  <1>2. \A k \in 1..Len(fn.types) :
          /\ EnumIndex(surface, fn.types[k]) \in Nat \cup {NoEnum}
          /\ Stands(surface, EnumIndex(surface, fn.types[k]), fn.types[k])
    BY <1>1, EnumIndexFacts
  <1>3. numbers \in [1..Len(fn.types) -> Nat \cup {NoEnum}]
        /\ \A k \in 1..Len(fn.types) : numbers[k] = EnumIndex(surface, fn.types[k])
    BY <1>1, <1>2 DEF Numbers
  <1>4. numbers \in Seq(Nat \cup {NoEnum}) /\ Len(numbers) = Len(fn.types)
    <2> HIDE DEF numbers
    <2>1. QED
      BY ONLY <1>1, <1>3, SeqByDomain
  <1>5. QED
    BY <1>2, <1>3, <1>4 DEF fn

(* What WithFunction makes of the tables.                                  *)
LEMMA SkippedFacts ==
  ASSUME NEW surface, NEW tables, NEW fn, Skipped(tables, fn)
  PROVE  WithFunction(surface, tables, fn) = tables
  BY DEF WithFunction, Skipped

LEMMA AddedFacts ==
  ASSUME NEW surface \in Surfaces, NEW n \in 1..Len(surface), NEW tables \in IndexFile,
         ~Skipped(tables, surface[n])
  PROVE  LET with == WithFunction(surface, tables, surface[n]) IN
         /\ with \in IndexFile
         /\ with.sound = tables.sound /\ with.enums = tables.enums
         /\ with.values = tables.values
         /\ with.funcs = Append(tables.funcs, NewRecord(tables, surface[n]))
         /\ with.params = tables.params \o Numbers(surface, surface[n])
         /\ NewRecord(tables, surface[n]) \in FuncRec
  <1> DEFINE fn == surface[n]
             with == WithFunction(surface, tables, fn)
             rec == NewRecord(tables, fn)
             fs == Append(tables.funcs, rec)
             ps == tables.params \o Numbers(surface, fn)
  <1>1. /\ tables.sound \in BOOLEAN /\ tables.funcs \in Seq(FuncRec)
        /\ tables.params \in Seq(Nat \cup {NoEnum})
        /\ tables.enums \in Seq(EnumRec) /\ tables.values \in Seq(SUBSET Bits)
    BY Zenon DEF IndexFile
  <1>2. fn.name \in Names /\ Len(fn.types) \in Nat
    BY SurfaceFacts
  <1>3. rec \in FuncRec
    <2>1. Len(tables.params) \in Nat
      BY <1>1
    <2>2. QED
      BY <1>2, <2>1 DEF NewRecord, FuncRec
  <1>4. fs \in Seq(FuncRec)
    BY ONLY <1>1, <1>3, AppendFacts
  <1>5. ps \in Seq(Nat \cup {NoEnum})
    <2>1. Numbers(surface, fn) \in Seq(Nat \cup {NoEnum})
      BY NumbersFacts
    <2>2. QED
      BY ONLY <1>1, <2>1, ConcatFacts
  <1>6. with = [tables EXCEPT !.funcs = fs, !.params = ps]
    BY Zenon DEF WithFunction, Skipped, NewRecord, Numbers
  <1> HIDE DEF fs, ps, rec, with
  <1>7. /\ with \in IndexFile
        /\ with.sound = tables.sound /\ with.enums = tables.enums
        /\ with.values = tables.values /\ with.funcs = fs /\ with.params = ps
    BY <1>4, <1>5, <1>6 DEF IndexFile
  <1>8. QED
    BY <1>3, <1>7 DEF fs, ps, rec, with

LEMMA WithFunctionType ==
  ASSUME NEW surface \in Surfaces, NEW n \in 1..Len(surface), NEW tables \in IndexFile
  PROVE  WithFunction(surface, tables, surface[n]) \in IndexFile
  <1>1. CASE Skipped(tables, surface[n])
    BY <1>1, SkippedFacts
  <1>2. CASE ~Skipped(tables, surface[n])
    BY <1>2, AddedFacts
  <1>3. QED
    BY <1>1, <1>2
LEMMA BlankFacts ==
  ASSUME NEW order \in Seq(EnumTypes)
  PROVE  Blank(order) \in IndexFile
  <1>1. Len(order) \in Nat /\ DOMAIN order = 1..Len(order)
        /\ \A i \in 1..Len(order) : order[i] \in EnumTypes
    OBVIOUS
  <1>2. Values(order) \in [0..Len(order) -> Seq(SUBSET Bits)]
    BY ValuesAre
  <1>3. \A i \in 1..Len(order) : Values(order)[i - 1] \in Seq(SUBSET Bits)
    <2>1. \A i \in 1..Len(order) : i - 1 \in 0..Len(order)
      BY <1>1
    <2>2. QED
      BY <1>2, <2>1
  <1>4. ASSUME NEW i \in 1..Len(order)
        PROVE  [offset |-> Len(Values(order)[i - 1]), count |-> Len(Enumeration[order[i]].values),
                flags |-> Enumeration[order[i]].flags, width |-> Enumeration[order[i]].width]
                 \in EnumRec
    <2>1. Enumeration[order[i]] \in [flags : BOOLEAN, width : Nat, values : Seq(SUBSET Bits)]
      BY <1>1, BuilderAssumption DEF EnumTypes
    <2>2. /\ Enumeration[order[i]].flags \in BOOLEAN /\ Enumeration[order[i]].width \in Nat
          /\ Enumeration[order[i]].values \in Seq(SUBSET Bits)
      BY <2>1, Zenon
    <2>3. Len(Enumeration[order[i]].values) \in Nat /\ Len(Values(order)[i - 1]) \in Nat
      BY <1>3, <2>2
    <2>4. QED
      BY <2>2, <2>3, Zenon DEF EnumRec
  <1>5. EnumRecords(order) \in [1..Len(order) -> EnumRec]
    BY <1>1, <1>4 DEF EnumRecords
  <1>6. EnumRecords(order) \in Seq(EnumRec)
    BY ONLY <1>1, <1>5, SeqByDomain
  <1>7. Values(order)[Len(order)] \in Seq(SUBSET Bits)
    BY <1>1, <1>2
  <1>8. <<>> \in Seq(FuncRec) /\ <<>> \in Seq(Nat \cup {NoEnum})
    OBVIOUS
  <1>9. QED
    BY <1>6, <1>7, <1>8, Zenon DEF Blank, IndexFile

LEMMA FilledIs ==
  ASSUME NEW surface \in Surfaces
  PROVE  /\ Filled(surface) \in [0..Len(surface) -> IndexFile]
         /\ Filled(surface)[0] = Blank(Referenced(surface))
         /\ \A n \in 1..Len(surface) :
              Filled(surface)[n] = WithFunction(surface, Filled(surface)[n - 1], surface[n])
  <1> DEFINE N == Len(surface)
             X == IndexFile
             first == Blank(Referenced(surface))
             Step == [n \in 1..N |-> [x \in X |-> WithFunction(surface, x, surface[n])]]
             Eq(f) == f = [n \in 0..N |->
                             IF n = 0 THEN Blank(Referenced(surface))
                             ELSE WithFunction(surface, f[n - 1], surface[n])]
             t == CHOOSE f : Eq(f)
  <1>1. N \in Nat /\ first \in X
    BY SurfaceFacts, ReferencedFacts, BlankFacts
  <1>2. \A n \in 1..N : \A x \in X : WithFunction(surface, x, surface[n]) \in X
    BY WithFunctionType
  <1>3. Step \in [1..N -> [X -> X]]
    BY <1>2
  <1>4. Filled(surface) = t
    BY DEF Filled
  <1>5. PICK f \in [0..N -> X] : Recurs(f, N, first, Step)
    <2> HIDE DEF X, Step, N, first
    <2>1. QED
      BY <1>1, <1>3, RecursionExists
  <1>6. \A n \in 1..N : n - 1 \in 0..N /\ n # 0 /\ n \in 0..N
    BY <1>1
  <1>7. \A n \in 0..N : f[n] = IF n = 0 THEN first
                               ELSE WithFunction(surface, f[n - 1], surface[n])
    <2>1. \A n \in 0..N : f[n] = IF n = 0 THEN first ELSE Step[n][f[n - 1]]
      BY <1>5 DEF Recurs
    <2>2. \A n \in 0..N : n # 0 => n \in 1..N
      BY <1>1
    <2>3. QED
      BY <1>6, <2>1, <2>2
  <1>8. Eq(t)
    <2> HIDE DEF N, X
    <2>1. Eq(f)
      BY <1>7
    <2>2. QED
      BY <2>1, Zenon
  <1> HIDE DEF t
  <1>9. \A n \in 0..N : t[n] = IF n = 0 THEN first
                               ELSE WithFunction(surface, t[n - 1], surface[n])
    BY <1>8
  <1> HIDE DEF first
  <1>10. t[0] = first
    <2>1. 0 \in 0..N
      BY <1>1
    <2>2. QED
      BY <1>9, <2>1
  <1>11. \A n \in 1..N : t[n] = WithFunction(surface, t[n - 1], surface[n])
    BY <1>6, <1>9
  <1>12. 0..N \subseteq {n \in 0..N : t[n] \in X}
    <2> DEFINE S == {n \in 0..N : t[n] \in X}
    <2>1. 0 \in S
      BY <1>1, <1>10
    <2>2. ASSUME NEW n \in 1..N, n - 1 \in S PROVE n \in S
      BY <1>2, <1>6, <1>11, <2>2
    <2> HIDE DEF S
    <2>3. 0..N \subseteq S
      BY <1>1, <2>1, <2>2, BoundedInduction
    <2>4. QED
      BY <2>3 DEF S
  <1>13. t \in [0..N -> X]
    BY <1>8, <1>12
  <1>14. QED
    BY <1>4, <1>10, <1>11, <1>13 DEF first
(* Function i is the first of its name to have a record.                   *)
IsSignature(surface, i, name) ==
  /\ surface[i].name = name /\ HasRecord(surface[i])
  /\ \A h \in 1..(i - 1) : ~(surface[h].name = name /\ HasRecord(surface[h]))

(* Record f describes one of the first n functions, the one that was to    *)
(* be, and that function's parameters.                                     *)
Describes(surface, f, table, i) ==
  /\ IsSignature(surface, i, f.name)
  /\ f.count = Len(surface[i].types)
  /\ f.first + f.count <= Len(table)
  /\ \A k \in 1..f.count : Stands(surface, table[f.first + k], surface[i].types[k])

OwnRecords(surface, tables, n) ==
  \A j \in DOMAIN tables.funcs : \E i \in 1..n :
    Describes(surface, tables.funcs[j], tables.params, i)

AllRecorded(surface, tables, n) ==
  \A i \in 1..n : HasRecord(surface[i]) =>
    \E j \in DOMAIN tables.funcs : tables.funcs[j].name = surface[i].name

WithEnums(surface, tables) ==
  /\ tables.sound
  /\ tables.enums = EnumRecords(Referenced(surface))
  /\ tables.values = Values(Referenced(surface))[Len(Referenced(surface))]

FilledOK(surface, tables, n) ==
  OwnRecords(surface, tables, n) /\ AllRecorded(surface, tables, n) /\ WithEnums(surface, tables)

LEMMA SkippedKeeps ==
  ASSUME NEW surface \in Surfaces, NEW n \in 1..Len(surface), NEW tables \in IndexFile,
         FilledOK(surface, tables, n - 1), Skipped(tables, surface[n])
  PROVE  FilledOK(surface, tables, n)
  <1>1. 1..(n - 1) \subseteq 1..n /\ \A i \in 1..n : i = n \/ i \in 1..(n - 1)
    BY SurfaceFacts
  <1>2. OwnRecords(surface, tables, n)
    BY <1>1 DEF FilledOK, OwnRecords
  <1>3. AllRecorded(surface, tables, n)
    <2>1. HasRecord(surface[n]) =>
            \E j \in DOMAIN tables.funcs : tables.funcs[j].name = surface[n].name
      BY DEF Skipped
    <2>2. QED
      BY <1>1, <2>1 DEF FilledOK, AllRecorded
  <1>4. QED
    BY <1>2, <1>3 DEF FilledOK

(* A table that has grown says what it said.                               *)
LEMMA LongerDescribes ==
  ASSUME NEW S, NEW old \in Seq(S), NEW more \in Seq(S), NEW surface, NEW f \in FuncRec, NEW i,
         Describes(surface, f, old, i)
  PROVE  Describes(surface, f, old \o more, i)
  <1>1. f.first \in Nat /\ f.count \in Nat
    BY DEF FuncRec
  <1>2. /\ Len(old) \in Nat /\ Len(more) \in Nat
        /\ Len(old \o more) = Len(old) + Len(more)
        /\ \A k \in 1..Len(old) : (old \o more)[k] = old[k]
    BY ConcatFacts
  <1>3. /\ IsSignature(surface, i, f.name)
        /\ f.count = Len(surface[i].types)
        /\ f.first + f.count <= Len(old)
        /\ \A k \in 1..f.count : Stands(surface, old[f.first + k], surface[i].types[k])
    BY Zenon DEF Describes
  <1>4. f.first + f.count <= Len(old \o more)
    BY <1>1, <1>2, <1>3
  <1>5. \A k \in 1..f.count : (old \o more)[f.first + k] = old[f.first + k]
    BY <1>1, <1>2, <1>3
  <1>6. QED
    BY ONLY <1>3, <1>4, <1>5 DEF Describes

LEMMA AddedKeeps ==
  ASSUME NEW surface \in Surfaces, NEW n \in 1..Len(surface), NEW tables \in IndexFile,
         FilledOK(surface, tables, n - 1), ~Skipped(tables, surface[n])
  PROVE  FilledOK(surface, WithFunction(surface, tables, surface[n]), n)
  <1> DEFINE fn == surface[n]
             with == WithFunction(surface, tables, fn)
             rec == NewRecord(tables, fn)
             numbers == Numbers(surface, fn)
             P == Nat \cup {NoEnum}
  <1>1. 1..(n - 1) \subseteq 1..n /\ \A i \in 1..n : i = n \/ i \in 1..(n - 1)
    BY SurfaceFacts
  <1>2. n \in 1..n
    BY SurfaceFacts
  <1>3. tables.funcs \in Seq(FuncRec) /\ tables.params \in Seq(P)
    BY Zenon DEF IndexFile
  <1>4. /\ with.sound = tables.sound /\ with.enums = tables.enums
        /\ with.values = tables.values
        /\ with.funcs = Append(tables.funcs, rec)
        /\ with.params = tables.params \o numbers
        /\ rec \in FuncRec
    BY AddedFacts
  <1>5. numbers \in Seq(P) /\ Len(numbers) = Len(fn.types)
        /\ \A k \in 1..Len(fn.types) : Stands(surface, numbers[k], fn.types[k])
    BY NumbersFacts
  <1>6. rec.name = fn.name /\ rec.first = Len(tables.params) /\ rec.count = Len(fn.types)
    BY DEF NewRecord
  <1>7. HasRecord(fn) /\ \A j \in DOMAIN tables.funcs : tables.funcs[j].name # fn.name
    BY DEF Skipped
  <1> HIDE DEF fn, with, rec, numbers
  <1>8. /\ DOMAIN with.funcs = DOMAIN tables.funcs \cup {Len(tables.funcs) + 1}
        /\ \A j \in DOMAIN tables.funcs : with.funcs[j] = tables.funcs[j]
        /\ with.funcs[Len(tables.funcs) + 1] = rec
        /\ \A j \in DOMAIN tables.funcs : tables.funcs[j] \in FuncRec
    <2>1. /\ DOMAIN with.funcs = DOMAIN tables.funcs \cup {Len(tables.funcs) + 1}
          /\ \A j \in DOMAIN tables.funcs : with.funcs[j] = tables.funcs[j]
          /\ with.funcs[Len(tables.funcs) + 1] = rec
      BY ONLY <1>3, <1>4, AppendFacts
    <2>2. \A j \in DOMAIN tables.funcs : tables.funcs[j] \in FuncRec
      BY ONLY <1>3
    <2>3. QED
      BY <2>1, <2>2
  <1>9. Describes(surface, rec, with.params, n)
    <2>1. IsSignature(surface, n, rec.name)
      <3>1. \A h \in 1..(n - 1) : ~(surface[h].name = fn.name /\ HasRecord(surface[h]))
        BY <1>7 DEF FilledOK, AllRecorded
      <3>2. QED
        BY <1>6, <1>7, <3>1 DEF IsSignature, fn
    <2>2. /\ Len(with.params) = Len(tables.params) + Len(numbers)
          /\ Len(tables.params) \in Nat /\ Len(numbers) \in Nat
          /\ \A k \in 1..Len(numbers) : with.params[Len(tables.params) + k] = numbers[k]
      <3>1. tables.params \in Seq(P) /\ numbers \in Seq(P)
        BY <1>3, <1>5
      <3>2. with.params = tables.params \o numbers
        BY <1>4
      <3> HIDE DEF P
      <3>3. QED
        BY ONLY <3>1, <3>2, ConcatFacts
    <2>3. rec.first + rec.count <= Len(with.params)
      BY <1>5, <1>6, <2>2
    <2>4. \A k \in 1..rec.count : Stands(surface, with.params[rec.first + k], fn.types[k])
      BY <1>5, <1>6, <2>2
    <2>5. QED
      BY <1>6, <2>1, <2>3, <2>4 DEF Describes, fn
  <1>10. OwnRecords(surface, with, n)
    <2>1. ASSUME NEW j \in DOMAIN tables.funcs
          PROVE  \E i \in 1..n : Describes(surface, with.funcs[j], with.params, i)
      <3>1. PICK i \in 1..(n - 1) : Describes(surface, tables.funcs[j], tables.params, i)
        BY DEF FilledOK, OwnRecords
      <3>2. Describes(surface, tables.funcs[j], tables.params \o numbers, i)
        BY <1>3, <1>5, <1>8, <3>1, LongerDescribes
      <3>3. QED
        BY <1>1, <1>4, <1>8, <3>2
    <2>2. QED
      BY <1>2, <1>8, <1>9, <2>1 DEF OwnRecords
  <1>11. AllRecorded(surface, with, n)
    <2>1. \A i \in 1..(n - 1) : HasRecord(surface[i]) =>
            \E j \in DOMAIN with.funcs : with.funcs[j].name = surface[i].name
      BY <1>8 DEF FilledOK, AllRecorded
    <2>2. \E j \in DOMAIN with.funcs : with.funcs[j].name = surface[n].name
      BY <1>6, <1>8 DEF fn
    <2>3. QED
      BY <1>1, <2>1, <2>2 DEF AllRecorded
  <1>12. WithEnums(surface, with)
    BY <1>4 DEF FilledOK, WithEnums
  <1>13. QED
    BY <1>10, <1>11, <1>12 DEF FilledOK, with, fn
(* The file that is built.                                                 *)
LEMMA BuildFacts ==
  ASSUME NEW surface \in Surfaces
  PROVE  Build(surface) \in IndexFile /\ FilledOK(surface, Build(surface), Len(surface))
  <1> DEFINE N == Len(surface)
             filled == Filled(surface)
             S == {n \in 0..N : FilledOK(surface, filled[n], n)}
  <1>1. N \in Nat
    BY SurfaceFacts
  <1>2. /\ filled \in [0..N -> IndexFile]
        /\ filled[0] = Blank(Referenced(surface))
        /\ \A n \in 1..N : filled[n] = WithFunction(surface, filled[n - 1], surface[n])
    BY FilledIs
  <1>3. Build(surface) = filled[N]
    BY DEF Build
  <1> HIDE DEF filled
  <1>4. 0 \in S
    <2>1. /\ filled[0].funcs = <<>>
          /\ WithEnums(surface, filled[0])
      <3>1. /\ filled[0].funcs = <<>> /\ filled[0].sound = TRUE
            /\ filled[0].enums = EnumRecords(Referenced(surface))
            /\ filled[0].values = Values(Referenced(surface))[Len(Referenced(surface))]
        BY <1>2 DEF Blank
      <3>2. QED
        BY <3>1, Zenon DEF WithEnums
    <2>2. DOMAIN filled[0].funcs = {} /\ 1..0 = {}
      BY <2>1
    <2>3. FilledOK(surface, filled[0], 0)
      BY <2>1, <2>2 DEF FilledOK, OwnRecords, AllRecorded
    <2>4. QED
      BY <1>1, <2>3
  <1>5. ASSUME NEW n \in 1..N, n - 1 \in S PROVE n \in S
    <2>1. /\ n \in 0..N /\ filled[n - 1] \in IndexFile
          /\ FilledOK(surface, filled[n - 1], n - 1)
          /\ filled[n] = WithFunction(surface, filled[n - 1], surface[n])
      BY <1>1, <1>2, <1>5
    <2>2. CASE Skipped(filled[n - 1], surface[n])
      <3>1. filled[n] = filled[n - 1]
        BY <2>1, <2>2, SkippedFacts
      <3>2. FilledOK(surface, filled[n - 1], n)
        BY <2>1, <2>2, SkippedKeeps
      <3>3. QED
        BY <2>1, <3>1, <3>2
    <2>3. CASE ~Skipped(filled[n - 1], surface[n])
      <3>1. FilledOK(surface, filled[n], n)
        BY <2>1, <2>3, AddedKeeps
      <3>2. QED
        BY <2>1, <3>1
    <2>4. QED
      BY <2>2, <2>3
  <1> HIDE DEF S
  <1>6. 0..N \subseteq S
    BY <1>1, <1>4, <1>5, BoundedInduction
  <1>7. N \in 0..N
    BY <1>1
  <1>8. QED
    BY <1>2, <1>3, <1>6, <1>7 DEF S

(* The enumeration at position i decodes like the type it was made from,   *)
(* and is within the values.                                               *)
EnumServes(e, values, type) ==
  /\ e.flags = Enumeration[type].flags
  /\ e.width = Enumeration[type].width
  /\ e.offset + e.count <= Len(values)
  /\ SubSeq(values, e.offset + 1, e.offset + e.count) = Enumeration[type].values

LEMMA EnumRecordsServe ==
  ASSUME NEW order \in Seq(EnumTypes)
  PROVE  /\ DOMAIN EnumRecords(order) = DOMAIN order
         /\ Len(EnumRecords(order)) = Len(order)
         /\ \A i \in DOMAIN order :
              EnumServes(EnumRecords(order)[i], Values(order)[Len(order)], order[i])
  <1>1. Len(order) \in Nat /\ DOMAIN order = 1..Len(order)
    OBVIOUS
  <1>2. DOMAIN EnumRecords(order) = DOMAIN order
    BY DEF EnumRecords
  <1>3. Blank(order).enums \in Seq(EnumRec)
    BY BlankFacts, Zenon DEF IndexFile
  <1>4. EnumRecords(order) \in Seq(EnumRec)
    BY <1>3, Zenon DEF Blank
  <1>5. Len(EnumRecords(order)) = Len(order)
    BY <1>1, <1>2, <1>4, LenProperties
  <1>6. ASSUME NEW i \in DOMAIN order
        PROVE  EnumServes(EnumRecords(order)[i], Values(order)[Len(order)], order[i])
    <2> DEFINE e == EnumRecords(order)[i]
               own == Enumeration[order[i]].values
               off == Len(Values(order)[i - 1])
    <2>1. e.offset = off /\ e.count = Len(own) /\ e.flags = Enumeration[order[i]].flags
          /\ e.width = Enumeration[order[i]].width
      BY DEF EnumRecords
    <2>2. /\ off + Len(own) <= Len(Values(order)[Len(order)])
          /\ SubSeq(Values(order)[Len(order)], off + 1, off + Len(own)) = own
      BY <1>1, RecordsAreTrue
    <2> HIDE DEF e, own, off
    <2>3. /\ e.offset + e.count <= Len(Values(order)[Len(order)])
          /\ SubSeq(Values(order)[Len(order)], e.offset + 1, e.offset + e.count) = own
      BY <2>1, <2>2
    <2>4. QED
      BY <2>1, <2>3 DEF EnumServes, own, e
  <1>7. QED
    BY <1>2, <1>5, <1>6
----------------------------------------------------------------------------
(* As far as loading is, what is loaded is what the file has; and it only  *)
(* fails on a file that is broken.                                         *)
TablesLoaded ==
  /\ params = [k \in DOMAIN blob.params |-> Checked(blob.params[k], Len(blob.enums))]
  /\ \A k \in DOMAIN blob.funcs : k < next =>
       funcs[k] = blob.funcs[k] /\ blob.funcs[k].name \in DOMAIN by_name
  /\ \A name \in DOMAIN by_name : by_name[name] \in DOMAIN blob.funcs /\ by_name[name] < next

Broken(file) ==
  \/ ~file.sound
  \/ \E k \in DOMAIN file.funcs : file.funcs[k].first + file.funcs[k].count > Len(file.params)

LoadedInv ==
  /\ phase = "closed" => ~blob.sound /\ next = 1 /\ DOMAIN by_name = {}
  /\ phase \in {"functions", "ready"} => TablesLoaded
  /\ phase = "ready" =>
       /\ next \notin DOMAIN blob.funcs
       /\ enums = [i \in DOMAIN blob.enums |-> CheckedEnum(blob.enums[i], Len(blob.values))]
  /\ phase = "failed" => Broken(blob)
LEMMA LoadedInit == Init => LoadedInv
  <1> SUFFICES ASSUME Init PROVE LoadedInv
    OBVIOUS
  <1>1. phase = "closed" /\ blob = NoFile /\ next = 1 /\ DOMAIN by_name = {}
    BY DEF Init
  <1>2. ~blob.sound
    BY <1>1 DEF NoFile
  <1>3. QED
    BY <1>1, <1>2 DEF LoadedInv

LEMMA LoadParamsLoads ==
  ASSUME LoadInv, LoadInv', LoadedInv, NEW i \in DOMAIN candidates, LoadParams(i)
  PROVE  LoadedInv'
  <1>1. /\ params' = [k \in DOMAIN blob'.params |-> Checked(blob'.params[k], Len(blob'.enums))]
        /\ next' = 1 /\ phase' = "functions" /\ by_name' = by_name /\ DOMAIN by_name = {}
    BY DEF LoadParams, LoadedInv
  <1>2. DOMAIN blob'.funcs = 1..Len(blob'.funcs)
    BY FileTables, SeqFacts DEF LoadInv, TablesTyped
  <1>3. \A k \in DOMAIN blob'.funcs : ~(k < 1)
    BY <1>2
  <1>4. TablesLoaded'
    BY <1>1, <1>3 DEF TablesLoaded
  <1>5. QED
    BY <1>1, <1>4 DEF LoadedInv

LEMMA LoadFunctionLoads ==
  ASSUME LoadInv, LoadedInv, LoadFunction
  PROVE  LoadedInv'
  <1> DEFINE rec == blob.funcs[next]
  <1>1. /\ next \in DOMAIN blob.funcs /\ phase = "functions"
        /\ funcs' = [funcs EXCEPT ![next] = rec]
        /\ blob' = blob /\ params' = params
    BY DEF LoadFunction
  <1>2. TablesLoaded
    BY <1>1 DEF LoadedInv
  <1>3. /\ DOMAIN blob.funcs = 1..Len(blob.funcs) /\ Len(blob.funcs) \in Nat
        /\ DOMAIN funcs = DOMAIN blob.funcs
        /\ blob.params \in Seq(Nat \cup {NoEnum}) /\ params \in Seq(Nat \cup {NoEnum})
    <2>1. /\ DOMAIN blob.funcs = 1..Len(blob.funcs) /\ Len(blob.funcs) \in Nat
          /\ blob.params \in Seq(Nat \cup {NoEnum})
      BY FileTables, SeqFacts DEF LoadInv, TablesTyped
    <2>2. DOMAIN funcs = 1..Len(funcs) /\ params \in Seq(Nat \cup {NoEnum})
      BY SeqFacts DEF LoadInv, TablesTyped
    <2>3. Len(funcs) = Len(blob.funcs)
      BY <1>1 DEF LoadInv, NamesLoaded
    <2>4. QED
      BY <2>1, <2>2, <2>3
  <1>4. Len(params) = Len(blob.params)
    <2>1. DOMAIN params = DOMAIN blob.params
      BY <1>2 DEF TablesLoaded
    <2>2. QED
      BY ONLY <1>3, <2>1, LenProperties
  <1>5. /\ funcs'[next] = rec
        /\ \A k \in DOMAIN blob.funcs : k # next => funcs'[k] = funcs[k]
    BY <1>1, <1>3
  <1> HIDE DEF rec
  <1>6. CASE rec.first + rec.count > Len(params)
    <2>1. phase' = "failed"
      BY <1>6 DEF LoadFunction, rec
    <2>2. Broken(blob')
      BY <1>1, <1>4, <1>6 DEF Broken, rec
    <2>3. QED
      BY <2>1, <2>2 DEF LoadedInv
  <1>7. CASE ~(rec.first + rec.count > Len(params))
    <2>1. by_name' = Emplaced(rec.name, next) /\ next' = next + 1 /\ phase' = "functions"
      BY <1>1, <1>7 DEF LoadFunction, rec
    <2>2. /\ DOMAIN by_name' = DOMAIN by_name \cup {rec.name}
          /\ \A name \in DOMAIN by_name' :
               \/ name \in DOMAIN by_name /\ by_name'[name] = by_name[name]
               \/ by_name'[name] = next
      BY <2>1 DEF Emplaced
    <2>3. \A k \in DOMAIN blob.funcs : k < next + 1 => k = next \/ (k < next /\ k # next)
      BY <1>1, <1>3
    <2>4. ASSUME NEW k \in DOMAIN blob.funcs, k < next + 1
          PROVE  funcs'[k] = blob.funcs[k] /\ blob.funcs[k].name \in DOMAIN by_name'
      <3>1. CASE k = next
        BY <1>5, <2>2, <3>1 DEF rec
      <3>2. CASE k < next /\ k # next
        <4>1. funcs[k] = blob.funcs[k] /\ blob.funcs[k].name \in DOMAIN by_name
          BY <1>2, <3>2 DEF TablesLoaded
        <4>2. QED
          BY <1>5, <2>2, <3>2, <4>1
      <3>3. QED
        BY <2>3, <2>4, <3>1, <3>2
    <2>5. \A name \in DOMAIN by_name' :
            by_name'[name] \in DOMAIN blob.funcs /\ by_name'[name] < next + 1
      <3>1. \A name \in DOMAIN by_name :
              by_name[name] \in DOMAIN blob.funcs /\ by_name[name] < next
        BY <1>2 DEF TablesLoaded
      <3>2. \A k \in DOMAIN blob.funcs : k < next => k < next + 1
        BY <1>1, <1>3
      <3>3. next < next + 1
        BY <1>1, <1>3
      <3>4. QED
        BY <1>1, <2>2, <3>1, <3>2, <3>3
    <2>6. params' = [k \in DOMAIN blob'.params |-> Checked(blob'.params[k], Len(blob'.enums))]
      BY <1>1, <1>2 DEF TablesLoaded
    <2>7. TablesLoaded'
      BY <1>1, <2>1, <2>4, <2>5, <2>6 DEF TablesLoaded
    <2>8. QED
      BY <2>1, <2>7 DEF LoadedInv
  <1>8. QED
    BY <1>6, <1>7

LEMMA LoadEnumsLoads ==
  ASSUME LoadedInv, LoadEnums
  PROVE  LoadedInv'
  <1>1. /\ phase = "functions" /\ phase' = "ready" /\ next \notin DOMAIN blob.funcs
        /\ enums' = [i \in DOMAIN blob.enums |-> CheckedEnum(blob.enums[i], Len(blob.values))]
        /\ blob' = blob /\ next' = next /\ params' = params /\ funcs' = funcs
        /\ by_name' = by_name
    BY DEF LoadEnums
  <1>2. TablesLoaded
    BY <1>1 DEF LoadedInv
  <1>3. TablesLoaded'
    BY <1>1, <1>2 DEF TablesLoaded
  <1>4. QED
    BY <1>1, <1>3 DEF LoadedInv

LEMMA SameTablesLoaded ==
  ASSUME LoadedInv, UNCHANGED index,
         phase' = phase \/ (phase = "closed" /\ phase' = "failed")
  PROVE  LoadedInv'
  <1>1. TablesLoaded => TablesLoaded'
    BY DEF TablesLoaded, index
  <1>2. Broken(blob) => Broken(blob')
    BY DEF index
  <1>3. ~blob.sound => Broken(blob')
    BY DEF Broken, index
  <1>4. QED
    BY <1>1, <1>2, <1>3 DEF LoadedInv, index

LEMMA LoadedStep == LoadInv /\ LoadInv' /\ LoadedInv /\ [Next]_vars => LoadedInv'
  <1> SUFFICES ASSUME LoadInv, LoadInv', LoadedInv, [Next]_vars PROVE LoadedInv'
    OBVIOUS
  <1>1. CASE Reject
    BY <1>1, SameTablesLoaded DEF Reject
  <1>2. ASSUME NEW i \in DOMAIN candidates, LoadParams(i) PROVE LoadedInv'
    BY <1>2, LoadParamsLoads
  <1>3. CASE LoadFunction
    BY <1>3, LoadFunctionLoads
  <1>4. CASE LoadEnums
    BY <1>4, LoadEnumsLoads
  <1>5. ASSUME NEW e \in 1..(Len(blob.enums) + 1), NEW value \in Registers, Ask(e, value)
        PROVE  LoadedInv'
    <2>1. UNCHANGED index /\ phase' = phase
      BY <1>5 DEF Ask
    <2>2. QED
      BY <2>1, SameTablesLoaded
  <1>6. ASSUME NEW i \in left, TryEntry(i) PROVE LoadedInv'
    <2>1. UNCHANGED index /\ phase' = phase
      BY <1>6 DEF TryEntry
    <2>2. QED
      BY <2>1, SameTablesLoaded
  <1>7. CASE UNCHANGED vars
    BY <1>7, SameTablesLoaded DEF vars
  <1>8. QED
    BY <1>1, <1>2, <1>3, <1>4, <1>5, <1>6, <1>7 DEF Next
----------------------------------------------------------------------------
(* The signature of a name is the first function of it that has a record.  *)
LEMMA SignatureFacts ==
  ASSUME NEW surface \in Surfaces, NEW name
  PROVE  /\ \A i \in 1..Len(surface) :
              IsSignature(surface, i, name) => Signature(surface, name) = i
         /\ Signature(surface, name) # 0 =>
              /\ Signature(surface, name) \in 1..Len(surface)
              /\ surface[Signature(surface, name)].name = name
              /\ HasRecord(surface[Signature(surface, name)])
  <1> DEFINE I == {i \in 1..Len(surface) : surface[i].name = name /\ HasRecord(surface[i])}
  <1>1. Signature(surface, name) = IF I # {} THEN Min(I) ELSE 0
    BY Zenon DEF Signature, SelectInSeq
  <1>2. I \subseteq Nat
    BY SurfaceFacts
  <1>3. I # {} => Min(I) \in I /\ \A y \in I : Min(I) <= y
    <2> HIDE DEF I
    <2>1. QED
      BY <1>2, MinIsLeast
  <1>4. ASSUME NEW i \in 1..Len(surface), IsSignature(surface, i, name)
        PROVE  Signature(surface, name) = i
    <2>1. i \in I
      BY <1>4, Zenon DEF IsSignature
    <2>2. Min(I) \in I /\ Min(I) <= i
      BY <1>3, <2>1
    <2>3. \A h \in I : ~(h < i)
      <3>1. \A h \in 1..(i - 1) : ~(surface[h].name = name /\ HasRecord(surface[h]))
        BY <1>4, Zenon DEF IsSignature
      <3>2. \A h \in I : h < i => h \in 1..(i - 1)
        BY SurfaceFacts
      <3>3. QED
        BY <3>1, <3>2
    <2> HIDE DEF I
    <2>4. Min(I) = i
      <3>1. Min(I) \in Nat /\ i \in Nat
        BY <1>2, <2>1, <2>2
      <3>2. ~(Min(I) < i)
        BY <2>2, <2>3
      <3>3. QED
        BY ONLY <2>2, <3>1, <3>2
    <2>5. QED
      BY <1>1, <2>1, <2>4
  <1>5. Signature(surface, name) # 0 => Signature(surface, name) \in I
    <2> HIDE DEF I
    <2>1. QED
      BY <1>1, <1>3
  <1>6. QED
    BY <1>4, <1>5

(* A parameter of a file that was built decodes like its type.             *)
LEMMA StandsDecodes ==
  ASSUME NEW surface \in Surfaces, NEW p, NEW type, Stands(surface, p, type),
         blob = Build(surface), phase = "ready", LoadedInv
  PROVE  DecodesLike(Checked(p, Len(blob.enums)), type)
  <1> DEFINE order == Referenced(surface)
  <1>1. WithEnums(surface, blob)
    BY BuildFacts DEF FilledOK
  <1>2. order \in Seq(EnumTypes)
    BY ReferencedFacts
  <1>3. blob.enums = EnumRecords(order) /\ blob.values = Values(order)[Len(order)]
    BY <1>1 DEF WithEnums
  <1>4. enums = [i \in DOMAIN blob.enums |-> CheckedEnum(blob.enums[i], Len(blob.values))]
    BY DEF LoadedInv
  <1>5. NoEnum \notin Nat
    BY IndexAssumption
  <1>6. CASE type = NoEnum
    <2>1. p = NoEnum
      BY <1>6 DEF Stands
    <2>2. QED
      BY <1>6, <2>1 DEF Checked, DecodesLike
  <1>7. CASE type # NoEnum
    <2>1. p \in Nat /\ p + 1 \in DOMAIN order /\ order[p + 1] = type
      BY <1>7 DEF Stands
    <2> HIDE DEF order
    <2>2. /\ DOMAIN blob.enums = DOMAIN order /\ Len(blob.enums) = Len(order)
          /\ EnumServes(blob.enums[p + 1], blob.values, type)
      BY <1>2, <1>3, <2>1, EnumRecordsServe
    <2>3. p < Len(order)
      BY <1>2, <2>1
    <2>4. Checked(p, Len(blob.enums)) = p
      <3>1. ~(p >= Len(order))
        BY <1>2, <2>1, <2>3
      <3>2. QED
        BY <2>2, <3>1 DEF Checked
    <2>5. blob.enums[p + 1] \in EnumRec /\ Len(blob.values) \in Nat
      <3>1. blob.enums \in Seq(EnumRec) /\ blob.values \in Seq(SUBSET Bits)
        BY BuildFacts, FileTables
      <3>2. QED
        BY <2>1, <2>2, <3>1, SeqFacts
    <2>6. CheckedEnum(blob.enums[p + 1], Len(blob.values)) = blob.enums[p + 1]
      <3>1. ~(blob.enums[p + 1].offset + blob.enums[p + 1].count > Len(blob.values))
        BY <2>2, <2>5 DEF EnumServes, EnumRec
      <3>2. QED
        BY <3>1 DEF CheckedEnum
    <2>7. p + 1 \in DOMAIN enums /\ enums[p + 1] = blob.enums[p + 1]
      BY <1>4, <2>1, <2>2, <2>6
    <2>8. p # NoEnum
      BY <1>5, <2>1
    <2>9. QED
      BY <1>7, <2>2, <2>4, <2>7, <2>8 DEF DecodesLike, EnumServes
  <1>8. QED
    BY <1>6, <1>7

LEMMA ReadyServes ==
  ASSUME LoadInv, LoadedInv, phase = "ready", NEW surface \in Surfaces,
         blob = Build(surface), NEW name
  PROVE  LET i == Signature(surface, name) IN
         IF i = 0 THEN name \notin DOMAIN by_name
         ELSE /\ name \in DOMAIN by_name
              /\ LET f == funcs[by_name[name]] IN
                 /\ f.count = Len(surface[i].types)
                 /\ \A k \in 1..f.count :
                      DecodesLike(params[f.first + k], surface[i].types[k])
  <1> DEFINE i == Signature(surface, name)
             f == funcs[by_name[name]]
  <1>1. /\ OwnRecords(surface, blob, Len(surface))
        /\ AllRecorded(surface, blob, Len(surface))
    BY BuildFacts DEF FilledOK
  <1>2. TablesLoaded /\ next \notin DOMAIN blob.funcs
    BY DEF LoadedInv
  <1>3. /\ blob.funcs \in Seq(FuncRec) /\ blob.params \in Seq(Nat \cup {NoEnum})
        /\ next \in Nat \ {0}
    BY FileTables DEF LoadInv, TablesTyped
  <1>4. \A k \in DOMAIN blob.funcs : k < next
    BY <1>2, <1>3
  <1>5. ASSUME name \in DOMAIN by_name
        PROVE  i # 0 /\ f \in FuncRec /\ Describes(surface, f, blob.params, i)
    <2>1. by_name[name] \in DOMAIN blob.funcs /\ f = blob.funcs[by_name[name]]
      BY <1>2, <1>5 DEF TablesLoaded
    <2>2. f.name = name
      BY <1>5 DEF LoadInv, SignaturesInside
    <2> HIDE DEF f
    <2>3. PICK h \in 1..Len(surface) : Describes(surface, f, blob.params, h)
      BY <1>1, <2>1 DEF OwnRecords
    <2>4. i = h
      BY <2>2, <2>3, SignatureFacts DEF Describes
    <2>5. f \in FuncRec
      BY <1>3, <2>1
    <2>6. h # 0
      BY SurfaceFacts
    <2>7. QED
      BY <2>3, <2>4, <2>5, <2>6
  <1>6. ASSUME i # 0
        PROVE  name \in DOMAIN by_name
    <2>1. i \in 1..Len(surface) /\ surface[i].name = name /\ HasRecord(surface[i])
      BY <1>6, SignatureFacts
    <2> HIDE DEF i
    <2>2. PICK j \in DOMAIN blob.funcs : blob.funcs[j].name = name
      BY <1>1, <2>1 DEF AllRecorded
    <2>3. QED
      BY <1>2, <1>4, <2>2 DEF TablesLoaded
  <1>7. ASSUME i # 0
        PROVE  /\ f.count = Len(surface[i].types)
               /\ \A k \in 1..f.count : DecodesLike(params[f.first + k], surface[i].types[k])
    <2>1. f \in FuncRec /\ Describes(surface, f, blob.params, i)
      BY <1>5, <1>6, <1>7
    <2> HIDE DEF f, i
    <2>2. f.first \in Nat /\ f.count \in Nat
      BY <2>1 DEF FuncRec
    <2>3. /\ f.count = Len(surface[i].types)
          /\ f.first + f.count <= Len(blob.params)
          /\ \A k \in 1..f.count : Stands(surface, blob.params[f.first + k], surface[i].types[k])
      BY <2>1, Zenon DEF Describes
    <2>4. ASSUME NEW k \in 1..f.count
          PROVE  DecodesLike(params[f.first + k], surface[i].types[k])
      <3>1. f.first + k \in DOMAIN blob.params
        BY <1>3, <2>2, <2>3
      <3>2. params[f.first + k] = Checked(blob.params[f.first + k], Len(blob.enums))
        BY <1>2, <3>1 DEF TablesLoaded
      <3>3. QED
        BY <2>3, <3>2, StandsDecodes
    <2>5. QED
      BY <2>3, <2>4
  <1> HIDE DEF i, f
  <1>8. IF i = 0 THEN name \notin DOMAIN by_name
        ELSE /\ name \in DOMAIN by_name
             /\ f.count = Len(surface[i].types)
             /\ \A k \in 1..f.count : DecodesLike(params[f.first + k], surface[i].types[k])
    BY <1>5, <1>6, <1>7
  <1>9. QED
    BY <1>8 DEF i, f

LEMMA BuiltIsWhole ==
  ASSUME NEW surface \in Surfaces
  PROVE  ~Broken(Build(surface))
  <1> DEFINE file == Build(surface)
  <1>1. /\ file \in IndexFile
        /\ OwnRecords(surface, file, Len(surface)) /\ WithEnums(surface, file)
    BY BuildFacts DEF FilledOK
  <1> HIDE DEF file
  <1>2. file.funcs \in Seq(FuncRec) /\ file.params \in Seq(Nat \cup {NoEnum})
    BY <1>1, FileTables
  <1>3. ASSUME NEW k \in DOMAIN file.funcs
        PROVE  ~(file.funcs[k].first + file.funcs[k].count > Len(file.params))
    <2>1. file.funcs[k].first + file.funcs[k].count <= Len(file.params)
      BY <1>1 DEF OwnRecords, Describes
    <2>2. file.funcs[k].first \in Nat /\ file.funcs[k].count \in Nat
      <3>1. file.funcs[k] \in FuncRec
        BY <1>2
      <3>2. QED
        BY ONLY <3>1 DEF FuncRec
    <2>3. QED
      BY <1>2, <2>1, <2>2
  <1>4. file.sound
    BY <1>1 DEF WithEnums
  <1>5. QED
    BY <1>3, <1>4 DEF Broken, file

(* Whatever the metadata is, the file built of it is loaded whole, and a   *)
(* function that has a record is found under its name with its own         *)
(* parameters, each decoded by the enumeration its type leads to.          *)
THEOREM IndexServes == Spec => []BuiltIndexServes
  <1>1. LoadInv /\ LoadedInv => BuiltIndexServes
    <2> SUFFICES ASSUME LoadInv, LoadedInv, NEW surface \in Surfaces,
                        blob = BuiltFile[surface]
                 PROVE  /\ phase # "failed"
                        /\ phase = "ready" => \A fn \in ToSet(surface) :
                             LET i == Signature(surface, fn.name) IN
                             IF i = 0 THEN fn.name \notin DOMAIN by_name
                             ELSE /\ fn.name \in DOMAIN by_name
                                  /\ LET f == funcs[by_name[fn.name]] IN
                                     /\ f.count = Len(surface[i].types)
                                     /\ \A k \in 1..f.count :
                                          DecodesLike(params[f.first + k], surface[i].types[k])
      BY DEF BuiltIndexServes
    <2>1. blob = Build(surface)
      BY DEF BuiltFile
    <2>2. phase # "failed"
      BY <2>1, BuiltIsWhole DEF LoadedInv
    <2>3. QED
      BY <2>1, <2>2, ReadyServes
  <1>2. Init => LoadInv /\ LoadedInv
    BY LoadInvInit, LoadedInit
  <1>3. LoadInv /\ LoadedInv /\ [Next]_vars => LoadInv' /\ LoadedInv'
    BY LoadInvStep, LoadedStep
  <1>4. QED
    BY <1>1, <1>2, <1>3, PTL DEF Spec
====
