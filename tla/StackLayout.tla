---------------------------- MODULE StackLayout ----------------------------
(***************************************************************************)
(* Where a 32-bit callee's arguments are on its stack                      *)
(* (ttd/src/abi.cpp, computeStackOffsets).  The metadata index describes a *)
(* parameter by a kind and a size measured for x64; the stack was laid out *)
(* by a compiler for x86.  A signature is grown one parameter at a time,   *)
(* and what the decoder makes of each one is compared with the truth.      *)
(***************************************************************************)
EXTENDS Naturals, Sequences

CONSTANTS
  ParamTypes,  \* what parameters can be
  MaxParams,   \* kMaxParams
  MaxLength    \* bound: parameters of a signature

(* kind and size are the index's, starred says that the type's name ends   *)
(* with a star, and pushed is what the caller really pushes on x86.  A     *)
(* signature with a parameter of unknown kind is not used at all.          *)
ASSUME LayoutAssumption ==
  /\ ParamTypes \subseteq [kind : {"scalar", "float", "double", "struct", "pointer"},
                           size : Nat, starred : BOOLEAN, pushed : Nat \ {0}]
  /\ \A p \in ParamTypes : p.kind = "scalar" => p.size \in {1, 2, 4, 8}
  /\ MaxParams \in Nat \ {0}
  /\ MaxLength \in Nat

Word == 4

(* What a caller pushes on x86: whole words.  A value under 8 bytes on x64 *)
(* has no pointer in it, so it is as wide there.  Nothing is said of those *)
(* whose width on x86 the one on x64 does not tell.                        *)
ASSUME AbiAssumption ==
  \A p \in ParamTypes :
    /\ p.kind = "double" => p.pushed = 2 * Word
    /\ p.kind \in {"float", "pointer"} => p.pushed = Word
    /\ p.kind = "struct" /\ p.starred => p.pushed = Word
    /\ p.kind = "scalar" /\ p.size <= Word => p.pushed = Word

VARIABLES
  params,  \* the parameters of the signature
  hidden   \* does a hidden pointer for the return value come first?

vars == <<params, hidden>>

Init == params = <<>> /\ hidden \in BOOLEAN

AddParam ==
  /\ Len(params) < MaxLength
  /\ \E p \in ParamTypes : params' = Append(params, p)
  /\ UNCHANGED hidden

Next == AddParam

Spec == Init /\ [][Next]_vars
----------------------------------------------------------------------------
(* The positional slot the indexer gives parameter i.                      *)
Slot(i) == i - 1 + (IF hidden THEN 1 ELSE 0)

IsByValueAggregate(p) == p.kind = "struct" /\ ~p.starred

MutFootprint(p) ==
  LET size == IF p.kind = "double" THEN 8
              ELSE IF p.kind = "scalar" /\ p.size \in 1..8 THEN p.size
              ELSE Word
  IN ((size + Word - 1) \div Word) * Word

(* x86StackFootprint: the bytes a parameter occupies, 0 if the index       *)
(* cannot tell.  A scalar of 8 bytes on x64 has 4 or 8 on x86.             *)
Footprint(p) ==
  LET size == IF p.kind = "double" THEN 8
              ELSE IF p.kind = "scalar" /\ p.size \in 1..7 THEN p.size
              ELSE Word
  IN
  IF IsByValueAggregate(p) \/ (p.kind = "scalar" /\ p.size = 8) THEN 0
  ELSE ((size + Word - 1) \div Word) * Word

(* Does decodeArgs use the signature on x86?                               *)
Accepted ==
  /\ Len(params) <= MaxParams
  /\ \A i \in DOMAIN params : Slot(i) < MaxParams /\ Footprint(params[i]) # 0

(* What the walk in slot order adds for slot s: a slot that no parameter   *)
(* has holds the hidden pointer.                                           *)
SlotBytes(s) ==
  IF \E i \in DOMAIN params : Slot(i) = s
    THEN Footprint(params[CHOOSE i \in DOMAIN params : Slot(i) = s])
    ELSE Word

(* What has been pushed when so many elements have: first, and them.       *)
Sums(first, bytes) ==
  LET sum[n \in 0..Len(bytes)] == IF n = 0 THEN first ELSE sum[n - 1] + bytes[n]
  IN sum

(* running, by slots.                                                      *)
Running == Sums(0, [s \in 1..MaxParams |-> SlotBytes(s - 1)])

(* The offset of parameter i from the first word above the return address. *)
Offset(i) == Running[Slot(i)]

(* fetchArg: the bytes read there.                                         *)
ReadWidth(p) == IF p.kind = "double" THEN 8 ELSE Word

(* Where the caller put parameter i.                                       *)
Pushed == Sums(IF hidden THEN Word ELSE 0, [j \in DOMAIN params |-> params[j].pushed])

TrueOffset(i) == Pushed[i - 1]
----------------------------------------------------------------------------
(* A signature the decoder uses is read from where the arguments are, and  *)
(* no read strays into the next one: one parameter of the wrong width      *)
(* would silently shift all that follow (abi.cpp:84-94).                   *)
AcceptedLayoutsAreTrue ==
  Accepted => \A i \in DOMAIN params :
    /\ Offset(i) = TrueOffset(i)
    /\ \A j \in DOMAIN params : j > i => Offset(i) + ReadWidth(params[i]) <= Offset(j)
============================================================================
