---------------------------- MODULE MCArgDecode ----------------------------
(* Bounds for TLC: two parameters, one of them mostly a buffer whose       *)
(* length is in the other, before or after it, by value or by pointer.     *)
EXTENDS ArgDecode, TLC

Param(kind, in, out, aux, value, size) ==
  [kind |-> kind, in |-> in, out |-> out, aux |-> aux, value |-> value, size |-> size]

Plain(kind, in, out) == Param(kind, in, out, "none", 0, 0)

Buffer == 10
Count == 11
LowCount == 3   \* an address small enough to pass for a count

BufferParams(value) ==
  {Param(kind, in, out, aux, value, size) :
     kind \in {"byte buffer"}, in \in BOOLEAN, out \in BOOLEAN,
     aux \in {"bytes", "count"}, size \in {2}}
  \cup {Param("ansi buffer", in, TRUE, "bytes", value, 1) : in \in BOOLEAN}
  \cup {Param("wide buffer", FALSE, TRUE, "count", value, 2)}

CountParams ==
  {Plain("integer", TRUE, FALSE), Plain("integer pointer", TRUE, FALSE),
   Plain("integer pointer", FALSE, TRUE), Plain("integer pointer", TRUE, TRUE),
   Plain("string pointer", TRUE, FALSE)}

(* Also: a length fixed by the signature, and parameters without a length. *)
MCSignatures ==
  {<<b, c>> : b \in BufferParams(2), c \in CountParams}
  \cup {<<c, b>> : b \in BufferParams(1), c \in CountParams}
  \cup {<<Param("byte buffer", FALSE, TRUE, "const", 3, 1), Plain("opaque", FALSE, TRUE)>>,
        <<Plain("byte buffer", TRUE, TRUE), Plain("string", TRUE, TRUE)>>,
        <<Plain("string pointer", FALSE, TRUE), Plain("string", FALSE, TRUE)>>}

At(word, bytes) == [word |-> word, bytes |-> bytes]

Word == <<"nul", "nul", "nul">>

(* The buffer can end before a word does, with enough of it left for text. *)
MCContents ==
  Buffer :> {At(4, <<>>), At(4, <<"old", "old", "old">>), At(4, <<"old", "nul", "old">>)}
  @@ Count :> {At(1, Word), At(3, Word), At(Buffer, <<"nul">>)}
  @@ LowCount :> {At(2, <<"nul", "old", "old">>)}

MCResults ==
  Buffer :> {At(4, <<>>), At(4, <<"new", "new">>),
             At(4, <<"nul", "nul", "old", "old">>), At(4, <<"new", "nul", "nul", "nul">>)}
  @@ Count :> {At(1, Word), At(2, Word), At(4, Word), At(Buffer, Word)}
  @@ LowCount :> {At(2, <<"nul", "old", "old">>)}

MCIntegers == {1, 3, 4}
MCPointers == {1, LowCount, Buffer, Count}
============================================================================
