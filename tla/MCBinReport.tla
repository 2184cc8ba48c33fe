---------------------------- MODULE MCBinReport ----------------------------
(* Bounds for TLC: reports of up to three calls of five kinds, long enough *)
(* together to wrap the offsets.                                           *)
EXTENDS JsonReport, TLC

MCNames == {"", "kernel32", "ReadFile", "Sleep", "hFile", "lpBuffer", "HANDLE"}
MCKinds == {"Unknown", "Handle", "Double"}
MCSymbols == {"x", "y"}

Plain ==
  [name |-> "", type |-> "", kind |-> "Unknown", raw |-> 7, is_out |-> FALSE,
   from_return |-> FALSE, has_deref |-> FALSE, deref |-> 0, has_fval |-> FALSE, fval |-> 0,
   has_str |-> FALSE, str |-> <<>>, bytes |-> <<>>, bytes_total |-> 0,
   bytes_capped |-> FALSE, flags |-> <<>>]

Handle == [Plain EXCEPT !.name = "hFile", !.type = "HANDLE", !.kind = "Handle", !.flags = <<"y">>]

(* A buffer cut short, and a text that ends before its buffer does, with   *)
(* every kind of part that goes to the blob.                               *)
Capped ==
  [Plain EXCEPT !.name = "lpBuffer", !.bytes = <<"x", "y">>, !.bytes_total = 5,
                !.bytes_capped = TRUE, !.has_deref = TRUE, !.deref = 3,
                !.is_out = TRUE, !.from_return = TRUE]
Trimmed ==
  [Plain EXCEPT !.name = "lpBuffer", !.bytes = <<"x">>, !.bytes_total = 5,
                !.has_str = TRUE, !.str = <<"y", "x">>, !.flags = <<"y">>, !.is_out = TRUE]

(* A floating-point value, and a pointer to an empty text.                *)
Ratio == [Plain EXCEPT !.name = "hFile", !.kind = "Double", !.has_fval = TRUE, !.fval = 2]
NoText == [Plain EXCEPT !.name = "lpBuffer", !.has_str = TRUE]

(* The values of a call without a signature: an integer and a text.        *)
Text1 == [Plain EXCEPT !.raw = 0, !.has_str = TRUE, !.str = <<"x">>]

Call(api, metadata, ps, haystack, has_ret) ==
  [tid |-> 1, return_address |-> 20, module |-> "kernel32", api |-> api, metadata |-> metadata, params |-> ps,
   haystack |-> haystack, has_ret |-> has_ret, ret |-> 4]

CallKinds ==
  {Call("ReadFile", TRUE, <<Handle, NoText, Capped>>, <<"x">>, TRUE),
   Call("ReadFile", TRUE, <<Trimmed, Ratio>>, <<"y", "x", "y">>, FALSE),
   Call("Sleep", TRUE, <<>>, <<"x", "x">>, TRUE),
   Call("Sleep", FALSE, <<Plain, Text1>>, <<"y">>, FALSE),
   Call("Sleep", FALSE, <<>>, <<"y">>, TRUE)}

(* The later calls are at positions that 32 bits do not hold.              *)
Numbered(kinds) ==
  [i \in DOMAIN kinds |->
     [seq |-> i - 1, position |-> [sequence |-> 6 * i, steps |-> 18 - 6 * i]] @@ kinds[i]]

MCReports == {Numbered(kinds) : kinds \in UNION {[1..n -> CallKinds] : n \in 0..3}}
============================================================================
