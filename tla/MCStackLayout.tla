--------------------------- MODULE MCStackLayout ---------------------------
(* Bounds for TLC: one parameter type for every way the index's x64 view   *)
(* and the x86 truth can relate.                                           *)
EXTENDS StackLayout

Type(kind, size, starred, pushed) ==
  [kind |-> kind, size |-> size, starred |-> starred, pushed |-> pushed]

MCParamTypes ==
  {Type("scalar", 1, FALSE, 4),    \* BYTE
   Type("scalar", 4, FALSE, 4),    \* DWORD, and structs of four bytes
   Type("scalar", 8, FALSE, 4),    \* SIZE_T
   Type("scalar", 8, FALSE, 8),    \* LONGLONG
   Type("float", 4, FALSE, 4),
   Type("double", 8, FALSE, 8),
   Type("struct", 16, TRUE, 4),    \* OVERLAPPED*
   Type("struct", 16, FALSE, 4),   \* a struct pointer behind a typedef
   Type("struct", 16, FALSE, 8),   \* two pointers, by value
   Type("struct", 24, FALSE, 16),  \* VARIANT
   Type("pointer", 8, FALSE, 4)}   \* strings, handles and other pointers
============================================================================
