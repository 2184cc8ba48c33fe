\* Calls of two parameters, decoded from entry to return.
SPECIFICATION Spec
CONSTANTS
  Signatures <- MCSignatures
  Integers <- MCIntegers
  Pointers <- MCPointers
  Contents <- MCContents
  Results <- MCResults
  MinDeref = 3
  MaxCount = 3
  MaxBuffer = 2
  MaxString = 3
  MinText = 2
  WordSize = 3
INVARIANT NeverExceedsOffer
\* The call has returned.
CHECK_DEADLOCK FALSE
