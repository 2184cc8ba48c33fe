\* Every way to load an index, and every value asked of small tables.
SPECIFICATION Spec
CONSTANTS
  none = none
  no_enum = no_enum
  access = access
  mode = mode
  unused = unused
  Files <- MCFiles
  Candidates <- MCCandidates
  Missing = none
  Names <- MCNames
  NoEnum = no_enum
  Bits <- MCBits
  Registers <- MCRegisters
  Surfaces <- MCSurfaces
  EnumNames <- MCEnumNames
  Enumeration <- MCEnumeration
  MaxParams <- MCMaxParams
INVARIANTS
  TypeOK
  SignaturesInside
  BuiltIndexServes
  ValueSpelledOut
  CompositesFirst
  ExactMatchWins
\* The index is loaded and the value decoded.
CHECK_DEADLOCK FALSE
