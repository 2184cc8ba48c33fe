\* Reports of up to three calls, on a disk that may fail.
SPECIFICATION Spec
CONSTANTS
  Reports <- MCReports
  Names <- MCNames
  Kinds <- MCKinds
  Symbols <- MCSymbols
  OffsetLimit = 12
  SearchLimit = 2
INVARIANTS
  TypeOK
  ReadsBack
  TruncationIsTold
  ReportsAgree
\* write has returned.
CHECK_DEADLOCK FALSE
