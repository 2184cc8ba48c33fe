\* Every way from the options to the exit code.
SPECIFICATION Spec
CONSTANTS
  Wishes <- MCWishes
  CommandLines <- MCCommandLines
  Dashed <- MCDashed
  Wcstoull <- MCWcstoull
  DefaultBuffer = 65536
  CapaCodes = {0, 1}
INVARIANTS
  TypeOK
  OptionsArrive
  SuccessMeansReport
  ZeroMeansWritten
  NothingLeftBehind
PROPERTIES
  DriverEnds
\* Everything has ended.
CHECK_DEADLOCK FALSE
