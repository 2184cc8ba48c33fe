\* A module whose export directory is known in part when it is loaded.
SPECIFICATION Spec
CONSTANTS
  OrdinalFlag = 100000
  OrdinalRange = 100
  MaxName = 3
  MaxDll = 2
  MinString = 2
  MaxStrings = 4
  MaxSection = 20
  Images <- MCImages
  Traces <- MCTraces
  End = 2
  ExportDirAt = 100
  ExportDirSize = 50
  FunctionsAt = 110
  NamesAt = 120
  OrdinalsAt = 130
  NameAt <- MCNameAt
  CodeAt <- MCCodeAt
  ImportDirAt = 400
  DllAt <- MCDllAt
  LookupAt <- MCLookupAt
  SlotsAt <- MCSlotsAt
  HintAt <- MCHintAt
  DataAt <- MCDataAt
INVARIANTS
  MapIsOfFunctions
\* The sweep begins.
CHECK_DEADLOCK FALSE
