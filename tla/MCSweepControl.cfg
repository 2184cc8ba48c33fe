\* A guest whose calls nest, replayed to its end or cancelled on the way.
SPECIFICATION ControlSpec
CONSTANTS
  t1 = t1
  t2 = t2
  export = export
  other = other
  site1 = site1
  site2 = site2
  Threads <- MCThreads
  Exports <- MCExports
  Others <- MCOthers
  Described <- MCExports
  Sites <- MCSites
  CallsAt <- MCCallsAt
  MaxCalls = 0
  CanUnwind = FALSE
  FinalSequence = 0
  ProgressPeriod = 4
  MaxPosition = 1
  MaxEvents = 4
INVARIANTS
  ReturnedCallsHaveReturns
  ReturnIsOwn
  NoCancelDroppedEarly
PROPERTIES
  ProcessEnds
\* wmain returns.
CHECK_DEADLOCK FALSE
