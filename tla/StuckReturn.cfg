\* A guest that may unwind.
SPECIFICATION Spec
CONSTANTS
  t1 = t1
  t2 = t2
  export = export
  other = other
  site1 = site1
  site2 = site2
  Threads <- MCThreads
  Exports <- MCExports
  Others <- MCOthers
  Described <- MCExports
  Sites <- MCSites
  CallsAt <- MCCallsAt
  MaxCalls = 2
  CanUnwind = TRUE
  FinalSequence = 1
  ProgressPeriod = 2
  MaxPosition = 2
  MaxEvents = 4
SYMMETRY MCSymmetry
INVARIANT ReturnedCallsHaveReturns
\* The trace ends after MaxEvents events.
CHECK_DEADLOCK FALSE
