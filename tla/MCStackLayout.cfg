\* Every signature of up to four parameters, the tables being three long.
SPECIFICATION Spec
CONSTANTS
  ParamTypes <- MCParamTypes
  MaxParams = 3
  MaxLength = 4
INVARIANT
  AcceptedLayoutsAreTrue
\* A signature of MaxLength parameters does not grow.
CHECK_DEADLOCK FALSE
