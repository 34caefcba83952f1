CONSTANTS
  Vertices = {V1, V2, V3}
  MaxLen = 4
  None = None
SPECIFICATION Spec
INVARIANT TypeOK DrainMatchesReference
CHECK_DEADLOCK FALSE
