SPECIFICATION Spec
CONSTANTS
  Order = {1, 2}
  MaxFills = 2
  MaxSent = 3
INVARIANTS
  CommissionsAttributable
  EveryUpdateComesOut
CHECK_DEADLOCK FALSE
