SPECIFICATION Spec
CONSTANTS
  N = 5
  BACK_WINDOW = 3
  Codes <- MCCodes
  None = None
INVARIANTS
  RowsExactInStep
  TypeOK
PROPERTIES
  EveryCallHasARow
CHECK_DEADLOCK FALSE
