SPECIFICATION Spec
CONSTANTS
  N = 5
  BACK_WINDOW = 3
  Codes <- MCCodes
  None = None
INVARIANTS
  ConstantsAreHeld
CHECK_DEADLOCK FALSE
