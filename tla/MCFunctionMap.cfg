SPECIFICATION Spec
CONSTANTS
  N = 4
  Codes <- MCCodes
INVARIANTS
  TypeOK
  ExtentsInImage
  NestedEndTogether
  SpansUnseenOnly
PROPERTIES
  Terminates
CHECK_DEADLOCK FALSE
