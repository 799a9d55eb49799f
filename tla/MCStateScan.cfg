SPECIFICATION StateSpec
CONSTANTS
  Reg = {"gp", "a5"}
  GP = "gp"
  Unknown = Unknown
  N = 6
  Hi = {1, 3}
  Lo <- MCLo
  Modulus = 16
  HI_UNIT = 4
  LINKED_CODE_BASE = 2
  RAM_LO = 4
  RAM_HI = 12
INVARIANTS
  TypeOK
  OnlySpoiltGoWrong
  SingleUse
  MapsStayDistinct
CHECK_DEADLOCK FALSE
