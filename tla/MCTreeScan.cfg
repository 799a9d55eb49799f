SPECIFICATION Spec
CONSTANTS
  Codes <- SmallCodes
  Reg = {"s1", "a5", "a1"}
  CMD_REG = "s1"
  SCRATCH = "a5"
  CommandByte = {1, 2}
  FrameId = {1, 2}
  RAW_FRAME_STORE = 22
  TRAMPOLINE_LIMIT = 3
  Unknown = Unknown
INVARIANTS
  ListingMeant
  DecoderReached
PROPERTIES
  HandlersTold
  ArmsTold
CHECK_DEADLOCK FALSE
