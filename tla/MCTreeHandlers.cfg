SPECIFICATION Spec
CONSTANTS
  Codes <- MCBle
  Reg = {"s1", "a5", "a4", "a0"}
  CMD_REG = "s1"
  SCRATCH = "a5"
  CommandByte <- MCCommandByte
  FrameId = {}
  RAW_FRAME_STORE = 22
  TRAMPOLINE_LIMIT = 3
  Unknown = Unknown
INVARIANTS
  HandlerOfCommand
CHECK_DEADLOCK FALSE
