SPECIFICATION Spec
CONSTANTS
  Reg = {"a0", "a5"}
  A0 = "a0"
  A5 = "a5"
  Arg = {"a0"}
  Imm = {0, 1}
  Mask = {1, 2, 3}
  Routine = {"f", "g"}
  N = 6
  Unknown = Unknown
  None = None
INVARIANTS
  WorkersTold
  FieldsMeant
  FieldPerMask
CHECK_DEADLOCK FALSE
