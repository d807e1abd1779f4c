SPECIFICATION Spec
CONSTANTS
  Kinds = {"RETR", "NOOP"}
  Patient = {}
  MaxCmds = 2
  MinLines = 1
  MaxLines = 1
  PENDING_QUEUE = 2
  BufSize = 8
  LowWater = 3
  PipeCap = 8
  ClientLags = FALSE
  FilterCmd = TRUE
  FilterEager = FALSE
  FilterMayFail = FALSE
  OriginMayFail = FALSE
INVARIANTS
  RepliesInOrder
CHECK_DEADLOCK FALSE
