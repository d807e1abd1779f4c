SPECIFICATION Spec
CONSTANTS
  Kinds = {"RETR", "NOOP"}
  Patient = {"RETR"}
  MaxCmds = 1
  MinLines = 1
  MaxLines = 2
  PENDING_QUEUE = 2
  BufSize = 8
  LowWater = 4
  PipeCap = 8
  ClientLags = FALSE
  FilterCmd = FALSE
  FilterEager = FALSE
  FilterMayFail = FALSE
  OriginMayFail = FALSE
INVARIANTS
  Verbatim
CHECK_DEADLOCK FALSE
