SPECIFICATION LiveSpec
CONSTANTS
  Kinds = {"RETR", "NOOP"}
  Patient = {"RETR"}
  MaxCmds = 2
  MinLines = 1
  MaxLines = 2
  PENDING_QUEUE = 2
  BufSize = 8
  LowWater = 4
  PipeCap = 8
  ClientLags = FALSE
  FilterCmd = TRUE
  FilterEager = TRUE
  FilterMayFail = FALSE
  OriginMayFail = FALSE
PROPERTIES
  EventuallyAnswered
CHECK_DEADLOCK FALSE
