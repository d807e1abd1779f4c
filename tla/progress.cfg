SPECIFICATION LiveSpec
CONSTANTS
  Kinds = {"RETR", "NOOP", "LIST", "QUIT", "INVALID"}
  Patient = {"RETR"}
  MaxCmds = 2
  MinLines = 1
  MaxLines = 1
  PENDING_QUEUE = 2
  BufSize = 8
  LowWater = 2
  PipeCap = 8
  ClientLags = TRUE
  FilterCmd = TRUE
  FilterEager = FALSE
  FilterMayFail = FALSE
  OriginMayFail = FALSE
INVARIANTS
  FreedOnce
  OnlyEndsRepeated
PROPERTIES
  EventuallyAnswered
  EventuallyReleased
  EndsAnswered
  ImplementsPipeline
CHECK_DEADLOCK FALSE
