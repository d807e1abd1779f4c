SPECIFICATION Spec
CONSTANTS
  Kinds = {"RETR", "CAPA", "INVALID"}
  Patient = {}
  MaxCmds = 2
  MinLines = 1
  MaxLines = 1
  PENDING_QUEUE = 2
  BufSize = 8
  LowWater = 4
  PipeCap = 8
  ClientLags = TRUE
  FilterCmd = TRUE
  FilterEager = TRUE
  FilterMayFail = TRUE
  OriginMayFail = TRUE
INVARIANTS
  NothingInvented
PROPERTIES
  ImplementsLife
CHECK_DEADLOCK FALSE
