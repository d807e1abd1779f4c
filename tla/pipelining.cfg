SPECIFICATION Spec
CONSTANTS
  Kinds = {"NOOP", "LIST", "QUIT", "INVALID"}
  Patient = {}
  MaxCmds = 3
  MinLines = 1
  MaxLines = 1
  PENDING_QUEUE = 2
  BufSize = 8
  LowWater = 4
  PipeCap = 8
  ClientLags = FALSE
  FilterCmd = FALSE
  FilterEager = FALSE
  FilterMayFail = FALSE
  OriginMayFail = TRUE
INVARIANTS
  TypeOK
  Verbatim
  SentInOrder
  NoneSkipped
  PendingIsHead
  ClosedTogether
PROPERTIES
  ReleasedForGood
CHECK_DEADLOCK FALSE
