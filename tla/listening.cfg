SPECIFICATION LiveSpec
CONSTANTS
  Conn = {c1, c2}
  Handle = {0, 1, 2, 3, 4, 5, 6, 7, 8, 9, 10, 11, 12}
  LowestFirst = TRUE
  TcpSockets = 2
  UdpSockets = 2
  Managed = {1}
  MaxFds = 7
  Width = 4
  MaxDatagrams = 2
  FilterCmd = FALSE
  OriginMayRefuse = TRUE
  AddressMayFail = FALSE
  Overlapping = FALSE
  Interruptible = TRUE
INVARIANTS
  TypeOK
  OwnHandles
PROPERTIES
  WaitingAccepted
  DatagramsRead
  StopsOrSleeps
CHECK_DEADLOCK FALSE
