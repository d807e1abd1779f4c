SPECIFICATION Spec
CONSTANTS
  Conn = {c1, c2}
  Handle = {0, 1, 2, 3, 4, 5, 6, 7, 8, 9, 10, 11, 12}
  LowestFirst = TRUE
  TcpSockets = 2
  UdpSockets = 1
  Managed = {1}
  MaxFds = 20
  Width = 4
  MaxDatagrams = 0
  FilterCmd = FALSE
  OriginMayRefuse = FALSE
  AddressMayFail = FALSE
  Overlapping = FALSE
  Interruptible = FALSE
INVARIANTS
  NothingLeaked
  EventsReachTheirOwner
  UsedOnceConnected
  CountsSessions
  TurnsOfTheLiving
CHECK_DEADLOCK FALSE
