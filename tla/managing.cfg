SPECIFICATION Spec
CONSTANTS
  Port = {"110", "995"}
  Default = "110"
  Lists <- MCLists
  Conn = {c1}
  MaxSettings = 3
  Datagram <- MCRequests
  DataLength = 3
  MaxDatagrams = 3
INVARIANTS
  TypeOK
  NamesFreedOnce
  LastSettingWins
  AnswersInForce
  ReachesOrigin
PROPERTIES
  NamesReleased
CHECK_DEADLOCK FALSE
