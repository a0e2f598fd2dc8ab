CONSTANTS
  o1 = o1
  o2 = o2
  o3 = o3
  NoOp = NoOp
  Ops <- MC_OneOp
  MaxPacketId <- MC_MaxPacketId
  Timeouts <- MC_AllTimeouts
  PingEnabled = TRUE
  ClientRelease = TRUE
  MaxUserRefs = 2
  Websockets = TRUE
  ConnectPaths <- MC_ConnectPaths
SPECIFICATION Spec
INVARIANT ClientOutlivesConnection
PROPERTY DisconnectCompletes
