CONSTANTS
  o1 = o1
  o2 = o2
  o3 = o3
  NoOp = NoOp
  Ops <- MC_Ops
  MaxPacketId <- MC_MaxPacketId
  Timeouts <- MC_AllTimeouts
  PingEnabled = FALSE
  ClientRelease = FALSE
  MaxUserRefs = 1
  Websockets = FALSE
  ConnectPaths <- MC_ConnectPaths
SPECIFICATION Spec
INVARIANT AckTargetsOwnRequest
SYMMETRY MC_Symmetry
