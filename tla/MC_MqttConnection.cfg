CONSTANTS
  o1 = o1
  o2 = o2
  o3 = o3
  NoOp = NoOp
  Ops <- MC_Ops
  MaxPacketId <- MC_MaxPacketId
  Timeouts <- MC_Timeout
  PingEnabled = FALSE
  ClientRelease = FALSE
  MaxUserRefs = 1
  Websockets = TRUE
  ConnectPaths <- MC_ConnectPaths
SPECIFICATION Spec
INVARIANTS
  TypeOK
  CompletionAtMostOnce
  RequestTrackingConsistent
  NoUseAfterDestroy
  ExactlyOnceAtDestroy
  TimeoutTargetsOwner
PROPERTY
  RefinesConnectionFSM
SYMMETRY MC_Symmetry
