CONSTANTS
  r1 = r1
  r2 = r2
  r3 = r3
  f1 = f1
  f2 = f2
  Reqs <- MC_TwoReqs
  Filters <- MC_OneFilter
  Kinds <- MC_Resub
  Faults <- MC_Encode
  Sessions <- MC_Persistent
  TimeoutOn = TRUE
  MaxDrops = 1
SPECIFICATION Spec
SYMMETRY MC_Symmetry
CHECK_DEADLOCK FALSE
INVARIANT NoLeakedTopics
