CONSTANTS
  r1 = r1
  r2 = r2
  r3 = r3
  f1 = f1
  f2 = f2
  Reqs <- MC_Reqs
  Filters <- MC_Filters
  Kinds <- MC_AllKinds
  Faults <- MC_AllFaults
  Sessions <- MC_AnySession
  TimeoutOn = TRUE
  MaxDrops = 1
SPECIFICATION Spec
SYMMETRY MC_Symmetry
CHECK_DEADLOCK FALSE
INVARIANTS
  TypeOK
  NoUseAfterCleanup
