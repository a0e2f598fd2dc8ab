CONSTANTS
  Groups <- MC_AllGroups
  Faults <- MC_NoFaults
  MaxCalls <- MC_MaxCalls
SPECIFICATION Spec
INVARIANT ReadsSeeOneSetting
