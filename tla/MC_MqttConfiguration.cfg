CONSTANTS
  Groups <- MC_AllGroups
  Faults <- MC_AllFaults
  MaxCalls <- MC_MaxCalls
SPECIFICATION Spec
INVARIANTS
  SettledSettingIsRead
