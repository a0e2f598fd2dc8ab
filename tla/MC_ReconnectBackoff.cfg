CONSTANTS
  W <- MC_W
  Bounds <- MC_Bounds
  Outcomes <- MC_AnyOutcome
SPECIFICATION Spec
INVARIANTS
  TypeOK
  ReattemptNotBeforeBackoff
PROPERTY
  RefinesBackoffPolicy
  ReconnectKeepsTrying
