SPECIFICATION Spec
CONSTANTS
  EarlyControls = TRUE
CHECK_DEADLOCK FALSE
INVARIANTS
  MutedIsSilent
