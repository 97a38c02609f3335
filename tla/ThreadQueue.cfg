CONSTANTS
  Data = {d1, d2}
  NULL = NULL
  Spurious = TRUE
  MaxPush = 4
SPECIFICATION Spec
CHECK_DEADLOCK FALSE
INVARIANTS TypeOK NoLostWakeup
PROPERTY ImplementsChannel
