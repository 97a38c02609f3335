CONSTANTS
  Lanes = 3
  MCost = 37
  Passes = 2
  Width = 6
  MayFail = TRUE
SPECIFICATION Spec
CHECK_DEADLOCK FALSE
INVARIANTS TypeOK ReadsAreSettled PicksAnother SlicesInStep
PROPERTIES Finishes
