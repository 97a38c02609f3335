CONSTANTS
  N = 4
  W = 19
  Reserve = 2
  MaxScan = 2
SPECIFICATION Spec
CHECK_DEADLOCK FALSE
INVARIANTS Disjoint CountWithinOne MeetAtStartOnly
