SPECIFICATION Safety
CONSTANTS
  Miner = {m1, m2}
  JobId = {j1, j2}
  NoJobId = NoJobId
  EndNonce = 1
  NonceValues = 6
  Xn2Wraps = FALSE
  Xn2Values = 3
  MaxBody = 2
  MaxPrev = 0
  MaxDiff = 2
  MaxShares = 1
  MaxLost = 1
SYMMETRY Symmetry
CHECK_DEADLOCK FALSE
INVARIANTS TypeOK TargetOfThisOrLaterJob HashedOnce StaysInPart
PROPERTIES FreshHeader MovesForward
