CONSTANTS
  Miner = {m1, m2}
  JobId = {j1, j2}
  NoJobId = NoJobId
  EndNonce = 1
  NonceValues = 4
  Xn2Wraps = FALSE
  Xn2Values = 4
  MaxBody = 1
  MaxPrev = 0
  MaxDiff = 1
  MaxShares = 1
  MaxLost = 0
SPECIFICATION Safety
PROPERTY DiscardsOnlyStale
