CONSTANTS
  Miner = {m1, m2}
  JobId = {j1, j2}
  NoJobId = NoJobId
  EndNonce = 2
  NonceValues = 5
  Xn2Wraps = TRUE
  Xn2Values = 1
  MaxBody = 2
  MaxPrev = 0
  MaxDiff = 1
  MaxShares = 0
  MaxLost = 0
SPECIFICATION Spec
PROPERTY LatestJobReachesAll
