CONSTANTS
  Url = {u1, u2}
  Dead = {u1}
  Unlimited = TRUE
  Retries = 0
  Extranonce = FALSE
  MaxShares = 0
  MaxLines = 0
  MaxXn = 1
  MaxFail = 0
  MaxSet = 1
SPECIFICATION Spec
CHECK_DEADLOCK FALSE
PROPERTY UrlFollows
