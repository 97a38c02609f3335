CONSTANTS
  Url = {u1, u2}
  Dead = {u2}
  Unlimited = FALSE
  Retries = 1
  Extranonce = TRUE
  MaxShares = 1
  MaxLines = 1
  MaxXn = 2
  MaxFail = 1
  MaxSet = 1
SPECIFICATION Spec
CHECK_DEADLOCK FALSE
INVARIANTS TypeOK AuthorizedByPool XnonceIsPools Ledger
PROPERTIES UrlFollows GivingUpEnds
