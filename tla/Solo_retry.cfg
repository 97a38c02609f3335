CONSTANTS
  m1 = m1
  m2 = m2
  Miner = {m1, m2}
  Modes <- TemplateMode
  AllowInfo = TRUE
  Retries = 1
  MaxTip = 2
SPECIFICATION Safety
CHECK_DEADLOCK FALSE
PROPERTIES StaleIsStale
