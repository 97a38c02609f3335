CONSTANTS
  m1 = m1
  m2 = m2
  Miner = {m1, m2}
  Modes <- SoloModes
  AllowInfo = TRUE
  Retries = 1
  MaxTip = 2
SPECIFICATION Spec
CHECK_DEADLOCK FALSE
INVARIANTS TypeOK OneQuestion LeavesOwnBlock OwnTransactions
PROPERTIES SubmitsOnce StaleUnlessEncoded SolvedIfAnswered Answered CatchesUp
