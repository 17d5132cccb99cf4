\* WaitingIsStarted against one database error.
SPECIFICATION FairSpec
CONSTANTS
  Jobs = {j1}
  Workers = {w1, w2}
  Tokens = {t1, t2, t3, t4}
  Verdicts = {"RuntimeError"}
  BatchLimit = 1
  NULL = NULL
  p1 = p1
  p2 = p2
  Partitions = {p1}
  PartitionOf <- OnePartition
  Malformed = Malformed
  DlqExists = TRUE
  MaxCrashes = 0
  MaxRestarts = 0
  MaxExpulsions = 0
  MaxRebalances = 0
  MaxStalls = 0
  MaxDbErrors = 1
  MaxSendErrors = 0
  MaxDockerErrors = 0
  MaxPanics = 0
  MaxForeign = 0
CHECK_DEADLOCK FALSE
PROPERTY WaitingIsStarted
