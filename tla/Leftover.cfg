\* OrphansAreRemoved against a crash and a restart.
SPECIFICATION FairSandbox
CONSTANTS
  Jobs = {j1}
  Workers = {w1, w2}
  Tokens = {t1, t2, t3}
  Verdicts = {"Success", "CompileError", "RuntimeError", "TimeLimitExceeded", "MemoryLimitExceeded"}
  BatchLimit = 1
  NULL = NULL
  p1 = p1
  p2 = p2
  Partitions = {p1}
  PartitionOf <- OnePartition
  Malformed = Malformed
  DlqExists = TRUE
  Runs = {x1, x2}
  Programs <- Correct
  MaxCrashes = 1
  MaxRestarts = 1
  MaxExpulsions = 0
  MaxRebalances = 0
  MaxStalls = 0
  MaxDbErrors = 0
  MaxSendErrors = 0
  MaxDockerErrors = 0
  MaxPanics = 0
  MaxForeign = 0
CHECK_DEADLOCK FALSE
PROPERTY OrphansAreRemoved
