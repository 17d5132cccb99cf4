\* Two jobs on one partition: a crash, a rebalance, a stall, a failed produce and cleaning.
SPECIFICATION Spec
CONSTANTS
  Jobs = {j1, j2}
  Workers = {w1, w2}
  Tokens = {t1, t2, t3, t4}
  Verdicts = {"RuntimeError"}
  BatchLimit = 1
  NULL = NULL
  p1 = p1
  p2 = p2
  Partitions = {p1}
  PartitionOf <- OnePartition
  Malformed = Malformed
  DlqExists = TRUE
  MaxCrashes = 1
  MaxRestarts = 0
  MaxExpulsions = 0
  MaxRebalances = 1
  MaxStalls = 1
  MaxDbErrors = 0
  MaxSendErrors = 1
  MaxDockerErrors = 1
  MaxPanics = 0
  MaxForeign = 0
SYMMETRY Symmetric
CHECK_DEADLOCK FALSE
INVARIANTS NotLost
