\* NotForgotten against an expulsion followed by a crash.
SPECIFICATION Spec
CONSTANTS
  Jobs = {j1}
  Workers = {w1, w2}
  Tokens = {t1, t2, t3}
  Verdicts = {"RuntimeError"}
  BatchLimit = 1
  NULL = NULL
  p1 = p1
  p2 = p2
  Partitions = {p1}
  PartitionOf <- OnePartition
  Malformed = Malformed
  DlqExists = TRUE
  MaxCrashes = 1
  MaxRestarts = 0
  MaxExpulsions = 1
  MaxRebalances = 0
  MaxStalls = 0
  MaxDbErrors = 0
  MaxSendErrors = 0
  MaxDockerErrors = 0
  MaxPanics = 0
  MaxForeign = 0
SYMMETRY Symmetric
CHECK_DEADLOCK FALSE
INVARIANTS NotForgotten
