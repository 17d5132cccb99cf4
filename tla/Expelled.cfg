\* Expelled with a message in hand, maybe a poison one, and no dead-letter topic.
SPECIFICATION Spec
CONSTANTS
  Jobs = {j1}
  Workers = {w1, w2}
  Tokens = {t1, t2, t3}
  Verdicts = {"RuntimeError"}
  BatchLimit = 1
  NULL = NULL
  p1 = p1
  p2 = p2
  Partitions = {p1}
  PartitionOf <- OnePartition
  Malformed = Malformed
  DlqExists = FALSE
  MaxCrashes = 0
  MaxRestarts = 0
  MaxExpulsions = 1
  MaxRebalances = 0
  MaxStalls = 1
  MaxDbErrors = 0
  MaxSendErrors = 0
  MaxDockerErrors = 0
  MaxPanics = 0
  MaxForeign = 1
SYMMETRY Symmetric
CHECK_DEADLOCK FALSE
INVARIANTS NotLost PoisonIsKept LeaseIsPersonal StoreInv
PROPERTY LeaseKept
