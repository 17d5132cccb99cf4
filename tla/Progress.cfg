\* Liveness: a worker crashes, and may be started again; a stall, a failed produce.
SPECIFICATION FairSpec
CONSTANTS
  Jobs = {j1}
  Workers = {w1, w2}
  Tokens = {t1, t2, t3}
  Verdicts = {"RuntimeError"}
  BatchLimit = 1
  NULL = NULL
  p1 = p1
  p2 = p2
  Partitions = {p1}
  PartitionOf <- OnePartition
  Malformed = Malformed
  DlqExists = TRUE
  MaxCrashes = 1
  MaxRestarts = 1
  MaxExpulsions = 0
  MaxRebalances = 0
  MaxStalls = 1
  MaxDbErrors = 0
  MaxSendErrors = 1
  MaxDockerErrors = 0
  MaxPanics = 0
  MaxForeign = 0
CHECK_DEADLOCK FALSE
PROPERTIES SentIsDecided OwedIsPublished
