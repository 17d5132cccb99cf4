\* Docker and the disk through a crash and a restart: a docker error, a panic.
SPECIFICATION SandboxSpec
CONSTANTS
  Jobs = {j1}
  Workers = {w1, w2}
  Tokens = {t1, t2, t3}
  Verdicts = {"Success", "CompileError", "RuntimeError", "TimeLimitExceeded", "MemoryLimitExceeded"}
  BatchLimit = 1
  NULL = NULL
  p1 = p1
  p2 = p2
  Partitions = {p1, p2}
  PartitionOf <- OnePartition
  Malformed = Malformed
  DlqExists = TRUE
  Runs = {x1, x2, x3}
  Programs <- Various
  MaxCrashes = 1
  MaxRestarts = 1
  MaxExpulsions = 0
  MaxRebalances = 0
  MaxStalls = 0
  MaxDbErrors = 0
  MaxSendErrors = 0
  MaxDockerErrors = 1
  MaxPanics = 1
  MaxForeign = 0
SYMMETRY Symmetric
CHECK_DEADLOCK FALSE
INVARIANTS SandboxTypeOK OneExecution NotLost VerdictIsTrue LeaksAreFaults
PROPERTIES LivingAreSpared RowIsItsHandlers
