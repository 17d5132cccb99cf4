\* In units of 5 seconds: intervals of 10, a lease of 30, answers within 15.
SPECIFICATION TimingSpec
CONSTANTS
  Interval = 2
  ReapEvery = 2
  Lease = 6
  MaxDelay = 3
  MaxNow = 20
INVARIANTS LivingIsNotReaped DeadIsReapedInTime
CHECK_DEADLOCK FALSE
