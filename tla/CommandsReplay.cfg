\* A replay whose two runs differ.
CONSTANTS
  LockCount = 2
  Invocations <- EveryInvocation
  CasesPerStatus = 1
  MaxAttempts = 2
  RetryableStatuses = {408, 429}
SPECIFICATION Spec
INVARIANTS RaceIsRefuted
