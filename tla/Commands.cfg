\* Two locks of every kind, racing the deadline or not, two attempts.
CONSTANTS
  LockCount = 2
  Invocations <- EveryInvocation
  CasesPerStatus = 1
  MaxAttempts = 2
  RetryableStatuses = {408, 429}
SPECIFICATION Spec
INVARIANTS TypeOK PairVerdictExact CounterexampleShown TimingCannotRefute VerdictPrecedence ClosedReport
