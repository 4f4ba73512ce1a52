\* Two runs of three locks on one server, two attempts.
CONSTANTS
  LockCount = 3
  ConcurrencyBound = 2
  Fixtures <- ThreeLocks
  Timeout = 3
  Grace = 4
  Backoff = 1
  Slack = 1
  MaxAttempts = 2
  RetryableStatuses = {408, 429}
SPECIFICATION Spec
INVARIANTS TypeOK HandlersBounded RunsAgree
PROPERTIES ImplementsLedgers PairReturns
