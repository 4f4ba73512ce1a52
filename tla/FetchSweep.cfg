\* One lock, every profile, three attempts.
CONSTANTS
  a = a  b = b  c = c  d = d
  Locks = {a}
  Order <- Alone
  Graphs <- NoDependencies
  ConcurrencyBound = 1
  Requested = {1}
  Fixtures <- EveryFixture
  MaxAttempts = 3
  RetryableStatuses = {408, 429, 500}
SPECIFICATION Spec
INVARIANTS EvidenceDetermined VerdictSound
PROPERTIES ImplementsLedger
