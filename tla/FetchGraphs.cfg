\* Four locks under three dependency graphs, two slots, every interleaving of
\* both modes.
CONSTANTS
  a = a  b = b  c = c  d = d
  Locks = {a, b, c, d}
  Order <- Sorted
  Graphs <- FourLockGraphs
  ConcurrencyBound = 2
  Requested = {0, 1, 2, 3}
  Fixtures <- FourLockFixtures
  MaxAttempts = 2
  RetryableStatuses = {408, 429}
SPECIFICATION Spec
INVARIANTS TypeOK InFlightBounded DependenciesFirst AllOrNothing MetricsAccount
PROPERTIES ImplementsLedger Termination
