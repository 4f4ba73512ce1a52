\* Acyclic graphs in lexicographic order, one of them not dependency-respecting.
CONSTANTS
  a = a  b = b  c = c  d = d
  Locks = {a, b, c, d}
  Order <- Sorted
  Graphs <- FourLockGraphs
  ConcurrencyBound = 2
  Requested = {1, 2}
  Fixtures <- FourLockFixtures
  MaxAttempts = 2
  RetryableStatuses = {408, 429}
SPECIFICATION Spec
INVARIANTS OrderOnlyForEmission
