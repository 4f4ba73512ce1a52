\* Three goroutines that begin and end requests for ever.
CONSTANTS
  t1 = t1  t2 = t2  t3 = t3
  Threads = {t1, t2, t3}
SPECIFICATION Spec
INVARIANTS TypeOK PeakExact
PROPERTIES PeakMonotone BeginReturns
