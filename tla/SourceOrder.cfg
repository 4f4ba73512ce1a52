\* Every canonical order over three locks: Validate accepts one with a lock
\* missing.
CONSTANTS
  IDs = {1, 2, 3, 4}
  LockDenominator = 3
  Sources <- EveryOrder
SPECIFICATION Spec
INVARIANTS OrderHasEveryLock
