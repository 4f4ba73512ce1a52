\* Three locks: every graph, every order, every check.
CONSTANTS
  IDs = {1, 2, 3, 4}
  LockDenominator = 3
  Sources <- EverySource
SPECIFICATION Spec
INVARIANTS TypeOK AcceptedIsAcyclic CycleIsReal GraphBooks
PROPERTIES ValidateReturns
