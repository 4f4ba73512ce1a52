\* Every check over one graph: Validate accepts a guardrail that declares runtime
\* authority.
CONSTANTS
  IDs = {1, 2, 3, 4}
  LockDenominator = 3
  Sources <- EveryCheck
SPECIFICATION Spec
INVARIANTS AuthorityIsZero
