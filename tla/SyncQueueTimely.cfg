CONSTANTS
  Process = {p1, p2}
  Blob = {b1, b2}
  MaxRow = 3
  MaxRetries = 2
  RetryCap = 3
  Backoff <- MCBackoff
  BatchSize = 2
  BatchBudget = 2
  StaleAfter = 2
  MaxCrashes = 1
  MaxRefusals = 1
SPECIFICATION Spec
SYMMETRY Symmetry
INVARIANTS TypeOK ClaimExclusive ClaimCurrent
PROPERTIES  ImplementsOutbox
