CONSTANTS
  Process = {p1, p2}
  Blob = {b1}
  MaxRow = 2
  MaxRetries = 2
  RetryCap = 3
  Backoff <- MCBackoff
  BatchSize = 2
  BatchBudget = 2
  StaleAfter = 1
  MaxCrashes = 1
  MaxRefusals = 1
SPECIFICATION FairSpec
INVARIANTS NothingForgotten GivenUpAfterMaxRetries
 
