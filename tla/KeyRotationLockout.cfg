CONSTANTS
  k0 = k0
  k1 = k1
  k2 = k2
  Key = {k0, k1, k2}
  FirstKey = k0
  NoKey = NoKey
  Confirmer = {k1, k2}
  Slot = {h1}
  Overlap = FALSE
  Starts = 1
  Confirms = 1
  Stores = 0
  MaxCalls <- MCMaxCalls
  MaxAborts = 0
SPECIFICATION Spec
INVARIANT SomeKeyAccepted
CHECK_DEADLOCK FALSE
