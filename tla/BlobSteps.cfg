CONSTANTS
  b1 = b1
  b2 = b2
  Blob = {b1, b2}
  Size <- MCSize
  Quota = 2
  Slot = {h1, h2, h3}
  Puts = 3
  Deletes = 2
  Restores = 1
  Once = 1
  Limit <- MCLimit
  MaxAborts = 1
  MaxMonths = 2
SPECIFICATION MCSpec
SYMMETRY Symmetry
INVARIANTS TypeOK AccountBalances
PROPERTIES OnlyRestoreRevives KeptForThirtyDays
CHECK_DEADLOCK FALSE
