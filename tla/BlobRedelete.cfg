CONSTANTS
  b1 = b1
  b2 = b2
  Blob = {b1}
  Size <- MCSize
  Quota = 2
  Slot = {h1}
  Puts = 1
  Deletes = 2
  Restores = 0
  Once = 2
  Limit <- MCLimit
  MaxAborts = 0
  MaxMonths = 0
SPECIFICATION MCSpec
SYMMETRY Symmetry
INVARIANTS AccountAgrees
CHECK_DEADLOCK FALSE
