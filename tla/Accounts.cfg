CONSTANTS
  Device = {d1, d2}
  Name = {g1}
  Id = {i1, i2}
  Code = {c1}
  Slot = {s1, s2}
  Owner = owner
  Person = {p1}
  None = None
  MaxEdits = 1
  MaxAborts = 2
  HourlyLimit = 1
  DailyLimit = 1
  MaxPending = 1
  MaxCount = 2
  k0 = k0
  k1 = k1
  k2 = k2
  Key = {k0, k1, k2}
  FirstKey = k0
  NoKey = NoKey
  Confirmer = {k1, k2}
  Overlap = FALSE
  Starts = 2
  Confirms = 3
  Stores = 1
  MaxCalls <- MCMaxCalls
SPECIFICATION MCSpec
SYMMETRY Symmetry
CHECK_DEADLOCK FALSE
INVARIANTS
  TypesOK
  ConfigIsTrue
  RemovedKeyNotLinked
  LinkRecordsWhole

  
  
  
  
