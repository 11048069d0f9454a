CONSTANTS
  Proc = {p1, p2}
  None = None
  Torn = Torn
  Machines <- Usable
  MaxRetries = 2
  StaleAfter = 2
  MaxMasters = 3
  MaxFaults = 1
  MaxCommands = 1
  AtOnce = 1
  Caller = {c1, c2}
  Other = {x}
  MaxEdits = 1
  MaxRuns = 2
  MaxDeaths = 1
  Name = {n1, n2}
  One = {n1}
  Base = {b1}
  Db = {1, 2}
  MaxSources = 1
  MaxOrders = 2
  MaxOfOne = 4
  MaxSigned = 1
  MaxChanges = 1
SPECIFICATION MCSpec
CHECK_DEADLOCK FALSE
INVARIANTS
  TypesOK
  OneMaster
  MasterSurvives
  
  EntriesKept
  ProjectsAgree
  SignedIsAccepted
PROPERTIES
  StartupConfigures
