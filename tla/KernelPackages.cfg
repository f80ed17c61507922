SPECIFICATION PartsSpec
CONSTANTS
  Paths <- MCPaths
  Private <- MCPrivate
  Absent = Absent
  Rows <- MCRows
  SeedOf <- MCSeedOf
  Tree <- MCTree
  Defects = {"no libc", "other libc", "extra"}
  None = None
  MaxIncidents = 2
  MaxRetries = 1
  MaxAttempts = 4
INVARIANTS TypeOK SelectionsAgree AssembledWhole ReleaseWhole CleanupSafe
PROPERTY Published
CHECK_DEADLOCK FALSE
