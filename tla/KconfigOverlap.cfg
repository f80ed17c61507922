SPECIFICATION Spec
CONSTANTS
  Trees <- MCTrees
  Options <- SettingOptions
  Initial <- MCInitial
  Edits <- MCEdits
  Overlap = TRUE
  Torn = Torn
  MaxRuns = 3
  MaxEdits = 2
PROPERTIES BackupFirst
CHECK_DEADLOCK FALSE
