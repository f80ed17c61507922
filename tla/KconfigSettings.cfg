SPECIFICATION Spec
CONSTANTS
  Trees <- MCTrees
  Options <- SettingOptions
  Initial <- MCInitial
  Edits <- MCEdits
  Overlap = FALSE
  Torn = Torn
  MaxRuns = 2
  MaxEdits = 2
INVARIANTS TypeOK Recoverable ChoicesExclude SofHasItsTables FeaturesClosed DiagnosticsServed EnableOnlyKept TristatesKept Settles
PROPERTIES BackupFirst BackupsKept
CHECK_DEADLOCK FALSE
