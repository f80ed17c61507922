SPECIFICATION Spec
CONSTANTS
  Trees <- MCTrees
  Options <- SettingOptions
  Initial <- MCInitial
  Edits <- MCEdits
  Overlap = FALSE
  Torn = Torn
  MaxRuns = 2
  MaxEdits = 1
INVARIANTS TristatesKeptAlways
CHECK_DEADLOCK FALSE
