SPECIFICATION Spec
CONSTANTS
  Inputs <- MCInputs
  Bases <- MCBases
  MaxRevision = 3
  MaxRuns = 3
INVARIANTS TypeOK RefsFollow ItsRefFresh Tiles WrittenAsAsked OneResult Settles ServesFirmware
CHECK_DEADLOCK FALSE
