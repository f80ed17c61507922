SPECIFICATION StoresSpec
CONSTANTS
  Files = {f1, f2}
  Excluded = {f2}
  Writers = {w1}
  NoTree = NoTree
  Commands = {"start", "stop", "commit"}
  Tools = {"rsync", "lsof"}
  Faults = {"fstab", "mirror", "bind", "bindtmp", "restore"}
  OverlayKind = "tmpfs"
  SvcModes = {FALSE}
  DebugModes = {0}
  BootOrder = TRUE
  TermRounds = 1
  Rounds = 2
  MaxVersion = 4
  MaxReboots = 2
INVARIANTS TypeOK NoRollback NothingHidden StartedMeansMounted CopyRecoverable CopySuccessSaves
PROPERTIES CommitLosesNothing ImplementsStore
CHECK_DEADLOCK FALSE
