SPECIFICATION Spec
CONSTANTS
  Files = {f1}
  Excluded = {}
  Writers = {w1}
  NoTree = NoTree
  Commands = {"start", "stop", "commit"}
  Tools = {"rsync", "lsof"}
  Faults = {}
  OverlayKind = "tmpfs"
  SvcModes = {FALSE}
  DebugModes = {0, 1}
  BootOrder = TRUE
  TermRounds = 1
  Rounds = 2
  MaxVersion = 2
  MaxReboots = 1
INVARIANT NoRollback
CHECK_DEADLOCK FALSE
