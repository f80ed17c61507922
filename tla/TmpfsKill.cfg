SPECIFICATION FairSpec
CONSTANTS
  Files = {f1}
  Excluded = {}
  Writers = {w1, w2}
  NoTree = NoTree
  Commands = {"start", "stop", "forceumount", "commit"}
  Tools = {"lsof"}
  Faults = {"missing", "fstab", "mirror", "bind", "umount", "kill", "restore",
            "restore-commit", "mktemp", "bindtmp"}
  OverlayKind = "tmpfs"
  SvcModes = {FALSE, TRUE}
  DebugModes = {0}
  BootOrder = FALSE
  TermRounds = 2
  Rounds = 3
  MaxVersion = 2
  MaxReboots = 1
PROPERTY CommandsEnd
CHECK_DEADLOCK FALSE
