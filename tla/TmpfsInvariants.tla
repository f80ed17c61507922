--------------------------- MODULE TmpfsInvariants --------------------------
(***************************************************************************)
(* The inductive invariants behind the theorems about TmpfsService.        *)
(***************************************************************************)
EXTENDS TmpfsRefinement

\* The configuration the safety theorem is about: rsync is installed, the
\* overlay is a tmpfs, DEBUG is off, daemons keep to the boot order, and the
\* external commands whose failure the script does not notice do not fail.
\* Everything else may: mounting, mirroring and copying back.
SafeConfig ==
  /\ "rsync" \in Tools /\ OverlayKind = "tmpfs" /\ BootOrder
  /\ DebugModes \subseteq {0} /\ "forceumount" \notin Commands
  /\ Faults \cap {"missing", "umount", "kill", "mktemp", "restore-commit"} = {}
  /\ TermRounds < Rounds

\* The directories a running copy reads and writes exist.
TreesExist ==
  /\ pc \in {"mirror", "mirroring"} => View # NoTree
  /\ pc = "mirroring" => ram # NoTree
  /\ pc = "restoring" => ram # NoTree

TypeInv == TypeOK /\ TreesExist

\* Which command a step belongs to, and where in the boot it may be run.
StepsOfCommands ==
  /\ op = "none" <=> pc = "idle"
  /\ pc \in {"fstab", "mirror", "mirroring", "bind", "hup"} => op = "start"
  /\ pc \in {"umount", "kill", "umount2", "sysrq"} => op = "stop"
  /\ pc = "bindtmp" => op = "commit"
  /\ pc \in {"restore", "restoring"} => op \in {"stop", "commit"}
  /\ pc # "putback"
  /\ op = "start" => phase = "boot" /\ rc = "stopped"
  /\ op = "stop" => phase = "down" /\ rc = "started"
  /\ phase = "boot" => \A w \in Writers : open[w] = "none"

\* The mount, the overlay under it and the files held open through it.
MountsMatch ==
  /\ depth \in {0, 1}
  /\ depth = 1 => overlay /\ ram # NoTree
  /\ \A w \in Writers : open[w] # IF depth = 1 THEN "disk" ELSE "ram"
  /\ op = "start" /\ pc \in {"mirror", "mirroring", "bind"} => overlay /\ depth = 0
  /\ op = "start" /\ pc = "conf" => overlay
  /\ pc \in {"umount", "kill", "umount2", "bindtmp"} => depth = 1
  /\ op = "stop" /\ pc \in {"restore", "restoring"} => depth = 0
  /\ op = "commit" /\ pc \in {"restore", "restoring", "svc"} => depth = 1
  /\ op = "commit" /\ pc = "return" /\ code = 0 => depth = 1
  /\ pc = "kill" /\ rounds > TermRounds => Holders = {}
  /\ pc = "umount2" => Holders = {}

\* Every file of S has in a what it has in b.
SameOn(S, a, b) == \A f \in S : a[f] = b[f]

\* Where the last update of every mirrored file is.
LatestIn ==
  /\ depth = 1 => SameOn(Mirrored, ram, latest)
  /\ depth = 0 =>
       \/ SameOn(Mirrored, disk, latest)
       \/ /\ rc = "started" /\ phase = "down" /\ ram # NoTree
          /\ SameOn(Mirrored, ram, latest)
          /\ \A w \in Writers : open[w] # "disk"
  /\ pc = "mirroring" => SameOn(Mirrored \ todo, ram, disk)
  /\ pc = "bind" => ram # NoTree /\ SameOn(Mirrored, ram, disk)
  /\ op = "stop" /\ pc \in {"restore", "restoring"} =>
       /\ ram # NoTree /\ SameOn(Mirrored, ram, latest)
       /\ \A w \in Writers : open[w] # "disk"
  /\ op = "stop" /\ pc = "restoring" => SameOn(Mirrored \ todo, disk, latest)
  /\ op = "stop" /\ pc \in {"svc", "return"} /\ code = 0 =>
       depth = 0 /\ SameOn(Mirrored, disk, latest)
  /\ pc = "sysrq" => code # 0

\* The order of the contents, and what a commit has saved so far.
Ordered ==
  /\ disk # NoTree
  /\ \A f \in Mirrored : latest[f] <= clock
  /\ \A f \in Mirrored :
       promised[f] <= disk[f] /\ disk[f] <= latest[f] /\ target[f] <= latest[f]
  /\ op = "commit" /\ pc = "restoring" =>
       \A f \in Mirrored \ todo : target[f] <= disk[f]
  /\ op = "commit" /\ (pc = "svc" \/ (pc = "return" /\ code = 0)) =>
       \A f \in Mirrored : target[f] <= disk[f]

\* While a write-back that may still succeed runs, no daemon writes to the
\* disk itself, so that its success can only extend the promise.
PromiseGrows ==
  /\ op \in {"stop", "commit"}
  /\ depth = 1 \/ ~(pc = "conf" \/ (pc = "return" /\ code # 0))
  => /\ \A w \in Writers : open[w] # "disk"
     /\ \A f \in Mirrored : promised[f] <= target[f]

SafetyInv ==
  TypeInv /\ StepsOfCommands /\ MountsMatch /\ LatestIn /\ Ordered /\ PromiseGrows

\* A start that is about to report success has bound the mirror over /MP.
Mounting ==
  op = "start" /\ (pc = "hup" \/ (pc \in {"svc", "return"} /\ code = 0)) => depth = 1

-----------------------------------------------------------------------------
(* Where there is no rsync *)

\* The configuration of the theorems about copies with cp: the overlay is a tmpfs,
\* daemons keep to the boot order, commit is not used, and there is a file to
\* copy.  Copying back may fail; mirroring, mounting and killing do not.  After
\* a crash no command is run.
CopyConfig ==
  /\ "rsync" \notin Tools /\ OverlayKind = "tmpfs" /\ BootOrder
  /\ "commit" \notin Commands /\ Files # {}
  /\ Faults \cap {"missing", "mirror", "bind", "umount", "kill"} = {}
  /\ TermRounds < Rounds /\ MaxReboots <= 1

\* Which command a step belongs to, and what is mounted at it.
CopySteps ==
  /\ op = "start" => phase = "boot"
  /\ op \in {"stop", "forceumount"} => phase = "down"
  /\ pc \in {"fstab", "mirror", "mirroring", "bind", "hup"} => op = "start"
  /\ pc \in {"umount", "kill", "umount2"} => op \in {"stop", "forceumount"} /\ depth = 1
  /\ pc \in {"restore", "restoring", "putback"} => op \in {"stop", "forceumount"} /\ depth = 0
  /\ pc # "bindtmp"
  /\ pc \in {"putback", "sysrq"} => code # 0
  /\ op = "start" /\ pc \in {"conf", "mirror", "mirroring", "bind"} => overlay
  /\ pc \in {"mirror", "mirroring", "bind"} => depth = 0
  /\ pc = "kill" /\ rounds > TermRounds => Holders = {}
  /\ pc = "umount2" => Holders = {}

\* The mount, the overlay under it and the files held open through it.
CopyMounts ==
  /\ depth \in {0, 1}
  /\ depth = 1 => overlay /\ ram # NoTree
  /\ ~overlay => ram = NoTree
  /\ \A w \in Writers : open[w] # IF depth = 1 THEN "disk" ELSE "ram"
  /\ phase = "boot" => \A w \in Writers : open[w] = "none"

\* Where the last update of every file is.
CopyLatest ==
  /\ depth = 1 => SameOn(Mirrored, ram, latest)
  /\ depth = 0 =>
       \/ pc \in {"mirroring", "bind"} /\ SameOn(Mirrored, disk, latest)
       \/ ram = NoTree /\ SameOn(Mirrored, disk, latest)
       \/ /\ phase = "down" /\ ram # NoTree /\ SameOn(Mirrored, ram, latest)
          /\ \A w \in Writers : open[w] = "none"
  /\ pc = "mirroring" => SameOn(Mirrored \ todo, ram, disk)
  /\ pc = "bind" => ram # NoTree /\ SameOn(Mirrored, ram, disk)
  /\ \A f \in Mirrored :
       latest[f] <= clock /\ target[f] <= latest[f] /\ promised[f] <= latest[f]

\* What a restore has put at its place, and what is beside it.
CopyTrees ==
  /\ pc \notin {"restoring", "putback"} => diskOld = NoTree /\ Keeps(disk, promised)
  /\ pc \in {"restoring", "putback"} => ram # NoTree /\ Keeps(diskOld, promised)
  /\ pc = "restoring" =>
       /\ todo # Files => disk # NoTree
       /\ SameOn(Mirrored \ todo, disk, ram)
  /\ op # "start" /\ pc \in {"svc", "return"} /\ code = 0 => Keeps(disk, target)

\* The invariant up to the first crash.
BeforeCrash == CopySteps /\ CopyMounts /\ CopyLatest /\ CopyTrees

CopyInv ==
  /\ TypeInv /\ (op = "none" <=> pc = "idle") /\ Recoverable
  /\ reboots # 0 => op = "none"
  /\ reboots = 0 => BeforeCrash

=============================================================================
