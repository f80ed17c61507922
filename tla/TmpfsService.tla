---------------------------- MODULE TmpfsService ----------------------------
(***************************************************************************)
(* The OpenRC service sys-apps/tmpfs/files/tmpfs.init: a directory /MP of  *)
(* a disk is mirrored to an overlay file system (a tmpfs, or an NFS        *)
(* mount) and the mirror is bind-mounted over /MP, so that daemons work in *)
(* memory; stop, forceumount and commit write the working set back.        *)
(*                                                                         *)
(* A file's content is the number of the last update it contains (the      *)
(* update may be a removal), 0 when the file never existed or was lost, so *)
(* "rolled back" is "<".  One command runs at a time (OpenRC holds the     *)
(* service's lock); daemons, signals, faults and reboots interleave with   *)
(* its steps.                                                              *)
(***************************************************************************)
EXTENDS Naturals

CONSTANTS
  Files,          \* the files below /MP
  Excluded,       \* the ones {service}_EXCLUDE keeps out of the mirror
  Writers,        \* daemons that open files below /MP
  NoTree,         \* a directory that does not exist
  Commands,       \* the service's commands an instance uses
  Tools,          \* which of the optional binaries are installed
  Faults,         \* which external commands may fail
  OverlayKind,    \* "tmpfs", mounted by the service, or "nfs", always there
  SvcModes,       \* whether conf.d sets both svcdir and svcmount
  DebugModes,     \* the values of DEBUG the administrator uses
  BootOrder,      \* TRUE: daemons start after the service, stop before it
  TermRounds,     \* rounds of SIGTERM in unbindtmpfs (5 in the code)
  Rounds,         \* rounds of SIGTERM and SIGKILL (5 + 3 in the code)
  MaxVersion,     \* bound: updates in a behaviour
  MaxReboots      \* bound: no command is run after this many reboots

Tree == [Files -> Nat]
EmptyTree == [f \in Files |-> 0]

ASSUME TmpfsAssumption ==
  /\ Excluded \subseteq Files
  /\ NoTree \notin Tree
  /\ Commands \subseteq {"start", "stop", "forceumount", "commit"}
  /\ Tools \subseteq {"rsync", "lsof"}
  /\ OverlayKind \in {"tmpfs", "nfs"}
  /\ SvcModes \subseteq BOOLEAN /\ BootOrder \in BOOLEAN
  /\ DebugModes \subseteq Nat
  /\ TermRounds \in Nat /\ Rounds \in Nat /\ TermRounds <= Rounds
  /\ MaxVersion \in Nat \ {0} /\ MaxReboots \in Nat

VARIABLES
  disk,      \* /MP on the underlying file system
  diskOld,   \* /MP.old beside it
  ram,       \* OVERLAY_ROOT/MP
  overlay,   \* the overlay file system is mounted
  depth,     \* bind mounts stacked on /MP
  rc,        \* what OpenRC believes of the service
  phase,     \* "boot", "up" (daemons run), "down"
  debug,     \* DEBUG in conf.d
  svc,       \* svcdir and svcmount are set in conf.d
  open,      \* open[w]: where the file that daemon w holds open lives
  op,        \* the command being run, or "none"
  pc,        \* its next step
  code,      \* the shell variable that becomes its exit status
  moved,     \* movesvcdir = 0: movesvcmount save returned 0
  todo,      \* files the running copy has not reached yet
  rounds,    \* signal rounds done
  clock,     \* number of the last update
  latest,    \* history: the last update of each file
  target,    \* history: latest, as it was when the command began
  promised,  \* history: the update of each file the disk must not lose
  reboots

trees == <<disk, diskOld, ram>>
mounts == <<overlay, depth>>
status == <<code, moved>>
cursor == <<todo, rounds>>
history == <<clock, latest, target, promised>>
conf == <<debug, svc>>
outside == <<rc, phase, conf, reboots>>
vars == <<trees, mounts, op, pc, status, cursor, history, outside, open>>

Fault(x) == x \in Faults
Rsync == "rsync" \in Tools

\* What a path below /MP resolves to.
Where == IF depth > 0 THEN "ram" ELSE "disk"
View == IF depth > 0 THEN ram ELSE disk

\* mount | grep -Eq " on /${MP} type (none|tmpfs) "
Mounted == depth > 0 /\ OverlayKind = "tmpfs"

\* Daemons with a file open on the file system mounted at /MP: lsof -Xt /MP
Holders == {w \in Writers : open[w] = "ram"}

Init ==
  /\ \/ disk = [f \in Files |-> 1]
     \/ disk = NoTree /\ Fault("missing")
  /\ diskOld = NoTree /\ ram = NoTree
  /\ overlay = (OverlayKind = "nfs") /\ depth = 0
  /\ rc = "stopped" /\ phase = "boot" /\ debug \in DebugModes /\ svc \in SvcModes
  /\ open = [w \in Writers |-> "none"]
  /\ op = "none" /\ pc = "idle" /\ code = 0 /\ moved = FALSE
  /\ todo = {} /\ rounds = 0
  /\ clock = 1 /\ reboots = 0
  /\ latest = IF disk = NoTree THEN EmptyTree ELSE disk
  /\ target = latest /\ promised = latest

-----------------------------------------------------------------------------
(* OpenRC: which command may run, and what its exit status makes of rc.    *)

InOrder(c) ==
  \/ ~BootOrder
  \/ c = "start" /\ phase = "boot"
  \/ c \in {"stop", "forceumount"} /\ phase = "down"
  \/ c = "commit" /\ phase # "boot"

Begin(c) ==
  /\ op = "none" /\ reboots < MaxReboots
  /\ InOrder(c)
  /\ c = "start" => rc = "stopped"
  /\ c = "stop" => rc = "started"
  /\ op' = c /\ code' = 1 /\ moved' = FALSE /\ target' = latest
  /\ pc' = IF c = "start" THEN "fstab" ELSE "conf"
  /\ UNCHANGED <<trees, mounts, cursor, clock, latest, promised, outside, open>>

At(label) == op # "none" /\ pc = label
Goto(label) == pc' = label /\ UNCHANGED op
Exit(s) == code' = s /\ UNCHANGED moved /\ Goto("return")

\* A successful write-back is a promise that the updates made before the
\* command began survive a reboot.
Return ==
  /\ At("return")
  /\ op' = "none" /\ pc' = "idle"
  /\ rc' = CASE op = "start" -> IF code = 0 THEN "started" ELSE "stopped"
             [] op = "stop" /\ code = 0 -> "stopped"
             [] OTHER -> rc
  /\ promised' = IF op # "start" /\ code = 0 THEN target ELSE promised
  /\ UNCHANGED <<trees, mounts, status, cursor, clock, latest, target,
                 phase, conf, reboots, open>>

-----------------------------------------------------------------------------
(* start()                                                                 *)

\* Mount the overlay named by {service}_FSTAB unless it is there already.
Fstab ==
  /\ At("fstab")
  /\ \/ overlay /\ Goto("conf") /\ UNCHANGED <<status, overlay, ram>>
     \/ /\ ~overlay /\ overlay' = TRUE /\ ram' = NoTree
        /\ code' = 0 /\ UNCHANGED moved /\ Goto("conf")
     \/ ~overlay /\ Fault("fstab") /\ Exit(1) /\ UNCHANGED <<overlay, ram>>
  /\ UNCHANGED <<disk, diskOld, depth, cursor, history, outside, open>>

\* movesvcmount save returns 0 when svcdir and svcmount are set, but prints
\* no directory: its test for moving the mount is never met.
SaveSvc == moved' = svc /\ UNCHANGED code

\* getconf and the check of the mount table, at the head of every command.
\* When getconf fails the status returned is that of "! getconf": 0.
Conf ==
  /\ At("conf")
  /\ \/ View = NoTree /\ Exit(0)
     \/ /\ View # NoTree /\ op = "start"
        /\ IF Mounted THEN Exit(1) ELSE SaveSvc /\ Goto("mirror")
     \/ /\ View # NoTree /\ op = "stop"
        /\ IF Mounted THEN SaveSvc /\ Goto("umount") ELSE Exit(1)
     \/ /\ View # NoTree /\ op = "commit"
        /\ IF Mounted THEN UNCHANGED status /\ Goto("bindtmp") ELSE Exit(1)
     \/ /\ View # NoTree /\ op = "forceumount"
        /\ IF Mounted THEN SaveSvc /\ Goto("umount")
           ELSE code' = 0 /\ UNCHANGED moved /\ Goto("restore")
  /\ UNCHANGED <<trees, mounts, cursor, history, outside, open>>

\* Mutant of Mirror: rsync is always given -n.
MirrorDryRun ==
  /\ At("mirror") /\ Goto("mirroring")
  /\ ram' = IF Rsync /\ ram # NoTree THEN ram ELSE EmptyTree
  /\ todo' = {}
  /\ UNCHANGED <<disk, diskOld, mounts, status, rounds, history, outside, open>>

\* rsync --delete copies into the mirror that is there, nothing when DEBUG
\* makes it a dry run; cp moves the old mirror away and fills a new one.  The
\* parent of MP on the overlay, which cp does not make, is there.
Mirror ==
  /\ At("mirror") /\ Goto("mirroring")
  /\ ram' = IF Rsync /\ ram # NoTree THEN ram ELSE EmptyTree
  /\ todo' = CASE Rsync /\ debug >= 1 -> {}
               [] Rsync /\ debug = 0 -> Files \ Excluded
               [] OTHER -> Files
  /\ UNCHANGED <<disk, diskOld, mounts, status, rounds, history, outside, open>>

MirrorFile(f) ==
  /\ At("mirroring") /\ f \in todo
  /\ ram' = [ram EXCEPT ![f] = View[f]]
  /\ todo' = todo \ {f}
  /\ UNCHANGED <<disk, diskOld, mounts, op, pc, status, rounds, history,
                 outside, open>>

\* Mutants of MirrorEnd: the bind mount no longer depends on the copy's
\* status; the test of the status is inverted.
MirrorEndUnchecked ==
  /\ At("mirroring") /\ Goto("bind")
  /\ \/ todo = {} /\ code' = 0
     \/ Fault("mirror") /\ code' = 1
  /\ todo' = {}
  /\ UNCHANGED <<trees, mounts, moved, rounds, history, outside, open>>
MirrorEndInverted ==
  /\ At("mirroring")
  /\ \/ todo = {} /\ code' = 0 /\ Goto("svc")
     \/ Fault("mirror") /\ code' = 1 /\ Goto("bind")
  /\ todo' = {}
  /\ UNCHANGED <<trees, mounts, moved, rounds, history, outside, open>>

\* The copy's status.  After cp the excluded files are removed again.
MirrorEnd ==
  /\ At("mirroring")
  /\ \/ todo = {} /\ code' = 0 /\ Goto("bind")
     \/ Fault("mirror") /\ code' = 1 /\ Goto("svc")
  /\ ram' = IF Rsync THEN ram
            ELSE [f \in Files |-> IF f \in Excluded THEN 0 ELSE ram[f]]
  /\ todo' = {}
  /\ UNCHANGED <<disk, diskOld, mounts, moved, rounds, history, outside, open>>

\* mount --rbind OVERLAY_ROOT/MP /MP
Bind ==
  /\ At("bind") /\ Goto("svc")
  /\ \/ depth' = depth + 1 /\ code' = 0
     \/ Fault("bind") /\ code' = 1 /\ UNCHANGED depth
  /\ UNCHANGED <<trees, overlay, moved, cursor, history, outside, open>>

\* The HUP sent to the processes lsof lists under the new mount: each may
\* close its file.
Hangup ==
  /\ At("hup") /\ Goto("return")
  /\ \E S \in SUBSET Holders :
        open' = [w \in Writers |-> IF w \in S THEN "none" ELSE open[w]]
  /\ UNCHANGED <<trees, mounts, status, cursor, history, outside>>

-----------------------------------------------------------------------------
(* unbindtmpfs()                                                           *)

\* Mutant of CanUmount: umount -l, which detaches a mount that is in use.
CanUmountLazily == depth > 0

CanUmount == depth > 0 /\ Holders = {}

\* The first umount -f; when the mount table still shows /MP, lsof decides
\* whether there is anything to kill.
Umount ==
  /\ At("umount")
  /\ \/ CanUmount /\ depth' = depth - 1
     \/ (~CanUmount \/ Fault("umount")) /\ UNCHANGED depth
  /\ \/ ~Mounted' /\ code' = 0 /\ Goto("restore") /\ UNCHANGED cursor
     \/ /\ Mounted' /\ "lsof" \notin Tools
        /\ code' = 1 /\ Goto("svc") /\ UNCHANGED cursor
     \/ /\ Mounted' /\ "lsof" \in Tools
        /\ rounds' = 0 /\ Goto("kill") /\ UNCHANGED <<code, todo>>
  /\ UNCHANGED <<trees, overlay, moved, history, outside, open>>

\* Mutants of KillRound: a loop without its bound; a count never taken.
KillRoundUnbounded ==
  /\ At("kill") /\ Holders # {}
  /\ \E S \in SUBSET Holders :
        open' = [w \in Writers |-> IF w \in S THEN "none" ELSE open[w]]
  /\ rounds' = rounds + 1
  /\ UNCHANGED <<trees, mounts, op, pc, status, todo, history, outside>>
KillRoundUncounted ==
  /\ At("kill") /\ Holders # {} /\ rounds < Rounds
  /\ \E S \in SUBSET Holders :
        open' = [w \in Writers |-> IF w \in S THEN "none" ELSE open[w]]
  /\ UNCHANGED <<trees, mounts, op, pc, status, cursor, history, outside>>

\* A round of signals.  TERM may be ignored; KILL is not, unless a process
\* is stuck in the kernel.
KillRound ==
  /\ At("kill") /\ Holders # {} /\ rounds < Rounds
  /\ \E S \in SUBSET Holders :
        /\ rounds >= TermRounds /\ ~Fault("kill") => S = Holders
        /\ open' = [w \in Writers |-> IF w \in S THEN "none" ELSE open[w]]
  /\ rounds' = rounds + 1
  /\ UNCHANGED <<trees, mounts, op, pc, status, todo, history, outside>>

\* Nobody is left, or the rounds are used up: the TERM loop hands over to
\* the KILL loop, and that one to the second umount.
KillEnd ==
  /\ At("kill") /\ (Holders = {} \/ rounds = Rounds)
  /\ IF rounds < TermRounds
       THEN rounds' = TermRounds /\ UNCHANGED <<op, pc>>
       ELSE UNCHANGED rounds /\ Goto("umount2")
  /\ UNCHANGED <<trees, mounts, status, todo, history, outside, open>>

\* The second umount -f.  When it fails the status kept is that of
\* "! umount": 0.
UmountAgain ==
  /\ At("umount2")
  /\ \/ /\ CanUmount /\ depth' = depth - 1
        /\ code' = IF Mounted' THEN 1 ELSE 0
     \/ (~CanUmount \/ Fault("umount")) /\ code' = 0 /\ UNCHANGED depth
  /\ Goto(IF code' = 0 THEN "restore" ELSE "svc")
  /\ UNCHANGED <<trees, overlay, moved, cursor, history, outside, open>>

-----------------------------------------------------------------------------
(* restoredata(): the mirror is copied to /MP, or by commit to a bind      *)
(* mount of the file system below it.                                      *)

\* Where the copy lands.  Writing to a /MP that is still mounted writes the
\* mirror over itself.  Without rsync the destination is first moved to
\* .old, which the kernel refuses (EBUSY) for the mount point that commit
\* uncovers: the copy then lands in a directory inside the destination.
Landing ==
  CASE op # "commit" /\ depth > 0 -> "mirror"
    [] op = "commit" /\ depth > 0 /\ ~Rsync -> "nested"
    [] OTHER -> "disk"

\* Mutant of Restore: the destination is removed instead of moved to .old.
RestoreRemoving ==
  /\ At("restore")
  /\ \/ /\ ram = NoTree
        /\ code' = 1 /\ Goto("svc") /\ UNCHANGED <<todo, disk>>
     \/ /\ ram # NoTree
        /\ disk' = NoTree
        /\ todo' = Files /\ Goto("restoring") /\ UNCHANGED code
  /\ UNCHANGED <<diskOld, ram, mounts, moved, rounds, history, outside, open>>

Restore ==
  /\ At("restore")
  /\ \/ /\ ram = NoTree
        /\ code' = 1 /\ Goto("svc") /\ UNCHANGED <<todo, disk, diskOld>>
     \/ /\ ram # NoTree /\ Rsync
        /\ todo' = IF debug >= 1 \/ Landing = "mirror" THEN {} ELSE Files
        /\ Goto("restoring") /\ UNCHANGED <<code, disk, diskOld>>
     \/ /\ ram # NoTree /\ ~Rsync /\ Landing = "disk"
        /\ disk' = NoTree
        /\ diskOld' = IF diskOld = NoTree THEN disk ELSE diskOld
        /\ todo' = Files /\ Goto("restoring") /\ UNCHANGED code
     \/ /\ ram # NoTree /\ ~Rsync /\ Landing # "disk"
        /\ todo' = {} /\ Goto("restoring") /\ UNCHANGED <<code, disk, diskOld>>
  /\ UNCHANGED <<ram, mounts, moved, rounds, history, outside, open>>

RestoreFile(f) ==
  /\ At("restoring") /\ f \in todo
  /\ disk' = [(IF disk = NoTree THEN EmptyTree ELSE disk) EXCEPT ![f] = ram[f]]
  /\ todo' = todo \ {f}
  /\ UNCHANGED <<diskOld, ram, mounts, op, pc, status, rounds, history,
                 outside, open>>

\* cp refuses to copy a directory into itself.
IntoItself == ~Rsync /\ Landing = "mirror"
CopyFault == IF op = "commit" THEN Fault("restore-commit") ELSE Fault("restore")

\* Mutant of RestoreEnd: "if ! rsync ...; then code=${?}", as elsewhere.
RestoreEndMasked ==
  /\ At("restoring") /\ (todo = {} \/ CopyFault)
  /\ code' = 0 /\ todo' = {} /\ Goto("svc")
  /\ UNCHANGED <<trees, mounts, moved, rounds, history, outside, open>>

\* The copy's status, and after cp the clean-up: on success .old goes; on
\* failure the destination does (its content, when it is a mount point) and
\* .old is moved back in a second step, into a destination that is left.
RestoreEnd ==
  /\ At("restoring")
  /\ \/ /\ todo = {} /\ ~IntoItself /\ code' = 0 /\ Goto("svc")
        /\ diskOld' = IF Rsync THEN diskOld ELSE NoTree
        /\ UNCHANGED <<disk, ram>>
     \/ /\ Rsync /\ CopyFault /\ code' = 1 /\ Goto("svc")
        /\ UNCHANGED trees
     \/ /\ ~Rsync /\ (CopyFault \/ IntoItself) /\ code' = 1
        /\ Goto(IF Landing = "disk" THEN "putback" ELSE "svc")
        /\ disk' = CASE Landing = "disk" -> NoTree
                     [] Landing = "nested" -> EmptyTree
                     [] OTHER -> disk
        /\ ram' = IF Landing = "mirror" THEN EmptyTree ELSE ram
        /\ diskOld' = IF Landing = "disk" THEN diskOld ELSE NoTree
  /\ todo' = {}
  /\ UNCHANGED <<mounts, moved, rounds, history, outside, open>>

PutBack ==
  /\ At("putback") /\ Goto("svc")
  /\ disk' = diskOld /\ diskOld' = NoTree
  /\ UNCHANGED <<ram, mounts, status, cursor, history, outside, open>>

-----------------------------------------------------------------------------
(* commit(): the steps before restoredata.  mktemp's failure is masked as  *)
(* getconf's is; "bindtmp" is the bind mount failing, or not showing /MP.  *)

BindTmp ==
  /\ At("bindtmp")
  /\ \/ code' = 0 /\ UNCHANGED moved /\ Goto("restore")
     \/ Fault("mktemp") /\ Exit(0)
     \/ Fault("bindtmp") /\ Exit(1)
  /\ UNCHANGED <<trees, mounts, cursor, history, outside, open>>

-----------------------------------------------------------------------------
(* The end of every command.  With no directory saved, movesvcmount        *)
(* restore returns 255.  commit ignores restoredata's status.              *)

\* Mutant of Svc: every command ends like commit, with status 0.
SvcIgnoringStatus ==
  /\ At("svc") /\ Exit(0)
  /\ UNCHANGED <<trees, mounts, cursor, history, outside, open>>

Svc ==
  /\ At("svc")
  /\ \/ op = "commit" /\ Exit(0)
     \/ op = "forceumount" /\ Exit(IF moved THEN 255 ELSE code)
     \/ /\ op = "start" /\ UNCHANGED moved
        /\ code' = IF moved THEN 255 ELSE code
        /\ Goto(IF code' = 0 THEN "hup" ELSE "return")
     \/ /\ op = "stop" /\ UNCHANGED moved
        /\ code' = IF moved /\ code = 0 THEN 255 ELSE code
        /\ Goto(IF moved THEN "sysrq" ELSE "return")
  /\ UNCHANGED <<trees, mounts, cursor, history, outside, open>>

\* What is left after the machine restarts.
RebootEffect ==
  /\ depth' = 0 /\ overlay' = (OverlayKind = "nfs")
  /\ ram' = IF OverlayKind = "nfs" THEN ram ELSE NoTree
  /\ open' = [w \in Writers |-> "none"]
  /\ rc' = "stopped" /\ phase' = "boot"
  /\ op' = "none" /\ pc' = "idle" /\ code' = 0 /\ moved' = FALSE
  /\ todo' = {} /\ rounds' = 0
  /\ latest' = IF disk = NoTree THEN promised ELSE disk
  /\ target' = latest'
  /\ reboots' = reboots + 1
  /\ UNCHANGED <<disk, diskOld, clock, promised, conf>>

\* stop() reboots through /proc/sysrq-trigger when it is writable.
SysRq ==
  /\ At("sysrq")
  /\ \/ RebootEffect
     \/ /\ Goto("return")
        /\ UNCHANGED <<trees, mounts, status, cursor, history, outside, open>>

-----------------------------------------------------------------------------
(* The machine around the service.                                         *)

\* A crash, a power failure or a reboot, at any step of any command.
Reboot == reboots < MaxReboots /\ RebootEffect

\* The boot sequence reaches the daemons, the shutdown sequence stops them.
ChangePhase ==
  /\ op = "none" \/ ~BootOrder
  /\ \/ phase = "boot" /\ phase' = "up"
     \/ phase = "up" /\ phase' = "down"
  /\ UNCHANGED <<trees, mounts, op, pc, status, cursor, history, rc, conf,
                 reboots, open>>

\* The administrator edits /etc/conf.d/tmpfs between two commands.
EditConf(d, s) ==
  /\ op = "none" /\ <<d, s>> # conf
  /\ debug' = d /\ svc' = s
  /\ UNCHANGED <<trees, mounts, op, pc, status, cursor, history, rc, phase,
                 reboots, open>>

\* A daemon opens a file through the path; once open, the file stays where
\* it was found.
Open(w) ==
  /\ open[w] = "none" /\ View # NoTree
  /\ phase = "up" \/ ~BootOrder
  /\ open' = [open EXCEPT ![w] = Where]
  /\ UNCHANGED <<trees, mounts, op, pc, status, cursor, history, outside>>

Close(w) ==
  /\ open[w] # "none"
  /\ open' = [open EXCEPT ![w] = "none"]
  /\ UNCHANGED <<trees, mounts, op, pc, status, cursor, history, outside>>

\* An update made on the disk itself is durable at once.
Write(w, f) ==
  /\ clock < MaxVersion
  /\ clock' = clock + 1
  /\ latest' = [latest EXCEPT ![f] = clock']
  /\ \/ /\ open[w] = "ram" /\ ram # NoTree
        /\ ram' = [ram EXCEPT ![f] = clock']
        /\ UNCHANGED <<disk, promised>>
     \/ /\ open[w] = "disk" /\ disk # NoTree
        /\ disk' = [disk EXCEPT ![f] = clock']
        /\ promised' = [promised EXCEPT ![f] = clock']
        /\ UNCHANGED ram
  /\ UNCHANGED <<diskOld, mounts, op, pc, status, cursor, target, outside, open>>

-----------------------------------------------------------------------------
Step ==
  \/ Fstab \/ Conf \/ Mirror \/ MirrorEnd \/ Bind \/ Hangup
  \/ Umount \/ KillRound \/ KillEnd \/ UmountAgain
  \/ Restore \/ RestoreEnd \/ PutBack \/ BindTmp \/ Svc \/ SysRq \/ Return
  \/ \E f \in Files : MirrorFile(f) \/ RestoreFile(f)

Environment ==
  \/ Reboot \/ ChangePhase
  \/ \E d \in DebugModes, s \in SvcModes : EditConf(d, s)
  \/ \E w \in Writers : Open(w) \/ Close(w) \/ \E f \in Files : Write(w, f)

Next == Step \/ Environment \/ \E c \in Commands : Begin(c)

Spec == Init /\ [][Next]_vars

\* The shell runs on with the command it has begun.
FairSpec == Spec /\ WF_vars(Step)

-----------------------------------------------------------------------------
TypeOK ==
  /\ disk \in Tree \cup {NoTree} /\ diskOld \in Tree \cup {NoTree}
  /\ ram \in Tree \cup {NoTree}
  /\ overlay \in BOOLEAN /\ depth \in Nat
  /\ rc \in {"started", "stopped"} /\ phase \in {"boot", "up", "down"}
  /\ debug \in DebugModes /\ svc \in SvcModes
  /\ open \in [Writers -> {"none", "disk", "ram"}]
  /\ op \in Commands \cup {"none"}
  /\ pc \in {"idle", "fstab", "conf", "mirror", "mirroring", "bind", "hup",
             "umount", "kill", "umount2", "bindtmp", "restore", "restoring",
             "putback", "svc", "sysrq", "return"}
  /\ code \in {0, 1, 255} /\ moved \in BOOLEAN
  /\ todo \subseteq Files /\ rounds \in 0..Rounds
  /\ clock \in Nat /\ reboots \in Nat
  /\ latest \in Tree /\ target \in Tree /\ promised \in Tree

\* Pointwise order of trees: a keeps every update of b outside the excluded
\* files.
Keeps(a, b) == a # NoTree /\ \A f \in Files \ Excluded : b[f] <= a[f]

\* The disk alone holds, at every step of every command and after every
\* reboot, each update it was promised to hold: by a stop, commit or
\* forceumount that reported success, or by having been written to it.
NoRollback == Keeps(disk, promised)

\* Between commands the daemons' path leads to the last update of every
\* mirrored file, unless a stop unmounted the mirror and failed to copy it
\* back: then OpenRC still says started and the mirror has every update.
NothingHidden ==
  op = "none" => \/ Keeps(View, latest)
                 \/ rc = "started" /\ depth = 0 /\ Keeps(ram, latest)

\* A write-back that reports success has left no mirrored file on the disk
\* older than it was when the command began.
SuccessSaves ==
  At("return") /\ op # "start" /\ code = 0 => Keeps(disk, target)

\* Where there is no rsync the tree is moved to .old and copied again: at
\* every step, and after a crash at any step, each mirrored file is found,
\* no older than promised, at its place or in the .old beside it.
Recoverable ==
  \A f \in Files \ Excluded : \E tree \in {disk, diskOld} :
    tree # NoTree /\ promised[f] <= tree[f]

\* OpenRC is told that the service has started only when the daemons' path
\* leads to the mirror.
StartedMeansMounted == At("return") /\ op = "start" /\ code = 0 => depth > 0

\* No step of a commit, nor a daemon's update beside it, takes a mirrored file
\* on the disk back to an older content.
CommitLosesNothing ==
  [][op = "commit" => Keeps(disk', disk)]_vars

\* A command that has begun ends, even when daemons are started again as
\* fast as unbindtmpfs kills them.
CommandsEnd == op # "none" ~> op = "none"

=============================================================================
