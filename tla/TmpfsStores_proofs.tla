------------------------- MODULE TmpfsStores_proofs -------------------------
(***************************************************************************)
(* What the theorems about copies with cp say of the second machine of     *)
(* MCTmpfsStores, for every set of files and daemons.                      *)
(***************************************************************************)
EXTENDS MCTmpfsStores, TLAPS

CopyOf == INSTANCE TmpfsService_proofs WITH
  Excluded <- {}, Commands <- {"start", "stop", "forceumount"}, Tools <- {"lsof"},
  Faults <- {"fstab", "restore"}, SvcModes <- BOOLEAN, MaxVersion <- 3, MaxReboots <- 1,
  disk <- c_disk, diskOld <- c_diskOld, ram <- c_ram, overlay <- c_overlay,
  depth <- c_depth, rc <- c_rc, phase <- c_phase, debug <- c_debug, svc <- c_svc,
  open <- c_open, op <- c_op, pc <- c_pc, code <- c_code, moved <- c_moved,
  todo <- c_todo, rounds <- c_rounds, clock <- c_clock, latest <- c_latest,
  target <- c_target, promised <- c_promised, reboots <- c_reboots

\* The second machine keeps to the configuration of the theorems.
CopySettings ==
  /\ OverlayKind = "tmpfs" /\ BootOrder /\ Files # {} /\ TermRounds < Rounds

\* What TmpfsAssumption says of the second machine.
CopyAssumption ==
  /\ {} \subseteq Files
  /\ NoTree \notin CopyOf!Tree
  /\ {"start", "stop", "forceumount"} \subseteq {"start", "stop", "forceumount", "commit"}
  /\ {"lsof"} \subseteq {"rsync", "lsof"}
  /\ OverlayKind \in {"tmpfs", "nfs"}
  /\ BOOLEAN \subseteq BOOLEAN /\ BootOrder \in BOOLEAN
  /\ DebugModes \subseteq Nat
  /\ TermRounds \in Nat /\ Rounds \in Nat /\ TermRounds <= Rounds
  /\ 3 \in Nat \ {0} /\ 1 \in Nat

LEMMA Settings ==
  ASSUME CopySettings
  PROVE  CopyOf!CopyConfig /\ CopyAssumption
<1>1. CopyOf!CopyConfig
  <2>1. {"fstab", "restore"} \cap {"missing", "mirror", "bind", "umount", "kill"} = {}
    OBVIOUS
  <2> QED BY <2>1 DEF CopySettings, CopyOf!CopyConfig
<1>2. CopyAssumption
  BY TmpfsAssumption DEF CopyAssumption, Tree, CopyOf!Tree
<1> QED BY <1>1, <1>2

\* The second machine is the service of the theorems.
LEMMA SameInit == Copy!Init <=> CopyOf!Init
BY DEF Copy!Init, CopyOf!Init, Copy!Fault, CopyOf!Fault, Copy!EmptyTree, CopyOf!EmptyTree

LEMMA SameNext == Copy!Next <=> CopyOf!Next
BY DEF Copy!Fstab, CopyOf!Fstab, Copy!Conf, CopyOf!Conf, Copy!Mirror, CopyOf!Mirror,
   Copy!MirrorEnd, CopyOf!MirrorEnd, Copy!Bind, CopyOf!Bind, Copy!Hangup, CopyOf!Hangup,
   Copy!Umount, CopyOf!Umount, Copy!KillRound, CopyOf!KillRound, Copy!KillEnd, CopyOf!KillEnd,
   Copy!UmountAgain, CopyOf!UmountAgain, Copy!Restore, CopyOf!Restore, Copy!RestoreEnd,
   CopyOf!RestoreEnd, Copy!PutBack, CopyOf!PutBack, Copy!BindTmp, CopyOf!BindTmp, Copy!Svc,
   CopyOf!Svc, Copy!SysRq, CopyOf!SysRq, Copy!Return, CopyOf!Return, Copy!MirrorFile,
   CopyOf!MirrorFile, Copy!RestoreFile, CopyOf!RestoreFile, Copy!Reboot, CopyOf!Reboot,
   Copy!ChangePhase, CopyOf!ChangePhase, Copy!EditConf, CopyOf!EditConf, Copy!Open, CopyOf!Open,
   Copy!Close, CopyOf!Close, Copy!Write, CopyOf!Write, Copy!Begin, CopyOf!Begin, Copy!EmptyTree,
   CopyOf!EmptyTree, Copy!Fault, CopyOf!Fault, Copy!Rsync, CopyOf!Rsync, Copy!Where,
   CopyOf!Where, Copy!View, CopyOf!View, Copy!Mounted, CopyOf!Mounted, Copy!Holders,
   CopyOf!Holders, Copy!InOrder, CopyOf!InOrder, Copy!At, CopyOf!At, Copy!Goto, CopyOf!Goto,
   Copy!Exit, CopyOf!Exit, Copy!SaveSvc, CopyOf!SaveSvc, Copy!CanUmount, CopyOf!CanUmount,
   Copy!Landing, CopyOf!Landing, Copy!IntoItself, CopyOf!IntoItself, Copy!CopyFault,
   CopyOf!CopyFault, Copy!RebootEffect, CopyOf!RebootEffect, Copy!trees, CopyOf!trees,
   Copy!mounts, CopyOf!mounts, Copy!status, CopyOf!status, Copy!cursor, CopyOf!cursor,
   Copy!history, CopyOf!history, Copy!conf, CopyOf!conf, Copy!outside, CopyOf!outside,
   Copy!Next, CopyOf!Next, Copy!Step, CopyOf!Step, Copy!Environment, CopyOf!Environment

StoresInv == machine \in {"rsync", "copy"} /\ (machine = "copy" => CopyOf!CopyInv)

LEMMA StoresInitial == CopySettings /\ StoresInit => StoresInv
<1> SUFFICES ASSUME CopySettings, StoresInit PROVE StoresInv
  OBVIOUS
<1>1. CopyOf!CopyConfig /\ CopyAssumption
  BY Settings
<1>2. CopyOf!Init => CopyOf!CopyInv
  BY <1>1, CopyOf!CopyInit DEF CopyAssumption
<1> QED BY <1>2, SameInit DEF StoresInit, StoresInv

LEMMA StoresStep ==
  CopySettings /\ StoresInv /\ [StoresNext]_<<machine, vars, c_vars>> => StoresInv'
<1> SUFFICES ASSUME CopySettings, StoresInv, [StoresNext]_<<machine, vars, c_vars>>
             PROVE  StoresInv'
  OBVIOUS
<1>1. CopyOf!CopyConfig /\ CopyAssumption
  BY Settings
<1>2. CopyOf!CopyInv /\ [CopyOf!Next]_(CopyOf!vars) => CopyOf!CopyInv'
  BY <1>1, CopyOf!CopyNext DEF CopyAssumption
<1>3. UNCHANGED c_vars => UNCHANGED CopyOf!vars
  BY DEF c_vars, CopyOf!vars, CopyOf!trees, CopyOf!mounts, CopyOf!status, CopyOf!cursor,
         CopyOf!history, CopyOf!conf, CopyOf!outside
<1>4. machine' = machine
  BY DEF StoresNext
<1>5. CASE machine = "copy"
  <2>1. Copy!Next \/ UNCHANGED c_vars
    BY <1>5 DEF StoresNext
  <2> QED BY <1>2, <1>3, <1>4, <1>5, <2>1, SameNext DEF StoresInv
<1>6. CASE machine # "copy"
  BY <1>4, <1>6 DEF StoresInv
<1> QED BY <1>5, <1>6

\* Without rsync every file is at its place or in the .old beside it, up to
\* the first crash and through it, for all files, daemons and rounds.
THEOREM CopyRecoverableHolds == CopySettings => (StoresSpec => []CopyRecoverable)
<1> SUFFICES ASSUME CopySettings PROVE StoresSpec => []CopyRecoverable
  OBVIOUS
<1>1. StoresInit => StoresInv
  BY StoresInitial
<1>2. StoresInv /\ [StoresNext]_<<machine, vars, c_vars>> => StoresInv'
  BY StoresStep
<1>3. StoresInv => CopyRecoverable
  BY DEF StoresInv, CopyRecoverable, CopyOf!CopyInv, CopyOf!Recoverable, Copy!Recoverable
<1> QED BY <1>1, <1>2, <1>3, PTL DEF StoresSpec

\* Without rsync a write-back that reports success has saved every file.
THEOREM CopySuccessSavesHolds == CopySettings => (StoresSpec => []CopySuccessSaves)
<1> SUFFICES ASSUME CopySettings PROVE StoresSpec => []CopySuccessSaves
  OBVIOUS
<1>1. StoresInit => StoresInv
  BY StoresInitial
<1>2. StoresInv /\ [StoresNext]_<<machine, vars, c_vars>> => StoresInv'
  BY StoresStep
<1>3. StoresInv => CopySuccessSaves
  <2>1. CopyOf!CopyInv => CopyOf!SuccessSaves
    BY Settings, CopyOf!CopySaves DEF CopyAssumption
  <2> QED BY <2>1 DEF StoresInv, CopySuccessSaves, CopyOf!SuccessSaves, Copy!SuccessSaves,
             CopyOf!At, Copy!At, CopyOf!Keeps, Copy!Keeps
<1> QED BY <1>1, <1>2, <1>3, PTL DEF StoresSpec

=============================================================================
