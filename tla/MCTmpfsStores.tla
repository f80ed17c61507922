----------------------------- MODULE MCTmpfsStores -----------------------------
(* Two machines that share nothing, one behaviour of either at a time: one    *)
(* with rsync that keeps to the boot order, whose constants are in the        *)
(* configuration, and one without, whose variables begin with c_.             *)
EXTENDS TmpfsInvariants

VARIABLES
  machine,  \* "rsync" or "copy"
  c_disk, c_diskOld, c_ram, c_overlay, c_depth, c_rc, c_phase, c_debug, c_svc,
  c_open, c_op, c_pc, c_code, c_moved, c_todo, c_rounds, c_clock, c_latest,
  c_target, c_promised, c_reboots

c_vars == <<c_disk, c_diskOld, c_ram, c_overlay, c_depth, c_rc, c_phase, c_debug, c_svc,
            c_open, c_op, c_pc, c_code, c_moved, c_todo, c_rounds, c_clock, c_latest,
            c_target, c_promised, c_reboots>>

\* Copies fail, conf.d is edited, and forceumount finishes what a stop left.
Copy == INSTANCE TmpfsService WITH
  Excluded <- {}, Commands <- {"start", "stop", "forceumount"}, Tools <- {"lsof"},
  Faults <- {"fstab", "restore"}, SvcModes <- BOOLEAN, MaxVersion <- 3, MaxReboots <- 1,
  disk <- c_disk, diskOld <- c_diskOld, ram <- c_ram, overlay <- c_overlay,
  depth <- c_depth, rc <- c_rc, phase <- c_phase, debug <- c_debug, svc <- c_svc,
  open <- c_open, op <- c_op, pc <- c_pc, code <- c_code, moved <- c_moved,
  todo <- c_todo, rounds <- c_rounds, clock <- c_clock, latest <- c_latest,
  target <- c_target, promised <- c_promised, reboots <- c_reboots

StoresInit ==
  \/ machine = "rsync" /\ Init /\ Copy!Init /\ c_svc = FALSE
  \/ machine = "copy" /\ Copy!Init /\ Init

StoresNext ==
  \/ machine = "rsync" /\ Next /\ UNCHANGED <<machine, c_vars>>
  \/ machine = "copy" /\ Copy!Next /\ UNCHANGED <<machine, vars>>

StoresSpec == StoresInit /\ [][StoresNext]_<<machine, vars, c_vars>>

\* Without rsync every file is at its place or in the .old beside it, up to
\* the first crash (TmpfsService!Recoverable).
CopyRecoverable == machine = "copy" => Copy!Recoverable

\* A write-back without rsync that reports success saved every file, also with
\* copies that fail half-way and forceumount finishing what a failed stop left
\* (TmpfsService!SuccessSaves).
CopySuccessSaves == machine = "copy" => Copy!SuccessSaves

=============================================================================
