---------------------------- MODULE KconfigHelper ----------------------------
(***************************************************************************)
(* kconfig_update.py --mode update: the helper reads a kernel .config,     *)
(* decides its updates, prints the difference and, with --apply, writes a  *)
(* backup beside the file and then the file itself.  Path.write_text       *)
(* truncates a file before it fills it, so a crash in between leaves a     *)
(* torn file, which reads as one without settings.  The user edits the     *)
(* .config between the runs (menuconfig, another distribution's file, a    *)
(* backup copied back) and, where Overlap holds, also during a run.        *)
(***************************************************************************)
EXTENDS KconfigUpdates

CONSTANTS
  Trees,      \* Trees[t]: the symbols of kernel tree t, and whether its
              \* SLUB_DEBUG prompt is hidden unless EXPERT is set
  Options,    \* the command lines that the user gives
  Initial,    \* the .config files the user starts from
  Edits,      \* <<symbol, value>>: the changes a user makes in menuconfig
  Overlap,    \* TRUE: the user may save while the helper runs
  Torn,       \* a truncated file
  MaxRuns,    \* bound: runs of the helper
  MaxEdits    \* bound: edits of the user

ASSUME KconfigAssumption ==
  /\ \A t \in DOMAIN Trees :
       Trees[t].symbols \subseteq Symbols /\ Trees[t].slubHidden \in BOOLEAN
  /\ "none" \notin DOMAIN Trees
  /\ \A o \in Options :
       /\ o.tree \in DOMAIN Trees
       /\ o.upgrade \in {"none", "ssdt", "dsdt"} /\ o.hifi5 \in {"none", "xaf", "sof"}
  /\ Initial \subseteq Configs /\ Initial # {} /\ Torn \notin Configs
  /\ \A e \in Edits : e[1] \in Symbols /\ e[2] \in Values
  /\ Overlap \in BOOLEAN /\ MaxRuns \in Nat /\ MaxEdits \in Nat

\* A choice of Kconfig is declared as a whole, and no single change of
\* menuconfig turns a member on: it turns the others off with it.
ASSUME ChoiceAssumption ==
  /\ \A t \in DOMAIN Trees :
       /\ FirmwareStacks \subseteq Trees[t].symbols \/ FirmwareStacks \cap Trees[t].symbols = {}
       /\ KasanChoices \subseteq Trees[t].symbols => "KASAN" \in Trees[t].symbols
  /\ \A config \in Initial : OneOfEach(config)
  /\ \A e \in Edits : e[1] \in FirmwareStacks \cup Compressions => ~On(e[2])

\* The vendor's patches are told of a tree that has them (--cix-patches).
ASSUME ProviderAssumption ==
  \A o \in Options : Vendor(o, Trees[o.tree]) => Providers \subseteq Trees[o.tree].symbols

VARIABLES
  target,     \* the .config
  backups,    \* .config.bak, .config.bak.1, ... in the order of their names
  pc,         \* the helper's next step
  opts,       \* its options
  original,   \* the text it read
  updated,    \* the text it is going to write
  saved,      \* history: what the user last saved
  last,       \* history: the options of the run that ended last, unless the
              \* file was changed or a run was killed since
  runs, edits

vars == <<target, backups, pc, opts, original, updated, saved, last, runs, edits>>
files == <<target, backups>>
history == <<saved, last, runs, edits>>

NoOptions == [tree |-> "none"]
Tree == Trees[opts.tree]

\* A torn file reads as one with no settings in it.
Blank == [s \in Symbols |-> "absent"]
Text(f) == IF f = Torn THEN Blank ELSE f

Init ==
  /\ target \in Initial /\ saved = target
  /\ backups = <<>>
  /\ pc = "idle" /\ opts = NoOptions /\ last = NoOptions
  /\ original = Blank /\ updated = Blank
  /\ runs = 0 /\ edits = 0

-----------------------------------------------------------------------------
(* The helper *)

\* parse_args and the checks of the tree end a run that cannot work before
\* it touches the file; then main reads the .config.
Start(o) ==
  /\ pc = "idle" /\ runs < MaxRuns
  /\ LegalOptions(o)
  /\ opts' = o /\ runs' = runs + 1
  /\ original' = Text(target)
  /\ pc' = "build"
  /\ UNCHANGED <<files, updated, saved, last, edits>>

\* Mutant of Finish: the options of the run stay behind.
FinishUncleared ==
  /\ pc' = "idle" /\ opts' = opts
  /\ original' = Blank /\ updated' = Blank

Finish ==
  /\ pc' = "idle" /\ opts' = NoOptions
  /\ original' = Blank /\ updated' = Blank

Refuse ==
  /\ pc = "build" /\ ~HiFi5Possible(opts, Tree)
  /\ Finish
  /\ UNCHANGED <<files, history>>

\* parse_existing_config reads the file once more, and the updates made from
\* that reading are applied to the text of the first.
Build ==
  /\ pc = "build" /\ HiFi5Possible(opts, Tree)
  /\ updated' = ApplyUpdates(original, Updates(opts, Tree, Text(target)))
  /\ pc' = "decide"
  /\ UNCHANGED <<files, opts, original, history>>

NothingToDo ==
  /\ pc = "decide" /\ updated = original
  /\ last' = opts
  /\ Finish
  /\ UNCHANGED <<files, saved, runs, edits>>

DryRun ==
  /\ pc = "decide" /\ updated # original /\ ~opts.apply
  /\ Finish
  /\ UNCHANGED <<files, history>>

\* Mutant of OpenBackup: .config.bak is taken even when it exists.
OpenBackupAgain ==
  /\ pc = "decide" /\ updated # original /\ opts.apply
  /\ backups' = <<Torn>>
  /\ pc' = "backup"
  /\ UNCHANGED <<target, opts, original, updated, history>>

\* choose_backup_path takes the first name that does not exist.
OpenBackup ==
  /\ pc = "decide" /\ updated # original /\ opts.apply
  /\ backups' = Append(backups, Torn)
  /\ pc' = "backup"
  /\ UNCHANGED <<target, opts, original, updated, history>>

\* Mutant of WriteBackup: the backup gets the new text.
WriteBackupUpdated ==
  /\ pc = "backup"
  /\ backups' = [backups EXCEPT ![Len(backups)] = updated]
  /\ pc' = "truncate"
  /\ UNCHANGED <<target, opts, original, updated, history>>

WriteBackup ==
  /\ pc = "backup"
  /\ backups' = [backups EXCEPT ![Len(backups)] = original]
  /\ pc' = "truncate"
  /\ UNCHANGED <<target, opts, original, updated, history>>

OpenTarget ==
  /\ pc = "truncate"
  /\ target' = Torn
  /\ pc' = "write"
  /\ UNCHANGED <<backups, opts, original, updated, history>>

WriteTarget ==
  /\ pc = "write"
  /\ target' = updated
  /\ last' = opts
  /\ Finish
  /\ UNCHANGED <<backups, saved, runs, edits>>

Helper ==
  \/ Refuse \/ Build \/ NothingToDo \/ DryRun
  \/ OpenBackup \/ WriteBackup \/ OpenTarget \/ WriteTarget

-----------------------------------------------------------------------------
(* The rest of the world *)

\* The helper is killed: a full disk, an interrupt, a power failure.
Crash ==
  /\ pc # "idle"
  /\ last' = NoOptions
  /\ Finish
  /\ UNCHANGED <<files, saved, runs, edits>>

Save(config) ==
  /\ pc = "idle" \/ Overlap
  /\ edits < MaxEdits
  /\ config # target
  /\ target' = config /\ saved' = config
  /\ last' = NoOptions
  /\ edits' = edits + 1
  /\ UNCHANGED <<backups, pc, opts, original, updated, runs>>

Edit(e) == target # Torn /\ Save([target EXCEPT ![e[1]] = e[2]])

Replace == \E config \in Initial : Save(config)

PutBack(i) == backups[i] # Torn /\ Save(backups[i])

User == Replace \/ (\E e \in Edits : Edit(e)) \/ (\E i \in DOMAIN backups : PutBack(i))

Next == (\E o \in Options : Start(o)) \/ Helper \/ Crash \/ User

Spec == Init /\ [][Next]_vars

\* The helper runs on, unless it is killed.
FairSpec == Spec /\ WF_vars(Helper)

-----------------------------------------------------------------------------
TypeOK ==
  /\ target \in Configs \cup {Torn}
  /\ backups \in Seq(Configs \cup {Torn})
  /\ pc \in {"idle", "build", "decide", "backup", "truncate", "write"}
  /\ opts \in Options \cup {NoOptions} /\ last \in Options \cup {NoOptions}
  /\ (pc = "idle") = (opts = NoOptions)
  /\ original \in Configs /\ updated \in Configs
  /\ saved \in Configs
  /\ runs \in 0..MaxRuns /\ edits \in 0..MaxEdits

\* The helper destroys no text: when it truncates the .config, what was in
\* the file at that moment is in a backup.
BackupFirst ==
  [][target' = Torn => target \in {Torn} \cup {backups[i] : i \in DOMAIN backups}]_vars

\* A backup that has been written is never written again, whatever runs and
\* crashes follow it.
BackupsKept ==
  [][\A i \in DOMAIN backups : i \in DOMAIN backups' /\
       backups[i] \in {backups'[i], Torn}]_vars

\* What the user last saved can be found again, in the .config or in one of
\* its backups, at every step and after a crash at any step.
Recoverable == saved \in {target} \cup {backups[i] : i \in DOMAIN backups}

\* The file is the result of the run that ended last.
Done == pc = "idle" /\ last # NoOptions

\* The value a run leaves for a symbol, if the tree has the symbol.
Left(s) == s \in Trees[last.tree].symbols /\ On(target[s])
AtMostOne(S) == \A s, t \in S : Left(s) /\ Left(t) => s = t

\* Whatever was run before, a run leaves one board, one firmware interface,
\* one of the network drivers that claim the same device, one owner of the
\* DSP, one KASAN mode and one compression of the initramfs.
ChoicesExclude ==
  Done => /\ AtMostOne({"CIX_RADXA_ORION_O6", "CIX_RADXA_ORION_O6N"})
          /\ AtMostOne({"CIX_RADXA_ORION_ACPI", "CIX_RADXA_ORION_DT"})
          /\ AtMostOne({"R8126", "R8169"})
          /\ AtMostOne({"CIX_DSP_RPROC", "SND_SOC_SOF_CIX_SKY1"})
          /\ AtMostOne({"CIX_HIFI5_FIRMWARE_XAF", "CIX_HIFI5_FIRMWARE_SOF"})
          /\ AtMostOne(KasanChoices)
          /\ AtMostOne({"INITRAMFS_COMPRESSION_GZIP", "INITRAMFS_COMPRESSION_NONE"})

\* The SOF owner of the DSP is enabled only together with the DSDT that
\* describes it to the kernel.
SofHasItsTables ==
  Done /\ Left("SND_SOC_SOF_CIX_SKY1") =>
    target["ACPI_TABLE_UPGRADE"] = "y" /\ target["INITRAMFS_SOURCE"] = "dsdt"

\* A driver that a run leaves enabled has what it works through: the
\* display pipeline under display audio and under a touchscreen, sound under
\* every audio path, modules under the NPU.
FeaturesClosed ==
  Done /\ Vendor(last, Trees[last.tree]) =>
    /\ Left("SND_SOC_CIX") => Left("DRM_CIX") /\ Left("SND_SOC") /\ Left("SND")
    /\ Left("SND_SOC_SOF_CIX_SKY1") => Left("SND_SOC") /\ Left("SND")
    /\ Left("TOUCHSCREEN_GOODIX") => Left("INPUT") /\ Left("DRM_CIX") /\ Left("PWM_SKY1")
    /\ Left("DRM_CIX") \/ Left("DRM_PANTHOR") => Left("DRM")
    /\ Left("ARMCHINA_NPU") => target["ARMCHINA_NPU"] = "m" /\ Left("MODULES")

\* The facilities of each enabled diagnostic profile are all there, whatever
\* the other profiles and the DSP say; with no profile enabled none of the
\* owned facilities is left over from an earlier run.
DiagnosticsServed ==
  LET present(S) == \A s \in S \cap Trees[last.tree].symbols : target[s] = "y"
      owned == KasanSymbols \cup Qualification \cup FaultInjection
                 \cup (MemoryDebug \ (MemoryDebugEnableOnly \cup {"SLUB_DEBUG"}))
  IN Done => /\ last.memdebug => present(MemoryDebug)
             /\ last.rq => present(Qualification \cup QualificationEnableOnly)
             /\ last.fault => present(FaultInjection \cup FaultInjectionEnableOnly)
             /\ ~last.memdebug /\ ~last.rq /\ ~last.fault =>
                  \A s \in owned : ~Left(s)

\* A run never takes EXPERT, DEBUG_KERNEL, STACKTRACE or KALLSYMS from a user
\* who has them, whichever profiles come and go.
EnableOnlyKept ==
  pc = "decide" =>
    \A s \in MemoryDebugEnableOnly \cup QualificationEnableOnly :
      original[s] = "y" => updated[s] = "y"

\* The built-in and modular drivers the user has stay as they are, but for
\* the ones that must be built in and the NPU, which must be a module.
DriversKept ==
  \A s \in TristateSymbols :
    /\ original[s] = "y" /\ updated[s] = "m" => s = "ARMCHINA_NPU"
    /\ original[s] = "m" /\ updated[s] = "y" =>
         s \in {"CIX_MBOX", "PINCTRL_SKY1", "INPUT"}

\* --driver-preference is for new drivers only, unless the user asks for a
\* rewrite: here for the runs that leave the DSP alone.
TristatesKept ==
  pc = "decide" /\ ~opts.rewrite /\ opts.hifi5 = "none" => DriversKept

\* The same for every run, as the option's help has it.
TristatesKeptAlways == pc = "decide" /\ ~opts.rewrite => DriversKept

\* The second of two equal runs finds nothing to do, INPUT apart: its policy
\* depends on the EXPERT that the first run itself may have turned on.
Settles ==
  pc = "decide" /\ last = opts =>
    \A s \in Symbols : updated[s] # original[s] => s = "INPUT" /\ opts.rq

=============================================================================
