# Verification of the overlay's own programs

This directory holds TLA+ models of the programs that this Gentoo overlay
itself develops, as opposed to those it packages.  They are few among its 7569
files, most of which are recipes and patches:

* `sys-apps/tmpfs`, an OpenRC service that keeps a directory in memory and
  writes it back;
* `sys-kernel/cix-sources/files/kconfig_update.py`, a helper that updates the
  kernel `.config` of a Radxa Orion O6 or O6N;
* `acpi-table-upgrade/.../iort/build_iort_upgrade.py` beside it, which rewrites
  the firmware's IORT table;
* `.github`, the workflows and scripts that build Debian packages of the CIX
  kernels from retained copies of upstream data.

Paths below are relative to the root of the repository.  Modules are checked with TLC; the theorems are
proved with TLAPS.  `PROJECT.json` lists, for every definition that models code,
the lines it stands for, and, for every property, a mutant of the model that
breaks it.

1. [The parts of the system](#the-parts-of-the-system)
2. [tmpfs service](#tmpfs-service)
3. [Kernel configuration helper](#kernel-configuration-helper)
4. [IORT builder](#iort-builder)
5. [Retained external inputs](#retained-external-inputs)
6. [Version selection](#version-selection)
7. [Kernel packages: workflow and assembly](#kernel-packages-workflow-and-assembly)
8. [Runs](#runs)
9. [Findings](#findings)
10. [Proofs](#proofs)
11. [What is not modelled](#what-is-not-modelled)
12. [Plan](#plan)

## The parts of the system

| Part | State | Operations | Interacts with |
| --- | --- | --- | --- |
| tmpfs service (`sys-apps/tmpfs/files/tmpfs.init`, `tmpfs.conf`) | the directory on disk, `.old` beside it, its mirror on an overlay file system, mounts, what OpenRC believes, `conf.d` | `start`, `stop`, `forceumount`, `commit` | daemons below the mount point (open files, SIGHUP, SIGTERM, SIGKILL), OpenRC, `mount`, `rsync`, `lsof`, the machine stopping |
| kernel configuration helper (`kconfig_update.py`) | the `.config`, its backups | `--mode update` (with or without `--apply`), `fragment`, `patch` | a kernel tree (which symbols exist), the user and `menuconfig`, the package workflow |
| retained external inputs (`.github/scripts/{restore,refresh,validate}-cix-external-inputs.*`, `cix_external_inputs.py`, `cix-external-inputs.yml`) | the artifact of the last successful refresh, the fallback in the repository, a candidate directory on a runner | restore, refresh, validate | GitHub (runs, artifacts), the upstream projects, every workflow that restores |
| Ubuntu configuration fetch (`fetch-ubuntu-configs.sh`) | a work directory | fetch a seed | Launchpad; called by the refresh |
| version selection and build matrix (`discover-cix-matrix.py`, `check-cix-source-versions.py`, `compact_gentoo_metadata`) | the overlay's ebuilds, Gentoo's list and the part of it that is retained | select the newest ebuild of a line, expand the matrix, compact the list, compare | the package workflow; the retained inputs |
| kernel package workflow (`cix-kernel-debs.yml`) | jobs, their artifacts, the draft release | discover, preflight, external inputs, seeds, validation, build, assemble and clean up, release; cancel, re-run | all of the above; GitHub, the maintainers |
| package assembly (`assemble-cix-debs.py`) | package trees | accept the packages, share identical headers, keep one package of userspace headers | the build jobs' artifacts |
| source and header scripts (`create-patched-kernel.sh`, `validate-cix-*.sh`, `cix-headers.yml`) | work directories | patch, build, compare | ebuilds, kernel sources |
| IORT builder (`build_iort_upgrade.py`, two equal copies) | a table in memory | check, enable HTTU, enable MSI for each SMMU, raise the revision, write | the firmware's table; its own output |
| other init scripts, Portage hooks, eclasses, ebuilds, patches, profiles | | | |

What is hard, and what correctness means:

* **tmpfs service.** Hard: the working set exists twice, and which copy is the
  newer changes with every mount; external commands fail; daemons reopen files
  while a stop kills them; the machine may stop between two files of a copy.
  Correct means that the disk never falls behind what a successful stop or
  commit promised, that daemons always reach the newest files, that a status of
  0 means saved, and that every command ends.
* **Configuration helper.** Hard: some forty tables of symbols are laid over
  each other, and the result also depends on what an earlier run of other
  options, or the user, left in the file; the file is truncated and rewritten in place.
  Correct means that exclusive choices stay exclusive, that a feature comes with
  all it needs, that the user's choices survive, that a second equal run does
  nothing, and that no text of the user is lost.
* **Retained inputs.** Hard: the store that is restored is the product of
  earlier refreshes, downloads and upstreams fail separately, and the code that
  validates changes. Correct means that what is used is valid, that known-good
  data is neither lost nor misdated, and that one failing upstream does not
  hold the others back.
* **IORT builder.** Hard: nodes name each other by offsets into the table, and
  mappings are inserted in the middle of it; one of the offsets is read before the
  loop that inserts. Correct means that every reference still names what it named,
  that the nodes still tile the table, that the output has what was asked for
  whatever was done to it before and outranks the firmware's table, and that a usable table is not refused.
* **Version selection.** Hard: three programs choose "the newest", each its own
  way. Correct means that "current" is said only of what the build takes.
* **Workflow and assembly.** Hard: a run is cancelled, re-run as a whole or in
  part on top of the artifacts that are there, its artifacts expire and are
  deleted. Correct means that what it offers is one whole set of packages, made of
  one set of inputs, and that the maintainers get there by repeating the run.

How the parts compose: the package workflow restores the retained inputs,
selects ebuilds, and runs the configuration helper on an Ubuntu configuration out
of those inputs; the assembly follows its builds. The IORT builder is
run by hand on a firmware's table. The tmpfs service stands alone.

## tmpfs service

`TmpfsService.tla` models the whole script. A file's content is the number of
the last update it contains, so that "rolled back" is `<`; a removal is an
update like any other.

| State | Code |
| --- | --- |
| `disk`, `diskOld` | `/MP` and `/MP.old` on the disk |
| `ram`, `overlay` | `OVERLAY_ROOT/MP`, and whether the overlay is mounted |
| `depth` | bind mounts stacked on `/MP` |
| `op`, `pc`, `code`, `moved`, `todo`, `rounds` | the command, its next step, its status variable, `movesvcdir`, the files a copy has still to reach, the signal rounds |
| `rc`, `phase`, `debug`, `svc` | OpenRC's belief, boot/up/down, `DEBUG`, `svcdir` and `svcmount` |
| `open` | where the file that a daemon holds open lives |
| `latest`, `target`, `promised` | history: the last updates, those before the command began, those the disk must keep |

One action stands for one external command or one file of a copy, so that
failures and crashes fall between any two of them. Daemons open, write and close
at any time that `BootOrder` allows; the machine stops at any step. The `.old`
dance without rsync (`mv`, `cp`, `rm`) has an action per command.

`WriteBackStore.tla` is the abstract store: writes become volatile or durable,
a save promises what was there when it began, a crash loses at most what was not
promised. `TmpfsRefinement.tla` maps the service to it; `ImplementsStore` is
checked and proved. The copies without rsync need not keep the store's promise
(a crash can leave the disk half copied with the rest in `.old`), so they have properties of their
own, `CopyRecoverable` and `CopySuccessSaves`.

Behaviour seen while modelling for which no run is kept:

* without rsync, `commit` moves the busy mount point away; the copy then lands
  nested in it and success is reported; a failing copy empties the disk tree;
* an NFS overlay (`tmpfs.conf:1-2`) never matches the `grep` for mounted
  directories, so that stop and commit refuse to work;
* with `svcdir` and `svcmount` set, `start` returns 255 though it has mounted, and with
  `/MP` missing it returns 0 though it has not;
* `forceumount` after a failed start copies a partial mirror over the disk;
* a failing `mktemp` in `commit` is masked;
* without rsync, a crash during a restore followed by a start and a stop deletes
  the only full copy in `.old`: `Recoverable` holds up to one reboot, not two;
* files that `{service}_EXCLUDE` keeps out of the mirror are deleted from the
  disk by the first restore (`rsync --delete`);
* a daemon started before the mount keeps its handle on the hidden directory.

## Kernel configuration helper

`KconfigUpdates.tla` is the pure part: from the options, the kernel tree and the
`.config` to a sequence of updates for each symbol. Each table of the script is
represented by one to four of its symbols, chosen so that every overlap of two
tables has a symbol. The layers are applied in the order of
`build_config_updates`; later layers replace a symbol's first entry
(`IfUnseen`, `Override`, `WithSupported`), and the file receives the last.
`KconfigHelper.tla` is the program around it: read, decide, compare, back up,
truncate, write, with a crash at each step and a user who edits, copies another
`.config` over, or copies a backup back.

The model's results were compared with the real `build_config_updates` and
`apply_updates_to_config` for 2430 distinct pairs of options and
`.config` that runs over the files `Blank`, `Distribution` and `BuiltIn` reach: there was no
difference. (The file `Small`, for 16K pages, came later.)

Behaviour seen while modelling for which no run is kept:

* a symbol in two tables is replaced at its first entry only: `SND` keeps its
  preserved value under SOF. The tables that share a symbol agree on it today, so that no property
  of the runs depends on the order;
* `INPUT` may need two runs to settle when touchscreen, rewriting and
  qualification are combined, because the policy reads `EXPERT` before the run;
  `Settles` states the cases that do settle;
* dropping `--acpi-table-upgrade` leaves `INITRAMFS_SOURCE` as it was;
* nothing excludes two helpers on one file.

## IORT builder

`IortTable.tla` models `build_iort_upgrade.py` from the check of the header to
the write of the output. A node is a record that stands for its bytes: where
they are, how many, and the fields that the builder reads or writes. A mapping keeps
the offset it names. The two copies of the program (o6, o6n) are equal.

| State | Code |
| --- | --- |
| `firmware`, `written` | the board's `IORT.dat`; the outputs, each of which may be the next input |
| `data`, `pc` | the `bytearray`; where `main` is |
| `options`, `changed`, `its_ref`, `missing` | `--httu` and `--msi`, and the variables of `main` and `enable_sky1_smmu_msi_domains` |
| `input`, `had`, `runs` | history: what this run has read and which options had made it |

An action is a phase of `main`, or a round of the loop over the two SMMUs. Every
`ValueError` is an action that refuses and writes nothing.

Behaviour seen while modelling:

* `enable_sky1_smmu_msi_domains` reads the offset of the ITS group before it
  inserts anything, and `WithBoth` and `WithSingle` (lines 169, 183) compute a
  shifted reference in case the ITS group lies behind. The checks on the way (lines 246-260)
  nevertheless compare with the offset that was read first, so that a table whose ITS
  group lies behind an SMMU that needs an insertion is refused. `ItsRefFresh`
  says that this is what keeps the stale offset from being used, and `Upgradable`
  names the order that is served;
* in a PMCG node, the word at +24 is followed as a reference. In the IORT
  specification that word is the overflow interrupt, and the reference is the one at +28.

## Retained external inputs

`ExternalInputs.tla` models the daily refresh and any number of workflows that
restore. A component's content is its upstream version; a time is the upstream
version of that instant, which is all that comparing `last_refreshed_at` with a
content needs. A bundle carries the revision of the validation code it satisfies.

| State | Code |
| --- | --- |
| `published` | the artifact of the latest successful run on master |
| `fallback`, `revision` | the bundle checked in with each revision of the code; the revision of master |
| `pc`, `checkout`, `bundle`, `restored` | for each runner: where it is, its revision, the candidate or output directory, and whether that came from the artifact |
| `next`, `fetched`, `now` | the refresh's loop, `refreshed[...]`, and its single time stamp |
| `faults` | failures so far |

`Checkout`, `List`, `ListNothing`, `Accept`, `Reject`, `UseFallback` are the
restore script; `Prepare`, `Fetch`, `Retain`, `BreakOff`, `Seal`, `Publish` the
refresh. The concurrency group makes the refresh a single actor. Runners lose
their files when they end (`Ends`), so that a crash at any step is the action
`Kill`. Upstream versions only grow: a release that is withdrawn is not modelled.

Behaviour seen while modelling:

* one failed download makes a refresh start from the repository's fallback, and
  its result is what all later runs restore: a component that also fails that
  day goes back to the checked-in version although the older artifact still
  exists. `KnownGoodKept` states exactly this as the only way back;
* a valid artifact is preferred to a newer fallback, so that checking one in
  does not help while refreshes fail;
* no workflow passes `--max-age-days`: a component may be retained for ever;
* `replace_directory` ignores the errors of `rmtree`, after which `move` would
  nest the new seed in the old one and the component would count as refreshed.

## Version selection

`SourceVersions.tla` has the three programs that choose the newest version of a
kernel line: `select_ebuilds` with the matrices made of its choice, `select_versions`
with the comparison, and `compact_gentoo_metadata`, which decides at a refresh
what the comparison will know of Gentoo. A name is a record of line, patch level,
revision and whether the revision is written out; where the two spellings of
revision 0 are both there, the choice is made as each program makes it (by the order of the
list, or by none). `SelectionsAgree` relates the three: "current" means that
the build takes what was newest in Gentoo's whole list at the last refresh.

Behaviour seen while modelling: `-r0` written out is the same version for the
selection and another one for the comparison (`check-cix-source-versions.py:54`
compares texts), so an overlay that spells it out is reported out of date for ever.
`SelectionsAgree` leaves this case out of its second half.

## Kernel packages: workflow and assembly

`DebAssembly.tla` has what `assemble-cix-debs.py` does, as operators: which packages are
accepted against the matrix, which headers are shared (`Shared`), the trees
with links at their place (`Split`, `LinkAt`), where a relative link leads
(`Leads`), and what a reader finds when the packages are installed (`Found`,
`Installed`). `KernelWorkflow.tla` EXTENDS it: one run of `cix-kernel-debs.yml` with all that
may be repeated of it.

| State | Code |
| --- | --- |
| `event`, `accepted` | the trigger (push, a fork's pull request, a dispatch that publishes); whether discover and preflight accept the commit |
| `status`, `attempt` | the state of each job (each row of a matrix is one), the run's attempt |
| `inputs`, `configs`, `debs` | the newest copies of the artifacts `cix-external-inputs`, of the frozen configurations, and of `cix-kernel-debs` |
| `built` | for each row all copies of its packages, one for each attempt that uploaded them, oldest first |
| `refuses` | whether an upload of a name that the run already has is refused |
| `cleaning` | the assemble job is deleting the rows' artifacts |
| `draft` | the draft release, named after the run's number |
| `torn`, `leftover` | history: a cleanup stopped half-way and the builds have not all been repeated since; `debs` was assembled in such a state |
| `expired`, `incidents`, `retries` | whether an artifact expired; bounded counters of what the environment does |

No upload step says `overwrite`. What becomes of an upload whose name the run
already has, from an earlier attempt, is up to the service: by the documented default of the action it is
refused, in practice each attempt adds a copy of its own. `refuses` is chosen once for
a behaviour, so that the safety properties are checked and proved for
both. Downloads take the newest copy of a name. The cleanup deletes by id, thus every
copy, in no order that is promised: a row whose newest copy has gone shows the older one
until that goes too. `inputs`, `configs` and `debs` need no older copies:
no job deletes them, and `retention-days` takes older copies first.

`Needs` is the graph of jobs. `May` lets a job fail after or instead of its
effect; `Cancel` is the concurrency group (or a user); `RerunAll`,
`RerunFailed` and `RerunJob` are GitHub's three ways to repeat, of which the last two
take what depends on the jobs with them (`Dependents`); `Expire` is
`retention-days`. A build that succeeds may still have left packages out or brought
others (`Defects`).

`MCKernelPackages.tla` puts the two parts beside each other: they share the
commit and nothing else, so a behaviour is of one of them.

Behaviour seen while modelling:

* when the cleanup stops half-way, the assemble job is failed and some rows'
  artifacts are gone. If no older copies are left, "re-run failed jobs" fails for ever, since the
  builds are not failed; only a re-run of all jobs helps. `Published` holds
  because it assumes the latter;
* if older copies are left, such a re-run assembles a mixed set: attempt 1 builds all
  rows and its assembly fails; attempt 2 re-runs everything from newer inputs,
  uploads `cix-kernel-debs`, and its cleanup stops after it has deleted the newest copy of one
  row; "re-run failed jobs" downloads that row from attempt 1, the others from
  attempt 2, and assembles and releases them. TLC finds this trace (26 states, within the bounds of
  `kernel_packages`) when `OneInputs(debs)` is asked without condition.
  Each row is still whole and built from the configuration frozen with its inputs.
  `AssembledWhole` and `ReleaseWhole` say that this is the only way to
  a mixed set: `leftover` is true only of a set assembled after such a cleanup;
* if uploads of a name that is there are refused, every repetition that includes a job
  whose artifact is there fails at its upload: a re-run of all jobs, once the inputs are uploaded, can never
  come right, and a run that needs one is never published. The safety properties hold
  there too; `Published` is stated for `~refuses` only;
* `cancel-in-progress` groups by ref: a push to master cancels a dispatch there
  that is publishing. The draft keeps the packages attached so far, until the next
  attempt replaces them one by one;
* a build checks that it has made an image and its headers; the userspace headers
  are missed at assembly only, after all builds.

## Runs

| Run | Module, configuration | What it shows |
| --- | --- | --- |
| `tmpfs_stores` | `MCTmpfsStores`, `TmpfsStores.cfg` | two machines. With rsync, in boot order, with failing mounts, mirrors and copies: `TypeOK`, `NoRollback`, `NothingHidden`, `StartedMeansMounted`, `CommitLosesNothing`, `ImplementsStore`. Without rsync, with failing copies and `forceumount`: `CopyRecoverable`, `CopySuccessSaves` |
| `tmpfs_kill` | `MCTmpfsService`, `TmpfsKill.cfg` | everything may fail, daemons reopen files: `CommandsEnd` |
| `tmpfs_stuck_process`, `tmpfs_commit_fails`, `tmpfs_debug` | one cfg each | violations, see Findings |
| `kconfig_settings` | `MCKconfigHelper`, `KconfigSettings.cfg` | two runs with 19 option sets, three trees and four initial files, two edits, a crash anywhere: the seven properties of what a run leaves in the file, and of the files themselves `Recoverable`, `BackupFirst`, `BackupsKept` |
| `kconfig_hifi5`, `kconfig_overlap` | one cfg each | violations, see Findings |
| `iort_table` | `MCIortTable`, `IortTable.cfg` | up to three runs over tables of every order of nodes and shape of mappings: `RefsFollow`, `ItsRefFresh`, `Tiles`, `WrittenAsAsked`, `OneResult`, `Settles`, `ServesFirmware` |
| `external_inputs` | `MCExternalInputs`, `ExternalInputs.cfg` | `RestoredValid`, `RestoreServes`, `RetentionHonest`, `KnownGoodKept`, `ReachableCatchUp` |
| `external_inputs_truncated` | `ExternalInputsTruncated.cfg` | violation, see Findings |
| `kernel_packages` | `MCKernelPackages`, `KernelPackages.cfg` | the versions chosen agree (`SelectionsAgree`); a run that is cancelled, repeated and robbed of artifacts, with uploads that add copies or are refused, offers whole sets, of one attempt's inputs unless a cleanup was left half-way (`AssembledWhole`, `ReleaseWhole`), deletes nothing that is needed (`CleanupSafe`) and, where uploads add copies, publishes in the end (`Published`) |

### Bounds, and why they are enough

* tmpfs: two files show a copy cut in the middle and an excluded file beside a
  mirrored one; one daemon is enough for an update between any two steps, two
  in `tmpfs_kill` for one that reopens while the other is killed. The five and
  eight signal rounds become two and three (one of SIGKILL after the others);
  the loop does not depend on the number. Four updates allow one before, during
  and after each of two commands. Two reboots let a state left by a crash be used by the
  next boot, where rsync is used; without it one reboot, which is what
  `Recoverable` speaks of. `CHECK_DEADLOCK FALSE`: after the last reboot nothing
  more happens.
* kconfig: two runs are what it takes for one to meet what another left; the edits change symbols that the policy reads.
  `CHECK_DEADLOCK FALSE`: after the last run nothing more happens.
* external inputs: one component of each kind (JSON metadata, Ubuntu seed); two
  versions each, so that older and newer exist; two revisions of the validation
  code; two failures, so that a failed download and a failed fetch can meet; one
  consumer, since consumers write nothing. The number of runs is not bounded.
* IORT: an ITS group, two SMMUs and a root complex that names all three, in all
  24 orders, so that an insertion has every kind of node on either side of it; seven shapes of
  an SMMU's mappings, of which three must be refused; a PMCG, a second ITS group, no second
  SMMU, bad headers, a full revision counter (`MaxRevision` 3 for 2^32 - 1). Three
  runs are both options in either order and a repetition. `CHECK_DEADLOCK
  FALSE`: after the last run nothing more happens.
* kernel packages: two lines, of which one has two variants, so that headers
  are shared between rows and not between lines; four paths, one for each rule of
  the split (the same everywhere, of another mode, never shared, absent in one variant).
  `MaxIncidents` = 2 failures, cancellations, defects, expired artifacts or
  unneeded repetitions and `MaxRetries` = 1 repetition of the failed jobs, at any point and in any order,
  within `MaxAttempts` = 4: enough for the mixed set above, which takes a failed assembly, a cleanup that
  stops and a repetition in part, with an attempt left to come right. Seven names, three
  ebuilds on either side: two names of one version, of two revisions and of two
  patch levels, a line too old and one that is not declared. `CHECK_DEADLOCK FALSE`: a run
  that has succeeded may rest.

### Fairness

* `CommandsEnd`: weak fairness of the running command's next step and of
  nothing else. The shell goes on with its script; daemons need not close files
  and users need not run commands.
* `ReachableCatchUp`: weak fairness of the refresh, including its start. The
  `cron` entry starts one every day, and its steps have time limits. Failures
  are finitely many in a behaviour (`MaxFaults` of `ExternalInputs`), except those of the upstreams
  in `Down` and `Truncated`, which may fail for ever. Nothing is assumed of
  releases, branches or consumers.
* `Published`: weak fairness of the jobs' steps taken together (GitHub gives every
  ready job a runner) and of `RerunAll` (the maintainers repeat a run that
  failed). Nothing is assumed of the other two ways to repeat it. Failures and
  expirations are finitely many (`MaxIncidents`).

## Findings

1. **A stuck process makes stop report success with nothing saved**
   (`tmpfs_stuck_process`, `tmpfs.init:177`). The status of `! umount` is read
   instead of that of `umount`.
2. **A failed commit is reported as successful** (`tmpfs_commit_fails`,
   `tmpfs.init:765`).
3. **DEBUG does not only simulate** (`tmpfs_debug`, `tmpfs.init:379`,
   `tmpfs.conf:54-55`). A start under DEBUG mounts an empty mirror, and a
   commit after DEBUG is cleared deletes the tree.
4. **HiFi5 interfaces change the user's built-in drivers to modules**
   (`kconfig_hifi5`, `kconfig_update.py:2581`, help text at 874-877).
5. **An edit saved during a run is in neither file** (`kconfig_overlap`,
   `kconfig_update.py:3213`).
6. **One broken-off answer stops the whole refresh**
   (`external_inputs_truncated`, `refresh-cix-external-inputs.py:78`).
   `http.client.IncompleteRead` is neither an `OSError` nor a `ValueError`. A local server
   that announces more than it sends makes `refresh_json` raise it.

## Proofs

| Module | Theorem | Statement |
| --- | --- | --- |
| `TmpfsService_proofs` | `TypeCorrect` | types, without assumptions on the configuration |
| | `NoRollbackHolds`, `NothingHiddenHolds`, `StartedMeansMountedHolds`, `CommitLosesNothingHolds` | under `SafeConfig`, for all files, daemons, rounds and bounds |
| | `ServiceImplementsStore` | under `SafeConfig`, the service refines the store |
| | `CopiesRecover` | under `CopyConfig` (no rsync), every file is at its place or in `.old`, up to the first crash and through it |
| `TmpfsStores_proofs` | `CopyRecoverableHolds`, `CopySuccessSavesHolds` | the two properties of the second machine of `tmpfs_stores`, from the same invariant, for all files, daemons and rounds |
| `ExternalInputs_proofs` | `InputsTypeCorrect`, `RestoredValidHolds`, `RestoreServesHolds`, `RetentionHonestHolds`, `KnownGoodKeptHolds` | for all components, consumers and bounds, whatever is `Down` or `Truncated` |
| `KconfigHelper_proofs` | `TypesOK`, `BackupsAreKept`, `EnableOnlyIsKept` | for all trees, options, files, edits and numbers of runs, also with a user saving during a run |
| | `BackupComesFirst`, `SavedIsRecoverable`, `DriversAreKept`, `SofComesWithTables`, `DiagnosticsAreServed`, `ChoicesStayExclusive`, `FeaturesStayClosed`, `EqualRunsSettle` | the same without `Overlap` |
| `IortTable_proofs` | `TypeCorrect`, `ReferencesFollow`, `NodesTile` | `TypeOK`, `RefsFollow` and `Tiles`, for tables of any number of nodes and mappings |
| | `ItsRefStaysFresh`, `WrittenTablesServe`, `SecondRunSettles`, `FirmwareIsServed`, `OneResultHolds` | the same tables, and any sequence of runs, when mappings name nodes (`NamedAssumption`) |
| `SourceVersions_proofs` | `SelectionsAlwaysAgree` | for all finite sets of names, lines and bounds (`Versioned`) |
| `KernelPackages_proofs` | `SplitKeepsPaths` | whatever the trees of a line, who installs a split tree beside the common one finds at every path what the build put there |
| | `WorkflowTypeCorrect`, `AssembledWholeHolds`, `ReleaseWholeHolds`, `CleanupSafeHolds` | for all rows, seeds, trees, defects and bounds, whether uploads add copies or are refused |
| | `SelectionsAgreeHolds` | the property of `kernel_packages`, for all rows whose lines are still built (`LinesBuilt`) |

`SafeConfig` (in `TmpfsInvariants.tla`): rsync is installed, the overlay is a
tmpfs, DEBUG is off, daemons keep to the boot order, `forceumount` is not used,
and the five external commands whose failure the script does not notice do not
fail. The findings and the list above show why each of these is needed.

**tmpfs.** `SafetyInv` is inductive. `StepsOfCommands` and `MountsMatch` say
which command a step belongs to and what is mounted then. `LatestIn` says where
the last update of each file is, through both copies: without it a stop could
restore an old mirror. `Ordered` puts promised, disk and latest contents in
order. `PromiseGrows` is what makes a successful write-back an extension of the
promise and not a new one. `Mounting` is inductive beside it and says what a
start that is about to report success has done. The refinement proof maps each action to a step of
the store or a stutter.

Without rsync the configuration is `CopyConfig`: a tmpfs overlay, daemons in
boot order, no `commit`, something to copy, and of the faults only `fstab`,
`bindtmp` and `restore`: copying back may fail at any file. TLC refutes the properties
as soon as mirroring, a mount, an unmount or a kill may fail too, or commands are
run after a crash.
`CopyInv` is inductive. Up to the crash, `CopyLatest` says which of three places has the last
updates when nothing is mounted: the disk while a start is still copying, the disk
without a mirror, or the mirror of a stop, which no daemon writes to any more.
`CopyTrees` says that `.old` exists only during a restore, is then as new as
the promise, and that the disk equals the mirror for all files the restore has
passed. After the crash nothing but `Recoverable` is left, and nothing runs that could
need more. `TmpfsStores_proofs` instantiates this
proof with the variables of the second machine: `Settings` shows that its constants
meet `CopyConfig`, `SameInit` and `SameNext` that it is the same machine.

**External inputs.** `KnownGoodKept` relates two bundles that are many steps
apart, so it is not inductive: the refresh holds the one before it publishes it.
`AsNew` follows it from download to publication: it is the artifact, then no
older wherever it was restored or fetched. `AllKnown` (records true, contents
not ahead of the upstreams) supplies the comparison with what is fetched;
`TimePast` that with the recorded time; `Stages` says that a directory into
which the fallback is copied is empty, and `FallbacksFit` that this makes it
valid.

**Configuration helper.** `KconfigUpdates_proofs` is about the layers:
whatever every layer allows for a symbol, the whole list of updates allows
(`UpdatesIn`, from one lemma for each way to lay a layer: `UnseenIn`,
`OverrideIn`, `SupportedIn`). That all entries of a symbol are meant, and not
its last one only, is what makes this an induction over the layers: `Override`
replaces the first entry and the file receives the last. `Allowed` collects the
values the properties permit, one lemma per layer shows that it keeps to them,
and `AppliedAllowed` says so of the file. In `KconfigHelper_proofs` the
invariant is `TypeOK`, `Decided` (the text to write is the result of applying
updates, made from the same text if nobody saves in between), `Reading` (what was
read is still in the file), `BackingUp` (whose backup is the last) and
`Landed`: the file is what the last run made of some text. For a run that finds
nothing to do `Landed` needs `NeverBlank`: the file could otherwise be a torn one
that reads like the result.

A second pass over the same layers, `AppliedRuled`, says which values a run writes
whatever the `.config` holds: `Ruled` turns the excluded drivers off, the
providers of a feature on, and sets the board. `SelectedKept` shows that no provider
of a selected feature is excluded. `PairsApart` and `FeaturesServed` are
what follows for the file. The firmware stacks and the compressions are
different, as a run may leave them alone: `Chosen`, inductive beside
`Inv`, says that no text in a file, in a backup or in the helper has two
members of one choice on.

`EqualRunsSettle` compares two runs entry by entry (`UpdatesAlike`). A layer either
does not look at the `.config`, or it looks at symbols that no run writes (`Given`,
`GivenKept`), at sizes and useless drivers that one run settles (`SizesSettle`,
`UselessSettle`), or at driver preferences, whose entry the next run
makes again from what the first one wrote (`EntrySettles`).

**IORT builder.** The first inductive invariant, `IInv`, is `TypeOK`, that the firmware's table is
one of `Inputs`, `RefsFollow` and `Tiles`. The lemmas are about the operators:
`ShiftInjective` (a shift neither parts nor joins offsets), `Inserted` (what
an insertion does to each node), `InsertTiles` and `InsertFollows`, and
`LayoutKept` for the steps that change bits only. `EnableSmmu` may insert twice, so
that `FollowsTransitive` joins what `BothKeep` and `SingleKeep` say of each insertion. `Tiled` compares every node with all those behind it; that
neighbours suffice is not proved but part of what the assumption on inputs says.

`JInv`, inductive beside it, carries what the builder achieves. `Fresh`: the
offset read before the loop is the ITS group's until the loop ends. The reason is in
`GroupStays`: a round goes on only if a mapping that was there, or was just put
in, still matches that offset after the insertion; if the group had moved by 20
bytes, that mapping would have to name a node that begins within 20 bytes of it, and no node is
that short. `SinceInput` relates the table with the one the run has read:
nothing is lost and what is new names the group. `DoneBefore` and `DoneByNow` say what earlier
runs and this one have done (`RoundDoes`, `HttuDoes`: no step undoes another's),
`Settled` that a step whose work is done is the identity (`HttuSettles`,
`RoundSettles`), and `StillReady` that no step spoils an upgradable
table (`RoundReady`), so that a refusal blames the input. `Outranks`, beside both, follows the
revision: a run begins with no less than the firmware's and writes one more.

For `OneResult` the third one, `KInv`, says that the nodes are `Made(firmware,
options, rounds)`: dirty bits first, then the rounds, in one go. A run
that adds dirty bits to a table with MSI is the hard case: `HttuAnyTime` moves
them past the rounds, by `AlikeRounds`, and at the bottom `HttuMoved`,
`HttuGrown` and `HttuEnabled`.

**Assembly.** `LinkLeads` computes where the link at a path of any depth leads: up as many
directories as the path has, and down the same path. `SplitKeepsPaths` follows by
the two cases of `Split`.

**Version selection.** Three programs choose from three lists, so the invariant
relates each choice to the list it came from: `Retained` (one name of each
line is kept, and its key is what the whole list had), `Chosen` and `Judged` (matrix and
verdict are of the present lists). That a newest name exists is proved by counting:
the name with the fewest newer ones has none (`NewestThere`). Two newest names have
one key (`NewestAlike`), which is why the order of a listing does not matter.

**Workflow.** `WholeInv` is inductive. `Settled`: a job that is done has only needs
that are done; it survives a repetition in part because `Dependents` is closed,
which `DependentsClosed` shows by the rank of a job, since the graph has no path
of more than six jobs. `Current`: the inputs, the configurations of
done jobs and, unless a cleanup has been left half-way (`torn`), the newest builds of done
jobs are all from one attempt's inputs. `SelfMade`: each copy, of whatever attempt, was built from the
configuration frozen with its inputs, so that a set is so too however its rows were
picked. `Kept`: while the inputs are done and nothing expires they are there. `ForkKeeps`:
the run of a fork leaves no cleanup half-way, as it deletes nothing. `CleanupGoesOn`: a cleanup runs only in
the job that has stored the set. `AssembledWhole` then comes from what
`Assembles` accepts, from `SplitKeepsPaths` for the headers, and from `Current` for the
inputs: `leftover` is `torn` at the assembly.

Only model-checked: `CommandsEnd`, `ReachableCatchUp` and `Published`, as liveness
under fairness is out of the prover's reach.

Assumptions of the modules (`TmpfsAssumption`, `KconfigAssumption`, those of
`ExternalInputs`, `BoundsAssumption`) give the constants their types; that of the
options is what argparse's choices let through.
`ChoiceAssumption` is what a Kconfig `choice` guarantees of the files that users save: at most one
firmware stack of the DSP (declared in the SOF patch `0021`) and one compression of
the initramfs are on, a tree declares the firmware stacks together, and KASAN
with its modes. `ProviderAssumption`: the vendor's patches (found by
`resolve_vendor_mode`, or stated with `--cix-patches yes`) are in a tree that has the
subsystems they plug into.
`Versioned` is a hypothesis and no `ASSUME`: names are finitely many, have version
numbers, and write out a revision above 0 (the name pattern of `select_ebuilds`); no line
is required that is too old to be built. `NamesVersioned` shows it of the names of the run.
`NoBundleAssumption`, `AbsentAssumption` and `NoneAssumption` say that the absence of a
bundle, of a file or of an artifact is none of these. `IortAssumption` says of
firmware tables what a header check does not: that their nodes lie side by side
up to the end. `NamedAssumption` says that a mapping names the beginning of a
node and that a node is longer than a mapping (the IORT specification: an ITS
group, the smallest, has 24 bytes, a mapping 20). The builder does not check it;
`TypeCorrect`, `ReferencesFollow` and `NodesTile` do without it. `PathsAssumption` says that paths are non-empty sequences of names, and
`TreeAssumption` that a build makes no link into the common package.

## What is not modelled

* tmpfs: the search for the mount point's path and the size arithmetic; a path of
  several components, whose parents the mirror by `cp` does not make, so that a start may fail at
  the copy (as it does with the fault `mirror`); a
  `.old` inside the overlay; a failing `umount` of commit's temporary mount. OpenRC's
  lock around a command is assumed.
* kconfig: `fragment` mode prints the same updates; `patch` mode and the NPU
  ABI scanner only read and print text. The values of tables are represented by
  a few symbols each. The list that `--acpi-table-upgrade-initramfs-source` names is taken to be
  one of the mode asked for, as the package workflow does and as the default is:
  `INITRAMFS_SOURCE` is the mode of its list.
* external inputs: what validators look at inside a file; how
  `fetch-ubuntu-configs.sh` finds a configuration; withdrawn releases; a failure
  of `shutil.move`, which ends the run as `Kill` does.
* IORT: bytes that are no field of a node; the signature, which is checked with the checksum
  and stands with it for one flag; a table that ends inside a node and a
  node that outgrows its 16-bit length are refused by the code before anything is written.
* version selection: the comparison with GitHub itself, which no workflow uses.
* workflow and assembly: what compilers and `dpkg` do inside a job; control files,
  sizes and checksums of packages; the local `Makefile`, which runs the workflow
  under act.
* source and header scripts, other init scripts, Portage hooks: sequential calls of
  external programs.
* ebuilds, eclasses, patches, profiles, accounts: recipes, vendored or
  third-party.

## Plan

What is left, in order of worth:

1. More of `KconfigUpdates`: the remaining tables of `kconfig_update.py`, each with
   the overlaps that it adds, and `patch` mode's edits of Kconfig files.
2. `WriteBackStore` for the path without rsync, with `.old` as a second durable
   copy, so that `Recoverable` becomes a refinement.
3. Weaker forms of `SafeConfig` in the theorems: each fault dropped from it with the property it still leaves.
4. `fetch-ubuntu-configs.sh` as a part of the refresh: what of a seed may be stale
   or partial when one of its downloads fails.
