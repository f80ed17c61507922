------------------------- MODULE KconfigHelper_proofs -------------------------
(***************************************************************************)
(* For every kernel tree, command line, .config and edit, and for every    *)
(* number of runs: the helper's files and what its runs leave in them.     *)
(***************************************************************************)
EXTENDS KconfigHelper, KconfigUpdates_proofs

-----------------------------------------------------------------------------
(* Texts *)

LEMMA BlankConfig == Blank \in Configs
BY DEF Blank, Configs, Values

LEMMA TextConfig ==
  ASSUME NEW f \in Configs \cup {Torn}
  PROVE  Text(f) \in Configs
BY BlankConfig DEF Text

LEMMA NoOption == NoOptions \notin Options
BY KconfigAssumption DEF NoOptions, KconfigAssumption

LEMMA OptionTypes ==
  \A o \in Options : o.upgrade \in {"none", "ssdt", "dsdt"} /\ o.hifi5 \in {"none", "xaf", "sof"}
BY KconfigAssumption DEF KconfigAssumption

LEMMA AppliedConfig ==
  ASSUME NEW o \in Options, NEW tree, NEW current \in Configs, NEW text \in Configs
  PROVE  ApplyUpdates(text, Updates(o, tree, current)) \in Configs
<1> DEFINE after == ApplyUpdates(text, Updates(o, tree, current))
<1>1. after = [s \in Symbols |-> after[s]]
  BY DEF ApplyUpdates
<1>2. \A s \in Symbols : after[s] \in Values
  <2> TAKE s \in Symbols
  <2>1. after[s] = text[s] \/ after[s] \in Allowed(o, tree, current, s)
    <3> HIDE DEF after
    <3>1. after = ApplyUpdates(text, Updates(o, tree, current))
      BY DEF after
    <3> QED BY <3>1, OptionTypes, AppliedAllowed
  <2> QED BY <2>1 DEF Allowed, Configs
<1> HIDE DEF after
<1> QED BY <1>1, <1>2 DEF Configs, after

\* A run writes the firmware interface, so that no result reads as blank.
LEMMA NeverBlank ==
  ASSUME NEW o \in Options, NEW tree, NEW current \in Configs, NEW text
  PROVE  ApplyUpdates(text, Updates(o, tree, current)) # Blank
<1>1. "ACPI" \in Symbols /\ "ACPI" \in Mentioned(o, tree, current)
  BY DEF Symbols, Switches, BoolSymbols, Firmware, Mentioned
<1>2. \A after : after = ApplyUpdates(text, Updates(o, tree, current)) =>
                    after["ACPI"] \in Allowed(o, tree, current, "ACPI")
  BY <1>1, OptionTypes, AppliedAllowed
<1>3. Blank["ACPI"] = "absent"
  BY <1>1 DEF Blank
<1> QED BY <1>2, <1>3 DEF Allowed

-----------------------------------------------------------------------------
(* The inductive invariant *)

\* What a run makes of a text that it read once and again.
Result(o, text, current) == ApplyUpdates(text, Updates(o, Trees[o.tree], current))

\* The run has legal options, and from "decide" on the text to write.
Decided ==
  /\ pc # "idle" => LegalOptions(opts)
  /\ pc \notin {"idle", "build"} =>
       \E current \in Configs :
         updated = Result(opts, original, current) /\ (~Overlap => current = original)

\* Without a user beside it, what the helper read is what is in the file,
\* until it truncates the file.
Reading ==
  ~Overlap =>
    /\ pc \in {"build", "decide", "backup", "truncate"} => original = Text(target)
    /\ pc = "write" => target = Torn

\* The last backup is the one of this run.
BackingUp ==
  /\ pc \in {"backup", "truncate"} => Len(backups) > 0
  /\ pc = "backup" => backups[Len(backups)] = Torn
  /\ pc = "truncate" => backups[Len(backups)] = original

\* The file is what the run that ended last made of some text.
Landed ==
  ~Overlap /\ last # NoOptions /\ pc # "write" =>
    /\ LegalOptions(last)
    /\ \E text \in Configs : target = Result(last, text, text)

Inv == TypeOK /\ Decided /\ Reading /\ BackingUp /\ (~Overlap => Recoverable) /\ Landed

LEMMA InitInv == Init => Inv
<1> SUFFICES ASSUME Init PROVE Inv
  OBVIOUS
<1>1. TypeOK
  <2>1. target \in Configs /\ saved \in Configs
    BY KconfigAssumption DEF Init, KconfigAssumption
  <2>2. backups \in Seq(Configs \cup {Torn})
    BY DEF Init
  <2>3. runs \in 0..MaxRuns /\ edits \in 0..MaxEdits
    BY KconfigAssumption DEF Init, KconfigAssumption
  <2> QED BY <2>1, <2>2, <2>3, BlankConfig DEF Init, TypeOK
<1>2. Decided /\ Reading /\ BackingUp /\ Recoverable /\ Landed
  BY DEF Init, Decided, Reading, BackingUp, Recoverable, Landed
<1> QED BY <1>1, <1>2 DEF Inv

-----------------------------------------------------------------------------
(* The types *)

LEMMA FinishType ==
  ASSUME TypeOK, Finish
  PROVE  /\ pc' = "idle" /\ opts' = NoOptions
         /\ original' \in Configs /\ updated' \in Configs
BY BlankConfig DEF Finish

\* The user never saves a torn file.
LEMMA UserSaves ==
  ASSUME TypeOK, User
  PROVE  \E config \in Configs : Save(config)
<1>1. CASE Replace
  BY <1>1, KconfigAssumption DEF Replace, KconfigAssumption
<1>2. ASSUME NEW e \in Edits, Edit(e)
      PROVE  \E config \in Configs : Save(config)
  <2>1. target \in Configs /\ e[1] \in Symbols /\ e[2] \in Values
    BY <1>2, KconfigAssumption DEF Edit, TypeOK, KconfigAssumption
  <2>2. [target EXCEPT ![e[1]] = e[2]] \in Configs
    BY <2>1 DEF Configs
  <2> QED BY <1>2, <2>2 DEF Edit
<1>3. ASSUME NEW i \in DOMAIN backups, PutBack(i)
      PROVE  \E config \in Configs : Save(config)
  <2>1. backups[i] \in Configs
    BY <1>3 DEF PutBack, TypeOK
  <2> QED BY <1>3, <2>1 DEF PutBack
<1> QED BY <1>1, <1>2, <1>3 DEF User

LEMMA TypeStep ==
  ASSUME Inv, [Next]_vars
  PROVE  TypeOK'
<1>0. TypeOK /\ BackingUp
  BY DEF Inv
<1> USE <1>0 DEF TypeOK
<1>1. ASSUME NEW o \in Options, Start(o)
      PROVE  TypeOK'
  <2>1. original' \in Configs
    BY <1>1, TextConfig DEF Start
  <2>2. runs' \in 0..MaxRuns
    BY <1>1, KconfigAssumption DEF Start, KconfigAssumption
  <2> QED BY <1>1, <2>1, <2>2, NoOption DEF Start, files
<1>2. CASE Refuse
  BY <1>2, FinishType DEF Refuse, files, history
<1>3. CASE Build
  <2>1. updated' \in Configs
    BY <1>3, TextConfig, AppliedConfig DEF Build
  <2> QED BY <1>3, <2>1 DEF Build, files, history
<1>4. CASE NothingToDo
  BY <1>4, FinishType DEF NothingToDo, files
<1>5. CASE DryRun
  BY <1>5, FinishType DEF DryRun, files, history
<1>6. CASE OpenBackup
  <2>1. backups' \in Seq(Configs \cup {Torn})
    BY <1>6, AppendProperties DEF OpenBackup
  <2> QED BY <1>6, <2>1 DEF OpenBackup, history
<1>7. CASE WriteBackup
  <2>1. backups' \in Seq(Configs \cup {Torn})
    <3>1. Len(backups) \in 1..Len(backups) /\ original \in Configs \cup {Torn}
      BY <1>7 DEF WriteBackup, BackingUp
    <3> QED BY <1>7, <3>1, ExceptSeq DEF WriteBackup
  <2> QED BY <1>7, <2>1 DEF WriteBackup, history
<1>8. CASE OpenTarget
  BY <1>8 DEF OpenTarget, history
<1>9. CASE WriteTarget
  BY <1>9, FinishType DEF WriteTarget
<1>10. CASE Crash
  BY <1>10, FinishType DEF Crash, files
<1>11. ASSUME NEW config \in Configs, Save(config)
       PROVE  TypeOK'
  <2>1. edits' \in 0..MaxEdits
    BY <1>11, KconfigAssumption DEF Save, KconfigAssumption
  <2> QED BY <1>11, <2>1 DEF Save
<1>12. CASE User
  BY <1>11, <1>12, UserSaves
<1>13. CASE UNCHANGED vars
  BY <1>13 DEF vars
<1> QED BY <1>1, <1>2, <1>3, <1>4, <1>5, <1>6, <1>7, <1>8, <1>9, <1>10, <1>12, <1>13
        DEF Next, Helper

-----------------------------------------------------------------------------
(* The other parts of the invariant *)

\* Where the helper is idle nothing is known of its run.
LEMMA Idle ==
  ASSUME pc' = "idle"
  PROVE  Decided' /\ BackingUp' /\ Reading'
BY DEF Decided, BackingUp, Reading

LEMMA DecidedStep ==
  ASSUME Inv, [Next]_vars
  PROVE  Decided'
<1>0. TypeOK /\ Decided /\ Reading
  BY DEF Inv
<1> USE <1>0
<1>1. ASSUME NEW o \in Options, Start(o)
      PROVE  Decided'
  BY <1>1 DEF Start, Decided
<1>2. CASE Build
  <2>1. Text(target) \in Configs
    BY TextConfig DEF TypeOK
  <2>2. updated' = Result(opts, original, Text(target)) /\ opts' = opts /\ original' = original
    BY <1>2 DEF Build, Result, Tree, history
  <2>3. ~Overlap => Text(target) = original
    BY <1>2 DEF Build, Reading
  <2>4. LegalOptions(opts)
    BY <1>2 DEF Build, Decided
  <2>5. \E current \in Configs :
          updated' = Result(opts', original', current) /\ (~Overlap => current = original')
    BY <2>1, <2>2, <2>3
  <2> QED BY <2>2, <2>4, <2>5 DEF Decided
<1>3. CASE OpenBackup \/ WriteBackup \/ OpenTarget
  <2>1. opts' = opts /\ original' = original /\ updated' = updated
    BY <1>3 DEF OpenBackup, WriteBackup, OpenTarget
  <2>2. pc \notin {"idle", "build"}
    BY <1>3 DEF OpenBackup, WriteBackup, OpenTarget
  <2> QED BY <2>1, <2>2 DEF Decided
<1>4. CASE Refuse \/ NothingToDo \/ DryRun \/ WriteTarget \/ Crash
  BY <1>4, Idle DEF Refuse, NothingToDo, DryRun, WriteTarget, Crash, Finish
<1>5. CASE User
  <2>1. opts' = opts /\ original' = original /\ updated' = updated /\ pc' = pc
    BY <1>5, UserSaves DEF Save
  <2> QED BY <2>1 DEF Decided
<1>6. CASE UNCHANGED vars
  BY <1>6 DEF vars, Decided
<1> QED BY <1>1, <1>2, <1>3, <1>4, <1>5, <1>6 DEF Next, Helper

LEMMA ReadingStep ==
  ASSUME Inv, [Next]_vars
  PROVE  Reading'
<1>0. TypeOK /\ Reading
  BY DEF Inv
<1> USE <1>0
<1>1. ASSUME NEW o \in Options, Start(o)
      PROVE  Reading'
  BY <1>1 DEF Start, Reading, files, Text
<1>2. CASE Build \/ OpenBackup \/ WriteBackup
  BY <1>2 DEF Build, OpenBackup, WriteBackup, Reading, files, Text
<1>3. CASE OpenTarget
  BY <1>3 DEF OpenTarget, Reading
<1>4. CASE Refuse \/ NothingToDo \/ DryRun \/ WriteTarget \/ Crash
  BY <1>4, Idle DEF Refuse, NothingToDo, DryRun, WriteTarget, Crash, Finish
<1>5. CASE User
  <2>1. (pc = "idle" \/ Overlap) /\ pc' = pc
    BY <1>5, UserSaves DEF Save
  <2> QED BY <2>1 DEF Reading
<1>6. CASE UNCHANGED vars
  BY <1>6 DEF vars, Reading, Text
<1> QED BY <1>1, <1>2, <1>3, <1>4, <1>5, <1>6 DEF Next, Helper

LEMMA BackingUpStep ==
  ASSUME Inv, [Next]_vars
  PROVE  BackingUp'
<1>0. TypeOK /\ BackingUp
  BY DEF Inv
<1> USE <1>0
<1>1. ASSUME NEW o \in Options, Start(o)
      PROVE  BackingUp'
  BY <1>1 DEF Start, BackingUp
<1>2. CASE Build \/ OpenTarget
  BY <1>2 DEF Build, OpenTarget, BackingUp
<1>3. CASE OpenBackup
  <2>1. backups' = Append(backups, Torn) /\ backups \in Seq(Configs \cup {Torn})
    BY <1>3 DEF OpenBackup, TypeOK
  <2>2. Len(backups') > 0 /\ backups'[Len(backups')] = Torn
    BY <2>1
  <2> QED BY <1>3, <2>2 DEF OpenBackup, BackingUp
<1>4. CASE WriteBackup
  <2>1. /\ backups' = [backups EXCEPT ![Len(backups)] = original]
        /\ backups \in Seq(Configs \cup {Torn}) /\ Len(backups) > 0
        /\ original \in Configs \cup {Torn} /\ original' = original
    BY <1>4 DEF WriteBackup, TypeOK, BackingUp
  <2>2. Len(backups') = Len(backups) /\ backups'[Len(backups)] = original
    BY <2>1
  <2> QED BY <1>4, <2>1, <2>2 DEF WriteBackup, BackingUp
<1>5. CASE Refuse \/ NothingToDo \/ DryRun \/ WriteTarget \/ Crash
  BY <1>5, Idle DEF Refuse, NothingToDo, DryRun, WriteTarget, Crash, Finish
<1>6. CASE User
  <2>1. backups' = backups /\ pc' = pc /\ original' = original
    BY <1>6, UserSaves DEF Save
  <2> QED BY <2>1 DEF BackingUp
<1>7. CASE UNCHANGED vars
  BY <1>7 DEF vars, BackingUp
<1> QED BY <1>1, <1>2, <1>3, <1>4, <1>5, <1>6, <1>7 DEF Next, Helper

\* The backups of a step: one more, or the torn one filled.
LEMMA BackupsStep ==
  ASSUME Inv, [Next]_vars
  PROVE  \A i \in DOMAIN backups : i \in DOMAIN backups' /\ backups[i] \in {backups'[i], Torn}
<1>0. backups \in Seq(Configs \cup {Torn}) /\ BackingUp
  BY DEF Inv, TypeOK
<1>1. CASE UNCHANGED backups
  BY <1>1
<1>2. CASE OpenBackup
  <2>1. backups' = Append(backups, Torn)
    BY <1>2 DEF OpenBackup
  <2> QED BY <1>0, <2>1
<1>3. CASE WriteBackup
  <2>1. backups' = [backups EXCEPT ![Len(backups)] = original]
    BY <1>3 DEF WriteBackup
  <2>2. backups[Len(backups)] = Torn
    BY <1>0, <1>3 DEF WriteBackup, BackingUp
  <2>3. DOMAIN backups' = DOMAIN backups
    BY <2>1
  <2>4. \A i \in DOMAIN backups : i # Len(backups) => backups'[i] = backups[i]
    BY <2>1
  <2> QED BY <2>2, <2>3, <2>4
<1>4. CASE User
  BY <1>1, <1>4, UserSaves DEF Save, Inv
<1> QED BY <1>1, <1>2, <1>3, <1>4 DEF Next, Helper, Start, Refuse, Build, NothingToDo, DryRun,
        OpenTarget, WriteTarget, Crash, files, vars

LEMMA RecoverableStep ==
  ASSUME Inv, ~Overlap, [Next]_vars
  PROVE  Recoverable'
<1>0. TypeOK /\ Reading /\ BackingUp /\ Recoverable
  BY DEF Inv
<1> DEFINE Kept == {backups[i] : i \in DOMAIN backups}
<1>1. saved # Torn
  BY <1>0, KconfigAssumption DEF TypeOK, KconfigAssumption
\* What a backup holds it holds also after the step.
<1>2. saved \in Kept => saved \in Kept'
  <2> SUFFICES ASSUME NEW i \in DOMAIN backups, saved = backups[i]
               PROVE  saved \in Kept'
    OBVIOUS
  <2>1. i \in DOMAIN backups' /\ backups'[i] = saved
    BY <1>1, BackupsStep
  <2> QED BY <2>1
<1> HIDE DEF Kept
<1>3. saved = target \/ saved \in Kept
  BY <1>0 DEF Recoverable, Kept
<1>4. CASE User
  <2>1. saved' = target'
    BY <1>0, <1>4, UserSaves DEF Save
  <2> QED BY <2>1 DEF Recoverable
<1>5. CASE saved' = saved /\ target' = target
  BY <1>2, <1>3, <1>5 DEF Recoverable, Kept
<1>6. CASE OpenTarget
  <2>1. saved' = saved /\ backups' = backups
    BY <1>6 DEF OpenTarget, history
  <2>2. saved = target => saved = backups[Len(backups)]
    BY <1>0, <1>1, <1>6 DEF OpenTarget, Reading, BackingUp, Text
  <2>3. backups[Len(backups)] \in Kept
    <3>1. backups \in Seq(Configs \cup {Torn}) /\ Len(backups) > 0
      BY <1>0, <1>6 DEF TypeOK, OpenTarget, BackingUp
    <3> QED BY <3>1 DEF Kept
  <2> QED BY <1>2, <1>3, <2>1, <2>2, <2>3 DEF Recoverable, Kept
<1>7. CASE WriteTarget
  <2>1. saved' = saved /\ target = Torn
    BY <1>0, <1>7 DEF WriteTarget, Reading
  <2> QED BY <1>1, <1>2, <1>3, <2>1 DEF Recoverable, Kept
<1> QED BY <1>4, <1>5, <1>6, <1>7 DEF Next, Helper, Start, Refuse, Build, NothingToDo, DryRun,
        OpenBackup, WriteBackup, Crash, files, history, vars

LEMMA LandedStep ==
  ASSUME Inv, ~Overlap, [Next]_vars
  PROVE  Landed'
<1>0. TypeOK /\ Decided /\ Reading /\ Landed
  BY DEF Inv
\* The steps that leave what the last run made as it is.
<1>1. ASSUME last' = last, target' = target, pc # "write"
      PROVE  Landed'
  BY <1>0, <1>1 DEF Landed, Result
<1>2. CASE NothingToDo
  <2>1. PICK current \in Configs : updated = Result(opts, original, current) /\ current = original
    BY <1>0, <1>2 DEF NothingToDo, Decided
  <2>2. LegalOptions(opts) /\ opts \in Options
    BY <1>0, <1>2 DEF NothingToDo, Decided, TypeOK
  <2>3. original = Text(target) /\ updated = original
    BY <1>0, <1>2 DEF NothingToDo, Reading
  <2>4. original # Blank
    BY <2>1, <2>2, <2>3, NeverBlank DEF Result
  <2>5. target = Result(opts, original, original)
    BY <2>1, <2>3, <2>4 DEF Text
  <2> QED BY <1>2, <2>1, <2>2, <2>5 DEF NothingToDo, files, Landed, Result
<1>3. CASE OpenTarget
  BY <1>3 DEF OpenTarget, Landed
<1>4. CASE WriteTarget
  <2>1. PICK current \in Configs : updated = Result(opts, original, current) /\ current = original
    BY <1>0, <1>4 DEF WriteTarget, Decided
  <2>2. LegalOptions(opts)
    BY <1>0, <1>4 DEF WriteTarget, Decided
  <2> QED BY <1>4, <2>1, <2>2 DEF WriteTarget, Landed, Result
<1>5. CASE Crash
  BY <1>5 DEF Crash, Landed
<1>6. CASE User
  BY <1>0, <1>6, UserSaves DEF Save, Landed
<1>7. CASE (\E o \in Options : Start(o)) \/ Refuse \/ Build \/ DryRun \/ OpenBackup \/ WriteBackup
  BY <1>1, <1>7 DEF Start, Refuse, Build, DryRun, OpenBackup, WriteBackup, files, history
<1>8. CASE UNCHANGED vars
  BY <1>0, <1>8 DEF vars, Landed, Result
<1> QED BY <1>2, <1>3, <1>4, <1>5, <1>6, <1>7, <1>8 DEF Next, Helper

LEMMA InvStep ==
  ASSUME Inv, [Next]_vars
  PROVE  Inv'
<1>1. TypeOK' /\ Decided' /\ Reading' /\ BackingUp'
  BY TypeStep, DecidedStep, ReadingStep, BackingUpStep
<1>2. ~Overlap => Recoverable'
  BY RecoverableStep
<1>3. Landed'
  <2>1. CASE Overlap
    BY <2>1 DEF Landed
  <2>2. CASE ~Overlap
    BY <2>2, LandedStep
  <2> QED BY <2>1, <2>2
<1> QED BY <1>1, <1>2, <1>3 DEF Inv

-----------------------------------------------------------------------------
(* The choices of Kconfig *)

\* No text, in the files or in the helper, has two members of a choice on.
Chosen ==
  /\ OneOfEach(original) /\ OneOfEach(updated)
  /\ target # Torn => OneOfEach(target)
  /\ \A i \in DOMAIN backups : backups[i] # Torn => OneOfEach(backups[i])

LEMMA BlankChosen == OneOfEach(Blank)
<1>1. FirmwareStacks \cup Compressions \subseteq Symbols
  BY DEF FirmwareStacks, Compressions, Symbols, Switches, BoolSymbols
<1>2. \A s \in FirmwareStacks \cup Compressions : Blank[s] = "absent"
  BY <1>1 DEF Blank
<1> QED BY <1>2 DEF OneOfEach, Apart, On, FirmwareStacks, Compressions

LEMMA InitChosen == Init => Chosen
BY BlankChosen, ChoiceAssumption DEF Init, Chosen, ChoiceAssumption

LEMMA SavedChosen ==
  ASSUME Inv, Chosen, User
  PROVE  OneOfEach(target') /\ UNCHANGED <<backups, original, updated>>
<1>1. CASE Replace
  BY <1>1, ChoiceAssumption DEF Replace, Save, ChoiceAssumption
<1>2. ASSUME NEW e \in Edits, Edit(e)
      PROVE  OneOfEach(target') /\ UNCHANGED <<backups, original, updated>>
  <2>1. target' = [target EXCEPT ![e[1]] = e[2]] /\ OneOfEach(target)
    BY <1>2 DEF Edit, Save, Chosen
  <2>2. e[1] \in FirmwareStacks \cup Compressions => ~On(e[2])
    BY ChoiceAssumption DEF ChoiceAssumption
  <2>3. target \in Configs
    BY <1>2 DEF Edit, Inv, TypeOK
  <2>4. FirmwareStacks \cup Compressions \subseteq Symbols
    BY DEF FirmwareStacks, Compressions, Symbols, Switches, BoolSymbols
  <2>5. \A s \in FirmwareStacks \cup Compressions : On(target'[s]) => On(target[s])
    BY <2>1, <2>2, <2>3, <2>4 DEF Configs
  <2>6. OneOfEach(target')
    BY <2>1, <2>5 DEF OneOfEach, Apart, FirmwareStacks, Compressions
  <2> QED BY <1>2, <2>6 DEF Edit, Save
<1>3. ASSUME NEW i \in DOMAIN backups, PutBack(i)
      PROVE  OneOfEach(target') /\ UNCHANGED <<backups, original, updated>>
  BY <1>3 DEF PutBack, Save, Chosen
<1> QED BY <1>1, <1>2, <1>3 DEF User

LEMMA BuiltChosen ==
  ASSUME Inv, Chosen, Build
  PROVE  OneOfEach(updated')
<1>1. opts \in Options
  BY DEF Build, Inv, TypeOK
<1>2. Text(target) \in Configs
  BY TextConfig DEF Inv, TypeOK
<1>3. updated' = ApplyUpdates(original, Updates(opts, Tree, Text(target)))
  BY DEF Build
<1>4. OneOfEach(original)
  BY DEF Chosen
<1>5. FirmwareStacks \subseteq Tree.symbols \/ FirmwareStacks \cap Tree.symbols = {}
  BY <1>1, KconfigAssumption, ChoiceAssumption DEF KconfigAssumption, ChoiceAssumption, Tree
<1> QED BY <1>1, <1>2, <1>3, <1>4, <1>5, OptionTypes, ChoicesKept

LEMMA ChosenStep ==
  ASSUME Inv, Chosen, [Next]_vars
  PROVE  Chosen'
<1>1. ASSUME NEW o \in Options, Start(o)
      PROVE  Chosen'
  BY <1>1, BlankChosen DEF Start, Chosen, files, Text
<1>2. CASE Build
  BY <1>2, BuiltChosen DEF Build, Chosen, files
<1>3. CASE Refuse \/ NothingToDo \/ DryRun \/ Crash
  BY <1>3, BlankChosen DEF Refuse, NothingToDo, DryRun, Crash, Finish, Chosen, files
<1>4. CASE OpenBackup
  <2>1. backups' = Append(backups, Torn) /\ backups \in Seq(Configs \cup {Torn})
    BY <1>4 DEF OpenBackup, Inv, TypeOK
  <2>2. \A i \in DOMAIN backups' :
          backups'[i] = Torn \/ (i \in DOMAIN backups /\ backups'[i] = backups[i])
    BY <2>1
  <2> QED BY <1>4, <2>2 DEF OpenBackup, Chosen
<1>5. CASE WriteBackup
  <2>1. backups' = [backups EXCEPT ![Len(backups)] = original]
    BY <1>5 DEF WriteBackup
  <2>2. \A i \in DOMAIN backups' :
          i \in DOMAIN backups /\ backups'[i] \in {original, backups[i]}
    BY <2>1
  <2> QED BY <1>5, <2>2 DEF WriteBackup, Chosen
<1>6. CASE OpenTarget
  BY <1>6 DEF OpenTarget, Chosen
<1>7. CASE WriteTarget
  BY <1>7, BlankChosen DEF WriteTarget, Finish, Chosen
<1>8. CASE User
  BY <1>8, SavedChosen DEF Chosen
<1>9. CASE UNCHANGED vars
  BY <1>9 DEF vars, Chosen
<1> QED BY <1>1, <1>2, <1>3, <1>4, <1>5, <1>6, <1>7, <1>8, <1>9 DEF Next, Helper

-----------------------------------------------------------------------------
(* What one invariant state says of the updates and of the result *)

\* A run leaves each of the four symbols a profile only turns on as it was or
\* turns it on.
LEMMA EnableOnlyInv == Inv => EnableOnlyKept
<1> SUFFICES ASSUME Inv, pc = "decide",
                    NEW s \in MemoryDebugEnableOnly \cup QualificationEnableOnly,
                    original[s] = "y"
             PROVE  updated[s] = "y"
  BY DEF EnableOnlyKept
<1>1. PICK current \in Configs : updated = Result(opts, original, current)
  BY DEF Inv, Decided
<1>2. opts \in Options
  BY DEF Inv, TypeOK
<1>3. s \in Symbols
  BY DEF MemoryDebugEnableOnly, QualificationEnableOnly, Symbols, Switches, BoolSymbols
<1>4. updated[s] = original[s] \/ updated[s] \in Allowed(opts, Trees[opts.tree], current, s)
  BY <1>1, <1>2, <1>3, OptionTypes, AppliedAllowed DEF Result
<1> QED BY <1>4 DEF Allowed

LEMMA TristatesInv == ~Overlap /\ Inv => TristatesKept
<1> SUFFICES ASSUME ~Overlap, Inv, pc = "decide", ~opts.rewrite, opts.hifi5 = "none",
                    NEW s \in TristateSymbols
             PROVE  KeepsDriver(s, original[s], updated[s])
  BY DEF TristatesKept, DriversKept, KeepsDriver
<1>1. updated = Result(opts, original, original)
  BY DEF Inv, Decided
<1>2. opts \in Options /\ original \in Configs
  BY DEF Inv, TypeOK
<1>3. s \in Symbols
  BY DEF Symbols, Switches
<1>4. updated[s] = original[s] \/ updated[s] \in Allowed(opts, Trees[opts.tree], original, s)
  BY <1>1, <1>2, <1>3, OptionTypes, AppliedAllowed DEF Result
<1>5. KeepsDriver(s, original[s], original[s])
  BY DEF KeepsDriver
<1> QED BY <1>4, <1>5 DEF Allowed

\* Where no run is under way the file has the allowed values.
LEMMA DoneAllowed ==
  ASSUME ~Overlap, Inv, Done
  PROVE  /\ last \in Options /\ LegalOptions(last)
         /\ \E text \in Configs : \A s \in Symbols :
              s \in Mentioned(last, Trees[last.tree], text) =>
                target[s] \in Allowed(last, Trees[last.tree], text, s)
<1>1. last \in Options /\ LegalOptions(last)
  BY DEF Inv, TypeOK, Landed, Done
<1>2. PICK text \in Configs : target = Result(last, text, text)
  BY DEF Inv, Landed, Done
<1>3. \A s \in Symbols :
        s \in Mentioned(last, Trees[last.tree], text) =>
          target[s] \in Allowed(last, Trees[last.tree], text, s)
  BY <1>1, <1>2, OptionTypes, AppliedAllowed DEF Result
<1> QED BY <1>1, <1>3

LEMMA SofInv == ~Overlap /\ Inv => SofHasItsTables
<1> SUFFICES ASSUME ~Overlap, Inv, Done, Left("SND_SOC_SOF_CIX_SKY1")
             PROVE  target["ACPI_TABLE_UPGRADE"] = "y" /\ target["INITRAMFS_SOURCE"] = "dsdt"
  BY DEF SofHasItsTables
<1> DEFINE sof == "SND_SOC_SOF_CIX_SKY1"
           tree == Trees[last.tree]
<1>1. last \in Options /\ LegalOptions(last)
  BY DoneAllowed
<1>2. PICK text \in Configs : \A s \in Symbols :
        s \in Mentioned(last, tree, text) => target[s] \in Allowed(last, tree, text, s)
  BY DoneAllowed
<1>3. last.hifi5 = "sof"
  <2> SUFFICES ASSUME last.hifi5 # "sof" PROVE FALSE
    OBVIOUS
  <2>1. sof \in tree.symbols /\ On(target[sof])
    BY DEF Left
  <2>2. sof \in Switches
    BY DEF Switches, TristateSymbols
  <2>3. sof \in HiFi5Excluded(last)
    BY <1>1, OptionTypes DEF HiFi5Excluded
  <2>4. sof \in Mentioned(last, tree, text)
    BY <2>1, <2>2, <2>3 DEF Mentioned, In, Settable, HiFi5Switches
  <2>5. target[sof] \in Allowed(last, tree, text, sof)
    BY <1>2, <2>2, <2>4 DEF Symbols
  <2> QED BY <2>1, <2>5 DEF Allowed, On
<1>4. last.upgrade = "dsdt"
  BY <1>1, <1>3 DEF LegalOptions
<1>5. {"ACPI_TABLE_UPGRADE", "INITRAMFS_SOURCE"} \subseteq Symbols
  BY DEF Symbols, Switches, BoolSymbols, ValueSymbols
<1>6. {"ACPI_TABLE_UPGRADE", "INITRAMFS_SOURCE"} \subseteq Mentioned(last, tree, text)
  BY <1>4 DEF Mentioned, TableUpgrade
<1>7. /\ target["ACPI_TABLE_UPGRADE"] \in Allowed(last, tree, text, "ACPI_TABLE_UPGRADE")
      /\ target["INITRAMFS_SOURCE"] \in Allowed(last, tree, text, "INITRAMFS_SOURCE")
  BY <1>2, <1>5, <1>6
<1> QED BY <1>4, <1>7 DEF Allowed, Is

LEMMA DiagnosticsInv == ~Overlap /\ Inv => DiagnosticsServed
<1> SUFFICES ASSUME ~Overlap, Inv, Done
             PROVE  DiagnosticsServed
  BY DEF DiagnosticsServed
<1> DEFINE tree == Trees[last.tree]
           Owned == KasanSymbols \cup Qualification \cup FaultInjection
                      \cup (MemoryDebug \ (MemoryDebugEnableOnly \cup {"SLUB_DEBUG"}))
<1>1. last \in Options
  BY DoneAllowed
<1>2. PICK text \in Configs : \A s \in Symbols :
        s \in Mentioned(last, tree, text) => target[s] \in Allowed(last, tree, text, s)
  BY DoneAllowed
<1>3. tree.symbols \subseteq Symbols
  BY <1>1, KconfigAssumption DEF KconfigAssumption
<1>4. \A s \in (Wanted(last, tree) \cup Unwanted(last, tree, text)) \cap tree.symbols :
        s \in Mentioned(last, tree, text)
  BY DEF Mentioned, Diagnostics
<1> HIDE DEF tree
<1>5. ASSUME NEW s \in Facilities \cap tree.symbols,
             s \in Wanted(last, tree) \cup Unwanted(last, tree, text)
      PROVE  target[s] = Is(s \in Wanted(last, tree))
  <2>1. target[s] \in Allowed(last, tree, text, s)
    BY <1>2, <1>3, <1>4, <1>5
  <2> QED BY <1>5, <2>1 DEF Allowed
<1>6. ASSUME NEW S, S \subseteq Wanted(last, tree), S \subseteq Facilities
      PROVE  \A s \in S \cap tree.symbols : target[s] = "y"
  BY <1>5, <1>6 DEF Is
<1>7. last.memdebug => \A s \in MemoryDebug \cap tree.symbols : target[s] = "y"
  <2>1. last.memdebug => MemoryDebug \subseteq Wanted(last, tree)
    BY DEF Wanted
  <2> QED BY <1>6, <2>1 DEF Facilities
<1>8. last.rq =>
        \A s \in (Qualification \cup QualificationEnableOnly) \cap tree.symbols : target[s] = "y"
  <2>1. last.rq => Qualification \cup QualificationEnableOnly \subseteq Wanted(last, tree)
    BY DEF Wanted
  <2> QED BY <1>6, <2>1 DEF Facilities
<1>9. last.fault =>
        \A s \in (FaultInjection \cup FaultInjectionEnableOnly) \cap tree.symbols : target[s] = "y"
  <2>1. last.fault => FaultInjection \cup FaultInjectionEnableOnly \subseteq Wanted(last, tree)
    BY DEF Wanted
  <2>2. FaultInjection \cup FaultInjectionEnableOnly \subseteq Facilities
    BY DEF FaultInjectionEnableOnly, Facilities, MemoryDebug
  <2> QED BY <1>6, <2>1, <2>2
<1>10. ~last.memdebug /\ ~last.rq /\ ~last.fault => \A s \in Owned : ~Left(s)
  <2> SUFFICES ASSUME ~last.memdebug, ~last.rq, ~last.fault, NEW s \in Owned, Left(s)
               PROVE  FALSE
    OBVIOUS
  <2>1. Wanted(last, tree) = {}
    BY DEF Wanted
  <2>2. s \in Unwanted(last, tree, text)
    <3>1. KasanSymbols \cap (MemoryDebugEnableOnly \cup {"SLUB_DEBUG"}) = {}
      BY DEF KasanSymbols, KasanChoices, MemoryDebugEnableOnly
    <3> QED BY <3>1 DEF Unwanted
  <2>3. s \in Facilities
    BY DEF Facilities
  <2>4. s \in tree.symbols /\ On(target[s])
    BY DEF Left, tree
  <2>5. target[s] = "n"
    BY <1>5, <2>1, <2>2, <2>3, <2>4 DEF Is
  <2> QED BY <2>4, <2>5 DEF On
<1> HIDE DEF Owned
<1> QED BY <1>7, <1>8, <1>9, <1>10 DEF DiagnosticsServed, tree, Owned

\* Where no run is under way the file is what the last run made of a text.
LEMMA DoneResult ==
  ASSUME ~Overlap, Inv, Done
  PROVE  /\ last \in Options /\ Trees[last.tree].symbols \subseteq Symbols
         /\ target \in Configs /\ target # Torn
         /\ \E text \in Configs :
              target = ApplyUpdates(text, Updates(last, Trees[last.tree], text))
<1>1. last \in Options
  BY DEF Inv, TypeOK, Done
<1>2. Trees[last.tree].symbols \subseteq Symbols
  BY <1>1, KconfigAssumption DEF KconfigAssumption
<1>3. PICK text \in Configs : target = Result(last, text, text)
  BY DEF Inv, Landed, Done
<1>4. target = ApplyUpdates(text, Updates(last, Trees[last.tree], text))
  BY <1>3 DEF Result
<1>5. target \in Configs
  BY <1>1, <1>4, AppliedConfig
<1>6. target # Torn
  BY <1>5, KconfigAssumption DEF KconfigAssumption
<1> QED BY <1>1, <1>2, <1>4, <1>5, <1>6

LEMMA TwoLeft ==
  ASSUME NEW s, NEW t, ~(Left(s) /\ Left(t))
  PROVE  AtMostOne({s, t})
BY DEF AtMostOne

\* A tree with both KASAN modes has KASAN, so that a run always writes the
\* generic one off.
LEMMA KasanInv ==
  ASSUME ~Overlap, Inv, Done
  PROVE  ~(Left("KASAN_HW_TAGS") /\ Left("KASAN_GENERIC"))
<1> DEFINE tree == Trees[last.tree]
<1> SUFFICES ASSUME "KASAN_HW_TAGS" \in tree.symbols, "KASAN_GENERIC" \in tree.symbols,
                    On(target["KASAN_GENERIC"])
             PROVE  FALSE
  BY DEF Left
<1>1. last \in Options /\ tree.symbols \subseteq Symbols
  BY DoneResult
<1>2. PICK text \in Configs : \A s \in Symbols :
        s \in Mentioned(last, tree, text) => target[s] \in Allowed(last, tree, text, s)
  BY DoneAllowed
<1>3. "KASAN" \in tree.symbols
  BY <1>1, KconfigAssumption, ChoiceAssumption
     DEF KconfigAssumption, ChoiceAssumption, KasanChoices
<1> HIDE DEF tree
<1>4. KasanWanted(tree) = {"KASAN", "KASAN_VMALLOC", "KASAN_HW_TAGS"}
  BY <1>3 DEF KasanWanted, KasanChoices
<1>5. "KASAN_GENERIC" \notin Wanted(last, tree)
  BY <1>4 DEF Wanted, MemoryDebug, Qualification, QualificationEnableOnly, FaultInjection,
              FaultInjectionEnableOnly
<1>6. "KASAN_GENERIC" \in Unwanted(last, tree, text)
  BY <1>4 DEF Unwanted, KasanSymbols, KasanChoices, MemoryDebugEnableOnly
<1>7. "KASAN_GENERIC" \in Facilities
  BY DEF Facilities, KasanSymbols, KasanChoices
<1>8. "KASAN_GENERIC" \in Mentioned(last, tree, text)
  BY <1>6 DEF Mentioned, Diagnostics
<1>9. target["KASAN_GENERIC"] \in Allowed(last, tree, text, "KASAN_GENERIC")
  BY <1>1, <1>2, <1>8
<1>10. target["KASAN_GENERIC"] = "n"
  BY <1>5, <1>6, <1>7, <1>9 DEF Allowed, Is
<1> QED BY <1>10 DEF On

LEMMA ChoicesInv == ~Overlap /\ Inv /\ Chosen => ChoicesExclude
<1> SUFFICES ASSUME ~Overlap, Inv, Chosen, Done
             PROVE  ChoicesExclude
  BY DEF ChoicesExclude
<1> DEFINE tree == Trees[last.tree]
<1>1. last \in Options /\ target # Torn
  BY DoneResult
<1>2. PICK text \in Configs : target = ApplyUpdates(text, Updates(last, tree, text))
  BY DoneResult
<1>3. ASSUME NEW s, NEW t,
             <<s, t>> \in {<<"CIX_RADXA_ORION_O6", "CIX_RADXA_ORION_O6N">>,
                           <<"CIX_RADXA_ORION_ACPI", "CIX_RADXA_ORION_DT">>,
                           <<"R8126", "R8169">>, <<"CIX_DSP_RPROC", "SND_SOC_SOF_CIX_SKY1">>}
      PROVE  AtMostOne({s, t})
  <2> SUFFICES ASSUME s \in tree.symbols, t \in tree.symbols
               PROVE  Apart(target, s, t)
    BY TwoLeft DEF Left, Apart
  <2> HIDE DEF tree
  <2> QED BY <1>1, <1>2, <1>3, OptionTypes, PairsApart
<1>4. OneOfEach(target)
  BY <1>1 DEF Chosen
<1>5. AtMostOne({"CIX_HIFI5_FIRMWARE_XAF", "CIX_HIFI5_FIRMWARE_SOF"})
  BY <1>4, TwoLeft DEF OneOfEach, Apart, Left
<1>6. AtMostOne({"INITRAMFS_COMPRESSION_GZIP", "INITRAMFS_COMPRESSION_NONE"})
  BY <1>4, TwoLeft DEF OneOfEach, Apart, Left
<1>7. AtMostOne(KasanChoices)
  BY KasanInv, TwoLeft DEF KasanChoices
<1> QED BY <1>3, <1>5, <1>6, <1>7 DEF ChoicesExclude

LEMMA FeaturesInv == ~Overlap /\ Inv => FeaturesClosed
<1> DEFINE tree == Trees[last.tree]
<1> SUFFICES ASSUME ~Overlap, Inv, Done, Vendor(last, tree)
             PROVE  FeaturesClosed
  BY DEF FeaturesClosed
<1>1. last \in Options
  BY DoneResult
<1>2. PICK text \in Configs : target = ApplyUpdates(text, Updates(last, tree, text))
  BY DoneResult
<1>3. Providers \subseteq tree.symbols
  BY <1>1, ProviderAssumption DEF ProviderAssumption
<1>4. ASSUME NEW s, Left(s)
      PROVE  /\ s = "SND_SOC_CIX" =>
                  On(target["DRM_CIX"]) /\ On(target["SND_SOC"]) /\ On(target["SND"])
             /\ s = "SND_SOC_SOF_CIX_SKY1" => On(target["SND_SOC"]) /\ On(target["SND"])
             /\ s = "TOUCHSCREEN_GOODIX" =>
                  On(target["INPUT"]) /\ On(target["DRM_CIX"]) /\ On(target["PWM_SKY1"])
             /\ s \in {"DRM_CIX", "DRM_PANTHOR"} => On(target["DRM"])
             /\ s = "ARMCHINA_NPU" => target[s] = "m" /\ On(target["MODULES"])
  <2>1. s \in tree.symbols /\ On(target[s])
    BY <1>4 DEF Left
  <2> HIDE DEF tree
  <2> QED BY <1>1, <1>2, <1>3, <2>1, OptionTypes, FeaturesServed
<1>5. \A p \in Providers : On(target[p]) => Left(p)
  BY <1>3 DEF Left
<1>6. {"DRM", "DRM_CIX", "SND", "SND_SOC", "INPUT", "PWM_SKY1", "MODULES"} \subseteq Providers
  BY DEF Providers
<1> QED BY <1>4, <1>5, <1>6 DEF FeaturesClosed

\* A run with the options of the one that ended last starts from its result.
LEMMA SettlesInv == ~Overlap /\ Inv => Settles
<1> SUFFICES ASSUME ~Overlap, Inv, pc = "decide", last = opts,
                    NEW s \in Symbols, ~(s = "INPUT" /\ opts.rq)
             PROVE  updated[s] = original[s]
  BY DEF Settles
<1>1. opts \in Options /\ last # NoOptions
  BY NoOption DEF Inv, TypeOK
<1>2. updated = Result(opts, original, original) /\ original \in Configs
  BY DEF Inv, Decided, TypeOK
<1>3. PICK text \in Configs : target = Result(opts, text, text)
  BY <1>1 DEF Inv, Landed
<1>4. target = ApplyUpdates(text, Updates(opts, Trees[opts.tree], text))
  BY <1>3 DEF Result
<1>5. original = target
  <2>1. target \in Configs
    BY <1>1, <1>4, AppliedConfig
  <2> QED BY <2>1, KconfigAssumption DEF Inv, Reading, Text, KconfigAssumption
<1>6. updated = ApplyUpdates(original, Updates(opts, Trees[opts.tree], original))
  BY <1>2 DEF Result
<1> QED BY <1>1, <1>2, <1>4, <1>5, <1>6, OptionTypes, RunSettles

-----------------------------------------------------------------------------
(* The theorems *)

LEMMA Invariant == Spec => []Inv
BY InitInv, InvStep, PTL DEF Spec

\* kconfig_update.py: every state of the files and of a run has its type.
THEOREM TypesOK == Spec => []TypeOK
BY Invariant, PTL DEF Inv

\* What the user last saved is in the .config or in a backup, also after a
\* crash between any two of the writes, while nobody saves during a run.
THEOREM SavedIsRecoverable ==
  ASSUME ~Overlap
  PROVE  Spec => []Recoverable
<1>1. Inv => Recoverable
  BY DEF Inv
<1> QED BY <1>1, Invariant, PTL

\* The helper truncates the .config only when a backup holds its text.
THEOREM BackupComesFirst ==
  ASSUME ~Overlap
  PROVE  Spec => BackupFirst
<1>1. ASSUME Inv, [Next]_vars
      PROVE  [target' = Torn => target \in {Torn} \cup {backups[i] : i \in DOMAIN backups}]_vars
  <2> SUFFICES ASSUME Next, target' = Torn
               PROVE  target \in {Torn} \cup {backups[i] : i \in DOMAIN backups}
    BY <1>1
  <2>0. TypeOK /\ Reading /\ BackingUp
    BY <1>1 DEF Inv
  <2>1. CASE target' = target
    BY <2>1
  <2>2. CASE OpenTarget
    <3>1. target # Torn => target = backups[Len(backups)]
      BY <2>0, <2>2 DEF OpenTarget, Reading, BackingUp, Text
    <3>2. Len(backups) \in DOMAIN backups
      BY <2>0, <2>2 DEF OpenTarget, TypeOK, BackingUp
    <3> QED BY <3>1, <3>2
  <2>3. CASE WriteTarget
    BY <2>0, <2>3, KconfigAssumption DEF WriteTarget, TypeOK, KconfigAssumption
  <2>4. CASE User
    <3>1. target' \in Configs
      BY <2>0, <2>4, UserSaves DEF Save
    <3> QED BY <3>1, KconfigAssumption DEF KconfigAssumption
  <2> QED BY <2>1, <2>2, <2>3, <2>4 DEF Next, Helper, Start, Refuse, Build, NothingToDo, DryRun,
          OpenBackup, WriteBackup, Crash, files
<1> QED BY <1>1, Invariant, PTL DEF Spec, BackupFirst

\* No run and no crash takes back or rewrites a backup that was written, even
\* with the user saving during the runs.
THEOREM BackupsAreKept == Spec => BackupsKept
<1>1. ASSUME Inv, [Next]_vars
      PROVE  [\A i \in DOMAIN backups : i \in DOMAIN backups' /\
                backups[i] \in {backups'[i], Torn}]_vars
  BY <1>1, BackupsStep
<1> QED BY <1>1, Invariant, PTL DEF Spec, BackupsKept

\* build_config_updates never takes EXPERT, DEBUG_KERNEL, STACKTRACE or
\* KALLSYMS away, even when the file changes between its two readings.
THEOREM EnableOnlyIsKept == Spec => []EnableOnlyKept
BY EnableOnlyInv, Invariant, PTL

\* A run that leaves the DSP alone and does not rewrite preferences keeps the
\* drivers as they are, but for those that have to be built in or modular.
THEOREM DriversAreKept ==
  ASSUME ~Overlap
  PROVE  Spec => []TristatesKept
<1>1. Inv => TristatesKept
  BY TristatesInv
<1> QED BY <1>1, Invariant, PTL

\* After a run, until the next edit, the SOF owner of the DSP is enabled only
\* with the DSDT in the initramfs.
THEOREM SofComesWithTables ==
  ASSUME ~Overlap
  PROVE  Spec => []SofHasItsTables
<1>1. Inv => SofHasItsTables
  BY SofInv
<1> QED BY <1>1, Invariant, PTL

\* After a run, until the next edit, every enabled profile has its facilities
\* and without a profile none of the owned ones is left.
THEOREM DiagnosticsAreServed ==
  ASSUME ~Overlap
  PROVE  Spec => []DiagnosticsServed
<1>1. Inv => DiagnosticsServed
  BY DiagnosticsInv
<1> QED BY <1>1, Invariant, PTL

\* Until the next edit the file that a run leaves has one board, one firmware
\* interface, one driver of a device, one owner of the DSP and one member of
\* each choice.
THEOREM ChoicesStayExclusive ==
  ASSUME ~Overlap
  PROVE  Spec => []ChoicesExclude
<1>1. Inv /\ Chosen => ChoicesExclude
  BY ChoicesInv
<1>2. Init => Chosen
  BY InitChosen
<1>3. Inv /\ Chosen /\ [Next]_vars => Chosen'
  BY ChosenStep
<1> QED BY <1>1, <1>2, <1>3, Invariant, PTL DEF Spec

\* Until the next edit a driver that a run leaves enabled on a tree with the
\* vendor's patches has what it works through.
THEOREM FeaturesStayClosed ==
  ASSUME ~Overlap
  PROVE  Spec => []FeaturesClosed
<1>1. Inv => FeaturesClosed
  BY FeaturesInv
<1> QED BY <1>1, Invariant, PTL

\* The second of two equal runs finds nothing to do, INPUT apart.
THEOREM EqualRunsSettle ==
  ASSUME ~Overlap
  PROVE  Spec => []Settles
<1>1. Inv => Settles
  BY SettlesInv
<1> QED BY <1>1, Invariant, PTL

=============================================================================
