---------------------------- MODULE KernelWorkflow ----------------------------
(***************************************************************************)
(* cix-kernel-debs.yml: one run of the workflow that builds the kernel     *)
(* packages, with everything that may be repeated of it.  Its jobs need    *)
(* each other and hand on artifacts; any of them may fail or be cancelled, *)
(* and a run may be repeated as a whole, or only its failed jobs, or one   *)
(* job and what depends on it, on top of the artifacts that are there.  No *)
(* upload of the workflow says overwrite: an artifact of a name that the   *)
(* run already has becomes a further copy of it, or is refused.            *)
(***************************************************************************)
EXTENDS DebAssembly, SequencesExt

CONSTANTS
  Rows,        \* the rows of the build matrix, [line, variant]
  SeedOf,      \* SeedOf[line]: the Ubuntu configuration it starts from
  Tree,        \* Tree[row]: the headers tree that the row's build makes
  Defects,     \* what may be wrong with the packages of a build that succeeds
  None,        \* no artifact, no asset
  MaxIncidents, \* bound: what fails, is cancelled, defective, expires, or is
                \* repeated without need
  MaxRetries,   \* bound: repetitions of the failed jobs only
  MaxAttempts   \* bound: attempts of the run

ASSUME BoundsAssumption ==
  /\ MaxAttempts \in Nat \ {0}
  /\ MaxIncidents \in Nat /\ MaxRetries \in Nat

\* A build makes no link into the common package.
ASSUME TreeAssumption ==
  \A r \in Rows :
    /\ Tree[r] = [p \in Paths |-> Tree[r][p]]
    /\ \A p \in Paths : Tree[r][p] = Absent \/ Tree[r][p].type # "common"

Lines == LinesOf(Rows)
Seeds == {SeedOf[l] : l \in Lines}

\* The jobs; each row of a matrix is a job of its own.
DiscoverJob == <<"discover">>
Preflight == <<"preflight">>
External == <<"external-inputs">>
Ubuntu(s) == <<"ubuntu-configs", s>>
Validation(l) == <<"source-validation", l>>
Build(r) == <<"build", r>>
Assemble == <<"assemble">>
Release == <<"release">>

UbuntuJobs == {Ubuntu(s) : s \in Seeds}
ValidationJobs == {Validation(l) : l \in Lines}
BuildJobs == {Build(r) : r \in Rows}
Jobs == {DiscoverJob, Preflight, External, Assemble, Release}
          \cup UbuntuJobs \cup ValidationJobs \cup BuildJobs

Needs(j) ==
  CASE j \in {DiscoverJob, Preflight} -> {}
    [] j = External -> {Preflight}
    [] j \in UbuntuJobs -> {DiscoverJob, External, Preflight}
    [] j \in ValidationJobs -> {DiscoverJob, Preflight}
    [] j \in BuildJobs -> {DiscoverJob, External, Preflight} \cup UbuntuJobs \cup ValidationJobs
    [] j = Assemble -> {DiscoverJob} \cup BuildJobs
    [] j = Release -> {Assemble}

\* What depends on a job of S, directly or not; the longest way is six jobs.
With(S) == S \cup {j \in Jobs : Needs(j) \cap S # {}}
Dependents(S) == With(With(With(With(With(S)))))

VARIABLES
  event,     \* "push", "fork" (a pull request of a fork), "publish"
  accepted,  \* discover-cix-matrix.py accepts the ebuilds of the commit
  refuses,   \* an upload of a name that the run already has is refused
  status,    \* status[j]: "waiting", "ok", "failed", "skipped"
  attempt,   \* how often the run was started
  inputs,    \* the newest cix-external-inputs: the attempt that made it
  configs,   \* configs[s]: the inputs that the newest configuration s is from
  built,     \* built[r]: the copies of the packages of row r, oldest first
  debs,      \* the newest cix-kernel-debs: the builds it was assembled from
  cleaning,  \* the assemble job deletes what it has used
  torn,      \* history: a cleanup was left unfinished, and no build since
  leftover,  \* history: debs was assembled after such a cleanup
  draft,     \* draft[r]: the build whose packages the draft release has
  expired,   \* some artifact is gone that no job has deleted
  incidents, retries

commit == <<event, accepted, refuses>>
artifacts == <<inputs, configs, built, debs>>
history == <<torn, leftover>>
counters == <<expired, incidents, retries>>
vars == <<commit, status, attempt, artifacts, cleaning, history, draft, counters>>

Builds == [inputs : 1..MaxAttempts, config : 1..MaxAttempts, defect : Defects \cup {"none"}]

ASSUME NoneAssumption ==
  None \notin Builds /\ None \notin 1..MaxAttempts /\ None \notin [Rows -> Builds]

\* The packages that the artifact of a row holds.
Deb(r, pkg, payload) ==
  [pkg |-> pkg, row |-> r, line |-> r.line, dir |-> r, payload |-> payload]

LibcOf(r, b) ==
  IF b.defect = "no libc" THEN {}
  ELSE {Deb(r, "libc", IF b.defect = "other libc" THEN "other" ELSE "same")}

ExtraOf(r, b) == IF b.defect = "extra" THEN {Deb(r, "dbg", "debug")} ELSE {}

Packages(r, b) ==
  {Deb(r, "image", "image"), Deb(r, "headers", Tree[r])} \cup LibcOf(r, b) \cup ExtraOf(r, b)

\* A download takes the newest copy of a name.  What is deleted or expires is
\* any copy of built; the other names only lose all of theirs.
Newest(copies) == IF copies = <<>> THEN None ELSE copies[Len(copies)]
Downloaded == [r \in Rows |-> Newest(built[r])]

AllPackages(f) == UNION {Packages(r, f[r]) : r \in {s \in Rows : f[s] # None}}

-----------------------------------------------------------------------------
(* The jobs of an attempt *)

Waiting(j) == status[j] = "waiting"
Ready(j) == Waiting(j) /\ \A n \in Needs(j) : status[n] = "ok"
SetStatus(j, s) == status' = [status EXCEPT ![j] = s]

Happens == incidents < MaxIncidents /\ incidents' = incidents + 1

\* A step, or the job after its last step, may fail.
May(j, ok) ==
  \/ ok /\ SetStatus(j, "ok") /\ UNCHANGED incidents
  \/ SetStatus(j, "failed") /\ Happens

\* A job fails before it has uploaded an artifact, or because the run has it.
Taken(there) == refuses /\ there
Stops(j, taken) ==
  /\ SetStatus(j, "failed")
  /\ IF taken THEN UNCHANGED incidents ELSE Happens

Rest == UNCHANGED <<commit, attempt, cleaning, history, draft, expired, retries>>

\* The jobs that make no artifact; both look at the commit's ebuilds.
Inspect(j) ==
  /\ j \in {DiscoverJob, Preflight} \cup ValidationJobs /\ Ready(j)
  /\ IF j \in {DiscoverJob, Preflight} /\ ~accepted
     THEN SetStatus(j, "failed") /\ UNCHANGED incidents
     ELSE May(j, TRUE)
  /\ Rest /\ UNCHANGED artifacts

\* The retained inputs are restored and frozen for this run.
Freeze ==
  /\ Ready(External)
  /\ \/ ~Taken(inputs # None) /\ inputs' = attempt /\ May(External, TRUE)
     \/ UNCHANGED inputs /\ Stops(External, Taken(inputs # None))
  /\ Rest /\ UNCHANGED <<configs, built, debs>>

StageConfig(s) ==
  /\ Ready(Ubuntu(s)) /\ inputs # None
  /\ \/ ~Taken(configs[s] # None) /\ configs' = [configs EXCEPT ![s] = inputs]
        /\ May(Ubuntu(s), TRUE)
     \/ UNCHANGED configs /\ Stops(Ubuntu(s), Taken(configs[s] # None))
  /\ Rest /\ UNCHANGED <<inputs, built, debs>>

\* What the build of a row makes of what it has downloaded.
Made(r, d) == [inputs |-> inputs, config |-> configs[SeedOf[r.line]], defect |-> d]

Upload(r, d) == built' = [built EXCEPT ![r] = Append(@, Made(r, d))]

\* Mutant of BuildRow: a row that the run has is not uploaded again.
BuildRowOnce(r) ==
  /\ Ready(Build(r)) /\ inputs # None /\ configs[SeedOf[r.line]] # None
  /\ \/ built[r] = <<>> /\ Upload(r, "none") /\ May(Build(r), TRUE)
     \/ built[r] # <<>> /\ UNCHANGED built /\ May(Build(r), TRUE)
     \/ UNCHANGED built /\ May(Build(r), FALSE)
  /\ Rest /\ UNCHANGED <<inputs, configs, debs>>

\* Mutant of BuildRow: the configuration need not be there.
BuildRowUnstaged(r) ==
  /\ Ready(Build(r)) /\ inputs # None
  /\ Upload(r, "none") /\ May(Build(r), TRUE)
  /\ Rest /\ UNCHANGED <<inputs, configs, debs>>

\* A build looks for its image and headers packages, not for the userspace
\* headers, and not for packages it does not know.
BuildRow(r) ==
  /\ Ready(Build(r)) /\ inputs # None /\ configs[SeedOf[r.line]] # None
  /\ \/ ~Taken(built[r] # <<>>) /\ Upload(r, "none") /\ May(Build(r), TRUE)
     \/ /\ ~Taken(built[r] # <<>>) /\ \E d \in Defects : Upload(r, d)
        /\ Happens
        /\ SetStatus(Build(r), "ok")
     \/ UNCHANGED built /\ Stops(Build(r), Taken(built[r] # <<>>))
  /\ Rest /\ UNCHANGED <<inputs, configs, debs>>

\* An artifact is not there to be downloaded.
Missing(j) ==
  /\ Ready(j)
  /\ \/ j \in UbuntuJobs \cup BuildJobs /\ inputs = None
     \/ \E r \in Rows : j = Build(r) /\ configs[SeedOf[r.line]] = None
     \/ j = Release /\ event = "publish" /\ debs = None
  /\ SetStatus(j, "failed")
  /\ UNCHANGED <<commit, attempt, artifacts, cleaning, history, draft, counters>>

\* Mutant of AssembleDebs: the cleanup comes before the upload.
AssembleUnsaved ==
  /\ Ready(Assemble) /\ ~cleaning
  /\ Assembles(AllPackages(Downloaded), Rows)
  /\ cleaning' = TRUE
  /\ UNCHANGED <<commit, status, attempt, artifacts, history, draft, counters>>

\* Downloaded, assembled and uploaded.
AssembleDebs ==
  /\ Ready(Assemble) /\ ~cleaning /\ ~Taken(debs # None)
  /\ Assembles(AllPackages(Downloaded), Rows)
  /\ debs' = Downloaded /\ leftover' = torn
  /\ cleaning' = TRUE
  /\ UNCHANGED <<commit, status, attempt, inputs, configs, built, torn, draft, counters>>

RefuseDebs ==
  /\ Ready(Assemble) /\ ~cleaning
  /\ Taken(debs # None) \/ ~Assembles(AllPackages(Downloaded), Rows)
  /\ SetStatus(Assemble, "failed")
  /\ UNCHANGED <<commit, attempt, artifacts, cleaning, history, draft, counters>>

\* Mutant of Delete: every artifact of the kernel packages is deleted.
DeleteToo(r) ==
  /\ cleaning /\ event # "fork"
  /\ \E i \in DOMAIN built[r] : built' = [built EXCEPT ![r] = RemoveAt(@, i)]
  /\ debs' = None /\ torn' = TRUE
  /\ UNCHANGED <<commit, status, attempt, inputs, configs, cleaning, leftover, draft, counters>>

\* One artifact after the other is deleted, by its number and so the copies of
\* all attempts, in no order that is promised; not for a fork, whose token may
\* not do it.
Delete(r) ==
  /\ cleaning /\ event # "fork"
  /\ \E i \in DOMAIN built[r] : built' = [built EXCEPT ![r] = RemoveAt(@, i)]
  /\ torn' = TRUE
  /\ UNCHANGED <<commit, status, attempt, inputs, configs, debs, cleaning, leftover, draft, counters>>

Cleaned ==
  /\ cleaning /\ (event = "fork" \/ \A r \in Rows : built[r] = <<>>)
  /\ SetStatus(Assemble, "ok") /\ cleaning' = FALSE /\ torn' = FALSE
  /\ UNCHANGED <<commit, attempt, artifacts, leftover, draft, counters>>

\* The assemble job fails before its upload or while it cleans up.
AssembleFails ==
  /\ Ready(Assemble) /\ Happens
  /\ SetStatus(Assemble, "failed") /\ cleaning' = FALSE
  /\ UNCHANGED <<commit, attempt, artifacts, history, draft, expired, retries>>

\* The draft of the run's number gets one package after the other; a package
\* of the same name is replaced.
Attach(r) ==
  /\ Ready(Release) /\ event = "publish" /\ debs # None /\ draft[r] # debs[r]
  /\ draft' = [draft EXCEPT ![r] = debs[r]]
  /\ UNCHANGED <<commit, status, attempt, artifacts, cleaning, history, counters>>

Drafted ==
  /\ Ready(Release) /\ event = "publish" /\ debs # None /\ draft = debs
  /\ May(Release, TRUE)
  /\ Rest /\ UNCHANGED artifacts

ReleaseFails ==
  /\ Ready(Release) /\ event = "publish" /\ May(Release, FALSE)
  /\ Rest /\ UNCHANGED artifacts

\* What can no longer run.
Hopeless(j) ==
  /\ Waiting(j) /\ \A n \in Needs(j) : ~Waiting(n)
  /\ ~Ready(j) \/ (j = Release /\ event # "publish")

Skip ==
  /\ \E j \in Jobs : Hopeless(j)
  /\ status' = [j \in Jobs |-> IF Hopeless(j) THEN "skipped" ELSE status[j]]
  /\ UNCHANGED <<commit, attempt, artifacts, cleaning, history, draft, counters>>

\* A push to the same branch, or a user, cancels what is not finished.
Cancel ==
  /\ \E j \in Jobs : Waiting(j)
  /\ Happens
  /\ status' = [j \in Jobs |-> IF Waiting(j) THEN "failed" ELSE status[j]]
  /\ cleaning' = FALSE
  /\ UNCHANGED <<commit, attempt, artifacts, history, draft, expired, retries>>

-----------------------------------------------------------------------------
(* Between attempts *)

Finished == \A j \in Jobs : ~Waiting(j)
Broken == {j \in Jobs : status[j] = "failed"}

Restart(S) ==
  /\ Finished /\ attempt < MaxAttempts
  /\ status' = [j \in Jobs |-> IF j \in S THEN "waiting" ELSE status[j]]
  /\ attempt' = attempt + 1
  /\ torn' = (torn /\ ~(BuildJobs \subseteq S))
  /\ UNCHANGED <<commit, artifacts, cleaning, leftover, draft, expired>>

RerunAll == Broken # {} /\ Restart(Jobs) /\ UNCHANGED <<incidents, retries>>

RerunFailed ==
  /\ Broken # {} /\ retries < MaxRetries /\ retries' = retries + 1
  /\ Restart(Dependents(Broken)) /\ UNCHANGED incidents

RerunJob(j) ==
  /\ Finished /\ Happens /\ UNCHANGED retries
  /\ Restart(Dependents({j}))

\* retention-days: of the copies of a name the oldest goes first.
Expire ==
  /\ Finished /\ Happens /\ expired' = TRUE
  /\ \/ inputs # None /\ inputs' = None /\ UNCHANGED <<configs, built, debs>>
     \/ \E s \in Seeds : configs[s] # None /\ configs' = [configs EXCEPT ![s] = None]
          /\ UNCHANGED <<inputs, built, debs>>
     \/ \E r \in Rows : built[r] # <<>> /\ built' = [built EXCEPT ![r] = Tail(@)]
          /\ UNCHANGED <<inputs, configs, debs>>
     \/ debs # None /\ debs' = None /\ UNCHANGED <<inputs, configs, built>>
  /\ UNCHANGED <<commit, status, attempt, cleaning, history, draft, retries>>

Init ==
  /\ event \in {"push", "fork", "publish"} /\ accepted \in BOOLEAN
  /\ refuses \in BOOLEAN
  /\ status = [j \in Jobs |-> "waiting"] /\ attempt = 1
  /\ inputs = None /\ configs = [s \in Seeds |-> None]
  /\ built = [r \in Rows |-> <<>>] /\ debs = None
  /\ cleaning = FALSE /\ torn = FALSE /\ leftover = FALSE /\ draft = [r \in Rows |-> None]
  /\ expired = FALSE /\ incidents = 0 /\ retries = 0

Step ==
  \/ \E j \in Jobs : Inspect(j) \/ Missing(j)
  \/ Skip
  \/ Freeze \/ \E s \in Seeds : StageConfig(s)
  \/ \E r \in Rows : BuildRow(r) \/ Delete(r) \/ Attach(r)
  \/ AssembleDebs \/ RefuseDebs \/ Cleaned \/ AssembleFails
  \/ Drafted \/ ReleaseFails

Next ==
  \/ Step \/ Cancel \/ Expire
  \/ RerunAll \/ RerunFailed \/ \E j \in Jobs : RerunJob(j)

\* A runner takes up every job that is ready; the maintainers repeat a run
\* that failed.
Fairness == WF_vars(Step) /\ WF_vars(RerunAll)

Spec == Init /\ [][Next]_vars /\ Fairness

-----------------------------------------------------------------------------
TypeOK ==
  /\ event \in {"push", "fork", "publish"} /\ accepted \in BOOLEAN
  /\ refuses \in BOOLEAN
  /\ status \in [Jobs -> {"waiting", "ok", "failed", "skipped"}]
  /\ attempt \in 1..MaxAttempts
  /\ inputs \in (1..MaxAttempts) \cup {None}
  /\ configs \in [Seeds -> (1..MaxAttempts) \cup {None}]
  /\ built \in [Rows -> Seq(Builds)]
  /\ debs \in [Rows -> Builds] \cup {None}
  /\ draft \in [Rows -> Builds \cup {None}]
  /\ cleaning \in BOOLEAN /\ torn \in BOOLEAN /\ leftover \in BOOLEAN
  /\ expired \in BOOLEAN
  /\ incidents \in 0..MaxIncidents /\ retries \in 0..MaxRetries

\* The builds of one set, each from the configuration frozen with its inputs.
\* Whoever installs the packages that are made of them has every image, finds
\* in every headers tree what that row has built, and has the userspace headers
\* that each row of the version has built.
WholeSet(f) ==
  /\ \A r \in Rows : f[r] # None /\ f[r].config = f[r].inputs
  /\ LET packages == AllPackages(f)
         found == Installed(packages, Rows)
     IN /\ found.images = Rows
        /\ \A r \in Rows :
             /\ found.headers[r] = Tree[r]
             /\ found.libc[r.line] = {d.payload : d \in Of(Packages(r, f[r]), "libc")}
             /\ Of(packages, "dbg") = {}

OneInputs(f) == \A r, s \in Rows : f[r].inputs = f[s].inputs

\* However a run was interrupted and repeated, the packages that it offers are
\* a whole set; and all are from the same inputs, unless the set was assembled
\* after a cleanup that stopped half-way and without all builds repeated, when
\* copies of an earlier attempt may have come to light.
AssembledWhole == debs # None => WholeSet(debs) /\ (leftover \/ OneInputs(debs))

\* A release whose job has succeeded holds such a set, also when an earlier
\* attempt has left a part of another one in the draft.
ReleaseWhole == status[Release] = "ok" => WholeSet(draft) /\ (leftover \/ OneInputs(draft))

\* What a job has built from the run's inputs is what a download gets, until
\* the packages made of it are uploaded: the cleanup may stop anywhere, and
\* whatever copies it leaves, nothing is lost.
CleanupSafe ==
  ~expired => \A r \in Rows : status[Build(r)] = "ok" =>
    \/ Downloaded[r] # None /\ Downloaded[r].inputs = inputs
    \/ debs # None /\ (leftover \/ debs[r].inputs = inputs)

\* Where a later attempt may upload what an earlier one has, a commit that is
\* accepted is released in the end, whatever fails, is cancelled, lost or
\* repeated in part, if the maintainers repeat the run.
Published == (event = "publish" /\ accepted /\ ~refuses) => <>(status[Release] = "ok")

=============================================================================
