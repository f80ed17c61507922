--------------------------- MODULE ExternalInputs ---------------------------
(***************************************************************************)
(* The retained external inputs of the CIX workflows: a daily workflow     *)
(* refreshes a bundle of upstream metadata and kernel configurations from  *)
(* the bundle of the last successful run, and the other workflows restore  *)
(* that bundle, or the fallback checked in with the code they run.         *)
(*                                                                         *)
(* A component's content is the number of its upstream version.  A time is *)
(* the upstream version of that instant, which is all that a comparison of *)
(* last_refreshed_at with a content needs.  A bundle names the revision of *)
(* the validation code it satisfies (the seeds and lines it must hold) and *)
(* is whole when its files and its checksums agree.                        *)
(***************************************************************************)
EXTENDS Naturals, Sequences

CONSTANTS
  Order,        \* the components, in the order they are refreshed
  Json,         \* those that are fetched with fetch_json
  Refresher,    \* the refresh workflow: its concurrency group runs one at a time
  Consumers,    \* runs of the workflows that only restore
  Down,         \* the components whose upstream may fail every day
  Truncated,    \* the JSON components whose upstream may break off every answer
  MaxVersion,   \* bound: upstream versions of a component
  MaxRevision,  \* bound: revisions of the validation code
  MaxFaults,    \* bound: failures of GitHub, of the other upstreams, of a runner
  NoBundle

Components == {Order[i] : i \in DOMAIN Order}
Actors == Consumers \cup {Refresher}

ASSUME ComponentsAssumption ==
  /\ Order \in Seq(Components)
  /\ Json \subseteq Components
  /\ Down \subseteq Components
  /\ Truncated \subseteq Json
ASSUME ActorsAssumption == Refresher \notin Consumers
ASSUME BoundsAssumption ==
  /\ MaxVersion \in Nat
  /\ MaxRevision \in Nat
  /\ MaxFaults \in Nat

VARIABLES
  upstream,   \* the version each upstream offers
  revision,   \* the revision of the code on master
  fallback,   \* fallback[r]: the bundle checked in with revision r
  published,  \* the artifact of the latest successful refresh on master
  pc,         \* where the restore or the refresh of an actor is
  checkout,   \* the revision an actor has checked out
  bundle,     \* the candidate, then the restored bundle, then the output directory
  restored,   \* the actor's bundle is the artifact, not the fallback
  next,       \* the position in Order of the component to refresh next
  fetched,    \* the components replaced in this refresh
  now,        \* the time of this refresh
  faults      \* failures so far

github == <<upstream, revision, fallback, published>>
refresh == <<next, fetched, now>>
vars == <<github, pc, checkout, bundle, restored, refresh, faults>>

Oldest == [c \in Components |-> 1]
Versions == [Components -> Nat]
Bundles == [revision : Nat, whole : BOOLEAN, content : Versions, refreshed : Versions]

ASSUME NoBundleAssumption == NoBundle \notin Bundles

\* Mutant of Valid: whatever the revision.
ValidOfAnyRevision(b, r) == b # NoBundle /\ b.whole

\* validate_directory with the code of revision r.
Valid(b, r) == b # NoBundle /\ b.whole /\ b.revision = r

\* A bundle with one version of everything, as a maintainer checks it in.
Snapshot(r, v) == [revision |-> r, whole |-> TRUE, content |-> v, refreshed |-> v]

\* What copying a bundle into a directory that holds other files leaves.
CopyOver(b, old) == IF old = NoBundle THEN b ELSE [b EXCEPT !.whole = FALSE]

Init ==
  /\ upstream = Oldest
  /\ revision = 1
  /\ fallback = <<Snapshot(1, upstream)>>
  /\ published = NoBundle
  /\ pc = [a \in Actors |-> "idle"]
  /\ checkout = [a \in Actors |-> 1]
  /\ bundle = [a \in Actors |-> NoBundle]
  /\ restored = [a \in Actors |-> FALSE]
  /\ next = 1
  /\ fetched = {}
  /\ now = Oldest
  /\ faults = 0

\* A step that n failures cause.
Costs(n) == faults' = faults + n /\ faults' <= MaxFaults

\* An actor's job ends, and its runner's files with it.
Ends(a) ==
  /\ pc' = [pc EXCEPT ![a] = "idle"]
  /\ checkout' = [checkout EXCEPT ![a] = 1]
  /\ bundle' = [bundle EXCEPT ![a] = NoBundle]
  /\ restored' = [restored EXCEPT ![a] = FALSE]
  /\ IF a = Refresher THEN next' = 1 /\ fetched' = {} /\ now' = Oldest
                      ELSE UNCHANGED refresh

(***************************************************************************)
(* The restore script.                                                     *)
(***************************************************************************)

\* A scheduled or pushed workflow checks its revision out: the refresh runs on
\* master, the others on any branch.
Checkout(a) ==
  /\ pc[a] = "idle"
  /\ \E r \in IF a = Refresher THEN {revision} ELSE 1 .. Len(fallback) :
       checkout' = [checkout EXCEPT ![a] = r]
  /\ pc' = [pc EXCEPT ![a] = "list"]
  /\ UNCHANGED <<github, bundle, restored, refresh, faults>>

\* gh run list finds the latest successful run.
List(a) ==
  /\ pc[a] = "list"
  /\ published # NoBundle
  /\ bundle' = [bundle EXCEPT ![a] = published]
  /\ pc' = [pc EXCEPT ![a] = "download"]
  /\ UNCHANGED <<github, checkout, restored, refresh, faults>>

\* There is none, or gh cannot tell.
ListNothing(a) ==
  /\ pc[a] = "list"
  /\ Costs(IF published = NoBundle THEN 0 ELSE 1)
  /\ pc' = [pc EXCEPT ![a] = "fallback"]
  /\ UNCHANGED <<github, checkout, bundle, restored, refresh>>

\* The artifact of the run found is downloaded and is valid.
Accept(a) ==
  /\ pc[a] = "download"
  /\ Valid(bundle[a], checkout[a])
  /\ restored' = [restored EXCEPT ![a] = TRUE]
  /\ pc' = [pc EXCEPT ![a] = "ready"]
  /\ UNCHANGED <<github, checkout, bundle, refresh, faults>>

\* Mutant of Cleared: the directory is left as it is.
ClearedNot(b) == b

\* What a rejected candidate leaves in its directory: rm -rf.
Cleared(b) == NoBundle

\* The download fails, wholly or part way, or what it brought is not valid.
Reject(a) ==
  /\ pc[a] = "download"
  /\ Costs(IF Valid(bundle[a], checkout[a]) THEN 1 ELSE 0)
  /\ bundle' = [bundle EXCEPT ![a] = Cleared(@)]
  /\ pc' = [pc EXCEPT ![a] = "fallback"]
  /\ UNCHANGED <<github, checkout, restored, refresh>>

\* The fallback is copied into the candidate's directory and validated.
UseFallback(a) ==
  LET b == CopyOver(fallback[checkout[a]], bundle[a]) IN
  /\ pc[a] = "fallback"
  /\ bundle' = [bundle EXCEPT ![a] = b]
  /\ pc' = [pc EXCEPT ![a] = IF Valid(b, checkout[a]) THEN "ready" ELSE "failed"]
  /\ UNCHANGED <<github, checkout, restored, refresh, faults>>

Restore(a) == List(a) \/ ListNothing(a) \/ Accept(a) \/ Reject(a) \/ UseFallback(a)

\* A consumer's workflow, or a run whose restore failed, is over.
Finish(a) ==
  /\ pc[a] \in {"failed"} \cup (IF a \in Consumers THEN {"ready"} ELSE {})
  /\ Ends(a)
  /\ UNCHANGED <<github, faults>>

\* The runner of an actor is lost, its job is cancelled or exceeds its time.
Kill(a) ==
  /\ pc[a] # "idle"
  /\ Costs(1)
  /\ Ends(a)
  /\ UNCHANGED github

(***************************************************************************)
(* The refresh script.                                                     *)
(***************************************************************************)

\* Mutant of Prepare: the refresh starts from the repository's fallback.
PrepareFromFallback ==
  /\ pc[Refresher] = "ready"
  /\ next' = 1
  /\ fetched' = {}
  /\ now' = upstream
  /\ bundle' = [bundle EXCEPT ![Refresher] = fallback[checkout[Refresher]]]
  /\ pc' = [pc EXCEPT ![Refresher] = "fetch"]
  /\ UNCHANGED <<github, checkout, restored, faults>>

\* The restored bundle is validated again and copied; the time is taken once.
Prepare ==
  /\ pc[Refresher] = "ready"
  /\ Valid(bundle[Refresher], checkout[Refresher])
  /\ next' = 1
  /\ fetched' = {}
  /\ now' = upstream
  /\ pc' = [pc EXCEPT ![Refresher] = "fetch"]
  /\ UNCHANGED <<github, checkout, bundle, restored, faults>>

Fetching == pc[Refresher] = "fetch" /\ next \in DOMAIN Order

\* A valid candidate replaces the component.
Fetch ==
  /\ Fetching
  /\ bundle' = [bundle EXCEPT ![Refresher].content[Order[next]] = upstream[Order[next]]]
  /\ fetched' = fetched \cup {Order[next]}
  /\ next' = next + 1
  /\ UNCHANGED <<github, pc, checkout, restored, now, faults>>

\* Mutant of Retain: a component that fails ends the script.
RetainNothing ==
  /\ Fetching
  /\ Costs(IF Order[next] \in Down THEN 0 ELSE 1)
  /\ Ends(Refresher)
  /\ UNCHANGED github

\* No candidate, or an invalid one: the component is retained.
Retain ==
  /\ Fetching
  /\ Costs(IF Order[next] \in Down THEN 0 ELSE 1)
  /\ next' = next + 1
  /\ UNCHANGED <<github, pc, checkout, bundle, restored, fetched, now>>

\* An answer that breaks off raises IncompleteRead, which refresh_json does
\* not catch: the script ends.
BreakOff ==
  /\ Fetching
  /\ Order[next] \in Json
  /\ Costs(IF Order[next] \in Truncated THEN 0 ELSE 1)
  /\ Ends(Refresher)
  /\ UNCHANGED github

\* Mutants of Recorded: every component counts as refreshed, only fetched ones
\* have a record.
RecordedAsChecked(b) == [b EXCEPT !.refreshed = now]
RecordedAlone(b) == [b EXCEPT !.refreshed = [c \in fetched |-> now[c]]]

\* The records of retention.json: a fetched component is as new as this run.
Recorded(b) ==
  [b EXCEPT !.refreshed = [c \in Components |-> IF c \in fetched THEN now[c] ELSE @[c]]]

\* Retention is recorded, the metadata compacted, the checksums written and
\* the output validated.
Seal ==
  /\ pc[Refresher] = "fetch"
  /\ next \notin DOMAIN Order
  /\ Valid(Recorded(bundle[Refresher]), checkout[Refresher])
  /\ bundle' = [bundle EXCEPT ![Refresher] = Recorded(@)]
  /\ pc' = [pc EXCEPT ![Refresher] = "upload"]
  /\ UNCHANGED <<github, checkout, restored, refresh, faults>>

\* The artifact is uploaded and the run ends with success, so that it is listed.
Publish ==
  /\ pc[Refresher] = "upload"
  /\ published' = bundle[Refresher]
  /\ Ends(Refresher)
  /\ UNCHANGED <<upstream, revision, fallback, faults>>

Refresh == Prepare \/ Fetch \/ Retain \/ BreakOff \/ Seal \/ Publish

(***************************************************************************)
(* The upstreams and the repository.                                       *)
(***************************************************************************)
Release(c) ==
  /\ upstream[c] < MaxVersion
  /\ upstream' = [upstream EXCEPT ![c] = @ + 1]
  /\ UNCHANGED <<revision, fallback, published, pc, checkout, bundle, restored, refresh, faults>>

\* A branch changes the validation code, with a fallback that satisfies it.
Propose ==
  /\ Len(fallback) < MaxRevision
  /\ \E v \in {upstream, fallback[revision].content} :
       fallback' = Append(fallback, Snapshot(Len(fallback) + 1, v))
  /\ UNCHANGED <<upstream, revision, published, pc, checkout, bundle, restored, refresh, faults>>

Merge ==
  /\ revision < Len(fallback)
  /\ revision' = revision + 1
  /\ UNCHANGED <<upstream, fallback, published, pc, checkout, bundle, restored, refresh, faults>>

\* A newer fallback is checked in.
Update ==
  /\ fallback' = [fallback EXCEPT ![revision] = Snapshot(revision, upstream)]
  /\ UNCHANGED <<upstream, revision, published, pc, checkout, bundle, restored, refresh, faults>>

Next ==
  \/ \E a \in Actors : Checkout(a) \/ Restore(a) \/ Finish(a) \/ Kill(a)
  \/ Refresh
  \/ \E c \in Components : Release(c)
  \/ Propose \/ Merge \/ Update

Spec == Init /\ [][Next]_vars

\* The schedule starts a refresh every day and the runner goes on with it.
Schedule == Checkout(Refresher) \/ Restore(Refresher) \/ Finish(Refresher) \/ Refresh
FairSpec == Spec /\ WF_vars(Schedule)

(***************************************************************************)
(* Properties.                                                             *)
(***************************************************************************)
NoneOr(S) == S \cup {NoBundle}

TypeOK ==
  /\ upstream \in Versions
  /\ revision \in DOMAIN fallback
  /\ fallback \in Seq(Bundles)
  /\ published \in NoneOr(Bundles)
  /\ pc \in [Actors -> {"idle", "list", "download", "fallback", "ready", "failed", "fetch", "upload"}]
  /\ checkout \in [Actors -> DOMAIN fallback]
  /\ bundle \in [Actors -> NoneOr(Bundles)]
  /\ restored \in [Actors -> BOOLEAN]
  /\ next \in 1 .. Len(Order) + 1
  /\ fetched \subseteq Components
  /\ now \in Versions
  /\ faults \in 0 .. MaxFaults

\* Whatever an interrupted download, a damaged or an outdated artifact brought,
\* the workflow goes on with a whole bundle of its own revision
\* (restore-cix-external-inputs.sh: the validation before and after the copy).
RestoredValid ==
  \A a \in Actors : pc[a] \in {"ready", "fetch", "upload"} =>
    bundle[a] # NoBundle /\ bundle[a].whole /\ bundle[a].revision = checkout[a]

\* A restore never ends without a bundle: the fallback takes the place of every
\* candidate that was refused, with nothing of it left among its files.
RestoreServes == \A a \in Actors : pc[a] # "failed"

\* Known-good data is not discarded: a published component goes back to an
\* older version only in a run that could not restore the artifact of the run
\* before and could not fetch that component.
KnownGoodKept ==
  [][\A c \in Components :
       published # NoBundle /\ published'.content[c] < published.content[c]
         => ~ restored[Refresher] /\ c \notin fetched]_published

\* What retention.json says of a component is true of its content, through
\* retained components, fallbacks and runs that were stopped: it is at least as
\* new as what upstream offered at last_refreshed_at.
RetentionHonest ==
  \A b \in {published} \cup {bundle[a] : a \in Actors} :
    b # NoBundle => \A c \in Components : b.refreshed[c] <= b.content[c]

\* The components are refreshed independently: when upstreams, branches and
\* failures come to rest, the published bundle holds the newest version of every
\* component whose upstream answers, whichever upstreams do not.
ReachableCatchUp ==
  \A c \in Components \ (Down \cup Truncated) :
    <>[](published # NoBundle /\ published.content[c] = upstream[c])
=============================================================================
