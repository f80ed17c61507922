------------------------ MODULE ExternalInputs_proofs ------------------------
(***************************************************************************)
(* Proofs that the retained inputs stay valid, truthful and known good.    *)
(*                                                                         *)
(* The invariant follows one bundle from the store to the store: what is   *)
(* stored is known (its records are true and it is not ahead of the        *)
(* upstreams), what a runner holds at each stage is nothing, the artifact  *)
(* or a valid bundle, and what the refresh holds is no older than the      *)
(* artifact, wherever it was restored or fetched.                          *)
(***************************************************************************)
EXTENDS ExternalInputs, TLAPS

Known(b) ==
  b # NoBundle =>
    \A c \in Components : b.refreshed[c] <= b.content[c] /\ b.content[c] <= upstream[c]

FallbacksFit == \A r \in DOMAIN fallback : fallback[r].whole /\ fallback[r].revision = r

AllKnown ==
  /\ Known(published)
  /\ \A r \in DOMAIN fallback : Known(fallback[r])
  /\ \A a \in Actors : Known(bundle[a])

\* What is in the candidate's directory at each stage of a restore.
Stages ==
  \A a \in Actors :
    /\ pc[a] \in {"idle", "list", "fallback"} => bundle[a] = NoBundle
    /\ pc[a] = "download" => bundle[a] # NoBundle
    /\ pc[a] \in {"fetch", "upload"} => a = Refresher
    /\ restored[a] => pc[a] \in {"ready", "fetch", "upload"}

\* The time of the refresh is past, and what it fetched is newer.
TimePast ==
  /\ \A c \in Components : Oldest[c] <= upstream[c] /\ now[c] <= upstream[c]
  /\ pc[Refresher] = "fetch" => \A c \in fetched : now[c] <= bundle[Refresher].content[c]

\* The bundle of the refresh is as new as the artifact it will replace.
AsNew ==
  published # NoBundle =>
    /\ pc[Refresher] = "download" => bundle[Refresher] = published
    /\ pc[Refresher] \in {"ready", "fetch", "upload"} =>
         \A c \in Components : restored[Refresher] \/ c \in fetched =>
           published.content[c] <= bundle[Refresher].content[c]
    /\ pc[Refresher] \notin {"fetch", "upload"} => fetched = {}

Bundled ==
  /\ FallbacksFit
  /\ AllKnown
  /\ Stages
  /\ RestoredValid
  /\ RestoreServes
  /\ TimePast
  /\ AsNew

IInv == TypeOK /\ Bundled

(***************************************************************************)
(* The data.                                                               *)
(***************************************************************************)

\* A maintainer's snapshot of known versions is a bundle.
LEMMA SnapshotBundle ==
  ASSUME NEW r \in Nat, NEW v \in Versions
  PROVE  Snapshot(r, v) \in Bundles
BY DEF Snapshot, Bundles

LEMMA SnapshotParts ==
  ASSUME NEW r, NEW v
  PROVE  /\ Snapshot(r, v).revision = r
         /\ Snapshot(r, v).whole
         /\ Snapshot(r, v).content = v
         /\ Snapshot(r, v).refreshed = v
BY DEF Snapshot

LEMMA BundleTypes ==
  ASSUME NEW b \in Bundles, NEW c \in Components
  PROVE  /\ b.content[c] \in Nat /\ b.refreshed[c] \in Nat
         /\ b.whole \in BOOLEAN /\ b.revision \in Nat
BY DEF Bundles, Versions

\* A bundle with its refresh recorded.
LEMMA RecordedParts ==
  ASSUME NEW b \in Bundles, now \in Versions
  PROVE  /\ Recorded(b) \in Bundles
         /\ Recorded(b).revision = b.revision /\ Recorded(b).whole = b.whole
         /\ Recorded(b).content = b.content
         /\ Recorded(b).refreshed =
              [c \in Components |-> IF c \in fetched THEN now[c] ELSE b.refreshed[c]]
BY DEF Bundles, Versions, Recorded

LEMMA OldestVersions == Oldest \in Versions
BY DEF Oldest, Versions

LEMMA OrderTypes ==
  /\ Order \in Seq(Components)
  /\ Len(Order) \in Nat
  /\ DOMAIN Order = 1 .. Len(Order)
  /\ \A i \in DOMAIN Order : Order[i] \in Components
BY ComponentsAssumption


(***************************************************************************)
(* The types.                                                              *)
(***************************************************************************)
LEMMA InitTypes == Init => TypeOK
BY OldestVersions, SnapshotBundle, OrderTypes, BoundsAssumption
   DEF Init, TypeOK, NoneOr, Actors

LEMMA CheckoutTypes ==
  ASSUME TypeOK, NEW a \in Actors, Checkout(a)
  PROVE  TypeOK'
BY OldestVersions, OrderTypes, NoBundleAssumption, BoundsAssumption DEF TypeOK, NoneOr, Checkout, github, refresh

LEMMA ListTypes ==
  ASSUME TypeOK, NEW a \in Actors, List(a)
  PROVE  TypeOK'
BY OldestVersions, OrderTypes, NoBundleAssumption, BoundsAssumption DEF TypeOK, NoneOr, List, github, refresh

LEMMA ListNothingTypes ==
  ASSUME TypeOK, NEW a \in Actors, ListNothing(a)
  PROVE  TypeOK'
BY OldestVersions, OrderTypes, NoBundleAssumption, BoundsAssumption DEF TypeOK, NoneOr, ListNothing, github, refresh, Costs

LEMMA AcceptTypes ==
  ASSUME TypeOK, NEW a \in Actors, Accept(a)
  PROVE  TypeOK'
BY OldestVersions, OrderTypes, NoBundleAssumption, BoundsAssumption DEF TypeOK, NoneOr, Accept, github, refresh

LEMMA RejectTypes ==
  ASSUME TypeOK, NEW a \in Actors, Reject(a)
  PROVE  TypeOK'
BY OldestVersions, OrderTypes, NoBundleAssumption, BoundsAssumption DEF TypeOK, NoneOr, Reject, github, refresh, Costs, Cleared

LEMMA UseFallbackTypes ==
  ASSUME TypeOK, Stages, NEW a \in Actors, UseFallback(a)
  PROVE  TypeOK'
<1>1. bundle[a] = NoBundle
  BY DEF UseFallback, Stages
<1>2. /\ bundle' = [bundle EXCEPT ![a] = fallback[checkout[a]]]
      /\ fallback[checkout[a]] \in Bundles
  BY <1>1 DEF UseFallback, CopyOver, TypeOK
<1>3. pc' \in [Actors -> {"idle", "list", "download", "fallback", "ready", "failed", "fetch", "upload"}]
  BY DEF UseFallback, TypeOK
<1> QED
  BY <1>2, <1>3 DEF TypeOK, NoneOr, UseFallback, github, refresh

LEMMA FinishTypes ==
  ASSUME TypeOK, NEW a \in Actors, Finish(a)
  PROVE  TypeOK'
BY OldestVersions, OrderTypes, NoBundleAssumption, BoundsAssumption DEF TypeOK, NoneOr, Finish, github, refresh, Ends

LEMMA KillTypes ==
  ASSUME TypeOK, NEW a \in Actors, Kill(a)
  PROVE  TypeOK'
BY OldestVersions, OrderTypes, NoBundleAssumption, BoundsAssumption DEF TypeOK, NoneOr, Kill, github, refresh, Ends, Costs

LEMMA PrepareTypes ==
  ASSUME TypeOK, Prepare
  PROVE  TypeOK'
BY OldestVersions, OrderTypes, SnapshotBundle, BoundsAssumption, ActorsAssumption DEF TypeOK, NoneOr, Actors, Prepare, github

LEMMA FetchTypes ==
  ASSUME TypeOK, RestoredValid, Fetch
  PROVE  TypeOK'
<1> DEFINE c == Order[next]
           b == bundle[Refresher]
<1>1. c \in Components /\ upstream[c] \in Nat /\ next + 1 \in 1 .. Len(Order) + 1
  BY OrderTypes DEF Fetch, Fetching, TypeOK, Versions
<1>2. b \in Bundles
  BY DEF Fetch, Fetching, RestoredValid, TypeOK, NoneOr, Actors
<1>3. [b EXCEPT !.content[c] = upstream[c]] \in Bundles
  BY <1>1, <1>2 DEF Bundles, Versions
<1>4. bundle' \in [Actors -> NoneOr(Bundles)]
  BY <1>3 DEF Fetch, TypeOK, NoneOr
<1> QED
  BY <1>1, <1>4 DEF TypeOK, Fetch, github

LEMMA RetainTypes ==
  ASSUME TypeOK, Retain
  PROVE  TypeOK'
BY OldestVersions, OrderTypes, SnapshotBundle, BoundsAssumption, ActorsAssumption DEF TypeOK, NoneOr, Actors, Retain, github, Fetching, Costs

LEMMA BreakOffTypes ==
  ASSUME TypeOK, BreakOff
  PROVE  TypeOK'
BY OldestVersions, OrderTypes, SnapshotBundle, BoundsAssumption, ActorsAssumption DEF TypeOK, NoneOr, Actors, BreakOff, github, refresh, Fetching, Costs, Ends

LEMMA SealTypes ==
  ASSUME TypeOK, RestoredValid, Seal
  PROVE  TypeOK'
<1>1. bundle[Refresher] \in Bundles
  BY DEF Seal, RestoredValid, TypeOK, NoneOr, Actors
<1>2. Recorded(bundle[Refresher]) \in Bundles
  BY <1>1 DEF Recorded, Bundles, TypeOK, Versions
<1>3. bundle' \in [Actors -> NoneOr(Bundles)]
  BY <1>2 DEF Seal, TypeOK, NoneOr
<1> QED
  BY <1>3 DEF TypeOK, Seal, github, refresh

LEMMA PublishTypes ==
  ASSUME TypeOK, Publish
  PROVE  TypeOK'
BY OldestVersions, OrderTypes, SnapshotBundle, BoundsAssumption, ActorsAssumption DEF TypeOK, NoneOr, Actors, Publish, refresh, Ends

LEMMA ReleaseTypes ==
  ASSUME TypeOK, NEW c \in Components, Release(c)
  PROVE  TypeOK'
<1>1. upstream' \in Versions
  BY DEF TypeOK, Versions, Release
<1> QED
  BY <1>1 DEF TypeOK, Release, refresh

LEMMA ProposeTypes ==
  ASSUME TypeOK, Propose
  PROVE  TypeOK'
<1>1. /\ Len(fallback) \in Nat
      /\ DOMAIN fallback = 1 .. Len(fallback)
  BY DEF TypeOK
<1>2. PICK v \in {upstream, fallback[revision].content} :
        fallback' = Append(fallback, Snapshot(Len(fallback) + 1, v))
  BY DEF Propose
<1>3. v \in Versions
  <2>1. fallback[revision] \in Bundles
    BY DEF TypeOK
  <2>2. fallback[revision].content \in Versions
    BY <2>1 DEF Bundles
  <2> QED
    BY <2>2 DEF TypeOK
<1>4. Snapshot(Len(fallback) + 1, v) \in Bundles
  BY <1>1, <1>3, SnapshotBundle
<1>5. fallback' \in Seq(Bundles) /\ DOMAIN fallback \subseteq DOMAIN fallback'
  BY <1>1, <1>2, <1>4 DEF TypeOK
<1>6. checkout' \in [Actors -> DOMAIN fallback']
  BY <1>5 DEF TypeOK, Propose
<1> QED
  BY <1>5, <1>6 DEF TypeOK, Propose, refresh

LEMMA MergeTypes ==
  ASSUME TypeOK, Merge
  PROVE  TypeOK'
BY OldestVersions, OrderTypes, SnapshotBundle, BoundsAssumption, ActorsAssumption DEF TypeOK, NoneOr, Actors, Merge, refresh

LEMMA UpdateTypes ==
  ASSUME TypeOK, Update
  PROVE  TypeOK'
<1>1. revision \in Nat
  BY DEF TypeOK
<1>2. Snapshot(revision, upstream) \in Bundles
  BY <1>1, SnapshotBundle DEF TypeOK
<1>3. fallback' \in Seq(Bundles) /\ DOMAIN fallback' = DOMAIN fallback
  BY <1>2 DEF TypeOK, Update
<1> QED
  BY <1>3 DEF TypeOK, Update, refresh


(***************************************************************************)
(* The bundles.                                                            *)
(***************************************************************************)
LEMMA CheckoutBundles ==
  ASSUME IInv, TypeOK', NEW a \in Actors, Checkout(a)
  PROVE  Bundled'
<1> USE ActorsAssumption DEF IInv, Bundled, TypeOK, Actors, Checkout, github, refresh
<1>1. FallbacksFit'
  BY DEF FallbacksFit
<1>2. AllKnown'
  BY DEF AllKnown, Known
<1>3. Stages'
  BY DEF Stages
<1>4. RestoredValid'
  BY DEF RestoredValid
<1>5. RestoreServes'
  BY DEF RestoreServes
<1>6. TimePast'
  BY DEF TimePast
<1>7. AsNew'
  BY DEF AsNew
<1> QED
  BY <1>1, <1>2, <1>3, <1>4, <1>5, <1>6, <1>7

LEMMA ListBundles ==
  ASSUME IInv, TypeOK', NEW a \in Actors, List(a)
  PROVE  Bundled'
<1> USE ActorsAssumption DEF IInv, Bundled, TypeOK, Actors, List, github, refresh
<1>1. FallbacksFit'
  BY DEF FallbacksFit
<1>2. AllKnown'
  BY DEF AllKnown, Known
<1>3. Stages'
  BY DEF Stages
<1>4. RestoredValid'
  BY DEF RestoredValid
<1>5. RestoreServes'
  BY DEF RestoreServes
<1>6. TimePast'
  BY DEF TimePast
<1>7. AsNew'
  BY DEF AsNew
<1> QED
  BY <1>1, <1>2, <1>3, <1>4, <1>5, <1>6, <1>7

LEMMA ListNothingBundles ==
  ASSUME IInv, TypeOK', NEW a \in Actors, ListNothing(a)
  PROVE  Bundled'
<1> USE ActorsAssumption DEF IInv, Bundled, TypeOK, Actors, ListNothing, github, refresh
<1>1. FallbacksFit'
  BY DEF FallbacksFit
<1>2. AllKnown'
  BY DEF AllKnown, Known
<1>3. Stages'
  BY DEF Stages
<1>4. RestoredValid'
  BY DEF RestoredValid
<1>5. RestoreServes'
  BY DEF RestoreServes
<1>6. TimePast'
  BY DEF TimePast
<1>7. AsNew'
  BY DEF AsNew
<1> QED
  BY <1>1, <1>2, <1>3, <1>4, <1>5, <1>6, <1>7

LEMMA AcceptBundles ==
  ASSUME IInv, TypeOK', NEW a \in Actors, Accept(a)
  PROVE  Bundled'
<1> USE ActorsAssumption DEF IInv, Bundled, TypeOK, Actors, Accept, github, refresh, Valid
<1>1. FallbacksFit'
  BY DEF FallbacksFit
<1>2. AllKnown'
  BY DEF AllKnown, Known
<1>3. Stages'
  BY DEF Stages
<1>4. RestoredValid'
  BY DEF RestoredValid
<1>5. RestoreServes'
  BY DEF RestoreServes
<1>6. TimePast'
  BY DEF TimePast
<1>7. AsNew'
  <2>1. published # NoBundle => \A c \in Components : published.content[c] \in Nat
    BY BundleTypes DEF NoneOr
  <2> QED
    BY <2>1 DEF AsNew, Stages
<1> QED
  BY <1>1, <1>2, <1>3, <1>4, <1>5, <1>6, <1>7

LEMMA RejectBundles ==
  ASSUME IInv, TypeOK', NEW a \in Actors, Reject(a)
  PROVE  Bundled'
<1> USE ActorsAssumption DEF IInv, Bundled, TypeOK, Actors, Reject, github, refresh, Cleared
<1>1. FallbacksFit'
  BY DEF FallbacksFit
<1>2. AllKnown'
  BY DEF AllKnown, Known
<1>3. Stages'
  BY DEF Stages
<1>4. RestoredValid'
  BY DEF RestoredValid
<1>5. RestoreServes'
  BY DEF RestoreServes
<1>6. TimePast'
  BY DEF TimePast
<1>7. AsNew'
  BY DEF AsNew
<1> QED
  BY <1>1, <1>2, <1>3, <1>4, <1>5, <1>6, <1>7

LEMMA UseFallbackBundles ==
  ASSUME IInv, TypeOK', NEW a \in Actors, UseFallback(a)
  PROVE  Bundled'
<1> DEFINE b == fallback[checkout[a]]
<1> USE DEF IInv, Bundled
<1>0. b \in Bundles /\ b # NoBundle /\ b.whole /\ b.revision = checkout[a]
  BY NoBundleAssumption DEF TypeOK, FallbacksFit
<1>a. /\ bundle' = [bundle EXCEPT ![a] = b]
      /\ pc' = [pc EXCEPT ![a] = "ready"]
      /\ pc[a] = "fallback"
  BY <1>0 DEF UseFallback, Stages, CopyOver, Valid
<1>b. UNCHANGED <<upstream, revision, fallback, published, checkout, restored, next, fetched, now>>
  BY DEF UseFallback, github, refresh
<1>1. FallbacksFit'
  BY <1>b DEF FallbacksFit
<1>2. AllKnown'
  BY <1>a, <1>b DEF AllKnown, Known, TypeOK
<1>3. Stages'
  BY <1>0, <1>a, <1>b DEF Stages, TypeOK
<1>4. RestoredValid'
  BY <1>0, <1>a, <1>b DEF RestoredValid, TypeOK
<1>5. RestoreServes'
  BY <1>a DEF RestoreServes, TypeOK
<1>6. TimePast'
  BY <1>a, <1>b DEF TimePast, TypeOK
<1>7. AsNew'
  BY <1>a, <1>b DEF AsNew, Stages, TypeOK, Actors
<1> QED
  BY <1>1, <1>2, <1>3, <1>4, <1>5, <1>6, <1>7

LEMMA FinishBundles ==
  ASSUME IInv, TypeOK', NEW a \in Actors, Finish(a)
  PROVE  Bundled'
<1> USE ActorsAssumption DEF IInv, Bundled, TypeOK, Actors, Finish, github, refresh, Ends
<1>1. FallbacksFit'
  BY DEF FallbacksFit
<1>2. AllKnown'
  BY DEF AllKnown, Known
<1>3. Stages'
  BY DEF Stages
<1>4. RestoredValid'
  BY DEF RestoredValid
<1>5. RestoreServes'
  BY DEF RestoreServes
<1>6. TimePast'
  BY DEF TimePast
<1>7. AsNew'
  BY DEF AsNew
<1> QED
  BY <1>1, <1>2, <1>3, <1>4, <1>5, <1>6, <1>7

LEMMA KillBundles ==
  ASSUME IInv, TypeOK', NEW a \in Actors, Kill(a)
  PROVE  Bundled'
<1> USE ActorsAssumption DEF IInv, Bundled, TypeOK, Actors, Kill, github, refresh, Ends
<1>1. FallbacksFit'
  BY DEF FallbacksFit
<1>2. AllKnown'
  BY DEF AllKnown, Known
<1>3. Stages'
  BY DEF Stages
<1>4. RestoredValid'
  BY DEF RestoredValid
<1>5. RestoreServes'
  BY DEF RestoreServes
<1>6. TimePast'
  BY DEF TimePast
<1>7. AsNew'
  BY DEF AsNew
<1> QED
  BY <1>1, <1>2, <1>3, <1>4, <1>5, <1>6, <1>7

LEMMA PrepareBundles ==
  ASSUME IInv, TypeOK', Prepare
  PROVE  Bundled'
<1> USE ActorsAssumption DEF IInv, Bundled, TypeOK, Actors, Prepare, github
<1>1. FallbacksFit'
  BY DEF FallbacksFit
<1>2. AllKnown'
  BY DEF AllKnown, Known
<1>3. Stages'
  BY DEF Stages
<1>4. RestoredValid'
  BY DEF RestoredValid
<1>5. RestoreServes'
  BY DEF RestoreServes
<1>6. TimePast'
  <2>1. \A c \in Components : upstream[c] \in Nat
    BY DEF Versions
  <2> QED
    BY <2>1 DEF TimePast
<1>7. AsNew'
  BY DEF AsNew
<1> QED
  BY <1>1, <1>2, <1>3, <1>4, <1>5, <1>6, <1>7

LEMMA FetchBundles ==
  ASSUME IInv, TypeOK', Fetch
  PROVE  Bundled'
<1> DEFINE c == Order[next]
           b == bundle[Refresher]
           d == [b EXCEPT !.content[c] = upstream[c]]
<1> USE DEF IInv, Bundled
<1>a. /\ pc[Refresher] = "fetch"
      /\ bundle' = [bundle EXCEPT ![Refresher] = d]
      /\ fetched' = fetched \cup {c}
      /\ UNCHANGED <<upstream, revision, fallback, published, pc, checkout, restored, now>>
  BY DEF Fetch, Fetching, github
<1>b. /\ c \in Components
      /\ b # NoBundle /\ b \in Bundles
      /\ b.whole /\ b.revision = checkout[Refresher]
  BY <1>a, OrderTypes DEF Fetch, Fetching, RestoredValid, TypeOK, NoneOr, Actors
<1>c. \A e \in Components : upstream[e] \in Nat /\ now[e] \in Nat
  BY DEF TypeOK, Versions
<1>d. /\ d \in Bundles /\ d # NoBundle
      /\ d.revision = b.revision /\ d.whole = b.whole /\ d.refreshed = b.refreshed
      /\ d.content = [b.content EXCEPT ![c] = upstream[c]]
  <2>1. upstream[c] \in Nat
    BY <1>b, <1>c
  <2> QED
    BY <1>b, <2>1, NoBundleAssumption DEF Bundles, Versions
<1>e. b.content \in Versions /\ b.refreshed \in Versions
  BY <1>b DEF Bundles
<1>f. \A e \in Components : d.content[e] = IF e = c THEN upstream[c] ELSE b.content[e]
  BY <1>b, <1>d, <1>e DEF Versions
<1>g. bundle'[Refresher] = d /\ \A a \in Actors : a # Refresher => bundle'[a] = bundle[a]
  BY <1>a DEF TypeOK, Actors
<1>h. \A e \in Components : b.refreshed[e] <= b.content[e] /\ b.content[e] <= upstream[e]
                           /\ b.refreshed[e] \in Nat /\ b.content[e] \in Nat
  BY <1>b, BundleTypes DEF AllKnown, Known, Actors
<1>1. FallbacksFit'
  BY <1>a DEF FallbacksFit
<1>2. AllKnown'
  <2>1. Known(d)
    BY <1>c, <1>d, <1>f, <1>h DEF Known
  <2>2. \A a \in Actors : Known(bundle'[a])
    BY <2>1, <1>g DEF AllKnown
  <2> QED
    BY <2>2, <1>a DEF AllKnown, Known
<1>3. Stages'
  BY <1>a, <1>d, <1>g DEF Stages
<1>4. RestoredValid'
  BY <1>a, <1>b, <1>d, <1>g DEF RestoredValid
<1>5. RestoreServes'
  BY <1>a DEF RestoreServes
<1>6. TimePast'
  <2>1. fetched \subseteq Components
    BY DEF TypeOK
  <2>2. \A e \in fetched : now[e] <= b.content[e]
    BY <1>a DEF TimePast
  <2>3. \A e \in fetched' : now[e] <= d.content[e]
    BY <2>1, <2>2, <1>a, <1>b, <1>c, <1>f DEF TimePast
  <2> QED
    BY <2>3, <1>a, <1>g DEF TimePast
<1>7. AsNew'
  <2>1. published # NoBundle =>
          \A e \in Components : published.content[e] <= upstream[e] /\ published.content[e] \in Nat
    BY BundleTypes DEF AllKnown, Known, TypeOK, NoneOr
  <2> QED
    BY <2>1, <1>a, <1>c, <1>f, <1>g, <1>h DEF AsNew
<1> QED
  BY <1>1, <1>2, <1>3, <1>4, <1>5, <1>6, <1>7

LEMMA RetainBundles ==
  ASSUME IInv, TypeOK', Retain
  PROVE  Bundled'
<1> USE ActorsAssumption DEF IInv, Bundled, TypeOK, Actors, Retain, github, Fetching
<1>1. FallbacksFit'
  BY DEF FallbacksFit
<1>2. AllKnown'
  BY DEF AllKnown, Known
<1>3. Stages'
  BY DEF Stages
<1>4. RestoredValid'
  BY DEF RestoredValid
<1>5. RestoreServes'
  BY DEF RestoreServes
<1>6. TimePast'
  BY DEF TimePast
<1>7. AsNew'
  BY DEF AsNew
<1> QED
  BY <1>1, <1>2, <1>3, <1>4, <1>5, <1>6, <1>7

LEMMA BreakOffBundles ==
  ASSUME IInv, TypeOK', BreakOff
  PROVE  Bundled'
<1> USE ActorsAssumption DEF IInv, Bundled, TypeOK, Actors, BreakOff, github, refresh, Fetching, Ends
<1>1. FallbacksFit'
  BY DEF FallbacksFit
<1>2. AllKnown'
  BY DEF AllKnown, Known
<1>3. Stages'
  BY DEF Stages
<1>4. RestoredValid'
  BY DEF RestoredValid
<1>5. RestoreServes'
  BY DEF RestoreServes
<1>6. TimePast'
  BY DEF TimePast
<1>7. AsNew'
  BY DEF AsNew
<1> QED
  BY <1>1, <1>2, <1>3, <1>4, <1>5, <1>6, <1>7

LEMMA SealBundles ==
  ASSUME IInv, TypeOK', Seal
  PROVE  Bundled'
<1> DEFINE b == bundle[Refresher]
           d == Recorded(b)
<1> USE DEF IInv, Bundled
<1>a. /\ pc[Refresher] = "fetch"
      /\ bundle' = [bundle EXCEPT ![Refresher] = d]
      /\ pc' = [pc EXCEPT ![Refresher] = "upload"]
      /\ UNCHANGED <<upstream, revision, fallback, published, checkout, restored, next, fetched, now>>
  BY DEF Seal, github, refresh
<1>b. b # NoBundle /\ b \in Bundles /\ b.whole /\ b.revision = checkout[Refresher]
  BY <1>a DEF RestoredValid, TypeOK, NoneOr, Actors
<1>c. /\ d \in Bundles /\ d # NoBundle
      /\ d.revision = b.revision /\ d.whole = b.whole /\ d.content = b.content
      /\ d.refreshed = [c \in Components |-> IF c \in fetched THEN now[c] ELSE b.refreshed[c]]
  BY <1>b, RecordedParts, NoBundleAssumption DEF TypeOK
<1>d. /\ bundle'[Refresher] = d /\ pc'[Refresher] = "upload"
      /\ \A a \in Actors : a # Refresher => bundle'[a] = bundle[a] /\ pc'[a] = pc[a]
  BY <1>a DEF TypeOK, Actors
<1>1. FallbacksFit'
  BY <1>a DEF FallbacksFit
<1>2. AllKnown'
  <2>1. \A c \in Components : b.refreshed[c] <= b.content[c] /\ b.content[c] <= upstream[c]
    BY <1>b DEF AllKnown, Known, Actors
  <2>2. \A c \in fetched : now[c] <= b.content[c]
    BY <1>a DEF TimePast
  <2>3. Known(d)
    BY <2>1, <2>2, <1>c DEF Known
  <2>4. \A a \in Actors : Known(bundle'[a])
    BY <2>3, <1>d DEF AllKnown
  <2> QED
    BY <2>4, <1>a DEF AllKnown, Known
<1>3. Stages'
  BY <1>a, <1>c, <1>d DEF Stages
<1>4. RestoredValid'
  <2>1. bundle'[Refresher] # NoBundle /\ bundle'[Refresher].whole
        /\ bundle'[Refresher].revision = checkout'[Refresher]
    BY <1>a, <1>b, <1>c, <1>d
  <2>2. ASSUME NEW a \in Actors, a # Refresher, pc'[a] \in {"ready", "fetch", "upload"}
        PROVE  bundle'[a] # NoBundle /\ bundle'[a].whole /\ bundle'[a].revision = checkout'[a]
    BY <1>a, <1>d, <2>2 DEF RestoredValid
  <2> QED
    BY <2>1, <2>2 DEF RestoredValid
<1>5. RestoreServes'
  BY <1>d DEF RestoreServes, Actors
<1>6. TimePast'
  BY <1>a, <1>d DEF TimePast
<1>7. AsNew'
  BY <1>a, <1>c, <1>d DEF AsNew
<1> QED
  BY <1>1, <1>2, <1>3, <1>4, <1>5, <1>6, <1>7

LEMMA PublishBundles ==
  ASSUME IInv, TypeOK', Publish
  PROVE  Bundled'
<1> USE ActorsAssumption DEF IInv, Bundled, TypeOK, Actors, Publish, refresh, Ends
<1>1. FallbacksFit'
  BY DEF FallbacksFit
<1>2. AllKnown'
  BY DEF AllKnown, Known
<1>3. Stages'
  BY DEF Stages
<1>4. RestoredValid'
  BY DEF RestoredValid
<1>5. RestoreServes'
  BY DEF RestoreServes
<1>6. TimePast'
  BY DEF TimePast
<1>7. AsNew'
  BY DEF AsNew
<1> QED
  BY <1>1, <1>2, <1>3, <1>4, <1>5, <1>6, <1>7

LEMMA ReleaseBundles ==
  ASSUME IInv, TypeOK', NEW c \in Components, Release(c)
  PROVE  Bundled'
<1> USE ActorsAssumption DEF IInv, Bundled, TypeOK, Actors, Release, refresh
<1>1. FallbacksFit'
  BY DEF FallbacksFit
<1>2. AllKnown'
  <2>1. \A d \in Components : upstream[d] \in Nat /\ upstream'[d] \in Nat /\ upstream[d] <= upstream'[d]
    BY DEF Versions
  <2>2. ASSUME NEW b \in NoneOr(Bundles), Known(b)
        PROVE  Known(b)'
    BY <2>1, <2>2, BundleTypes DEF Known, NoneOr
  <2> QED
    BY <2>2 DEF AllKnown, NoneOr
<1>3. Stages'
  BY DEF Stages
<1>4. RestoredValid'
  BY DEF RestoredValid
<1>5. RestoreServes'
  BY DEF RestoreServes
<1>6. TimePast'
  <2>1. \A d \in Components : upstream[d] \in Nat /\ upstream'[d] \in Nat /\ upstream[d] <= upstream'[d]
    BY DEF Versions
  <2>2. \A d \in Components : Oldest[d] \in Nat /\ now[d] \in Nat
    BY OldestVersions DEF Versions
  <2> QED
    BY <2>1, <2>2 DEF TimePast
<1>7. AsNew'
  BY DEF AsNew
<1> QED
  BY <1>1, <1>2, <1>3, <1>4, <1>5, <1>6, <1>7

LEMMA ProposeBundles ==
  ASSUME IInv, TypeOK', Propose
  PROVE  Bundled'
<1> USE ActorsAssumption DEF IInv, Bundled, TypeOK, Actors, Propose, refresh, Snapshot
<1>1. FallbacksFit'
  BY DEF FallbacksFit
<1>2. AllKnown'
  <2> DEFINE r == Len(fallback) + 1
  <2>1. PICK v \in {upstream, fallback[revision].content} : fallback' = Append(fallback, Snapshot(r, v))
    OBVIOUS
  <2>2. \A c \in Components : v[c] \in Nat /\ v[c] <= upstream[c]
    <3>1. \A c \in Components : upstream[c] \in Nat
      BY DEF Versions
    <3>2. fallback[revision] \in Bundles /\ fallback[revision] # NoBundle
      BY NoBundleAssumption
    <3>3. \A c \in Components : fallback[revision].content[c] \in Nat /\ fallback[revision].content[c] <= upstream[c]
      BY <3>2, BundleTypes DEF AllKnown, Known
    <3> QED
      BY <3>1, <3>3
  <2>3. Known(Snapshot(r, v))
    BY <2>2, SnapshotParts DEF Known
  <2>4. \A q \in DOMAIN fallback' : Known(fallback'[q])
    BY <2>1, <2>3 DEF AllKnown
  <2> QED
    BY <2>4 DEF AllKnown, Known
<1>3. Stages'
  BY DEF Stages
<1>4. RestoredValid'
  BY DEF RestoredValid
<1>5. RestoreServes'
  BY DEF RestoreServes
<1>6. TimePast'
  BY DEF TimePast
<1>7. AsNew'
  BY DEF AsNew
<1> QED
  BY <1>1, <1>2, <1>3, <1>4, <1>5, <1>6, <1>7

LEMMA MergeBundles ==
  ASSUME IInv, TypeOK', Merge
  PROVE  Bundled'
<1> USE ActorsAssumption DEF IInv, Bundled, TypeOK, Actors, Merge, refresh
<1>1. FallbacksFit'
  BY DEF FallbacksFit
<1>2. AllKnown'
  BY DEF AllKnown, Known
<1>3. Stages'
  BY DEF Stages
<1>4. RestoredValid'
  BY DEF RestoredValid
<1>5. RestoreServes'
  BY DEF RestoreServes
<1>6. TimePast'
  BY DEF TimePast
<1>7. AsNew'
  BY DEF AsNew
<1> QED
  BY <1>1, <1>2, <1>3, <1>4, <1>5, <1>6, <1>7

LEMMA UpdateBundles ==
  ASSUME IInv, TypeOK', Update
  PROVE  Bundled'
<1> USE ActorsAssumption DEF IInv, Bundled, TypeOK, Actors, Update, refresh, Snapshot
<1>1. FallbacksFit'
  BY DEF FallbacksFit
<1>2. AllKnown'
  <2>1. \A c \in Components : upstream[c] \in Nat
    BY DEF Versions
  <2>2. Known(Snapshot(revision, upstream))
    BY <2>1, SnapshotParts DEF Known
  <2>3. \A q \in DOMAIN fallback' : Known(fallback'[q])
    BY <2>2 DEF AllKnown
  <2> QED
    BY <2>3 DEF AllKnown, Known
<1>3. Stages'
  BY DEF Stages
<1>4. RestoredValid'
  BY DEF RestoredValid
<1>5. RestoreServes'
  BY DEF RestoreServes
<1>6. TimePast'
  BY DEF TimePast
<1>7. AsNew'
  BY DEF AsNew
<1> QED
  BY <1>1, <1>2, <1>3, <1>4, <1>5, <1>6, <1>7

(***************************************************************************)
(* The theorems.                                                           *)
(***************************************************************************)
LEMMA InitInvariant == Init => IInv
<1> SUFFICES ASSUME Init PROVE IInv
  OBVIOUS
<1>1. TypeOK
  BY InitTypes
<1>2. \A c \in Components : Oldest[c] \in Nat
  BY OldestVersions DEF Versions
<1>3. Known(Snapshot(1, Oldest))
  BY <1>2, SnapshotParts DEF Known, Init
<1>4. AllKnown
  BY <1>3 DEF AllKnown, Known, Init
<1>5. FallbacksFit
  BY SnapshotParts DEF FallbacksFit, Init
<1>6. TimePast
  BY <1>2 DEF TimePast, Init, Actors
<1> QED
  BY <1>1, <1>4, <1>5, <1>6
     DEF IInv, Bundled, Stages, RestoredValid, RestoreServes, AsNew, Init, Actors

LEMMA NextInvariant == IInv /\ [Next]_vars => IInv'
<1> SUFFICES ASSUME IInv, [Next]_vars PROVE IInv'
  OBVIOUS
<1> USE DEF IInv
<1>1. ASSUME NEW a \in Actors, Checkout(a) PROVE IInv'
  <2>1. TypeOK'
    BY <1>1, CheckoutTypes
  <2> QED
    BY <1>1, <2>1, CheckoutBundles
<1>2. ASSUME NEW a \in Actors, List(a) PROVE IInv'
  <2>1. TypeOK'
    BY <1>2, ListTypes
  <2> QED
    BY <1>2, <2>1, ListBundles
<1>3. ASSUME NEW a \in Actors, ListNothing(a) PROVE IInv'
  <2>1. TypeOK'
    BY <1>3, ListNothingTypes
  <2> QED
    BY <1>3, <2>1, ListNothingBundles
<1>4. ASSUME NEW a \in Actors, Accept(a) PROVE IInv'
  <2>1. TypeOK'
    BY <1>4, AcceptTypes
  <2> QED
    BY <1>4, <2>1, AcceptBundles
<1>5. ASSUME NEW a \in Actors, Reject(a) PROVE IInv'
  <2>1. TypeOK'
    BY <1>5, RejectTypes
  <2> QED
    BY <1>5, <2>1, RejectBundles
<1>6. ASSUME NEW a \in Actors, UseFallback(a) PROVE IInv'
  <2>1. TypeOK'
    BY <1>6, UseFallbackTypes DEF Bundled
  <2> QED
    BY <1>6, <2>1, UseFallbackBundles
<1>7. ASSUME NEW a \in Actors, Finish(a) PROVE IInv'
  <2>1. TypeOK'
    BY <1>7, FinishTypes
  <2> QED
    BY <1>7, <2>1, FinishBundles
<1>8. ASSUME NEW a \in Actors, Kill(a) PROVE IInv'
  <2>1. TypeOK'
    BY <1>8, KillTypes
  <2> QED
    BY <1>8, <2>1, KillBundles
<1>9. CASE Prepare
  <2>1. TypeOK'
    BY <1>9, PrepareTypes
  <2> QED
    BY <1>9, <2>1, PrepareBundles
<1>10. CASE Fetch
  <2>1. TypeOK'
    BY <1>10, FetchTypes DEF Bundled
  <2> QED
    BY <1>10, <2>1, FetchBundles
<1>11. CASE Retain
  <2>1. TypeOK'
    BY <1>11, RetainTypes
  <2> QED
    BY <1>11, <2>1, RetainBundles
<1>12. CASE BreakOff
  <2>1. TypeOK'
    BY <1>12, BreakOffTypes
  <2> QED
    BY <1>12, <2>1, BreakOffBundles
<1>13. CASE Seal
  <2>1. TypeOK'
    BY <1>13, SealTypes DEF Bundled
  <2> QED
    BY <1>13, <2>1, SealBundles
<1>14. CASE Publish
  <2>1. TypeOK'
    BY <1>14, PublishTypes
  <2> QED
    BY <1>14, <2>1, PublishBundles
<1>15. ASSUME NEW c \in Components, Release(c) PROVE IInv'
  <2>1. TypeOK'
    BY <1>15, ReleaseTypes
  <2> QED
    BY <1>15, <2>1, ReleaseBundles
<1>16. CASE Propose
  <2>1. TypeOK'
    BY <1>16, ProposeTypes
  <2> QED
    BY <1>16, <2>1, ProposeBundles
<1>17. CASE Merge
  <2>1. TypeOK'
    BY <1>17, MergeTypes
  <2> QED
    BY <1>17, <2>1, MergeBundles
<1>18. CASE Update
  <2>1. TypeOK'
    BY <1>18, UpdateTypes
  <2> QED
    BY <1>18, <2>1, UpdateBundles
<1>19. CASE UNCHANGED vars
  BY <1>19 DEF vars, github, refresh, TypeOK, Bundled, FallbacksFit, AllKnown, Known, Stages,
     RestoredValid, RestoreServes, TimePast, AsNew
<1> QED
  BY <1>1, <1>2, <1>3, <1>4, <1>5, <1>6, <1>7, <1>8, <1>9, <1>10, <1>11, <1>12, <1>13, <1>14, <1>15, <1>16, <1>17, <1>18, <1>19 DEF Next, Restore, Refresh

LEMMA Invariant == Spec => []IInv
BY InitInvariant, NextInvariant, PTL DEF Spec

\* Every state has its type, for all components, consumers and bounds.
THEOREM InputsTypeCorrect == Spec => []TypeOK
BY Invariant, PTL DEF IInv

\* What a workflow restores and works on is a whole bundle of its own revision.
THEOREM RestoredValidHolds == Spec => []RestoredValid
BY Invariant, PTL DEF IInv, Bundled

\* A restore never ends without a bundle.
THEOREM RestoreServesHolds == Spec => []RestoreServes
BY Invariant, PTL DEF IInv, Bundled

\* Each component is at least as new as its record says.
THEOREM RetentionHonestHolds == Spec => []RetentionHonest
<1>1. IInv => RetentionHonest
  BY DEF IInv, Bundled, AllKnown, Known, RetentionHonest
<1> QED
  BY <1>1, Invariant, PTL

\* A published component goes back to an older version only in a run that could
\* neither restore the last artifact nor fetch the component.
THEOREM KnownGoodKeptHolds == Spec => KnownGoodKept
<1> DEFINE Kept ==
      \A c \in Components :
        published # NoBundle /\ published'.content[c] < published.content[c]
          => ~ restored[Refresher] /\ c \notin fetched
<1>1. IInv /\ [Next]_vars => [Kept]_published
  <2> SUFFICES ASSUME IInv, [Next]_vars, published' # published PROVE Kept
    OBVIOUS
  <2>1. Publish
    BY DEF Next, Restore, Refresh, vars, github, Checkout, List, ListNothing, Accept, Reject,
       UseFallback, Finish, Kill, Prepare, Fetch, Retain, BreakOff, Seal, Release, Propose,
       Merge, Update
  <2>2. pc[Refresher] = "upload" /\ published' = bundle[Refresher]
    BY <2>1 DEF Publish
  <2>3. bundle[Refresher] \in Bundles
    BY <2>2 DEF IInv, Bundled, RestoredValid, TypeOK, NoneOr, Actors
  <2>4. SUFFICES ASSUME NEW c \in Components, published # NoBundle,
                        bundle[Refresher].content[c] < published.content[c]
                 PROVE  ~ restored[Refresher] /\ c \notin fetched
    BY <2>2
  <2>5. published.content[c] \in Nat /\ bundle[Refresher].content[c] \in Nat
    BY <2>3, <2>4, BundleTypes DEF IInv, TypeOK, NoneOr
  <2> QED
    BY <2>2, <2>4, <2>5 DEF IInv, Bundled, AsNew
<1> QED
  BY <1>1, Invariant, PTL DEF Spec, KnownGoodKept
=============================================================================
