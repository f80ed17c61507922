--------------------------- MODULE WriteBackStore ---------------------------
(***************************************************************************)
(* What the tmpfs service promises: a write-back cache in front of a       *)
(* durable store.  Contents are numbers of updates, as in TmpfsService.    *)
(* Files reach the store one at a time, in any order; a promise made to    *)
(* the user is never above what is stored; a crash brings back the store.  *)
(***************************************************************************)
EXTENDS Naturals

CONSTANT Files

VARIABLES
  cache,     \* the last update of each file, as its users know it
  store,     \* the update of each file a crash would bring back
  promised   \* the update of each file its users may rely on

vars == <<cache, store, promised>>

Init ==
  /\ cache \in [Files -> Nat]
  /\ store = cache /\ promised = cache

\* An update in the cache alone.
Update(f) ==
  /\ cache'[f] > cache[f] /\ cache' = [cache EXCEPT ![f] = cache'[f]]
  /\ UNCHANGED <<store, promised>>

\* An update written through, which the user may rely on at once.
WriteThrough(f) ==
  /\ cache'[f] > cache[f] /\ cache' = [cache EXCEPT ![f] = cache'[f]]
  /\ store' = [store EXCEPT ![f] = cache'[f]]
  /\ promised' = [promised EXCEPT ![f] = cache'[f]]

Flush(f) ==
  /\ store' = [store EXCEPT ![f] = cache[f]]
  /\ UNCHANGED <<cache, promised>>

\* Promises grow, up to what is stored.
Acknowledge ==
  /\ \A f \in Files : promised[f] <= promised'[f] /\ promised'[f] <= store[f]
  /\ UNCHANGED <<cache, store>>

Crash == cache' = store /\ UNCHANGED <<store, promised>>

Next ==
  \/ \E f \in Files : Update(f) \/ WriteThrough(f) \/ Flush(f)
  \/ Acknowledge \/ Crash

Spec == Init /\ [][Next]_vars

\* What the promises come to: no update a user relies on is lost.
PromisesKept == \A f \in Files : promised[f] <= store[f] /\ store[f] <= cache[f]

=============================================================================
