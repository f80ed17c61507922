--------------------------- MODULE TmpfsRefinement --------------------------
(***************************************************************************)
(* The service implements a write-back store, for the files it mirrors:    *)
(* the disk is the store, the daemons' updates are the cache.              *)
(***************************************************************************)
EXTENDS TmpfsService

Mirrored == Files \ Excluded
OfMirrored(tree) == [f \in Mirrored |-> tree[f]]

Store == INSTANCE WriteBackStore
  WITH Files <- Mirrored, cache <- OfMirrored(latest),
       store <- OfMirrored(disk), promised <- OfMirrored(promised)

\* Every step of every command is a step of the write-back store or none:
\* mirroring and mounting move no data, the restore flushes whole files, and
\* success is only reported once everything from before is on the disk.
ImplementsStore == Store!Spec

=============================================================================
