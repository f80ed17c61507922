---------------------------- MODULE SourceVersions ----------------------------
(***************************************************************************)
(* Which kernel sources are built, and whether they are up to date.  Three *)
(* programs choose the newest version of each line from a list of file     *)
(* names, each in its own way: discover-cix-matrix.py for the build,       *)
(* check-cix-source-versions.py for the comparison with Gentoo, and        *)
(* compact_gentoo_metadata for the part of Gentoo's list that is retained. *)
(***************************************************************************)
EXTENDS Integers, FiniteSets

CONSTANTS
  Names,      \* the names that ebuilds may have, with the package left out
  First,      \* the oldest line that is still built: 6.18
  Declared,   \* lines with an NPU ABI, a preimage boundary and a seed
  Required,   \* lines that must be there
  SeedOf,     \* SeedOf[line]: the Ubuntu configuration to start from
  MaxEbuilds, \* bound: ebuilds in the overlay
  MaxUpstream,\* bound: ebuilds at Gentoo
  Nothing     \* what a program gives that refuses

Boards == {"o6-acpi", "o6n-acpi"}
Firmwares == {"1.2", "1.3"}
Flavours == {"generic", "generic-64k"}

\* The ACPI tables to replace: on an O6 the DSDT, whatever the firmware.
Upgrade(board, firmware) ==
  IF firmware = "1.3" /\ board # "o6-acpi" THEN "ssdt" ELSE "dsdt"

VARIABLES
  ebuilds,    \* the cix-sources ebuilds of the overlay
  stray,      \* a cix-sources file whose name is no version
  upstream,   \* the gentoo-sources ebuilds at Gentoo
  retained,   \* the part of that list that the last refresh has kept
  refreshed,  \* history: the whole list as that refresh saw it, by line
  matrix,     \* the sources that discover has chosen, or Nothing
  verdict     \* what the comparison says of the present lists

repository == <<ebuilds, stray, upstream, retained, refreshed>>
vars == <<ebuilds, stray, upstream, retained, refreshed, matrix, verdict>>

\* A name is [line, patch, rev, dashed]; "-r0" may be written or left out.
\* The key of a version; both spellings of revision 0 have the same.
Key(n) == <<n.patch, n.rev>>
Less(a, b) == a[1] < b[1] \/ (a[1] = b[1] /\ a[2] < b[2])

OfLine(S, l) == {n \in S : n.line = l}
\* The names that no other is newer than: one, or both spellings of one.
Newest(S, l) == {n \in OfLine(S, l) : \A m \in OfLine(S, l) : ~Less(Key(n), Key(m))}

\* In a list by name "-r0.ebuild" comes before ".ebuild", and the first of
\* the newest is taken.
FirstNewest(S, l) == CHOOSE n \in Newest(S, l) : n.dashed \/ \A m \in Newest(S, l) : ~m.dashed

Complete(S) == \A l \in Required : OfLine(S, l) # {}

-----------------------------------------------------------------------------
(* discover-cix-matrix.py *)

Maintained(S) == {l \in {n.line : n \in S} : l >= First}

Discoverable == ~stray /\ Maintained(ebuilds) \subseteq Declared /\ Complete(ebuilds)

\* select_ebuilds: glob's order decides between two spellings.
Selections == {f \in [Maintained(ebuilds) -> ebuilds] :
                 \A l \in DOMAIN f : f[l] \in Newest(ebuilds, l)}

DebRevision(n) == n.rev + 1

\* expand_build_matrix
BuildMatrix(f) ==
  {[line |-> l, patch |-> f[l].patch, deb |-> DebRevision(f[l]), board |-> b,
    firmware |-> w, flavour |-> v, upgrade |-> Upgrade(b, w)] :
     l \in DOMAIN f, b \in Boards, w \in Firmwares, v \in Flavours}

\* expand_ubuntu_config_matrix
Seeds(f) == {SeedOf[l] : l \in DOMAIN f}

Discover ==
  /\ IF Discoverable
     THEN \E f \in Selections :
            matrix' = [selected |-> f, rows |-> BuildMatrix(f), seeds |-> Seeds(f)]
     ELSE matrix' = Nothing
  /\ UNCHANGED <<repository, verdict>>

-----------------------------------------------------------------------------
(* check-cix-source-versions.py *)

\* Versions are compared as they are written: -r0 is not the same as none.
Written(n) == <<n.patch, n.rev, n.dashed>>

\* Mutant of Said: the patch level is enough.
SaidOfPatch(mine, theirs) ==
  IF \A l \in Required : mine[l].patch = theirs[l].patch THEN "current" ELSE "behind"

Said(mine, theirs) ==
  IF \A l \in Required : Written(mine[l]) = Written(theirs[l]) THEN "current" ELSE "behind"

Check ==
  /\ IF Complete(ebuilds)
     THEN \E f \in [Required -> ebuilds] :
            /\ \A l \in Required : f[l] \in Newest(ebuilds, l)
            /\ verdict' = Said(f, [l \in Required |-> FirstNewest(retained, l)])
     ELSE verdict' = "refused"
  /\ UNCHANGED <<repository, matrix>>

-----------------------------------------------------------------------------
(* The lists *)

\* compact_gentoo_metadata
Compact(S) == {FirstNewest(S, l) : l \in Required}

\* The daily refresh; a list that lacks a line is not taken.
Refresh ==
  /\ Complete(upstream)
  /\ retained' = Compact(upstream)
  /\ refreshed' = [l \in Required |-> {Key(n) : n \in Newest(upstream, l)}]
  /\ matrix' = Nothing /\ verdict' = "none"
  /\ UNCHANGED <<ebuilds, stray, upstream>>

\* Gentoo adds and drops ebuilds; so do the maintainers of the overlay.
Upstream ==
  /\ \/ \E n \in Names : upstream' = upstream \cup {n} /\ Cardinality(upstream') <= MaxUpstream
     \/ \E n \in upstream : upstream' = upstream \ {n}
  /\ matrix' = Nothing /\ verdict' = "none"
  /\ UNCHANGED <<ebuilds, stray, retained, refreshed>>

Maintain ==
  /\ \/ \E n \in Names : ebuilds' = ebuilds \cup {n} /\ Cardinality(ebuilds') <= MaxEbuilds
     \/ \E n \in ebuilds : ebuilds' = ebuilds \ {n}
     \/ UNCHANGED ebuilds
  /\ stray' \in BOOLEAN
  /\ matrix' = Nothing /\ verdict' = "none"
  /\ UNCHANGED <<upstream, retained, refreshed>>

Init ==
  /\ ebuilds \in {S \in SUBSET Names : Cardinality(S) <= MaxEbuilds /\ Complete(S)}
  /\ stray = FALSE
  /\ upstream = ebuilds /\ retained = Compact(ebuilds)
  /\ refreshed = [l \in Required |-> {Key(n) : n \in Newest(ebuilds, l)}]
  /\ matrix = Nothing /\ verdict = "none"

Next == Upstream \/ Maintain \/ Refresh \/ Discover \/ Check

Spec == Init /\ [][Next]_vars

-----------------------------------------------------------------------------
TypeOK ==
  /\ ebuilds \subseteq Names /\ upstream \subseteq Names /\ retained \subseteq Names
  /\ stray \in BOOLEAN /\ verdict \in {"none", "current", "behind", "refused"}
  /\ matrix # Nothing => DOMAIN matrix.selected \subseteq Declared

\* What the three choose fits together: the comparison says "current" only if
\* the build takes, of each line, the version that was the newest of Gentoo's
\* whole list at the last refresh; and it says so whenever no name has "-r0".
SelectionsAgree ==
  /\ verdict = "current" /\ matrix # Nothing =>
       \A l \in Required : {Key(matrix.selected[l])} = refreshed[l]
  /\ verdict = "behind" /\ (\A n \in ebuilds \cup retained : n.dashed => n.rev > 0) =>
       \E l \in Required : {Key(n) : n \in Newest(ebuilds, l)} # refreshed[l]

=============================================================================
