------------------------------ MODULE DebAssembly ------------------------------
(***************************************************************************)
(* assemble-cix-debs.py: the packages that the rows of the build matrix    *)
(* have made become one set.  Kernel headers that are the same in every    *)
(* package of a version go to a common package, and each package keeps a   *)
(* relative link at their place; of the userspace headers, which must be   *)
(* the same in all, one package is kept.                                   *)
(*                                                                         *)
(* A row is [line, variant]; the line stands for the version of its        *)
(* packages.  A package is [pkg, row, line, dir, payload], where dir is    *)
(* the artifact that it came in.  A headers tree gives every path an entry *)
(* [type, mode, content], or Absent.                                       *)
(***************************************************************************)
EXTENDS Integers, Sequences, FiniteSets

CONSTANTS
  Paths,    \* the paths of headers trees, sequences of names
  Private,  \* those that are build inputs of one release
  Absent

ASSUME PathsAssumption == \A p \in Paths : p \in Seq(STRING) /\ Len(p) > 0

LinesOf(rows) == {r.line : r \in rows}
RowsOf(rows, l) == {r \in rows : r.line = l}
Of(debs, pkg) == {d \in debs : d.pkg = pkg}
OfRow(debs, pkg, r) == {d \in Of(debs, pkg) : d.row = r}
OfLine(debs, pkg, l) == {d \in Of(debs, pkg) : d.line = l}

-----------------------------------------------------------------------------
(* What is accepted *)

\* Every package is one that the matrix announces, and each of them is there
\* once, in its version.
Announced(debs, rows) ==
  /\ \A d \in debs : d.pkg = "libc" \/ (d.pkg \in {"image", "headers"} /\ d.row \in rows
                                         /\ d.line = d.row.line)
  /\ \A r \in rows, pkg \in {"image", "headers"} : Cardinality(OfRow(debs, pkg, r)) = 1

\* Userspace headers came with each headers package, and only with those.
WithUserspace(debs, rows) ==
  /\ {d.line : d \in Of(debs, "libc")} = LinesOf(rows)
  /\ \A l \in LinesOf(rows) :
       /\ Cardinality(OfLine(debs, "libc", l)) = Cardinality(RowsOf(rows, l))
       /\ {d.dir : d \in OfLine(debs, "libc", l)} = {d.dir : d \in OfLine(debs, "headers", l)}

SameUserspace(debs, rows) ==
  \A d, e \in Of(debs, "libc") : d.line = e.line => d.payload = e.payload

\* Mutant of Accepted: that every row brought userspace headers is not asked.
AcceptedUncounted(debs, rows) ==
  rows # {} /\ Announced(debs, rows) /\ SameUserspace(debs, rows)

Accepted(debs, rows) ==
  /\ rows # {} /\ Announced(debs, rows)
  /\ WithUserspace(debs, rows) /\ SameUserspace(debs, rows)

-----------------------------------------------------------------------------
(* The split of the headers: trees[r] is the tree of row r *)

Shared(trees) ==
  {p \in Paths \ Private : \A r, s \in DOMAIN trees :
     trees[r][p] # Absent /\ trees[r][p].type = "file" /\ trees[r][p] = trees[s][p]}

\* The link at a shared path: from the directory it is in, up to /usr/src,
\* and down to the same path in the common tree.
LinkAt(p) == [type |-> "common", up |-> Len(p), down |-> <<"common">> \o p]

ASSUME AbsentAssumption == \A p \in Paths : LinkAt(p) # Absent

Split(trees) ==
  [r \in DOMAIN trees |->
     [p \in Paths |-> IF p \in Shared(trees) THEN LinkAt(p) ELSE trees[r][p]]]

\* The files of the first tree are taken.
Common(trees, first) ==
  [p \in Paths |-> IF p \in Shared(trees) THEN trees[first][p] ELSE Absent]

\* Where a link in tree r at path p leads, from /usr/src.
Leads(r, p, link) ==
  SubSeq(<<r>> \o SubSeq(p, 1, Len(p) - 1), 1, Len(p) - link.up) \o link.down

\* What a reader finds at path p of the tree of row r when both packages are
\* installed.
Found(trees, first, r, p) ==
  LET entry == Split(trees)[r][p]
  IN IF entry # Absent /\ entry.type = "common"
     THEN LET place == Leads(r, p, entry)
          IN IF Head(place) = "common" /\ Tail(place) \in Paths
             THEN Common(trees, first)[Tail(place)] ELSE Absent
     ELSE entry

-----------------------------------------------------------------------------
(* The whole assembly *)

Trees(debs, rows, l) ==
  [r \in RowsOf(rows, l) |-> (CHOOSE d \in debs : d.pkg = "headers" /\ d.row = r).payload]

\* The code also refuses if a split tree does not give the original back.
Assembles(debs, rows) ==
  /\ Accepted(debs, rows)
  /\ \A l \in LinesOf(rows) : Shared(Trees(debs, rows, l)) # {}

\* What the packages of the set give when they are installed.
Installed(debs, rows) ==
  [images |-> {d.row : d \in Of(debs, "image")},
   headers |-> [r \in rows |->
     LET trees == Trees(debs, rows, r.line)
         first == CHOOSE s \in DOMAIN trees : TRUE
     IN [p \in Paths |-> Found(trees, first, r, p)]],
   libc |-> [l \in LinesOf(rows) |-> {d.payload : d \in OfLine(debs, "libc", l)}]]

=============================================================================
