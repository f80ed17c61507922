------------------------- MODULE KernelPackages_proofs -------------------------
(* For every set of rows and seeds, and whatever fails or is repeated how     *)
(* often: the split of the headers, the types, that what a run offers is one  *)
(* whole set of packages, and the versions chosen in the composed system.     *)
EXTENDS MCKernelPackages, TLAPS, SequenceTheorems, FiniteSetTheorems

-----------------------------------------------------------------------------
(* The split of the headers, for every set of paths and any number of trees *)

\* Trees as the builds make them: they hold no link into the common package.
Original(trees) ==
  \A r \in DOMAIN trees, p \in Paths : trees[r][p] = Absent \/ trees[r][p].type # "common"

\* The relative link at a path leads to the same path of the common tree.
LEMMA LinkLeads ==
  ASSUME NEW r, NEW p \in Paths
  PROVE  Leads(r, p, LinkAt(p)) = <<"common">> \o p
<1> DEFINE above == <<r>> \o SubSeq(p, 1, Len(p) - 1)
           S == STRING \cup {r, "common"}
<1>1. p \in Seq(S) /\ Len(p) \in Nat /\ Len(p) > 0
  BY PathsAssumption
<1>2. above \in Seq(S)
  BY <1>1
<1>3. SubSeq(above, 1, 0) = <<>>
  BY <1>2
<1>4. <<"common">> \o p \in Seq(S)
  <2>1. <<"common">> \in Seq(S)
    OBVIOUS
  <2> QED  BY <2>1, <1>1, ConcatProperties
<1>5. LinkAt(p).up = Len(p) /\ LinkAt(p).down = <<"common">> \o p
  BY DEF LinkAt
<1>6. Leads(r, p, LinkAt(p)) = SubSeq(above, 1, 0) \o (<<"common">> \o p)
  BY <1>1, <1>5 DEF Leads
<1> QED  BY <1>3, <1>4, <1>6

\* Whoever installs a split tree beside the common one finds at every path what
\* the build put there.
THEOREM SplitKeepsPaths ==
  ASSUME NEW trees, NEW first \in DOMAIN trees, NEW r \in DOMAIN trees, NEW p \in Paths,
         Original(trees)
  PROVE  Found(trees, first, r, p) = trees[r][p]
<1>1. CASE p \in Shared(trees)
  <2>1. Split(trees)[r][p] = LinkAt(p)
    BY <1>1 DEF Split
  <2>2. LinkAt(p) # Absent /\ LinkAt(p).type = "common"
    BY AbsentAssumption DEF LinkAt
  <2>3. Leads(r, p, LinkAt(p)) = <<"common">> \o p
    BY LinkLeads
  <2>4. Head(<<"common">> \o p) = "common" /\ Tail(<<"common">> \o p) = p
    BY PathsAssumption
  <2>5. Found(trees, first, r, p) = Common(trees, first)[p]
    BY <2>1, <2>2, <2>3, <2>4 DEF Found
  <2>6. Common(trees, first)[p] = trees[first][p]
    BY <1>1 DEF Common
  <2>7. trees[first][p] = trees[r][p]
    BY <1>1 DEF Shared
  <2> QED  BY <2>5, <2>6, <2>7
<1>2. CASE p \notin Shared(trees)
  <2>1. Split(trees)[r][p] = trees[r][p]
    BY <1>2 DEF Split
  <2> QED  BY <2>1 DEF Found, Original
<1> QED  BY <1>1, <1>2

-----------------------------------------------------------------------------
(* The graph of jobs *)

Kind(j) == j[1]

LEMMA Kinds ==
  /\ Kind(DiscoverJob) = "discover" /\ Kind(Preflight) = "preflight"
  /\ Kind(External) = "external-inputs" /\ Kind(Assemble) = "assemble"
  /\ Kind(Release) = "release"
  /\ \A j \in UbuntuJobs : Kind(j) = "ubuntu-configs"
  /\ \A j \in ValidationJobs : Kind(j) = "source-validation"
  /\ \A j \in BuildJobs : Kind(j) = "build"
  BY DEF Kind, DiscoverJob, Preflight, External, Assemble, Release, UbuntuJobs,
         ValidationJobs, BuildJobs, Ubuntu, Validation, Build

LEMMA JobsOfOneKind ==
  ASSUME NEW j \in Jobs
  PROVE  /\ Kind(j) = "discover" => j = DiscoverJob
         /\ Kind(j) = "preflight" => j = Preflight
         /\ Kind(j) = "external-inputs" => j = External
         /\ Kind(j) = "ubuntu-configs" => j \in UbuntuJobs
         /\ Kind(j) = "source-validation" => j \in ValidationJobs
         /\ Kind(j) = "build" => j \in BuildJobs
         /\ Kind(j) = "assemble" => j = Assemble
         /\ Kind(j) = "release" => j = Release
         /\ Kind(j) \in {"discover", "preflight", "external-inputs", "ubuntu-configs",
                         "source-validation", "build", "assemble", "release"}
  BY Kinds DEF Jobs

LEMMA SeedsAndRows ==
  /\ \A s, t \in Seeds : Ubuntu(s) = Ubuntu(t) => s = t
  /\ \A r, q \in Rows : Build(r) = Build(q) => r = q
  /\ \A s \in Seeds : Ubuntu(s) \in UbuntuJobs
  /\ \A r \in Rows : Build(r) \in BuildJobs
  BY DEF Ubuntu, Build, UbuntuJobs, BuildJobs

LEMMA NeedsOfJobs ==
  /\ Needs(DiscoverJob) = {} /\ Needs(Preflight) = {}
  /\ Needs(External) = {Preflight}
  /\ \A j \in UbuntuJobs : Needs(j) = {DiscoverJob, External, Preflight}
  /\ \A j \in ValidationJobs : Needs(j) = {DiscoverJob, Preflight}
  /\ \A j \in BuildJobs :
       Needs(j) = {DiscoverJob, External, Preflight} \cup UbuntuJobs \cup ValidationJobs
  /\ Needs(Assemble) = {DiscoverJob} \cup BuildJobs
  /\ Needs(Release) = {Assemble}
<1> USE Kinds
<1>1. Needs(DiscoverJob) = {} /\ Needs(Preflight) = {}  BY DEF Needs
<1>2. Needs(External) = {Preflight}  BY DEF Needs
<1>3. \A j \in UbuntuJobs : Needs(j) = {DiscoverJob, External, Preflight}  BY DEF Needs
<1>4. \A j \in ValidationJobs : Needs(j) = {DiscoverJob, Preflight}  BY DEF Needs
<1>5. \A j \in BuildJobs :
        Needs(j) = {DiscoverJob, External, Preflight} \cup UbuntuJobs \cup ValidationJobs
  BY DEF Needs
<1>6. Needs(Assemble) = {DiscoverJob} \cup BuildJobs  BY DEF Needs
<1>7. Needs(Release) = {Assemble}  BY DEF Needs
<1> QED  BY <1>1, <1>2, <1>3, <1>4, <1>5, <1>6, <1>7

\* How many jobs may come before a job, one after the other.
Rank(j) ==
  CASE Kind(j) = "external-inputs" -> 1
    [] Kind(j) = "source-validation" -> 1
    [] Kind(j) = "ubuntu-configs" -> 2
    [] Kind(j) = "build" -> 3
    [] Kind(j) = "assemble" -> 4
    [] Kind(j) = "release" -> 5
    [] OTHER -> 0

LEMMA RankGrows ==
  ASSUME NEW j \in Jobs, NEW n \in Needs(j)
  PROVE  n \in Jobs /\ Rank(n) \in 0..5 /\ Rank(j) \in 0..5 /\ Rank(n) < Rank(j)
<1>1. n \in Jobs
  BY JobsOfOneKind, NeedsOfJobs DEF Jobs
<1>2. Rank(j) \in 0..5 /\ Rank(n) \in 0..5
  BY DEF Rank
<1>3. Rank(n) < Rank(j)
  <2> USE Kinds
  <2>1. CASE j \in {DiscoverJob, Preflight}  BY <2>1, NeedsOfJobs
  <2>2. CASE j = External
    <3>1. n = Preflight  BY <2>2, NeedsOfJobs
    <3> QED  BY <3>1, <2>2 DEF Rank
  <2>3. CASE j \in UbuntuJobs
    <3>1. n \in {DiscoverJob, External, Preflight}  BY <2>3, NeedsOfJobs
    <3> QED  BY <3>1, <2>3 DEF Rank
  <2>4. CASE j \in ValidationJobs
    <3>1. n \in {DiscoverJob, Preflight}  BY <2>4, NeedsOfJobs
    <3> QED  BY <3>1, <2>4 DEF Rank
  <2>5. CASE j \in BuildJobs
    <3>1. n \in {DiscoverJob, External, Preflight} \cup UbuntuJobs \cup ValidationJobs
      BY <2>5, NeedsOfJobs
    <3>2. Kind(n) \in {"discover", "external-inputs", "preflight", "ubuntu-configs", "source-validation"}
      BY <3>1
    <3> QED  BY <3>2, <2>5 DEF Rank
  <2>6. CASE j = Assemble
    <3>1. n \in {DiscoverJob} \cup BuildJobs  BY <2>6, NeedsOfJobs
    <3>2. Kind(n) \in {"discover", "build"}  BY <3>1
    <3> QED  BY <3>2, <2>6 DEF Rank
  <2>7. CASE j = Release
    <3>1. n = Assemble  BY <2>7, NeedsOfJobs
    <3> QED  BY <3>1, <2>7 DEF Rank
  <2> QED  BY <2>1, <2>2, <2>3, <2>4, <2>5, <2>6, <2>7 DEF Jobs
<1> QED  BY <1>1, <1>2, <1>3

\* A job with a need among the dependents is one of them: five steps are enough.
LEMMA DependentsClosed ==
  ASSUME NEW S \in SUBSET Jobs, NEW j \in Jobs, NEW n \in Needs(j), n \in Dependents(S)
  PROVE  j \in Dependents(S)
<1> DEFINE S1 == With(S)
           S2 == With(S1)
           S3 == With(S2)
           S4 == With(S3)
           S5 == With(S4)
<1>1. ASSUME NEW T, NEW k \in With(T), k \notin T
      PROVE  k \in Jobs /\ \E m \in Needs(k) : m \in T
  BY <1>1 DEF With
<1>2. ASSUME NEW T, NEW k \in Jobs, NEW m \in Needs(k), m \in T
      PROVE  k \in With(T)
  BY <1>2 DEF With
<1>3. \A T : T \subseteq With(T)
  BY DEF With
<1>4. Dependents(S) = S5
  BY DEF Dependents
<1> HIDE DEF S1, S2, S3, S4, S5
<1>5. SUFFICES ASSUME j \notin S5 PROVE FALSE
  BY <1>4
<1>6. n \in S5 /\ n \notin S4
  BY <1>2, <1>4, <1>5 DEF S5
<1>7. PICK n1 \in Needs(n) : n1 \in S4 /\ n1 \notin S3
  BY <1>1, <1>2, <1>6 DEF S5, S4
<1>8. PICK n2 \in Needs(n1) : n2 \in S3 /\ n2 \notin S2
  BY <1>1, <1>2, <1>7 DEF S4, S3
<1>9. PICK n3 \in Needs(n2) : n3 \in S2 /\ n3 \notin S1
  BY <1>1, <1>2, <1>8 DEF S3, S2
<1>10. PICK n4 \in Needs(n3) : n4 \in S1 /\ n4 \notin S
  BY <1>1, <1>2, <1>9 DEF S2, S1
<1>11. PICK n5 \in Needs(n4) : n5 \in S
  BY <1>1, <1>10 DEF S1
<1>12. n \in Jobs /\ Rank(n) < Rank(j) /\ Rank(j) \in 0..5 /\ Rank(n) \in 0..5  BY RankGrows
<1>13. n1 \in Jobs /\ Rank(n1) < Rank(n) /\ Rank(n1) \in 0..5  BY <1>12, RankGrows
<1>14. n2 \in Jobs /\ Rank(n2) < Rank(n1) /\ Rank(n2) \in 0..5  BY <1>13, RankGrows
<1>15. n3 \in Jobs /\ Rank(n3) < Rank(n2) /\ Rank(n3) \in 0..5  BY <1>14, RankGrows
<1>16. n4 \in Jobs /\ Rank(n4) < Rank(n3) /\ Rank(n4) \in 0..5  BY <1>15, RankGrows
<1>17. Rank(n5) < Rank(n4) /\ Rank(n5) \in 0..5  BY <1>16, RankGrows
<1> QED  BY <1>12, <1>13, <1>14, <1>15, <1>16, <1>17

-----------------------------------------------------------------------------
(* What an accepted assembly holds *)

LEMMA PackagesOfRow ==
  ASSUME NEW r, NEW b, NEW d \in Packages(r, b)
  PROVE  /\ d.row = r /\ d.line = r.line /\ d.dir = r
         /\ d.pkg \in {"image", "headers", "libc", "dbg"}
         /\ d.pkg = "headers" => d.payload = Tree[r]
<1>1. CASE d \in {Deb(r, "image", "image"), Deb(r, "headers", Tree[r])}  BY <1>1 DEF Deb
<1>2. CASE d \in LibcOf(r, b)
  <2>1. PICK payload : d = Deb(r, "libc", payload)  BY <1>2 DEF LibcOf
  <2> QED  BY <2>1 DEF Deb
<1>3. CASE d \in ExtraOf(r, b)  BY <1>3 DEF ExtraOf, Deb
<1> QED  BY <1>1, <1>2, <1>3 DEF Packages

LEMMA RowHasHeaders ==
  ASSUME NEW r, NEW b
  PROVE  /\ \E d \in Packages(r, b) : d.pkg = "headers"
         /\ \E d \in Packages(r, b) : d.pkg = "image"
<1>1. Deb(r, "headers", Tree[r]).pkg = "headers" /\ Deb(r, "image", "image").pkg = "image"
  BY DEF Deb
<1> QED  BY <1>1 DEF Packages

\* Every image and every headers package of the matrix is there.
LEMMA AcceptedHasAll ==
  ASSUME NEW f, Accepted(AllPackages(f), Rows), NEW r \in Rows
  PROVE  f[r] # None
<1>1. SUFFICES ASSUME f[r] = None PROVE FALSE
  OBVIOUS
<1>2. OfRow(AllPackages(f), "image", r) = {}
  <2>1. SUFFICES ASSUME NEW d \in OfRow(AllPackages(f), "image", r) PROVE FALSE
    OBVIOUS
  <2>2. d \in AllPackages(f) /\ d.row = r
    BY <2>1 DEF OfRow, Of
  <2>3. PICK q \in Rows : f[q] # None /\ d \in Packages(q, f[q])
    BY <2>2 DEF AllPackages
  <2>4. d.row = q
    BY <2>3, PackagesOfRow
  <2> QED  BY <1>1, <2>2, <2>3, <2>4
<1>3. Cardinality(OfRow(AllPackages(f), "image", r)) = 1
  BY DEF Accepted, Announced
<1> QED  BY <1>2, <1>3, FS_EmptySet

LEMMA HeadersFound ==
  ASSUME NEW f, Accepted(AllPackages(f), Rows), NEW r \in Rows
  PROVE  Installed(AllPackages(f), Rows).headers[r] = Tree[r]
<1> DEFINE debsOf == AllPackages(f)
           trees == Trees(debsOf, Rows, r.line)
           first == CHOOSE s \in DOMAIN trees : TRUE
<1>1. \A q \in RowsOf(Rows, r.line) : trees[q] = Tree[q]
  <2>1. TAKE q \in RowsOf(Rows, r.line)
  <2>2. q \in Rows /\ f[q] # None
    BY AcceptedHasAll DEF RowsOf
  <2>3. \E d \in debsOf : d.pkg = "headers" /\ d.row = q
    <3>1. PICK d \in Packages(q, f[q]) : d.pkg = "headers"
      BY RowHasHeaders
    <3>2. d \in debsOf /\ d.row = q
      BY <2>2, <3>1, PackagesOfRow DEF AllPackages
    <3> QED  BY <3>1, <3>2
  <2>4. ASSUME NEW d \in debsOf, d.pkg = "headers", d.row = q
        PROVE  d.payload = Tree[q]
    <3>1. PICK p \in Rows : d \in Packages(p, f[p])
      BY <2>4 DEF AllPackages
    <3> QED  BY <2>4, <3>1, PackagesOfRow
  <2> DEFINE mine == CHOOSE d \in debsOf : d.pkg = "headers" /\ d.row = q
  <2>5. mine \in debsOf /\ mine.pkg = "headers" /\ mine.row = q
    BY <2>3
  <2>6. trees[q] = mine.payload
    BY DEF Trees
  <2> HIDE DEF mine
  <2> QED  BY <2>4, <2>5, <2>6
<1>2. DOMAIN trees = RowsOf(Rows, r.line) /\ r \in DOMAIN trees
  BY DEF Trees, RowsOf
<1>3. first \in DOMAIN trees
  BY <1>2
<1>4. Original(trees)
  <2>1. \A q \in DOMAIN trees : q \in Rows
    BY <1>2 DEF RowsOf
  <2> QED  BY <1>1, <1>2, <2>1, TreeAssumption DEF Original
<1> HIDE DEF trees, first
<1>5. \A p \in Paths : Found(trees, first, r, p) = Tree[r][p]
  <2>1. TAKE p \in Paths
  <2>2. Found(trees, first, r, p) = trees[r][p]
    BY <1>2, <1>3, <1>4, SplitKeepsPaths
  <2> QED  BY <1>1, <1>2, <2>2
<1>6. [p \in Paths |-> Found(trees, first, r, p)] = [p \in Paths |-> Tree[r][p]]
  BY <1>5
<1>7. Installed(AllPackages(f), Rows).headers[r] = [p \in Paths |-> Found(trees, first, r, p)]
  BY DEF Installed, trees, first, debsOf
<1> QED  BY <1>6, <1>7, TreeAssumption

LEMMA LibcFound ==
  ASSUME NEW f, Accepted(AllPackages(f), Rows), NEW r \in Rows
  PROVE  Installed(AllPackages(f), Rows).libc[r.line]
           = {d.payload : d \in Of(Packages(r, f[r]), "libc")}
<1> DEFINE debsOf == AllPackages(f)
<1>1. r.line \in LinesOf(Rows) /\ f[r] # None
  BY AcceptedHasAll DEF LinesOf
<1>2. PICK mine \in Packages(r, f[r]) : mine.pkg = "libc"
  <2>1. PICK h \in Packages(r, f[r]) : h.pkg = "headers"
    BY RowHasHeaders
  <2>2. h \in OfLine(debsOf, "headers", r.line) /\ h.dir = r
    BY <1>1, <2>1, PackagesOfRow DEF OfLine, Of, AllPackages
  <2>3. r \in {d.dir : d \in OfLine(debsOf, "libc", r.line)}
    BY <1>1, <2>2 DEF Accepted, WithUserspace
  <2>4. PICK d \in OfLine(debsOf, "libc", r.line) : d.dir = r
    BY <2>3
  <2>5. PICK q \in Rows : d \in Packages(q, f[q]) /\ d.pkg = "libc"
    BY <2>4 DEF OfLine, Of, AllPackages
  <2>6. q = r
    BY <2>4, <2>5, PackagesOfRow
  <2> QED  BY <2>5, <2>6
<1>3. mine \in OfLine(debsOf, "libc", r.line)
  BY <1>1, <1>2, PackagesOfRow DEF OfLine, Of, AllPackages
<1>4. \A d \in OfLine(debsOf, "libc", r.line) : d.payload = mine.payload
  BY <1>3 DEF Accepted, SameUserspace, OfLine
<1>5. \A d \in Of(Packages(r, f[r]), "libc") : d.payload = mine.payload
  <2>1. TAKE d \in Of(Packages(r, f[r]), "libc")
  <2>2. d \in Packages(r, f[r]) /\ d.pkg = "libc"
    BY <2>1 DEF Of
  <2>3. d \in OfLine(debsOf, "libc", r.line)
    BY <1>1, <2>2, PackagesOfRow DEF OfLine, Of, AllPackages
  <2> QED  BY <1>4, <2>3
<1>6. mine \in Of(Packages(r, f[r]), "libc")
  BY <1>2 DEF Of
<1>7. Installed(debsOf, Rows).libc[r.line] = {d.payload : d \in OfLine(debsOf, "libc", r.line)}
  BY <1>1 DEF Installed
<1>8. {d.payload : d \in OfLine(debsOf, "libc", r.line)} = {mine.payload}
  BY <1>3, <1>4
<1>9. {d.payload : d \in Of(Packages(r, f[r]), "libc")} = {mine.payload}
  BY <1>5, <1>6
<1> QED  BY <1>7, <1>8, <1>9

\* Builds that the assembly accepts are a whole set.
LEMMA AssembledIsWhole ==
  ASSUME NEW f, Accepted(AllPackages(f), Rows),
         \A r \in Rows : f[r] # None => f[r].config = f[r].inputs
  PROVE  WholeSet(f)
<1> DEFINE debsOf == AllPackages(f)
<1>1. \A r \in Rows : f[r] # None
  BY AcceptedHasAll
<1>2. \A r \in Rows : f[r] # None /\ f[r].config = f[r].inputs
  BY <1>1
<1>3. Installed(debsOf, Rows).images = Rows
  <2>1. \A d \in Of(debsOf, "image") : d.row \in Rows
    BY DEF Accepted, Announced, Of
  <2>2. \A r \in Rows : \E d \in Of(debsOf, "image") : d.row = r
    <3>1. TAKE r \in Rows
    <3>2. PICK d \in Packages(r, f[r]) : d.pkg = "image"
      BY RowHasHeaders
    <3>3. d \in debsOf /\ d.row = r
      BY <1>1, <3>2, PackagesOfRow DEF AllPackages
    <3> QED  BY <3>2, <3>3 DEF Of
  <2> QED  BY <2>1, <2>2 DEF Installed
<1>4. Of(debsOf, "dbg") = {}
  BY DEF Accepted, Announced, Of
<1> QED  BY <1>2, <1>3, <1>4, HeadersFound, LibcFound DEF WholeSet

-----------------------------------------------------------------------------
(* Types *)

LEMMA KnownJobs ==
  /\ DiscoverJob \in Jobs /\ Preflight \in Jobs /\ External \in Jobs
  /\ Assemble \in Jobs /\ Release \in Jobs
  /\ UbuntuJobs \subseteq Jobs /\ ValidationJobs \subseteq Jobs /\ BuildJobs \subseteq Jobs
  /\ \A s \in Seeds : Ubuntu(s) \in Jobs
  /\ \A r \in Rows : Build(r) \in Jobs /\ SeedOf[r.line] \in Seeds
  BY SeedsAndRows DEF Jobs, Seeds, Lines, LinesOf

States == {"waiting", "ok", "failed", "skipped"}

LEMMA HappensType ==
  ASSUME TypeOK, Happens
  PROVE  incidents' \in 0..MaxIncidents /\ incidents' # 0
  BY BoundsAssumption DEF TypeOK, Happens

LEMMA MayType ==
  ASSUME TypeOK, NEW j \in Jobs, NEW ok \in BOOLEAN, May(j, ok)
  PROVE  status' \in [Jobs -> States] /\ incidents' \in 0..MaxIncidents
<1>1. status \in [Jobs -> States] /\ incidents \in 0..MaxIncidents
  BY DEF TypeOK, States
<1>2. CASE SetStatus(j, "ok") /\ UNCHANGED incidents
  BY <1>1, <1>2 DEF SetStatus, States
<1>3. CASE SetStatus(j, "failed") /\ Happens
  BY <1>1, <1>3, HappensType DEF SetStatus, States
<1> QED  BY <1>2, <1>3 DEF May

LEMMA StopsType ==
  ASSUME TypeOK, NEW j \in Jobs, NEW taken, Stops(j, taken)
  PROVE  status' \in [Jobs -> States] /\ incidents' \in 0..MaxIncidents
<1>1. status \in [Jobs -> States] /\ incidents \in 0..MaxIncidents
  BY DEF TypeOK, States
<1>2. status' \in [Jobs -> States]
  BY <1>1 DEF Stops, SetStatus, States
<1>3. UNCHANGED incidents \/ Happens
  BY DEF Stops
<1> QED  BY <1>1, <1>2, <1>3, HappensType

\* A copy fewer: what is left of the copies are copies, and without the oldest
\* the newest is the same or gone.
LEMMA CopyRemoved ==
  ASSUME NEW c \in Seq(Builds), NEW i \in DOMAIN c
  PROVE  /\ RemoveAt(c, i) \in Seq(Builds)
         /\ \A k \in DOMAIN RemoveAt(c, i) : \E m \in DOMAIN c : RemoveAt(c, i)[k] = c[m]
<1> DEFINE before == SubSeq(c, 1, i - 1)
           after == SubSeq(c, i + 1, Len(c))
<1>1. i \in 1..Len(c) /\ Len(c) \in Nat
  OBVIOUS
<1>2. before \in Seq(Builds) /\ Len(before) = i - 1 /\ \A k \in 1..(i - 1) : before[k] = c[k]
  BY <1>1
<1>3. after \in Seq(Builds) /\ Len(after) = Len(c) - i
      /\ \A k \in 1..(Len(c) - i) : after[k] = c[i + k]
  BY <1>1
<1>4. RemoveAt(c, i) = before \o after
  BY DEF RemoveAt
<1> HIDE DEF before, after
<1>5. RemoveAt(c, i) \in Seq(Builds)
  BY <1>2, <1>3, <1>4, ConcatProperties
<1>6. ASSUME NEW k \in DOMAIN RemoveAt(c, i)
      PROVE  \E m \in DOMAIN c : RemoveAt(c, i)[k] = c[m]
  <2>1. k \in 1..(Len(c) - 1)
    BY <1>1, <1>2, <1>3, <1>4, <1>6, ConcatProperties
  <2>2. CASE k < i
    <3>1. RemoveAt(c, i)[k] = before[k]
      BY <1>1, <1>2, <1>3, <1>4, <2>1, <2>2, ConcatProperties
    <3>2. k \in DOMAIN c /\ before[k] = c[k]
      BY <1>1, <1>2, <2>1, <2>2
    <3> QED  BY <3>1, <3>2
  <2>3. CASE k >= i
    <3>1. RemoveAt(c, i)[k] = after[k - (i - 1)]
      BY <1>1, <1>2, <1>3, <1>4, <2>1, <2>3, ConcatProperties
    <3>2. k - (i - 1) \in 1..(Len(c) - i) /\ k + 1 \in DOMAIN c /\ i + (k - (i - 1)) = k + 1
      BY <1>1, <2>1, <2>3
    <3>3. after[k - (i - 1)] = c[k + 1]
      BY <1>3, <3>2
    <3> QED  BY <3>1, <3>2, <3>3
  <2> QED  BY <1>1, <2>1, <2>2, <2>3
<1> QED  BY <1>5, <1>6

LEMMA OldestRemoved ==
  ASSUME NEW c \in Seq(Builds), c # <<>>
  PROVE  /\ Tail(c) \in Seq(Builds)
         /\ \A k \in DOMAIN Tail(c) : \E m \in DOMAIN c : Tail(c)[k] = c[m]
         /\ Newest(Tail(c)) \in {Newest(c), None}
<1>1. Tail(c) \in Seq(Builds) /\ Len(Tail(c)) = Len(c) - 1 /\ Len(c) \in Nat
      /\ \A k \in 1..(Len(c) - 1) : Tail(c)[k] = c[k + 1]
  OBVIOUS
<1>2. ASSUME NEW k \in DOMAIN Tail(c)
      PROVE  \E m \in DOMAIN c : Tail(c)[k] = c[m]
  <2>1. k \in 1..(Len(c) - 1) /\ k + 1 \in DOMAIN c
    BY <1>1
  <2> QED  BY <1>1, <2>1
<1>3. Tail(c) # <<>> => Newest(Tail(c)) = Newest(c)
  <2>1. SUFFICES ASSUME Tail(c) # <<>> PROVE Tail(c)[Len(Tail(c))] = c[Len(c)]
    BY DEF Newest
  <2>2. Len(c) - 1 \in 1..(Len(c) - 1)
    BY <1>1, <2>1
  <2> QED  BY <1>1, <2>2
<1> QED  BY <1>1, <1>2, <1>3 DEF Newest

LEMMA CopyAdded ==
  ASSUME NEW c \in Seq(Builds), NEW b \in Builds
  PROVE  /\ Append(c, b) \in Seq(Builds)
         /\ \A k \in DOMAIN Append(c, b) :
              Append(c, b)[k] = b \/ \E m \in DOMAIN c : Append(c, b)[k] = c[m]
         /\ Newest(Append(c, b)) = b
<1>1. Append(c, b) \in Seq(Builds) /\ Len(Append(c, b)) = Len(c) + 1 /\ Len(c) \in Nat
      /\ Append(c, b)[Len(c) + 1] = b /\ \A k \in 1..Len(c) : Append(c, b)[k] = c[k]
  OBVIOUS
<1>2. ASSUME NEW k \in DOMAIN Append(c, b), Append(c, b)[k] # b
      PROVE  \E m \in DOMAIN c : Append(c, b)[k] = c[m]
  <2>1. k \in 1..Len(c) /\ k \in DOMAIN c
    BY <1>1, <1>2
  <2> QED  BY <1>1, <2>1
<1>3. Append(c, b) # <<>>
  BY <1>1
<1> QED  BY <1>1, <1>2, <1>3 DEF Newest

LEMMA DownloadedType ==
  ASSUME TypeOK, NEW r \in Rows
  PROVE  /\ Downloaded[r] = Newest(built[r]) /\ Downloaded[r] \in Builds \cup {None}
         /\ Downloaded[r] # None => \E k \in DOMAIN built[r] : Downloaded[r] = built[r][k]
<1>1. built[r] \in Seq(Builds) /\ Downloaded[r] = Newest(built[r])
  BY DEF TypeOK, Downloaded
<1>2. built[r] # <<>> => Len(built[r]) \in DOMAIN built[r]
  BY <1>1
<1> QED  BY <1>1, <1>2 DEF Newest

LEMMA InitType == Init => TypeOK
<1> SUFFICES ASSUME Init PROVE TypeOK
  OBVIOUS
<1>1. attempt \in 1..MaxAttempts
      /\ incidents \in 0..MaxIncidents /\ retries \in 0..MaxRetries
  BY BoundsAssumption DEF Init
<1>2. status \in [Jobs -> {"waiting", "ok", "failed", "skipped"}]
  BY DEF Init
<1>3. inputs \in (1..MaxAttempts) \cup {None} /\ configs \in [Seeds -> (1..MaxAttempts) \cup {None}]
  BY DEF Init
<1>4. built \in [Rows -> Seq(Builds)] /\ draft \in [Rows -> Builds \cup {None}]
  BY DEF Init
<1>5. expired \in BOOLEAN
  BY DEF Init
<1> QED  BY <1>1, <1>2, <1>3, <1>4, <1>5 DEF Init, TypeOK

LEMMA TypeStep == TypeOK /\ [Next]_vars => TypeOK'
<1> SUFFICES ASSUME TypeOK, [Next]_vars PROVE TypeOK'
  OBVIOUS
<1> USE KnownJobs, BoundsAssumption DEF States
<1>0. CASE UNCHANGED vars
  BY <1>0 DEF TypeOK, vars, commit, artifacts, history, counters
<1>1. ASSUME NEW j \in Jobs, Inspect(j) PROVE TypeOK'
  <2>1. CASE SetStatus(j, "failed") /\ UNCHANGED incidents
    BY <1>1, <2>1 DEF Inspect, SetStatus, Rest, commit, history, artifacts, TypeOK
  <2>2. CASE May(j, TRUE)
    <3>1. status' \in [Jobs -> States] /\ incidents' \in 0..MaxIncidents  BY <2>2, MayType
    <3> QED  BY <1>1, <3>1 DEF Inspect, Rest, commit, history, artifacts, TypeOK
  <2> QED  BY <1>1, <2>1, <2>2 DEF Inspect
<1>2. ASSUME NEW j \in Jobs, Missing(j) PROVE TypeOK'
  BY <1>2 DEF Missing, SetStatus, commit, history, artifacts, counters, TypeOK
<1>3. CASE Skip
  BY <1>3 DEF Skip, commit, history, artifacts, counters, TypeOK
<1>4. CASE Freeze
  <2>1. status' \in [Jobs -> States] /\ incidents' \in 0..MaxIncidents  BY <1>4, MayType, StopsType DEF Freeze
  <2>2. inputs' \in (1..MaxAttempts) \cup {None}  BY <1>4 DEF Freeze, TypeOK
  <2> QED  BY <1>4, <2>1, <2>2 DEF Freeze, Rest, commit, history, TypeOK
<1>5. ASSUME NEW s \in Seeds, StageConfig(s) PROVE TypeOK'
  <2>1. status' \in [Jobs -> States] /\ incidents' \in 0..MaxIncidents  BY <1>5, MayType, StopsType DEF StageConfig
  <2>2. configs' \in [Seeds -> (1..MaxAttempts) \cup {None}]  BY <1>5 DEF StageConfig, TypeOK
  <2> QED  BY <1>5, <2>1, <2>2 DEF StageConfig, Rest, commit, history, TypeOK
<1>6. ASSUME NEW r \in Rows, BuildRow(r) PROVE TypeOK'
  <2>1. status' \in [Jobs -> States] /\ incidents' \in 0..MaxIncidents
    <3>1. CASE May(Build(r), TRUE)  BY <3>1, MayType
    <3>2. CASE Happens /\ SetStatus(Build(r), "ok")
      BY <3>2, HappensType DEF SetStatus, TypeOK
    <3>3. CASE \E taken : Stops(Build(r), taken)  BY <3>3, StopsType
    <3> QED  BY <1>6, <3>1, <3>2, <3>3 DEF BuildRow
  <2>2. \A d \in Defects \cup {"none"} : Made(r, d) \in Builds
    BY <1>6 DEF BuildRow, Made, Builds, TypeOK
  <2>3. built' \in [Rows -> Seq(Builds)]
    <3>1. built \in [Rows -> Seq(Builds)]
      BY DEF TypeOK
    <3>2. UNCHANGED built \/ \E b \in Builds : built' = [built EXCEPT ![r] = Append(@, b)]
      BY <1>6, <2>2 DEF BuildRow, Upload
    <3>3. \A b \in Builds : Append(built[r], b) \in Seq(Builds)
      BY <3>1
    <3> QED  BY <3>1, <3>2, <3>3
  <2> QED  BY <1>6, <2>1, <2>3 DEF BuildRow, Rest, commit, history, TypeOK
<1>7. ASSUME NEW r \in Rows, Delete(r) PROVE TypeOK'
  <2>1. built' \in [Rows -> Seq(Builds)]
    <3>1. PICK i \in DOMAIN built[r] : built' = [built EXCEPT ![r] = RemoveAt(@, i)]
      BY <1>7 DEF Delete
    <3>2. RemoveAt(built[r], i) \in Seq(Builds)
      BY CopyRemoved DEF TypeOK
    <3> QED  BY <3>1, <3>2 DEF TypeOK
  <2> QED  BY <1>7, <2>1 DEF Delete, commit, counters, TypeOK
<1>8. ASSUME NEW r \in Rows, Attach(r) PROVE TypeOK'
  BY <1>8 DEF Attach, commit, history, artifacts, counters, TypeOK
<1>9. CASE AssembleDebs
  <2>1. Accepted(AllPackages(Downloaded), Rows)
    BY <1>9 DEF AssembleDebs, Assembles
  <2>2. \A r \in Rows : Downloaded[r] # None
    BY <2>1, AcceptedHasAll
  <2>3. \A r \in Rows : Downloaded[r] \in Builds
    BY <2>2, DownloadedType
  <2>4. debs' \in [Rows -> Builds]
    BY <1>9, <2>3 DEF AssembleDebs, Downloaded
  <2> QED  BY <1>9, <2>4 DEF AssembleDebs, commit, counters, TypeOK
<1>10. CASE RefuseDebs
  BY <1>10 DEF RefuseDebs, SetStatus, commit, history, artifacts, counters, TypeOK
<1>11. CASE Cleaned
  BY <1>11 DEF Cleaned, SetStatus, commit, artifacts, counters, TypeOK
<1>12. CASE AssembleFails
  <2>1. status' \in [Jobs -> States] /\ incidents' \in 0..MaxIncidents
    BY <1>12, HappensType DEF AssembleFails, SetStatus, TypeOK
  <2> QED  BY <1>12, <2>1 DEF AssembleFails, commit, history, artifacts, TypeOK
<1>13. CASE Drafted
  <2>1. status' \in [Jobs -> States] /\ incidents' \in 0..MaxIncidents  BY <1>13, MayType DEF Drafted
  <2> QED  BY <1>13, <2>1 DEF Drafted, Rest, commit, history, artifacts, TypeOK
<1>14. CASE ReleaseFails
  <2>1. status' \in [Jobs -> States] /\ incidents' \in 0..MaxIncidents  BY <1>14, MayType DEF ReleaseFails
  <2> QED  BY <1>14, <2>1 DEF ReleaseFails, Rest, commit, history, artifacts, TypeOK
<1>15. CASE Cancel
  <2>1. status' \in [Jobs -> States] /\ incidents' \in 0..MaxIncidents
    BY <1>15, HappensType DEF Cancel, TypeOK
  <2> QED  BY <1>15, <2>1 DEF Cancel, commit, history, artifacts, TypeOK
<1>16. CASE Expire
  <2>1. /\ inputs' \in (1..MaxAttempts) \cup {None}
        /\ configs' \in [Seeds -> (1..MaxAttempts) \cup {None}]
        /\ debs' \in [Rows -> Builds] \cup {None}
    BY <1>16 DEF Expire, TypeOK
  <2>2. built' \in [Rows -> Seq(Builds)]
    <3>1. built \in [Rows -> Seq(Builds)]
      BY DEF TypeOK
    <3>2. \A r \in Rows : built[r] # <<>> => Tail(built[r]) \in Seq(Builds)
      BY <3>1, OldestRemoved
    <3>3. UNCHANGED built \/ \E r \in Rows : built[r] # <<>> /\ built' = [built EXCEPT ![r] = Tail(@)]
      BY <1>16 DEF Expire
    <3> QED  BY <3>1, <3>2, <3>3
  <2>3. incidents' \in 0..MaxIncidents /\ expired' \in BOOLEAN
    BY <1>16, HappensType DEF Expire
  <2> QED  BY <1>16, <2>1, <2>2, <2>3 DEF Expire, commit, history, TypeOK
<1>17. ASSUME NEW S, Restart(S), retries' \in 0..MaxRetries, incidents' \in 0..MaxIncidents
       PROVE  TypeOK'
  BY <1>17 DEF Restart, commit, artifacts, TypeOK
<1>18. CASE RerunAll
  BY <1>17, <1>18 DEF RerunAll, TypeOK
<1>19. CASE RerunFailed
  BY <1>17, <1>19 DEF RerunFailed, TypeOK
<1>20. ASSUME NEW j \in Jobs, RerunJob(j) PROVE TypeOK'
  BY <1>17, <1>20, HappensType DEF RerunJob, TypeOK
<1> QED
  BY <1>0, <1>1, <1>2, <1>3, <1>4, <1>5, <1>6, <1>7, <1>8, <1>9, <1>10, <1>11, <1>12,
     <1>13, <1>14, <1>15, <1>16, <1>18, <1>19, <1>20 DEF Next, Step

\* The variables keep their types, for all rows and seeds and every number of
\* failures and repetitions.
THEOREM WorkflowTypeCorrect == Spec => []TypeOK
<1> QED  BY InitType, TypeStep, PTL DEF Spec

-----------------------------------------------------------------------------
(* What a run offers is a whole set *)

\* What a job that has succeeded needed has not been repeated since.
Settled == \A j \in Jobs : status[j] = "ok" => \A n \in Needs(j) : status[n] = "ok"

\* What counts of the artifacts is from attempt i's inputs: of the builds only
\* while no unfinished cleanup can have uncovered an older copy.
FromInputs(i) ==
  /\ inputs # None => inputs = i
  /\ \A s \in Seeds : status[Ubuntu(s)] = "ok" /\ configs[s] # None => configs[s] = i
  /\ ~torn => \A r \in Rows :
       status[Build(r)] = "ok" /\ Downloaded[r] # None => Downloaded[r].inputs = i

Current == \E i \in 1..MaxAttempts : FromInputs(i)

\* Every copy of a row, of whatever attempt, was built from the configuration
\* that was frozen with its inputs.
SelfMade == \A r \in Rows : \A k \in DOMAIN built[r] : built[r][k].config = built[r][k].inputs

Kept == ~expired /\ status[External] = "ok" => inputs # None

\* The run of a fork deletes nothing.
ForkKeeps == torn => event # "fork"

\* The cleanup has what it deletes in the packages it has made.
CleanupGoesOn ==
  cleaning => /\ Rows # {} /\ Ready(Assemble) /\ debs # None
              /\ expired \/ leftover \/ \A r \in Rows : debs[r].inputs = inputs

WholeInv ==
  /\ TypeOK /\ Settled /\ Current /\ SelfMade /\ Kept /\ ForkKeeps /\ CleanupGoesOn
  /\ CleanupSafe /\ AssembledWhole /\ ReleaseWhole

LEMMA InitWhole == Init => WholeInv
<1> SUFFICES ASSUME Init PROVE WholeInv
  OBVIOUS
<1>1. TypeOK  BY InitType
<1>2. Settled /\ Kept /\ CleanupGoesOn /\ CleanupSafe /\ ReleaseWhole /\ AssembledWhole
  BY KnownJobs DEF Init, Settled, Kept, CleanupGoesOn, CleanupSafe, ReleaseWhole, AssembledWhole
<1>3. SelfMade /\ ForkKeeps
  BY DEF Init, SelfMade, ForkKeeps
<1>4. Current
  <2>1. 1 \in 1..MaxAttempts  BY BoundsAssumption
  <2>2. FromInputs(1)  BY KnownJobs DEF Init, FromInputs
  <2> QED  BY <2>1, <2>2 DEF Current
<1> QED  BY <1>1, <1>2, <1>3, <1>4 DEF WholeInv

-----------------------------------------------------------------------------
(* Settled *)

\* A step of an attempt takes no success back and adds those of ready jobs.
Progress ==
  /\ \A j \in Jobs : status[j] = "ok" => status'[j] = "ok"
  /\ \A j \in Jobs : status'[j] = "ok" => status[j] = "ok" \/ Ready(j)

LEMMA ProgressSettles ==
  ASSUME Settled, Progress
  PROVE  Settled'
<1>1. ASSUME NEW j \in Jobs, status'[j] = "ok", NEW n \in Needs(j)
      PROVE  status'[n] = "ok"
  <2>1. n \in Jobs
    BY RankGrows
  <2>2. status[n] = "ok"
    BY <1>1 DEF Progress, Settled, Ready
  <2> QED  BY <2>1, <2>2 DEF Progress
<1> QED  BY <1>1 DEF Settled

LEMMA OneJobProgresses ==
  ASSUME TypeOK, NEW j \in Jobs, Ready(j), NEW s \in States, SetStatus(j, s)
  PROVE  Progress
<1>1. \A k \in Jobs : k # j => status'[k] = status[k]
  BY DEF TypeOK, SetStatus
<1>2. status[j] # "ok"
  BY DEF Ready, Waiting
<1> QED  BY <1>1, <1>2 DEF Progress

LEMMA MayProgresses ==
  ASSUME TypeOK, NEW j \in Jobs, Ready(j), NEW ok \in BOOLEAN, May(j, ok)
  PROVE  Progress
<1>1. \E s \in States : SetStatus(j, s)
  BY DEF May, States
<1> QED  BY <1>1, OneJobProgresses

LEMMA StopsProgresses ==
  ASSUME TypeOK, NEW j \in Jobs, Ready(j), NEW taken, Stops(j, taken)
  PROVE  Progress
<1>1. \E s \in States : SetStatus(j, s)
  BY DEF Stops, States
<1> QED  BY <1>1, OneJobProgresses

LEMMA SameProgresses ==
  ASSUME UNCHANGED status
  PROVE  Progress
  BY DEF Progress

LEMMA RestartSettles ==
  ASSUME TypeOK, Settled, NEW S, Restart(S),
         \A j \in Jobs : \A n \in Needs(j) : n \in S => j \in S
  PROVE  Settled'
<1>1. ASSUME NEW j \in Jobs, status'[j] = "ok", NEW n \in Needs(j)
      PROVE  status'[n] = "ok"
  <2>1. n \in Jobs
    BY RankGrows
  <2>2. j \notin S /\ status[j] = "ok"
    BY <1>1 DEF Restart
  <2>3. n \notin S /\ status[n] = "ok"
    BY <2>2 DEF Settled
  <2> QED  BY <2>1, <2>3 DEF Restart
<1> QED  BY <1>1 DEF Settled

LEMMA BrokenRestartSettles ==
  ASSUME TypeOK, Settled, NEW S \in SUBSET Jobs, Restart(Dependents(S))
  PROVE  Settled'
  BY RestartSettles, DependentsClosed

LEMMA RerunAllSettles ==
  ASSUME TypeOK, Settled, Restart(Jobs)
  PROVE  Settled'
  BY RestartSettles

LEMMA SettledStep == TypeOK /\ Settled /\ CleanupGoesOn /\ [Next]_vars => Settled'
<1> SUFFICES ASSUME TypeOK, Settled, CleanupGoesOn, [Next]_vars PROVE Settled'
  OBVIOUS
<1> USE KnownJobs
<1>0. CASE UNCHANGED vars
  BY <1>0, SameProgresses, ProgressSettles DEF vars
<1>1. ASSUME NEW j \in Jobs, Inspect(j) PROVE Settled'
  <2>1. Progress
    BY <1>1, OneJobProgresses, MayProgresses DEF Inspect, States
  <2> QED  BY <2>1, ProgressSettles
<1>2. ASSUME NEW j \in Jobs, Missing(j) PROVE Settled'
  BY <1>2, OneJobProgresses, ProgressSettles DEF Missing, States
<1>3. CASE Skip
  <2>1. Progress
    BY <1>3 DEF Skip, Progress, Hopeless, Waiting
  <2> QED  BY <2>1, ProgressSettles
<1>4. CASE Freeze
  BY <1>4, MayProgresses, StopsProgresses, ProgressSettles DEF Freeze
<1>5. ASSUME NEW s \in Seeds, StageConfig(s) PROVE Settled'
  BY <1>5, MayProgresses, StopsProgresses, ProgressSettles DEF StageConfig
<1>6. ASSUME NEW r \in Rows, BuildRow(r) PROVE Settled'
  <2>1. Progress
    BY <1>6, MayProgresses, StopsProgresses, OneJobProgresses DEF BuildRow, States
  <2> QED  BY <2>1, ProgressSettles
<1>7. ASSUME NEW r \in Rows, Delete(r) \/ Attach(r) PROVE Settled'
  BY <1>7, SameProgresses, ProgressSettles DEF Delete, Attach
<1>8. CASE AssembleDebs
  BY <1>8, SameProgresses, ProgressSettles DEF AssembleDebs
<1>9. CASE RefuseDebs
  BY <1>9, OneJobProgresses, ProgressSettles DEF RefuseDebs, States
<1>10. CASE Cleaned
  BY <1>10, OneJobProgresses, ProgressSettles DEF Cleaned, CleanupGoesOn, States
<1>11. CASE AssembleFails
  BY <1>11, OneJobProgresses, ProgressSettles DEF AssembleFails, States
<1>12. CASE Drafted
  BY <1>12, MayProgresses, ProgressSettles DEF Drafted
<1>13. CASE ReleaseFails
  BY <1>13, MayProgresses, ProgressSettles DEF ReleaseFails
<1>14. CASE Cancel
  <2>1. Progress
    BY <1>14 DEF Cancel, Progress, Waiting
  <2> QED  BY <2>1, ProgressSettles
<1>15. CASE Expire
  BY <1>15, SameProgresses, ProgressSettles DEF Expire
<1>16. CASE RerunAll
  BY <1>16, RerunAllSettles DEF RerunAll
<1>17. CASE RerunFailed
  <2>1. Broken \subseteq Jobs  BY DEF Broken
  <2> QED  BY <1>17, <2>1, BrokenRestartSettles DEF RerunFailed
<1>18. ASSUME NEW j \in Jobs, RerunJob(j) PROVE Settled'
  BY <1>18, BrokenRestartSettles DEF RerunJob
<1> QED
  BY <1>0, <1>1, <1>2, <1>3, <1>4, <1>5, <1>6, <1>7, <1>8, <1>9, <1>10, <1>11, <1>12,
     <1>13, <1>14, <1>15, <1>16, <1>17, <1>18 DEF Next, Step

-----------------------------------------------------------------------------
(* The other parts *)

Parts ==
  /\ Current /\ SelfMade /\ Kept /\ ForkKeeps /\ CleanupGoesOn
  /\ CleanupSafe /\ AssembledWhole /\ ReleaseWhole

\* A step that moves no artifact, and after which no job that made one is newly
\* a success, keeps all parts.  It may end the time after an unfinished cleanup
\* if all builds are to be repeated, or no copy is left.
Tame ==
  /\ UNCHANGED <<event, artifacts, leftover, expired>>
  /\ \A j \in {External, Release} \cup UbuntuJobs \cup BuildJobs :
       status'[j] = "ok" => status[j] = "ok"
  /\ status'[Release] = "ok" => UNCHANGED draft
  /\ cleaning' => cleaning /\ Ready(Assemble)'
  /\ torn' => torn
  /\ ~torn' => ~torn \/ \A r \in Rows : Downloaded[r] = None \/ status'[Build(r)] # "ok"

LEMMA TameKeeps ==
  ASSUME WholeInv, Tame
  PROVE  Parts'
<1> USE SeedsAndRows
<1>0. /\ UNCHANGED <<event, inputs, configs, built, debs, leftover, expired>>
      /\ \A r \in Rows : Downloaded'[r] = Downloaded[r]
  BY DEF Tame, artifacts, Downloaded
<1>1. Current'
  <2>1. PICK i \in 1..MaxAttempts : FromInputs(i)
    BY DEF WholeInv, Current
  <2>2. inputs' # None => inputs' = i
    BY <1>0, <2>1 DEF FromInputs
  <2>3. \A s \in Seeds : status'[Ubuntu(s)] = "ok" /\ configs'[s] # None => configs'[s] = i
    BY <1>0, <2>1 DEF FromInputs, Tame
  <2>4. ASSUME ~torn', NEW r \in Rows, status'[Build(r)] = "ok", Downloaded'[r] # None
        PROVE  Downloaded'[r].inputs = i
    <3>1. ~torn /\ status[Build(r)] = "ok"
      BY <1>0, <2>4 DEF Tame
    <3> QED  BY <1>0, <2>1, <2>4, <3>1 DEF FromInputs
  <2>5. FromInputs(i)'
    BY <2>2, <2>3, <2>4 DEF FromInputs
  <2> QED  BY <2>5 DEF Current
<1>2. Kept' /\ SelfMade' /\ ForkKeeps'
  BY <1>0 DEF WholeInv, Tame, Kept, SelfMade, ForkKeeps
<1>3. CleanupGoesOn'
  BY <1>0 DEF WholeInv, Tame, CleanupGoesOn
<1>4. CleanupSafe'
  BY <1>0 DEF WholeInv, Tame, CleanupSafe
<1>5. AssembledWhole'
  BY <1>0 DEF WholeInv, AssembledWhole
<1>6. ReleaseWhole'
  BY <1>0 DEF WholeInv, Tame, ReleaseWhole
<1> QED  BY <1>1, <1>2, <1>3, <1>4, <1>5, <1>6 DEF Parts

\* A step of one job that makes no artifact.
LEMMA OneJobIsTame ==
  ASSUME WholeInv, NEW j \in Jobs, Ready(j), NEW s \in States, SetStatus(j, s),
         s = "ok" => j \notin {External, Release} \cup UbuntuJobs \cup BuildJobs,
         UNCHANGED <<event, artifacts, leftover, expired, draft>>,
         torn' => torn, torn' = torn \/ \A r \in Rows : Downloaded[r] = None,
         cleaning' => cleaning /\ j # Assemble
  PROVE  Tame
<1>1. \A k \in Jobs : k # j => status'[k] = status[k]
  BY DEF WholeInv, TypeOK, SetStatus
<1>2. status'[j] = s /\ status[j] = "waiting"
  BY DEF WholeInv, TypeOK, SetStatus, Ready, Waiting
<1>3. \A k \in {External, Release} \cup UbuntuJobs \cup BuildJobs :
        status'[k] = "ok" => status[k] = "ok"
  BY <1>1, <1>2, KnownJobs
<1>4. ASSUME cleaning' PROVE Ready(Assemble)'
  <2>1. Ready(Assemble) /\ j # Assemble
    BY <1>4 DEF WholeInv, CleanupGoesOn
  <2>2. \A n \in Needs(Assemble) : n \in Jobs /\ status[n] = "ok"
    BY <2>1, RankGrows, KnownJobs DEF Ready
  <2>3. \A n \in Needs(Assemble) : status'[n] = "ok"
    BY <1>1, <1>2, <2>2
  <2> QED  BY <1>1, <2>1, <2>3, KnownJobs DEF Ready, Waiting
<1> QED  BY <1>3, <1>4 DEF Tame

LEMMA RestartIsTame ==
  ASSUME WholeInv, NEW S, Restart(S)
  PROVE  Tame
<1>1. ~cleaning
  BY KnownJobs DEF WholeInv, CleanupGoesOn, Restart, Finished, Ready
<1>2. \A j \in Jobs : status'[j] = IF j \in S THEN "waiting" ELSE status[j]
  BY DEF Restart
<1>3. ASSUME ~torn', torn, NEW r \in Rows PROVE status'[Build(r)] # "ok"
  <2>1. Build(r) \in S
    BY <1>3, SeedsAndRows DEF Restart
  <2> QED  BY <1>2, <2>1, KnownJobs
<1>4. torn' => torn
  BY DEF Restart
<1> QED  BY <1>1, <1>2, <1>3, <1>4, KnownJobs DEF Restart, commit, Tame

LEMMA FreezeKeeps ==
  ASSUME WholeInv, Freeze
  PROVE  Parts'
<1> USE SeedsAndRows, KnownJobs
<1>1. status[External] = "waiting"
  BY DEF Freeze, Ready, Waiting
<1>2. \A k \in Jobs : k # External => status'[k] = status[k]
  BY DEF WholeInv, TypeOK, Freeze, May, Stops, SetStatus
<1>3. External \notin UbuntuJobs \cup BuildJobs /\ External # Release
  BY Kinds
<1>4. \A j \in UbuntuJobs \cup BuildJobs : status[j] # "ok" /\ status'[j] # "ok"
  BY <1>1, <1>2, <1>3, NeedsOfJobs DEF WholeInv, Settled
<1>5. UNCHANGED <<event, configs, built, debs, draft, expired, cleaning, torn, leftover>>
  BY DEF Freeze, Rest, commit, history
<1>6. inputs' = attempt \/ (inputs' = inputs /\ status'[External] # "ok")
  <2>1. CASE inputs' = attempt  BY <2>1
  <2>2. CASE UNCHANGED inputs /\ SetStatus(External, "failed")
    BY <2>2 DEF SetStatus, WholeInv, TypeOK
  <2> QED  BY <2>1, <2>2 DEF Freeze, Stops
<1>7. attempt \in 1..MaxAttempts /\ attempt # None /\ inputs \in (1..MaxAttempts) \cup {None}
  BY NoneAssumption DEF WholeInv, TypeOK
<1>8. Current'
  <2>1. PICK i \in 1..MaxAttempts : inputs' # None => inputs' = i
    BY <1>6, <1>7
  <2>2. FromInputs(i)'
    BY <2>1, <1>4 DEF FromInputs
  <2> QED  BY <2>2 DEF Current
<1>9. Kept'
  BY <1>5, <1>6, <1>7 DEF Kept
<1>10. ~cleaning
  <2>1. SUFFICES ASSUME cleaning PROVE FALSE
    OBVIOUS
  <2>2. Ready(Assemble) /\ \E r \in Rows : TRUE
    BY <2>1 DEF WholeInv, CleanupGoesOn
  <2> QED  BY <2>2, <1>4, NeedsOfJobs DEF Ready
<1>11. CleanupGoesOn' /\ CleanupSafe'
  BY <1>4, <1>5, <1>10 DEF CleanupGoesOn, CleanupSafe
<1>12. AssembledWhole' /\ ReleaseWhole' /\ SelfMade' /\ ForkKeeps'
  BY <1>2, <1>3, <1>5 DEF WholeInv, AssembledWhole, ReleaseWhole, SelfMade, ForkKeeps
<1> QED  BY <1>8, <1>9, <1>11, <1>12 DEF Parts

LEMMA StageConfigKeeps ==
  ASSUME WholeInv, NEW s \in Seeds, StageConfig(s)
  PROVE  Parts'
<1> USE SeedsAndRows, KnownJobs, Kinds
<1>1. \A k \in Jobs : k # Ubuntu(s) => status'[k] = status[k]
  BY DEF WholeInv, TypeOK, StageConfig, May, Stops, SetStatus
<1>2. Ubuntu(s) \notin BuildJobs \cup {External, Assemble, Release, DiscoverJob}
  OBVIOUS
<1>3. /\ UNCHANGED <<event, inputs, built, debs, draft, expired, cleaning, torn, leftover>>
      /\ inputs # None
  BY DEF StageConfig, Rest, commit, history
<1>4. configs' = [configs EXCEPT ![s] = inputs]
      \/ (configs' = configs /\ status'[Ubuntu(s)] # "ok")
  <2>1. CASE UNCHANGED configs /\ SetStatus(Ubuntu(s), "failed")
    BY <2>1 DEF SetStatus, WholeInv, TypeOK
  <2> QED  BY <2>1 DEF StageConfig, Stops
<1>5. configs \in [Seeds -> (1..MaxAttempts) \cup {None}]
  BY DEF WholeInv, TypeOK
<1>6. Current'
  <2>1. PICK i \in 1..MaxAttempts : FromInputs(i)
    BY DEF WholeInv, Current
  <2>2. \A q \in Seeds : status'[Ubuntu(q)] = "ok" /\ configs'[q] # None => configs'[q] = i
    BY <2>1, <1>1, <1>3, <1>4, <1>5 DEF FromInputs
  <2>3. \A r \in Rows : status'[Build(r)] = status[Build(r)]
    BY <1>1, <1>2
  <2>4. \A r \in Rows : Downloaded'[r] = Downloaded[r]
    BY <1>3 DEF Downloaded
  <2>5. FromInputs(i)'
    BY <2>1, <2>2, <2>3, <2>4, <1>3 DEF FromInputs
  <2> QED  BY <2>5 DEF Current
<1>7. Kept'
  BY <1>1, <1>2, <1>3 DEF WholeInv, Kept
<1>8. CleanupGoesOn'
  <2>1. \A n \in Needs(Assemble) : status'[n] = status[n]
    BY <1>1, <1>2, NeedsOfJobs
  <2> QED  BY <2>1, <1>1, <1>2, <1>3 DEF WholeInv, CleanupGoesOn, Ready, Waiting
<1>9. CleanupSafe'
  BY <1>1, <1>2, <1>3 DEF WholeInv, CleanupSafe, Downloaded
<1>10. AssembledWhole' /\ ReleaseWhole' /\ SelfMade' /\ ForkKeeps'
  BY <1>1, <1>2, <1>3 DEF WholeInv, AssembledWhole, ReleaseWhole, SelfMade, ForkKeeps
<1> QED  BY <1>6, <1>7, <1>8, <1>9, <1>10 DEF Parts

LEMMA BuildRowKeeps ==
  ASSUME WholeInv, NEW r \in Rows, BuildRow(r)
  PROVE  Parts'
<1> USE SeedsAndRows, KnownJobs, Kinds
<1>1. \A k \in Jobs : k # Build(r) => status'[k] = status[k]
  BY DEF WholeInv, TypeOK, BuildRow, May, Stops, SetStatus
<1>2. Build(r) \notin UbuntuJobs \cup {External, Assemble, Release, DiscoverJob}
  OBVIOUS
<1>3. UNCHANGED <<event, inputs, configs, debs, draft, expired, cleaning, torn, leftover>>
  BY DEF BuildRow, Rest, commit, history
<1>4. \/ \E d \in Defects \cup {"none"} : built' = [built EXCEPT ![r] = Append(@, Made(r, d))]
      \/ built' = built /\ status'[Build(r)] # "ok"
  <2>1. CASE UNCHANGED built /\ SetStatus(Build(r), "failed")
    BY <2>1 DEF SetStatus, WholeInv, TypeOK
  <2> QED  BY <2>1 DEF BuildRow, Stops, Upload
<1>5. built \in [Rows -> Seq(Builds)]
  BY DEF WholeInv, TypeOK
<1>6. PICK i \in 1..MaxAttempts : FromInputs(i)
  BY DEF WholeInv, Current
<1>7. inputs = i /\ configs[SeedOf[r.line]] = i
  <2>1. Ubuntu(SeedOf[r.line]) \in Needs(Build(r))
    BY NeedsOfJobs
  <2>2. status[Ubuntu(SeedOf[r.line])] = "ok"
    BY <2>1 DEF BuildRow, Ready
  <2> QED  BY <2>2, <1>6 DEF BuildRow, FromInputs
<1>8. \A d \in Defects \cup {"none"} :
        /\ Made(r, d).inputs = i /\ Made(r, d).config = i
        /\ Made(r, d) \in Builds /\ Made(r, d) # None
  BY <1>7, NoneAssumption DEF Made, Builds
<1>9. /\ \A q \in Rows : q # r => built'[q] = built[q]
      /\ \/ \E b \in Builds : /\ built'[r] = Append(built[r], b)
                              /\ b.inputs = i /\ b.config = i /\ b # None
         \/ built'[r] = built[r] /\ status'[Build(r)] # "ok"
  BY <1>4, <1>5, <1>8
<1>10. /\ \A q \in Rows : q # r => Downloaded'[q] = Downloaded[q]
       /\ status'[Build(r)] = "ok" => Downloaded'[r] # None /\ Downloaded'[r].inputs = i
  <2>1. ASSUME NEW b \in Builds, built'[r] = Append(built[r], b), b.inputs = i, b # None
        PROVE  Downloaded'[r] # None /\ Downloaded'[r].inputs = i
    <3>1. Newest(Append(built[r], b)) = b
      BY <1>5, CopyAdded
    <3> QED  BY <2>1, <3>1 DEF Downloaded
  <2> QED  BY <1>9, <2>1 DEF Downloaded
<1>11. Current'
  <2>1. ~torn' => \A q \in Rows : status'[Build(q)] = "ok" /\ Downloaded'[q] # None =>
          Downloaded'[q].inputs = i
    BY <1>1, <1>3, <1>6, <1>10 DEF FromInputs
  <2>2. \A q \in Seeds : status'[Ubuntu(q)] = status[Ubuntu(q)]
    BY <1>1, <1>2
  <2>3. FromInputs(i)'
    BY <2>1, <2>2, <1>3, <1>6 DEF FromInputs
  <2> QED  BY <2>3 DEF Current
<1>12. SelfMade'
  <2>1. ASSUME NEW k \in DOMAIN built'[r] PROVE built'[r][k].config = built'[r][k].inputs
    <3>1. CASE built'[r] = built[r]
      BY <2>1, <3>1 DEF WholeInv, SelfMade
    <3>2. ASSUME NEW b \in Builds, built'[r] = Append(built[r], b), b.inputs = i, b.config = i
          PROVE  built'[r][k].config = built'[r][k].inputs
      <4>1. built'[r][k] = b \/ \E m \in DOMAIN built[r] : built'[r][k] = built[r][m]
        BY <1>5, <2>1, <3>2, CopyAdded
      <4> QED  BY <3>2, <4>1 DEF WholeInv, SelfMade
    <3> QED  BY <1>9, <3>1, <3>2
  <2> QED  BY <2>1, <1>9 DEF WholeInv, SelfMade
<1>13. Kept' /\ ForkKeeps'
  BY <1>1, <1>2, <1>3 DEF WholeInv, Kept, ForkKeeps
<1>14. ~cleaning
  <2>1. Build(r) \in Needs(Assemble) /\ status[Build(r)] = "waiting"
    BY NeedsOfJobs DEF BuildRow, Ready, Waiting
  <2> QED  BY <2>1 DEF WholeInv, CleanupGoesOn, Ready
<1>15. CleanupSafe'
  <2>1. \A q \in Rows : q # r => status'[Build(q)] = status[Build(q)]
    BY <1>1
  <2> QED  BY <2>1, <1>3, <1>7, <1>10 DEF WholeInv, CleanupSafe
<1>16. AssembledWhole' /\ ReleaseWhole' /\ CleanupGoesOn'
  BY <1>1, <1>2, <1>3, <1>14 DEF WholeInv, AssembledWhole, ReleaseWhole, CleanupGoesOn
<1> QED  BY <1>11, <1>12, <1>13, <1>15, <1>16 DEF Parts

LEMMA AssembleKeeps ==
  ASSUME WholeInv, AssembleDebs
  PROVE  Parts'
<1> USE SeedsAndRows, KnownJobs
<1>1. /\ UNCHANGED <<event, status, inputs, configs, built, torn, draft, expired>>
      /\ debs' = Downloaded /\ leftover' = torn /\ cleaning'
  BY DEF AssembleDebs, counters, commit
<1>2. Accepted(AllPackages(Downloaded), Rows)
  BY DEF AssembleDebs, Assembles
<1>3. \A r \in Rows : Downloaded[r] # None /\ status[Build(r)] = "ok"
  BY <1>2, AcceptedHasAll, NeedsOfJobs DEF AssembleDebs, Ready
<1>4. Rows # {}
  BY <1>2 DEF Accepted
<1>5. PICK i \in 1..MaxAttempts : FromInputs(i)
  BY DEF WholeInv, Current
<1>6. WholeSet(Downloaded)
  <2>1. \A r \in Rows : Downloaded[r] # None => Downloaded[r].config = Downloaded[r].inputs
    BY DownloadedType DEF WholeInv, SelfMade
  <2> QED  BY <2>1, <1>2, AssembledIsWhole
<1>7. ~torn => \A r \in Rows : Downloaded[r].inputs = i
  BY <1>3, <1>5 DEF FromInputs
<1>8. Downloaded # None
  <2>1. Downloaded \in [Rows -> Builds]
    <3>1. \A r \in Rows : Downloaded[r] \in Builds
      BY <1>3, DownloadedType DEF WholeInv
    <3> QED  BY <3>1 DEF Downloaded
  <2> QED  BY <2>1, NoneAssumption
<1>9. ~expired => inputs = i
  <2>1. \A r \in Rows : External \in Needs(Build(r))
    BY NeedsOfJobs
  <2>2. status[External] = "ok"
    BY <2>1, <1>3, <1>4 DEF WholeInv, Settled
  <2> QED  BY <2>2, <1>5 DEF WholeInv, Kept, FromInputs
<1>10. \A r \in Rows : Downloaded'[r] = Downloaded[r]
  BY <1>1 DEF Downloaded
<1>11. Current'
  <2>1. FromInputs(i)'
    BY <1>1, <1>5, <1>10 DEF FromInputs
  <2> QED  BY <2>1 DEF Current
<1>12. Kept' /\ SelfMade' /\ ForkKeeps'
  BY <1>1 DEF WholeInv, Kept, SelfMade, ForkKeeps
<1>13. ReleaseWhole'
  <2>1. status[Release] # "ok"
    BY NeedsOfJobs DEF WholeInv, Settled, AssembleDebs, Ready, Waiting
  <2> QED  BY <2>1, <1>1 DEF ReleaseWhole
<1>14. AssembledWhole'
  BY <1>1, <1>6, <1>7 DEF AssembledWhole, OneInputs
<1>15. CleanupSafe'
  BY <1>1, <1>7, <1>8, <1>9 DEF CleanupSafe
<1>16. CleanupGoesOn'
  BY <1>1, <1>4, <1>7, <1>8, <1>9 DEF CleanupGoesOn, AssembleDebs, Ready, Waiting
<1> QED  BY <1>11, <1>12, <1>13, <1>14, <1>15, <1>16 DEF Parts

LEMMA DeleteKeeps ==
  ASSUME WholeInv, NEW r \in Rows, Delete(r)
  PROVE  Parts'
<1> USE SeedsAndRows, KnownJobs
<1>1. /\ UNCHANGED <<event, status, inputs, configs, debs, cleaning, leftover, draft, expired>>
      /\ cleaning /\ torn' /\ event # "fork"
  BY DEF Delete, counters, commit
<1>2. PICK i \in DOMAIN built[r] : built' = [built EXCEPT ![r] = RemoveAt(@, i)]
  BY DEF Delete
<1>3. built \in [Rows -> Seq(Builds)]
  BY DEF WholeInv, TypeOK
<1>4. Current'
  <2>1. PICK k \in 1..MaxAttempts : FromInputs(k)
    BY DEF WholeInv, Current
  <2>2. FromInputs(k)'
    BY <2>1, <1>1 DEF FromInputs
  <2> QED  BY <2>2 DEF Current
<1>5. SelfMade'
  <2>1. ASSUME NEW k \in DOMAIN built'[r] PROVE \E m \in DOMAIN built[r] : built'[r][k] = built[r][m]
    <3>1. built'[r] = RemoveAt(built[r], i) /\ built[r] \in Seq(Builds)
      BY <1>2, <1>3
    <3> QED  BY <2>1, <3>1, CopyRemoved
  <2>2. \A q \in Rows : q # r => built'[q] = built[q]
    BY <1>2, <1>3
  <2> QED  BY <2>1, <2>2 DEF WholeInv, SelfMade
<1>6. CleanupSafe'
  BY <1>1 DEF WholeInv, CleanupGoesOn, CleanupSafe
<1>7. Kept' /\ ForkKeeps' /\ CleanupGoesOn' /\ AssembledWhole' /\ ReleaseWhole'
  BY <1>1 DEF WholeInv, Kept, ForkKeeps, CleanupGoesOn, AssembledWhole, ReleaseWhole, Ready, Waiting
<1> QED  BY <1>4, <1>5, <1>6, <1>7 DEF Parts

LEMMA DraftedKeeps ==
  ASSUME WholeInv, Drafted
  PROVE  Parts'
<1> USE SeedsAndRows, KnownJobs, Kinds
<1>1. \A k \in Jobs : k # Release => status'[k] = status[k]
  BY DEF WholeInv, TypeOK, Drafted, May, SetStatus
<1>2. Release \notin UbuntuJobs \cup BuildJobs \cup {External, Assemble, DiscoverJob}
  OBVIOUS
<1>3. /\ UNCHANGED <<event, inputs, configs, built, debs, cleaning, draft, expired, torn, leftover>>
      /\ debs # None /\ draft = debs
  BY DEF Drafted, Rest, commit, history, artifacts
<1>4. ReleaseWhole'
  BY <1>3 DEF WholeInv, AssembledWhole, ReleaseWhole
<1>5. \A q \in Seeds : status'[Ubuntu(q)] = status[Ubuntu(q)]
  BY <1>1, <1>2
<1>6. \A q \in Rows : status'[Build(q)] = status[Build(q)] /\ Downloaded'[q] = Downloaded[q]
  BY <1>1, <1>2, <1>3 DEF Downloaded
<1>7. Current'
  <2>1. PICK i \in 1..MaxAttempts : FromInputs(i)
    BY DEF WholeInv, Current
  <2>2. FromInputs(i)'
    BY <2>1, <1>3, <1>5, <1>6 DEF FromInputs
  <2> QED  BY <2>2 DEF Current
<1>8. CleanupSafe' /\ AssembledWhole'
  BY <1>3, <1>6 DEF WholeInv, CleanupSafe, AssembledWhole
<1>9. Kept' /\ SelfMade' /\ ForkKeeps'
  BY <1>1, <1>2, <1>3 DEF WholeInv, Kept, SelfMade, ForkKeeps
<1>10. CleanupGoesOn'
  <2>1. \A n \in Needs(Assemble) : status'[n] = status[n]
    BY <1>1, <1>2, NeedsOfJobs
  <2> QED  BY <2>1, <1>1, <1>2, <1>3 DEF WholeInv, CleanupGoesOn, Ready, Waiting
<1> QED  BY <1>4, <1>7, <1>8, <1>9, <1>10 DEF Parts

LEMMA ExpireKeeps ==
  ASSUME WholeInv, Expire
  PROVE  Parts'
<1> USE SeedsAndRows, KnownJobs
<1>1. UNCHANGED <<event, status, draft, cleaning, torn, leftover>> /\ expired' /\ ~cleaning
  <2>1. ~cleaning
    BY DEF WholeInv, CleanupGoesOn, Ready, Expire, Finished
  <2> QED  BY <2>1 DEF Expire, commit, history
<1>2. /\ inputs' \in {inputs, None}
      /\ debs' \in {debs, None}
      /\ \A s \in Seeds : configs'[s] \in {configs[s], None}
  BY DEF WholeInv, TypeOK, Expire
<1>3. UNCHANGED built \/ \E r \in Rows : built[r] # <<>> /\ built' = [built EXCEPT ![r] = Tail(@)]
  BY DEF Expire
<1>4. built \in [Rows -> Seq(Builds)]
  BY DEF WholeInv, TypeOK
<1>5. ASSUME NEW r \in Rows
      PROVE  /\ Downloaded'[r] \in {Downloaded[r], None}
             /\ \A k \in DOMAIN built'[r] : \E m \in DOMAIN built[r] : built'[r][k] = built[r][m]
  <2>1. built'[r] = built[r] \/ (built[r] # <<>> /\ built'[r] = Tail(built[r]))
    BY <1>3, <1>4
  <2>2. built[r] \in Seq(Builds)
    BY <1>4
  <2>3. Downloaded[r] = Newest(built[r]) /\ Downloaded'[r] = Newest(built'[r])
    BY DEF Downloaded
  <2>4. CASE built'[r] = built[r]
    BY <2>3, <2>4
  <2>5. CASE built[r] # <<>> /\ built'[r] = Tail(built[r])
    BY <2>2, <2>3, <2>5, OldestRemoved
  <2> QED  BY <2>1, <2>4, <2>5
<1>6. Current'
  <2>1. PICK i \in 1..MaxAttempts : FromInputs(i)
    BY DEF WholeInv, Current
  <2>2. inputs' # None => inputs' = i
    BY <2>1, <1>2 DEF FromInputs
  <2>3. \A s \in Seeds : status'[Ubuntu(s)] = "ok" /\ configs'[s] # None => configs'[s] = i
    BY <2>1, <1>1, <1>2 DEF FromInputs
  <2>4. ~torn' => \A r \in Rows : status'[Build(r)] = "ok" /\ Downloaded'[r] # None =>
          Downloaded'[r].inputs = i
    BY <2>1, <1>1, <1>5 DEF FromInputs
  <2>5. FromInputs(i)'
    BY <2>2, <2>3, <2>4 DEF FromInputs
  <2> QED  BY <2>5 DEF Current
<1>7. SelfMade'
  BY <1>5 DEF WholeInv, SelfMade
<1>8. Kept' /\ ForkKeeps' /\ CleanupSafe' /\ CleanupGoesOn'
  BY <1>1 DEF WholeInv, Kept, ForkKeeps, CleanupSafe, CleanupGoesOn
<1>9. AssembledWhole' /\ ReleaseWhole'
  BY <1>1, <1>2 DEF WholeInv, AssembledWhole, ReleaseWhole
<1> QED  BY <1>6, <1>7, <1>8, <1>9 DEF Parts

LEMMA WholeStep == WholeInv /\ [Next]_vars => WholeInv'
<1> SUFFICES ASSUME WholeInv, [Next]_vars PROVE Parts'
  BY TypeStep, SettledStep DEF WholeInv, Parts
<1> USE KnownJobs, Kinds
<1>0. CASE UNCHANGED vars
  <2>1. Tame
    BY <1>0 DEF WholeInv, CleanupGoesOn, vars, commit, history, counters, Tame, Ready, Waiting
  <2> QED  BY <2>1, TameKeeps
<1>1. ASSUME NEW j \in Jobs, Inspect(j) PROVE Parts'
  <2>1. j \notin {External, Release, Assemble} \cup UbuntuJobs \cup BuildJobs
    BY <1>1 DEF Inspect
  <2>2. \E s \in States : SetStatus(j, s)
    BY <1>1 DEF Inspect, May, States
  <2> QED  BY <1>1, <2>1, <2>2, OneJobIsTame, TameKeeps DEF Inspect, Rest, commit, history
<1>2. ASSUME NEW j \in Jobs, Missing(j) PROVE Parts'
  <2>1. j # Assemble
    BY <1>2, SeedsAndRows DEF Missing
  <2> QED  BY <1>2, <2>1, OneJobIsTame, TameKeeps DEF Missing, commit, history, counters, States
<1>3. CASE Skip
  <2>1. \A j \in Jobs : status'[j] = "ok" => status[j] = "ok"
    BY <1>3 DEF Skip
  <2>2. ASSUME cleaning PROVE Ready(Assemble)'
    <3>1. Ready(Assemble) /\ ~Hopeless(Assemble)
      BY <2>2 DEF WholeInv, CleanupGoesOn, Hopeless
    <3>2. \A n \in Needs(Assemble) : n \in Jobs /\ status[n] = "ok"
      BY <3>1, RankGrows DEF Ready
    <3>3. \A n \in Needs(Assemble) : status'[n] = "ok"
      BY <1>3, <3>2 DEF Skip, Hopeless, Waiting
    <3> QED  BY <1>3, <3>1, <3>3 DEF Skip, Ready, Waiting
  <2>3. Tame
    BY <1>3, <2>1, <2>2 DEF Skip, commit, history, counters, Tame
  <2> QED  BY <2>3, TameKeeps
<1>4. CASE Freeze
  BY <1>4, FreezeKeeps
<1>5. ASSUME NEW s \in Seeds, StageConfig(s) PROVE Parts'
  BY <1>5, StageConfigKeeps
<1>6. ASSUME NEW r \in Rows, BuildRow(r) PROVE Parts'
  BY <1>6, BuildRowKeeps
<1>7. ASSUME NEW r \in Rows, Delete(r) PROVE Parts'
  BY <1>7, DeleteKeeps
<1>8. ASSUME NEW r \in Rows, Attach(r) PROVE Parts'
  <2>1. status'[Release] # "ok"
    BY <1>8 DEF Attach, Ready, Waiting
  <2>2. Tame
    BY <1>8, <2>1 DEF WholeInv, CleanupGoesOn, Attach, commit, history, counters, Tame, Ready, Waiting
  <2> QED  BY <2>2, TameKeeps
<1>9. CASE AssembleDebs
  BY <1>9, AssembleKeeps
<1>10. CASE RefuseDebs
  BY <1>10, OneJobIsTame, TameKeeps DEF RefuseDebs, commit, history, counters, States
<1>11. CASE Cleaned
  <2>1. Ready(Assemble) /\ Assemble \notin {External, Release} \cup UbuntuJobs \cup BuildJobs
    BY <1>11 DEF Cleaned, WholeInv, CleanupGoesOn
  <2>2. torn' => torn
    BY <1>11 DEF Cleaned
  <2>3. torn' = torn \/ \A r \in Rows : Downloaded[r] = None
    <3>1. CASE event = "fork"
      BY <1>11, <3>1 DEF Cleaned, WholeInv, ForkKeeps, TypeOK
    <3>2. CASE \A r \in Rows : built[r] = <<>>
      BY <3>2 DEF Downloaded, Newest
    <3> QED  BY <1>11, <3>1, <3>2 DEF Cleaned
  <2> QED
    BY <1>11, <2>1, <2>2, <2>3, OneJobIsTame, TameKeeps DEF Cleaned, commit, counters, States
<1>12. CASE AssembleFails
  BY <1>12, OneJobIsTame, TameKeeps DEF AssembleFails, commit, history, States
<1>13. CASE Drafted
  BY <1>13, DraftedKeeps
<1>14. CASE ReleaseFails
  <2>1. SetStatus(Release, "failed") /\ Release # Assemble
    BY <1>14 DEF ReleaseFails, May
  <2> QED  BY <1>14, <2>1, OneJobIsTame, TameKeeps DEF ReleaseFails, Rest, commit, history, States
<1>15. CASE Cancel
  <2>1. \A j \in Jobs : status'[j] = "ok" => status[j] = "ok"
    BY <1>15 DEF Cancel
  <2>2. Tame
    BY <1>15, <2>1 DEF Cancel, commit, history, Tame
  <2> QED  BY <2>2, TameKeeps
<1>16. CASE Expire
  BY <1>16, ExpireKeeps
<1>17. CASE RerunAll
  BY <1>17, RestartIsTame, TameKeeps DEF RerunAll
<1>18. CASE RerunFailed
  BY <1>18, RestartIsTame, TameKeeps DEF RerunFailed
<1>19. ASSUME NEW j \in Jobs, RerunJob(j) PROVE Parts'
  BY <1>19, RestartIsTame, TameKeeps DEF RerunJob
<1> QED
  BY <1>0, <1>1, <1>2, <1>3, <1>4, <1>5, <1>6, <1>7, <1>8, <1>9, <1>10, <1>11, <1>12,
     <1>13, <1>14, <1>15, <1>16, <1>17, <1>18, <1>19 DEF Next, Step

LEMMA WholeAlways == Spec => []WholeInv
<1> QED  BY InitWhole, WholeStep, PTL DEF Spec

\* Whatever was interrupted and repeated how often, the packages that a run
\* offers are a whole set, with every header that was built, each build with the
\* configuration frozen with its inputs; and the builds are from the same inputs
\* unless a cleanup was left half-way before.
THEOREM AssembledWholeHolds == Spec => []AssembledWhole
<1>1. WholeInv => AssembledWhole  BY DEF WholeInv
<1> QED  BY <1>1, WholeAlways, PTL

\* A draft release whose job has succeeded holds such a set, whatever an earlier
\* attempt has left in the draft.
THEOREM ReleaseWholeHolds == Spec => []ReleaseWhole
<1>1. WholeInv => ReleaseWhole  BY DEF WholeInv
<1> QED  BY <1>1, WholeAlways, PTL

\* While nothing expires, a build that succeeded is the one that a download
\* gets, or is in the packages made of it: whichever copies the cleanup has
\* deleted when it stops.
THEOREM CleanupSafeHolds == Spec => []CleanupSafe
<1>1. WholeInv => CleanupSafe  BY DEF WholeInv
<1> QED  BY <1>1, WholeAlways, PTL

-----------------------------------------------------------------------------
(* The versions chosen, in the composed system *)

Choice == INSTANCE SourceVersions_proofs WITH
  Names <- MCNames, First <- 618, Declared <- Lines, Required <- Lines,
  MaxEbuilds <- 3, MaxUpstream <- 3, Nothing <- None

\* Nothing older is required than what is built.
LinesBuilt == \A l \in Lines : l >= 618

LEMMA SevenFinite ==
  ASSUME NEW a, NEW b, NEW c, NEW d, NEW e, NEW f, NEW g
  PROVE  IsFiniteSet({a, b, c, d, e, f, g})
<1>1. IsFiniteSet({})
  BY FS_EmptySet
<1>2. IsFiniteSet((({} \cup {a}) \cup {b}) \cup {c})
  BY <1>1, FS_AddElement
<1>3. IsFiniteSet((((({} \cup {a}) \cup {b}) \cup {c}) \cup {d}) \cup {e})
  BY <1>2, FS_AddElement
<1>4. IsFiniteSet((((((({} \cup {a}) \cup {b}) \cup {c}) \cup {d}) \cup {e}) \cup {f}) \cup {g})
  BY <1>3, FS_AddElement
<1>5. {a, b, c, d, e, f, g} =
        (((((({} \cup {a}) \cup {b}) \cup {c}) \cup {d}) \cup {e}) \cup {f}) \cup {g}
  OBVIOUS
<1> QED BY <1>4, <1>5

LEMMA NamesVersioned == LinesBuilt => Choice!Versioned
<1> DEFINE Good(n) == /\ n.patch \in Nat /\ n.rev \in Nat /\ n.dashed \in BOOLEAN
                      /\ n.rev > 0 => n.dashed
<1>1. IsFiniteSet(MCNames)
  <2> DEFINE a == Plain(618, 1)
             b == Revised(618, 1, 0)
             c == Revised(618, 1, 1)
             d == Plain(618, 2)
             e == Plain(702, 1)
             f == Plain(617, 3)
             g == Plain(703, 1)
  <2>1. MCNames = {a, b, c, d, e, f, g}
    BY DEF MCNames
  <2> HIDE DEF a, b, c, d, e, f, g
  <2> QED BY <2>1, SevenFinite
<1>2. Choice!IsFiniteSet(MCNames)
  BY <1>1 DEF IsFiniteSet, Choice!IsFiniteSet
<1>3. ASSUME NEW n \in MCNames
      PROVE  Good(n)
  <2>1. \A l, p \in Nat : Good(Plain(l, p))
    BY DEF Plain
  <2>2. \A l, p, r \in Nat : Good(Revised(l, p, r))
    BY DEF Revised
  <2> HIDE DEF Good
  <2> QED BY <2>1, <2>2 DEF MCNames
<1> QED BY <1>2, <1>3 DEF LinesBuilt, Choice!Versioned

LEMMA SameOrder ==
  /\ \A S, l : Versions!Newest(S, l) = Choice!Newest(S, l)
  /\ \A S, l : Versions!OfLine(S, l) = Choice!OfLine(S, l)
  /\ \A n : Versions!Key(n) = Choice!Key(n)
BY DEF Versions!OfLine, Choice!OfLine, Versions!Newest, Choice!Newest,
   Versions!Key, Choice!Key, Versions!Less, Choice!Less

LEMMA SameCount == \A S : Versions!Cardinality(S) = Choice!Cardinality(S)
BY DEF Versions!Cardinality, Choice!Cardinality

LEMMA SameLists ==
  /\ \A S : Versions!Complete(S) <=> Choice!Complete(S)
  /\ \A S, l : Versions!FirstNewest(S, l) = Choice!FirstNewest(S, l)
  /\ \A S : Versions!Compact(S) = Choice!Compact(S)
  /\ \A f, g : Versions!Said(f, g) = Choice!Said(f, g)
<1>1. \A S : Versions!Complete(S) <=> Choice!Complete(S)
  BY SameOrder DEF Versions!Complete, Choice!Complete
<1>2. \A S, l : Versions!FirstNewest(S, l) = Choice!FirstNewest(S, l)
  BY SameOrder DEF Versions!FirstNewest, Choice!FirstNewest
<1>3. \A S : Versions!Compact(S) = Choice!Compact(S)
  BY <1>2 DEF Versions!Compact, Choice!Compact
<1>4. \A f, g : Versions!Said(f, g) = Choice!Said(f, g)
  BY DEF Versions!Said, Choice!Said, Versions!Written, Choice!Written
<1> QED BY <1>1, <1>2, <1>3, <1>4

LEMMA SameChoice ==
  /\ Versions!Init <=> Choice!Init
  /\ Versions!Next <=> Choice!Next
  /\ Versions!TypeOK <=> Choice!TypeOK
  /\ Versions!SelectionsAgree <=> Choice!SelectionsAgree
<1>1. Versions!Init <=> Choice!Init
  BY SameOrder, SameCount, SameLists DEF Versions!Init, Choice!Init
<1>2. Versions!Upstream <=> Choice!Upstream
  BY SameCount DEF Versions!Upstream, Choice!Upstream
<1>3. Versions!Maintain <=> Choice!Maintain
  BY SameCount DEF Versions!Maintain, Choice!Maintain
<1>4. Versions!Refresh <=> Choice!Refresh
  BY SameOrder, SameLists DEF Versions!Refresh, Choice!Refresh
<1>5. Versions!Discover <=> Choice!Discover
  BY DEF Versions!Discover, Choice!Discover, Versions!OfLine, Choice!OfLine,
     Versions!Newest, Choice!Newest, Versions!Key, Choice!Key, Versions!Less, Choice!Less,
     Versions!Complete, Choice!Complete, Versions!Maintained, Choice!Maintained,
     Versions!Discoverable, Choice!Discoverable, Versions!Selections, Choice!Selections,
     Versions!BuildMatrix, Choice!BuildMatrix, Versions!Seeds, Choice!Seeds,
     Versions!DebRevision, Choice!DebRevision, Versions!Upgrade, Choice!Upgrade,
     Versions!Boards, Choice!Boards, Versions!Firmwares, Choice!Firmwares,
     Versions!Flavours, Choice!Flavours, Versions!repository, Choice!repository
<1>6. Versions!Check <=> Choice!Check
  BY SameOrder, SameLists DEF Versions!Check, Choice!Check,
     Versions!repository, Choice!repository
<1>7. Versions!TypeOK <=> Choice!TypeOK
  BY DEF Versions!TypeOK, Choice!TypeOK
<1>8. Versions!SelectionsAgree <=> Choice!SelectionsAgree
  BY SameOrder DEF Versions!SelectionsAgree, Choice!SelectionsAgree
<1> QED BY <1>1, <1>2, <1>3, <1>4, <1>5, <1>6, <1>7, <1>8 DEF Versions!Next, Choice!Next

PartsInv == part = "versions" => Choice!VInv

\* Whatever is committed, refreshed, built and compared in whatever order, the
\* comparison, the build and the retained list choose the same versions
\* (check-cix-source-versions.py, discover-cix-matrix.py, compact_gentoo_metadata).
THEOREM SelectionsAgreeHolds == LinesBuilt => (PartsSpec => []SelectionsAgree)
<1> SUFFICES ASSUME LinesBuilt PROVE PartsSpec => []SelectionsAgree
  OBVIOUS
<1>1. PartsInit => PartsInv
  <2>1. Choice!Init => Choice!VInv
    BY NamesVersioned, Choice!InitVInv
  <2> QED BY <2>1, SameChoice DEF PartsInit, PartsInv
<1>2. PartsInv /\ [PartsNext]_partVars => PartsInv'
  <2> SUFFICES ASSUME PartsInv, [PartsNext]_partVars PROVE PartsInv'
    OBVIOUS
  <2>1. Choice!VInv /\ [Choice!Next]_(Choice!vars) => Choice!VInv'
    BY NamesVersioned, Choice!VInvStep
  <2>2. UNCHANGED versionVars => UNCHANGED Choice!vars
    BY DEF versionVars, Choice!vars
  <2>3. part' = part /\ (part = "versions" => Versions!Next \/ UNCHANGED versionVars)
    BY DEF PartsNext, partVars
  <2> QED BY <2>1, <2>2, <2>3, SameChoice DEF PartsInv
<1>3. PartsInv => SelectionsAgree
  <2>1. Choice!VInv => Choice!TypeOK /\ Choice!SelectionsAgree
    BY NamesVersioned, Choice!Agree DEF Choice!VInv
  <2> QED BY <2>1, SameChoice DEF PartsInv, SelectionsAgree
<1> QED BY <1>1, <1>2, <1>3, PTL DEF PartsSpec

=============================================================================
