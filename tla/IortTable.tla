------------------------------ MODULE IortTable ------------------------------
(***************************************************************************)
(* acpi-table-upgrade/.../iort/build_iort_upgrade.py: an ACPI IORT table,  *)
(* a header and a sequence of nodes, is rewritten so that the two SMMUs of *)
(* the board walk dirty bits (--httu) and raise their interrupts through   *)
(* the ITS (--msi).  The nodes name each other by their offset in the      *)
(* table, and an ID mapping is inserted in the middle of it: everything    *)
(* behind moves, and every name of something behind must follow.           *)
(*                                                                         *)
(* A node stands for its bytes; "at" is where these bytes are.  An ID      *)
(* mapping keeps the node it names, whether it is a single mapping, and    *)
(* whether it maps all requester ids to themselves ("whole").              *)
(***************************************************************************)
EXTENDS Integers, Sequences

CONSTANTS
  Inputs,        \* the tables that firmware ships
  Bases,         \* <<base, base>>: SKY1_SMMU_MSI_BASES
  MaxRevision,   \* the largest OEM revision, 2^32 - 1 in the code
  MaxRuns        \* bound: runs of the builder

AcpiHeaderLen == 36
HeaderLen == 48
NodeHeaderLen == 16
MappingLen == 20
Types == {"its", "smmu", "pmcg", "rc"}
Flags == {"cohacc", "httu_a", "httu_ad", "deviceid"}

Mapping == [ref : Nat, single : BOOLEAN, whole : BOOLEAN]
Node == [type : Types, at : Nat, len : Nat, rev : Nat, base : Nat,
         flags : SUBSET Flags, idx : Nat, mapAt : Nat, maps : Seq(Mapping),
         gsiv : Nat]
Table == [length : Nat, size : Nat, revision : 0..MaxRevision,
          sum : BOOLEAN, nodes : Seq(Node)]

\* Where the bytes of node k are, how many, and its mappings.
Nodes(t) == DOMAIN t.nodes
At(t, k) == t.nodes[k].at
Size(t, k) == t.nodes[k].len
End(t, k) == At(t, k) + Size(t, k)
MapAt(t, k) == t.nodes[k].mapAt
NumMaps(t, k) == Len(t.nodes[k].maps)
Ref(t, k, j) == t.nodes[k].maps[j].ref

\* The nodes of a table are the ones a reader finds that goes from length to
\* length; the bytes it has are these and the header.
Tiled(t) ==
  /\ \A k \in Nodes(t) :
       /\ Size(t, k) >= NodeHeaderLen
       /\ NumMaps(t, k) > 0 => MapAt(t, k) >= NodeHeaderLen
       /\ At(t, k) = IF k = 1 THEN HeaderLen ELSE End(t, k - 1)
       /\ \A j \in Nodes(t) : k < j => End(t, k) <= At(t, j)
  /\ t.size = IF Len(t.nodes) = 0 THEN HeaderLen ELSE End(t, Len(t.nodes))
  /\ t.length = t.size

\* validate_header; "sum" stands for the signature and the checksum.
HeaderValid(t) == t.size >= AcpiHeaderLen /\ t.length = t.size /\ t.sum

ASSUME IortAssumption ==
  /\ Inputs \subseteq Table
  /\ \A t \in Inputs : HeaderValid(t) => Tiled(t)
  /\ Bases \in Seq(Nat) /\ Len(Bases) = 2 /\ Bases[1] # Bases[2]
  /\ MaxRevision \in Nat /\ MaxRuns \in Nat

\* A mapping names a node, by the place where the node begins, and the smallest
\* node, an ITS group of one ITS, is longer than a mapping.
Named(t) ==
  \A k \in Nodes(t) :
    /\ Size(t, k) > MappingLen
    /\ \A j \in 1..NumMaps(t, k) : \E i \in Nodes(t) : Ref(t, k, j) = At(t, i)

ASSUME NamedAssumption == \A t \in Inputs : HeaderValid(t) => Named(t)

VARIABLES
  firmware,  \* the IORT.dat of the board
  data,      \* the table in memory
  pc,        \* the builder's next step
  options,   \* --httu, --msi
  changed,   \* something was changed
  its_ref,   \* where the ITS group is, read once before the loop
  missing,   \* Sky1 SMMUs that were not found
  written,   \* the tables written so far, with the options that made them
  input,     \* history: the table this run has read
  had,       \* history: the options that made the table it has read
  runs

vars == <<firmware, data, pc, options, changed, its_ref, missing, written, input, had, runs>>
history == <<firmware, written, input, had, runs>>

Max2(a, b) == IF a > b THEN a ELSE b

ItsGroups(t) == {k \in Nodes(t) : t.nodes[k].type = "its"}
\* The first SMMU with this base address, if there is one.
Smmus(t, base) ==
  {k \in Nodes(t) : t.nodes[k].type = "smmu" /\ t.nodes[k].base = base}
Smmu(t, base) ==
  CHOOSE k \in Smmus(t, base) : \A j \in Smmus(t, base) : k <= j

\* The bytes of a mapping's target begin with the type of an ITS group.
NamesIts(t, m) == \E k \in ItsGroups(t) : t.nodes[k].at = m.ref

-----------------------------------------------------------------------------
(* The helpers *)

\* Mutant of Shift: a reference to the very place of the insertion stays.
ShiftBehind(r, place, delta) == IF r > place THEN r + delta ELSE r

\* What becomes of an offset when delta bytes are inserted at a place.
Shift(r, place, delta) == IF r >= place THEN r + delta ELSE r

\* update_references_after_insert follows the mappings of every node.  In a
\* PMCG node it follows the word at +24, which is the interrupt number.
Followed(n, place, delta) ==
  [n EXCEPT !.maps = [j \in DOMAIN n.maps |->
                        [n.maps[j] EXCEPT !.ref = Shift(n.maps[j].ref, place, delta)]],
            !.gsiv = IF n.type = "pmcg" THEN Shift(@, place, delta) ELSE @]

\* Where the bytes of a node are after the insertion.
Moved(n, place, delta) ==
  [Followed(n, place, delta) EXCEPT !.at = IF @ >= place THEN @ + delta ELSE @]
Grown(n, delta, maps, mapAt) ==
  [n EXCEPT !.len = @ + delta, !.maps = maps \o @, !.mapAt = mapAt, !.idx = 0]

\* Mutant of InsertMappings: the header keeps the old length.
InsertMappingsShort(t, k, place, maps, mapAt) ==
  LET delta == Len(maps) * MappingLen
  IN [t EXCEPT !.size = @ + delta,
               !.nodes = [i \in Nodes(t) |->
                 IF i = k THEN Grown(Moved(t.nodes[i], place, delta), delta, maps, mapAt)
                 ELSE Moved(t.nodes[i], place, delta)]]

\* The bytes of the mappings are put in at a place inside node k, in front of
\* the mappings it has; what is behind moves.
InsertMappings(t, k, place, maps, mapAt) ==
  LET delta == Len(maps) * MappingLen
  IN [t EXCEPT !.size = @ + delta, !.length = @ + delta,
               !.nodes = [i \in Nodes(t) |->
                 IF i = k THEN Grown(Moved(t.nodes[i], place, delta), delta, maps, mapAt)
                 ELSE Moved(t.nodes[i], place, delta)]]

\* add_empty_smmu_msi_mappings: a single mapping and one for all requesters,
\* behind what the node has.
WithBoth(t, k, its) ==
  LET ref == Shift(its, End(t, k), 2 * MappingLen)
  IN InsertMappings(t, k, End(t, k),
       <<[ref |-> ref, single |-> TRUE, whole |-> FALSE],
         [ref |-> ref, single |-> FALSE, whole |-> TRUE]>>, Size(t, k))

\* add_smmu_special_msi_mapping: a single mapping in front of the others.
WithSingle(t, k, its) ==
  LET place == At(t, k) + MapAt(t, k)
  IN InsertMappings(t, k, place,
       <<[ref |-> Shift(its, place, MappingLen), single |-> TRUE, whole |-> FALSE]>>,
       MapAt(t, k))

\* smmu_has_downstream_msi_mapping
HasDownstream(t, k, its) ==
  \E j \in DOMAIN t.nodes[k].maps :
    LET m == t.nodes[k].maps[j] IN ~m.single /\ m.ref = its /\ m.whole

\* The mapping that the SMMU's own interrupts take; the index counts from 0.
IdMapping(n) == n.maps[n.idx + 1]
IdMappingOk(t, k) ==
  LET n == t.nodes[k]
  IN /\ n.idx < NumMaps(t, k)
     /\ MapAt(t, k) + MappingLen * (n.idx + 1) <= Size(t, k)
     /\ NamesIts(t, IdMapping(n))

\* Mutant of WithHttu: the flags are set anew.
WithHttuAnew(t) ==
  [t EXCEPT !.nodes = [k \in Nodes(t) |->
     IF t.nodes[k].type = "smmu" THEN [t.nodes[k] EXCEPT !.flags = {"cohacc", "httu_ad"}]
     ELSE t.nodes[k]]]

\* enable_httu
WithHttu(t) ==
  [t EXCEPT !.nodes = [k \in Nodes(t) |->
     IF t.nodes[k].type = "smmu"
     THEN [t.nodes[k] EXCEPT !.flags = (@ \ {"httu_a"}) \cup {"cohacc", "httu_ad"}]
     ELSE t.nodes[k]]]

-----------------------------------------------------------------------------
(* The builder *)

NoTable == [length |-> 0, size |-> 0, revision |-> 0, sum |-> FALSE, nodes |-> <<>>]

Init ==
  /\ firmware \in Inputs
  /\ data = NoTable /\ input = NoTable
  /\ pc = "idle" /\ options = {} /\ had = {}
  /\ changed = FALSE /\ its_ref = 0 /\ missing = {}
  /\ written = {} /\ runs = 0

\* The table is the board's or one that the builder has made of it.
Read(t, o, h) ==
  /\ pc \in {"idle", "refused"} /\ runs < MaxRuns
  /\ runs' = runs + 1
  /\ input' = t /\ had' = h
  /\ data' = t /\ options' = o /\ changed' = FALSE
  /\ its_ref' = 0 /\ missing' = {}
  /\ pc' = IF HeaderValid(t) THEN "httu" ELSE "refused"
  /\ UNCHANGED <<firmware, written>>

Start ==
  \E o \in (SUBSET {"httu", "msi"}) \ {{}} :
    \/ Read(firmware, o, {})
    \/ \E w \in written : Read(w.table, o, w.options)

\* An exception: nothing is written.
Refuse == pc' = "refused" /\ UNCHANGED <<data, options, changed, its_ref, missing, history>>

Httu ==
  /\ pc = "httu"
  /\ IF "httu" \in options
     THEN data' = WithHttu(data) /\ changed' = (data' # data)
     ELSE UNCHANGED <<data, changed>>
  /\ pc' = IF "msi" \in options THEN "find" ELSE "finish"
  /\ UNCHANGED <<options, its_ref, missing, history>>

FindIts ==
  /\ pc = "find"
  /\ \E k \in Nodes(data) : ItsGroups(data) = {k} /\ its_ref' = data.nodes[k].at
  /\ pc' = "smmu1"
  /\ UNCHANGED <<data, options, changed, missing, history>>

NoSingleIts ==
  /\ pc = "find" /\ ~\E k \in Nodes(data) : ItsGroups(data) = {k}
  /\ Refuse

\* One round of the loop over the bases.
Round(i) == pc = IF i = 1 THEN "smmu1" ELSE "smmu2"
Onwards(i) == pc' = IF i = 1 THEN "smmu2" ELSE "found"

\* A node without mappings gets them before its ID mapping is looked at.
Provided(i) ==
  LET k == Smmu(data, Bases[i])
  IN IF NumMaps(data, k) = 0 THEN WithBoth(data, k, its_ref) ELSE data

\* Mutant of Served: a single mapping is taken to be there already.
ServedUnchecked(i) == Provided(i)

\* The table when the node has a single ID mapping.
Served(i) ==
  LET k == Smmu(data, Bases[i])
  IN IF IdMapping(Provided(i).nodes[k]).single THEN Provided(i)
     ELSE WithSingle(Provided(i), k, its_ref)

\* Mutant of Possible: any mapping for all requesters will do.
PossibleAnywhere(i) ==
  LET k == Smmu(data, Bases[i])
  IN /\ IdMappingOk(Provided(i), k)
     /\ \E j \in DOMAIN Served(i).nodes[k].maps :
          LET m == Served(i).nodes[k].maps[j] IN ~m.single /\ m.whole

\* Mutant of Possible: the mappings are judged before any is added.
PossibleBefore(i) ==
  LET k == Smmu(data, Bases[i])
  IN IdMappingOk(Provided(i), k) /\ HasDownstream(data, k, its_ref)

Possible(i) ==
  LET k == Smmu(data, Bases[i])
  IN IdMappingOk(Provided(i), k) /\ HasDownstream(Served(i), k, its_ref)

\* The revision and the flag that go with it.
SmmuEnabled(i) ==
  LET k == Smmu(data, Bases[i])
      n == Served(i).nodes[k]
  IN [Served(i) EXCEPT !.nodes[k] =
        [n EXCEPT !.rev = Max2(@, 5), !.flags = @ \cup {"deviceid"}]]

\* Mutant of EnableSmmu: a table that is already served counts as changed.
EnableSmmuAnew(i) ==
  /\ Round(i) /\ Smmus(data, Bases[i]) # {} /\ Possible(i)
  /\ data' = SmmuEnabled(i)
  /\ changed' = TRUE
  /\ Onwards(i)
  /\ UNCHANGED <<options, its_ref, missing, history>>

EnableSmmu(i) ==
  /\ Round(i) /\ Smmus(data, Bases[i]) # {} /\ Possible(i)
  /\ data' = SmmuEnabled(i)
  /\ changed' = (changed \/ data' # data)
  /\ Onwards(i)
  /\ UNCHANGED <<options, its_ref, missing, history>>

RefuseSmmu(i) ==
  /\ Round(i) /\ Smmus(data, Bases[i]) # {} /\ ~Possible(i)
  /\ Refuse

SkipSmmu(i) ==
  /\ Round(i) /\ Smmus(data, Bases[i]) = {}
  /\ missing' = missing \cup {Bases[i]}
  /\ Onwards(i)
  /\ UNCHANGED <<data, options, changed, its_ref, history>>

AllFound == pc = "found" /\ missing = {} /\ pc' = "finish"
            /\ UNCHANGED <<data, options, changed, its_ref, missing, history>>
SomeMissing == pc = "found" /\ missing # {} /\ Refuse

Unchanged == pc = "finish" /\ ~changed /\ Refuse
RevisionFull == pc = "finish" /\ changed /\ data.revision = MaxRevision /\ Refuse

\* Mutant of Write: the revision is raised past the largest.
WriteUnguarded ==
  /\ pc = "finish" /\ changed
  /\ data' = [data EXCEPT !.revision = @ + 1, !.sum = TRUE]
  /\ written' = written \cup {[table |-> data', options |-> options \cup had]}
  /\ pc' = "idle"
  /\ UNCHANGED <<firmware, options, changed, its_ref, missing, input, had, runs>>

\* Mutant of Write: the revision is masked to its 32 bits.
WriteWrapped ==
  /\ pc = "finish" /\ changed
  /\ data' = [data EXCEPT !.revision = (@ + 1) % (MaxRevision + 1), !.sum = TRUE]
  /\ written' = written \cup {[table |-> data', options |-> options \cup had]}
  /\ pc' = "idle"
  /\ UNCHANGED <<firmware, options, changed, its_ref, missing, input, had, runs>>

\* bump_oem_revision, update_checksum and the write of the output.
Write ==
  /\ pc = "finish" /\ changed /\ data.revision < MaxRevision
  /\ data' = [data EXCEPT !.revision = @ + 1, !.sum = TRUE]
  /\ written' = written \cup {[table |-> data', options |-> options \cup had]}
  /\ pc' = "idle"
  /\ UNCHANGED <<firmware, options, changed, its_ref, missing, input, had, runs>>

Next ==
  \/ Start \/ Httu \/ FindIts \/ NoSingleIts
  \/ \E i \in 1..2 : EnableSmmu(i) \/ RefuseSmmu(i) \/ SkipSmmu(i)
  \/ AllFound \/ SomeMissing \/ Unchanged \/ RevisionFull \/ Write

Spec == Init /\ [][Next]_vars

-----------------------------------------------------------------------------
TypeOK ==
  /\ firmware \in Table /\ data \in Table /\ input \in Table
  /\ pc \in {"idle", "httu", "find", "smmu1", "smmu2", "found", "finish", "refused"}
  /\ options \subseteq {"httu", "msi"} /\ had \subseteq {"httu", "msi"}
  /\ changed \in BOOLEAN /\ its_ref \in Nat /\ missing \subseteq {Bases[1], Bases[2]}
  /\ written \subseteq [table : Table, options : SUBSET {"httu", "msi"}]
  /\ runs \in 0..MaxRuns

\* How many mappings t has in front of the ones that s has in node k.
Extra(s, t, k) == NumMaps(t, k) - NumMaps(s, k)

\* The mappings of s name in t the nodes that they name in s, and no other.
Follows(s, t) ==
  /\ Nodes(t) = Nodes(s)
  /\ \A k \in Nodes(s) :
       /\ NumMaps(t, k) >= NumMaps(s, k)
       /\ \A j \in 1..NumMaps(s, k), i \in Nodes(s) :
            (Ref(s, k, j) = At(s, i)) = (Ref(t, k, j + Extra(s, t, k)) = At(t, i))

\* However much was inserted, and where, every mapping that the table had
\* still names the node it named before, and no other.
RefsFollow == Follows(input, data)

\* The ITS offset that was read before the loop is never used when an
\* insertion has moved the ITS: the run is refused first.  So every mapping
\* that was inserted names the ITS group.
ItsRefFresh ==
  /\ pc \in {"smmu1", "smmu2"} => \E k \in ItsGroups(data) : data.nodes[k].at = its_ref
  /\ \A k \in Nodes(input) : \A j \in 1..Extra(input, data, k) :
       NamesIts(data, data.nodes[k].maps[j])

\* In the loop and in every table that is written the nodes still tile the
\* table, and the header has its length.
Tiles ==
  /\ pc \notin {"idle", "refused"} => Tiled(data)
  /\ \A w \in written : Tiled(w.table)

\* An SMMU that raises its interrupts through the ITS, by a single mapping,
\* and those of all its requesters.
MsiCapable(t, k) ==
  LET n == t.nodes[k]
  IN /\ IdMappingOk(t, k) /\ IdMapping(n).single
     /\ \E j \in DOMAIN n.maps : ~n.maps[j].single /\ n.maps[j].whole /\ NamesIts(t, n.maps[j])
     /\ n.rev >= 5 /\ "deviceid" \in n.flags
HttuCapable(n) == {"cohacc", "httu_ad"} \subseteq n.flags /\ "httu_a" \notin n.flags

AsAsked(t, o) ==
  /\ "msi" \in o => \A i \in 1..2 : Smmus(t, Bases[i]) # {} /\ MsiCapable(t, Smmu(t, Bases[i]))
  /\ "httu" \in o => \A k \in Nodes(t) : t.nodes[k].type = "smmu" => HttuCapable(t.nodes[k])

\* A table that is written has all that was asked for, by this run and by the
\* runs before it: no run takes back what another one did.  And it outranks the
\* firmware's table, so that the kernel takes it for an upgrade.
WrittenAsAsked ==
  \A w \in written :
    AsAsked(w.table, w.options) /\ w.table.revision > firmware.revision

\* Both options in one run, or one after the other in any order, and however
\* often: the nodes that come out are the same.
OneResult ==
  \A v, w \in written : v.options = w.options => v.table.nodes = w.table.nodes

\* A second run finds nothing to do, and refuses to raise the revision again.
Settles == pc = "finish" /\ options \subseteq had => ~changed

\* A table that can be upgraded: one ITS group, in front of both SMMUs, and
\* SMMUs that have no mappings, or map to the ITS what they must.
Upgradable(t) ==
  /\ HeaderValid(t) /\ t.revision < MaxRevision
  /\ \E k \in Nodes(t) : ItsGroups(t) = {k} /\ \A i \in 1..2 :
       /\ Smmus(t, Bases[i]) # {}
       /\ LET s == Smmu(t, Bases[i])
          IN /\ k < s
             /\ \/ NumMaps(t, s) = 0
                \/ IdMappingOk(t, s) /\ HasDownstream(t, s, t.nodes[k].at)

\* A run refuses only a table that cannot be upgraded, or needs no upgrade.
ServesFirmware ==
  pc = "refused" => ~Upgradable(input) \/ AsAsked(input, options)

=============================================================================
