--------------------------- MODULE IortTable_proofs ---------------------------
(***************************************************************************)
(* For every firmware table, of any number of nodes and mappings: the      *)
(* references of the table follow what the builder moves (RefsFollow), the *)
(* nodes of what it writes tile the table (Tiles), the place of the ITS    *)
(* group is not used when it is stale (ItsRefFresh), what is written has   *)
(* what was asked (WrittenAsAsked) and depends on that alone (OneResult),  *)
(* a second run finds nothing to do (Settles), and no table that can be    *)
(* upgraded is refused (ServesFirmware).                                   *)
(***************************************************************************)
EXTENDS IortTable, TLAPS, SequenceTheorems, WellFoundedInduction

\* What was equal stays equal, and what was not does not become so.
LEMMA ShiftInjective ==
  ASSUME NEW r \in Nat, NEW s \in Nat, NEW place \in Nat, NEW delta \in Nat
  PROVE  /\ Shift(r, place, delta) \in Nat
         /\ (r = s) = (Shift(r, place, delta) = Shift(s, place, delta))
BY DEF Shift

\* A node that is moved keeps its type and length; its place and the places
\* it names are shifted.
LEMMA MovedNode ==
  ASSUME NEW n \in Node, NEW place \in Nat, NEW delta \in Nat
  PROVE  /\ Moved(n, place, delta) \in Node
         /\ Moved(n, place, delta).at = Shift(n.at, place, delta)
         /\ Moved(n, place, delta).len = n.len
         /\ Moved(n, place, delta).mapAt = n.mapAt
         /\ Len(Moved(n, place, delta).maps) = Len(n.maps)
         /\ DOMAIN Moved(n, place, delta).maps = DOMAIN n.maps
         /\ \A j \in DOMAIN n.maps :
              Moved(n, place, delta).maps[j].ref = Shift(n.maps[j].ref, place, delta)
<1> DEFINE M == [j \in DOMAIN n.maps |-> [n.maps[j] EXCEPT !.ref = Shift(@, place, delta)]]
           g == IF n.type = "pmcg" THEN Shift(n.gsiv, place, delta) ELSE n.gsiv
           a == IF n.at >= place THEN n.at + delta ELSE n.at
<1>1. Moved(n, place, delta) = [n EXCEPT !.maps = M, !.gsiv = g, !.at = a]
  BY DEF Moved, Followed, Node
<1>2. n.maps \in Seq(Mapping) /\ DOMAIN n.maps = 1..Len(n.maps) /\ Len(n.maps) \in Nat
  BY DEF Node
<1>3. \A j \in DOMAIN n.maps : n.maps[j] \in Mapping
  BY <1>2
<1>4. \A j \in DOMAIN n.maps : M[j] \in Mapping /\ M[j].ref = Shift(n.maps[j].ref, place, delta)
  <2> TAKE j \in DOMAIN n.maps
  <2>1. n.maps[j] \in Mapping
    BY <1>3
  <2>2. Shift(n.maps[j].ref, place, delta) \in Nat
    BY <2>1 DEF Shift, Mapping
  <2> QED BY <2>1, <2>2 DEF Mapping
<1>5. M \in Seq(Mapping) /\ Len(M) = Len(n.maps) /\ DOMAIN M = DOMAIN n.maps
  <2>1. M \in [1..Len(n.maps) -> Mapping]
    BY <1>2, <1>4
  <2> QED BY <2>1, <1>2, IsASeq, SeqDef
<1>6. a \in Nat /\ a = Shift(n.at, place, delta) /\ g \in Nat
  BY ShiftInjective DEF Node, Shift
<1> HIDE DEF M, g, a
<1> QED BY <1>1, <1>4, <1>5, <1>6 DEF Node

\* A node that gets mappings keeps the ones it had, behind them.
LEMMA GrownNode ==
  ASSUME NEW n \in Node, NEW delta \in Nat, NEW maps \in Seq(Mapping), NEW mapAt \in Nat,
         NEW g, g = Grown(n, delta, maps, mapAt)
  PROVE  /\ g \in Node
         /\ g.at = n.at /\ g.len = n.len + delta /\ g.mapAt = mapAt
         /\ Len(g.maps) = Len(n.maps) + Len(maps)
         /\ \A j \in DOMAIN n.maps : g.maps[j + Len(maps)] = n.maps[j]
<1> DEFINE M == maps \o n.maps
<1>1. /\ n.maps \in Seq(Mapping) /\ Len(n.maps) \in Nat /\ Len(maps) \in Nat
      /\ DOMAIN n.maps = 1..Len(n.maps)
  BY DEF Node
<1>2. /\ M \in Seq(Mapping) /\ Len(M) = Len(n.maps) + Len(maps)
  BY <1>1
<1>3. \A j \in DOMAIN n.maps : M[j + Len(maps)] = n.maps[j]
  BY <1>1
<1>4. g = [n EXCEPT !.len = n.len + delta, !.maps = M, !.mapAt = mapAt, !.idx = 0]
  BY DEF Grown
<1> HIDE DEF M
<1>5. g \in Node
  <2>1. n.len + delta \in Nat
    BY DEF Node
  <2>2. [n EXCEPT !.len = n.len + delta, !.maps = M, !.mapAt = mapAt, !.idx = 0] \in Node
    BY <1>2, <2>1 DEF Node
  <2> QED BY <1>4, <2>2
<1>6. g.at = n.at /\ g.len = n.len + delta /\ g.mapAt = mapAt /\ g.maps = M
  BY <1>4 DEF Node
<1> QED BY <1>2, <1>3, <1>5, <1>6

\* The types of what a table holds.
LEMMA TableTypes ==
  ASSUME NEW t \in Table
  PROVE  /\ t.nodes \in Seq(Node) /\ Len(t.nodes) \in Nat /\ Nodes(t) = 1..Len(t.nodes)
         /\ \A i \in Nodes(t) :
              /\ t.nodes[i] \in Node
              /\ t.nodes[i].at \in Nat /\ t.nodes[i].len \in Nat /\ t.nodes[i].mapAt \in Nat
              /\ t.nodes[i].maps \in Seq(Mapping)
              /\ Len(t.nodes[i].maps) \in Nat
              /\ DOMAIN t.nodes[i].maps = 1..Len(t.nodes[i].maps)
              /\ \A j \in DOMAIN t.nodes[i].maps : t.nodes[i].maps[j].ref \in Nat
<1>1. /\ t.nodes \in Seq(Node) /\ Len(t.nodes) \in Nat /\ Nodes(t) = 1..Len(t.nodes)
      /\ \A i \in Nodes(t) : t.nodes[i] \in Node
  BY DEF Table, Nodes
<1>2. ASSUME NEW n \in Node
      PROVE  /\ n.at \in Nat /\ n.len \in Nat /\ n.mapAt \in Nat /\ n.maps \in Seq(Mapping)
             /\ Len(n.maps) \in Nat /\ DOMAIN n.maps = 1..Len(n.maps)
             /\ \A j \in DOMAIN n.maps : n.maps[j].ref \in Nat
  <2>1. n.maps \in Seq(Mapping) /\ n.at \in Nat /\ n.len \in Nat /\ n.mapAt \in Nat
    BY DEF Node
  <2>2. \A j \in DOMAIN n.maps : n.maps[j] \in Mapping
    BY <2>1
  <2> QED BY <2>1, <2>2 DEF Mapping
<1> QED BY <1>1, <1>2

\* The same by node.
LEMMA NodeTypes ==
  ASSUME NEW t \in Table
  PROVE  \A i \in Nodes(t) :
           /\ NumMaps(t, i) \in Nat /\ At(t, i) \in Nat
           /\ Size(t, i) \in Nat /\ MapAt(t, i) \in Nat
           /\ \A j \in 1..NumMaps(t, i) : Ref(t, i, j) \in Nat
BY TableTypes DEF NumMaps, At, Ref, Size, MapAt

\* What an insertion does to a table, node by node.
LEMMA Inserted ==
  ASSUME NEW t \in Table, NEW k \in Nodes(t), NEW place \in Nat,
         NEW maps \in Seq(Mapping), NEW mapAt \in Nat, NEW d, d = Len(maps) * MappingLen,
         NEW r, r = InsertMappings(t, k, place, maps, mapAt)
  PROVE  /\ r \in Table /\ d \in Nat
         /\ Nodes(r) = Nodes(t) /\ Len(r.nodes) = Len(t.nodes)
         /\ r.size = t.size + d /\ r.length = t.length + d
         /\ \A i \in Nodes(t) :
              /\ At(r, i) = Shift(At(t, i), place, d)
              /\ Size(r, i) = IF i = k THEN Size(t, i) + d ELSE Size(t, i)
              /\ MapAt(r, i) = IF i = k THEN mapAt ELSE MapAt(t, i)
              /\ NumMaps(r, i) = NumMaps(t, i) + IF i = k THEN Len(maps) ELSE 0
              /\ \A j \in 1..NumMaps(t, i) :
                   Ref(r, i, j + IF i = k THEN Len(maps) ELSE 0) = Shift(Ref(t, i, j), place, d)
<1> DEFINE m(i) == Moved(t.nodes[i], place, d)
           N == [i \in Nodes(t) |-> IF i = k THEN Grown(m(i), d, maps, mapAt) ELSE m(i)]
<1>1. d \in Nat
  BY DEF MappingLen
<1>2. /\ t.nodes \in Seq(Node) /\ Len(t.nodes) \in Nat /\ Nodes(t) = 1..Len(t.nodes)
      /\ \A i \in Nodes(t) : t.nodes[i] \in Node
  BY DEF Table, Nodes
<1>3. r = [t EXCEPT !.size = @ + d, !.length = @ + d, !.nodes = N]
  BY DEF InsertMappings, Table
<1>4. \A i \in Nodes(t) :
        /\ m(i) \in Node
        /\ m(i).at = Shift(t.nodes[i].at, place, d)
        /\ m(i).len = t.nodes[i].len /\ m(i).mapAt = t.nodes[i].mapAt
        /\ Len(m(i).maps) = Len(t.nodes[i].maps) /\ m(i).maps \in Seq(Mapping)
        /\ DOMAIN m(i).maps = DOMAIN t.nodes[i].maps
        /\ \A j \in DOMAIN t.nodes[i].maps :
             m(i).maps[j].ref = Shift(t.nodes[i].maps[j].ref, place, d)
  <2> TAKE i \in Nodes(t)
  <2>1. t.nodes[i] \in Node
    BY <1>2
  <2>2. m(i) \in Node
    BY <2>1, <1>1, MovedNode
  <2>3. m(i).maps \in Seq(Mapping)
    BY <2>2 DEF Node
  <2> QED BY <2>1, <2>2, <2>3, <1>1, MovedNode
<1> HIDE DEF m
<1>5. \A i \in Nodes(t) :
        /\ N[i] \in Node
        /\ N[i].at = Shift(t.nodes[i].at, place, d)
        /\ N[i].len = IF i = k THEN t.nodes[i].len + d ELSE t.nodes[i].len
        /\ N[i].mapAt = IF i = k THEN mapAt ELSE t.nodes[i].mapAt
        /\ Len(N[i].maps) = Len(t.nodes[i].maps) + IF i = k THEN Len(maps) ELSE 0
        /\ \A j \in DOMAIN t.nodes[i].maps :
             N[i].maps[j + IF i = k THEN Len(maps) ELSE 0].ref
               = Shift(t.nodes[i].maps[j].ref, place, d)
  <2> TAKE i \in Nodes(t)
  <2>0. t.nodes[i].maps \in Seq(Mapping) /\ t.nodes[i].len \in Nat
    BY <1>2 DEF Node
  <2>1. CASE i # k
    BY <2>1, <2>0, <1>4
  <2>2. CASE i = k
    <3>1. N[i] = Grown(m(i), d, maps, mapAt)
      BY <2>2
    <3> HIDE DEF N
    <3>a. m(i) \in Node
      BY <1>4
    <3>2. /\ N[i] \in Node /\ N[i].at = m(i).at /\ N[i].len = m(i).len + d
          /\ N[i].mapAt = mapAt /\ Len(N[i].maps) = Len(m(i).maps) + Len(maps)
          /\ \A j \in DOMAIN m(i).maps : N[i].maps[j + Len(maps)] = m(i).maps[j]
      BY <3>1, <3>a, <1>1, GrownNode
    <3>3. /\ m(i).at = Shift(t.nodes[i].at, place, d) /\ m(i).len = t.nodes[i].len
          /\ Len(m(i).maps) = Len(t.nodes[i].maps)
      BY <1>4
    <3>4. \A j \in DOMAIN t.nodes[i].maps :
            N[i].maps[j + Len(maps)].ref = Shift(t.nodes[i].maps[j].ref, place, d)
      BY <3>2, <1>4
    <3> HIDE <1>4
    <3> QED BY <2>2, <3>2, <3>3, <3>4
  <2> QED BY <2>1, <2>2
<1>6. N \in Seq(Node) /\ Len(N) = Len(t.nodes) /\ DOMAIN N = Nodes(t)
  <2>1. DOMAIN N = 1..Len(t.nodes)
    BY <1>2
  <2>2. N \in [1..Len(t.nodes) -> Node]
    <3>1. \A i \in 1..Len(t.nodes) : N[i] \in Node
      BY <1>5, <1>2
    <3>2. N = [i \in 1..Len(t.nodes) |-> N[i]]
      BY <1>2
    <3> HIDE DEF N
    <3> QED BY <3>1, <3>2
  <2>3. N \in Seq(Node)
    BY <2>2, <1>2, SeqDef
  <2>4. Len(N) = Len(t.nodes)
    <3> HIDE DEF N
    <3> QED BY <2>1, <2>3, <1>2
  <2> QED BY <2>1, <2>3, <2>4, <1>2
<1> HIDE DEF N
<1>7. /\ r.nodes = N /\ r.size = t.size + d /\ r.length = t.length + d
      /\ r.sum = t.sum /\ r.revision = t.revision /\ r \in Table
  <2>1. r = [t EXCEPT !.size = t.size + d, !.length = t.length + d, !.nodes = N]
    BY <1>3
  <2>2. t.size + d \in Nat /\ t.length + d \in Nat
    BY <1>1 DEF Table
  <2>3. [t EXCEPT !.size = t.size + d, !.length = t.length + d, !.nodes = N] \in Table
    BY <1>6, <2>2 DEF Table
  <2> QED BY <2>1, <2>3 DEF Table
<1>8. \A i \in Nodes(t) : DOMAIN t.nodes[i].maps = 1..NumMaps(t, i)
  BY TableTypes DEF NumMaps
<1>9. \A i \in Nodes(t) : r.nodes[i] = N[i]
  BY <1>7
<1> HIDE DEF N
<1>10. \A i \in Nodes(t) : At(r, i) = Shift(At(t, i), place, d)
  BY <1>5, <1>9 DEF At
<1>11. \A i \in Nodes(t) : NumMaps(r, i) = NumMaps(t, i) + IF i = k THEN Len(maps) ELSE 0
  BY <1>5, <1>9 DEF NumMaps
<1>12. ASSUME NEW i \in Nodes(t), NEW j \in 1..NumMaps(t, i)
       PROVE  Ref(r, i, j + IF i = k THEN Len(maps) ELSE 0) = Shift(Ref(t, i, j), place, d)
  <2>1. j \in DOMAIN t.nodes[i].maps
    BY <1>8
  <2>2. N[i].maps[j + IF i = k THEN Len(maps) ELSE 0].ref
          = Shift(t.nodes[i].maps[j].ref, place, d)
    BY <2>1, <1>5
  <2> QED BY <2>2, <1>9 DEF Ref
<1>13. \A i \in Nodes(t) :
         /\ Size(r, i) = IF i = k THEN Size(t, i) + d ELSE Size(t, i)
         /\ MapAt(r, i) = IF i = k THEN mapAt ELSE MapAt(t, i)
  BY <1>5, <1>9 DEF Size, MapAt
<1>14. Nodes(r) = Nodes(t) /\ Len(r.nodes) = Len(t.nodes)
  BY <1>6, <1>7 DEF Nodes
<1> QED BY <1>1, <1>7, <1>10, <1>11, <1>12, <1>13, <1>14

\* References follow an insertion.
LEMMA InsertFollows ==
  ASSUME NEW t \in Table, NEW k \in Nodes(t), NEW place \in Nat,
         NEW maps \in Seq(Mapping), NEW mapAt \in Nat, NEW d, d = Len(maps) * MappingLen,
         NEW r, r = InsertMappings(t, k, place, maps, mapAt)
  PROVE  r \in Table /\ Follows(t, r)
<1> DEFINE e(i) == IF i = k THEN Len(maps) ELSE 0
<1>1. /\ r \in Table /\ d \in Nat /\ Nodes(r) = Nodes(t)
      /\ \A i \in Nodes(t) :
           /\ At(r, i) = Shift(At(t, i), place, d)
           /\ NumMaps(r, i) = NumMaps(t, i) + e(i)
           /\ \A j \in 1..NumMaps(t, i) : Ref(r, i, j + e(i)) = Shift(Ref(t, i, j), place, d)
  BY Inserted
<1>2. \A i \in Nodes(t) : e(i) \in Nat
  OBVIOUS
<1> HIDE DEF e
<1>3. ASSUME NEW i \in Nodes(t)
      PROVE  Extra(t, r, i) = e(i) /\ NumMaps(r, i) >= NumMaps(t, i)
  <2>1. NumMaps(t, i) \in Nat /\ e(i) \in Nat /\ NumMaps(r, i) = NumMaps(t, i) + e(i)
    BY <1>1, <1>2, NodeTypes
  <2> QED BY <2>1 DEF Extra
<1>4. ASSUME NEW i \in Nodes(t), NEW j \in 1..NumMaps(t, i), NEW h \in Nodes(t)
      PROVE  (Ref(t, i, j) = At(t, h)) = (Ref(r, i, j + Extra(t, r, i)) = At(r, h))
  <2>1. /\ Ref(r, i, j + Extra(t, r, i)) = Shift(Ref(t, i, j), place, d)
        /\ At(r, h) = Shift(At(t, h), place, d)
    BY <1>1, <1>3
  <2>2. Ref(t, i, j) \in Nat /\ At(t, h) \in Nat
    BY NodeTypes
  <2>3. (Ref(t, i, j) = At(t, h))
          = (Shift(Ref(t, i, j), place, d) = Shift(At(t, h), place, d))
    <3> DEFINE x == Ref(t, i, j)
               y == At(t, h)
    <3>1. x \in Nat /\ y \in Nat /\ d \in Nat
      BY <2>2, <1>1
    <3> HIDE DEF x, y
    <3>2. (x = y) = (Shift(x, place, d) = Shift(y, place, d))
      BY <3>1, ShiftInjective
    <3> QED BY <3>2 DEF x, y
  <2> QED BY <2>1, <2>3
<1> QED BY <1>1, <1>3, <1>4 DEF Follows

\* Following is a preorder.
LEMMA FollowsReflexive ==
  ASSUME NEW t \in Table
  PROVE  Follows(t, t)
<1>1. \A k \in Nodes(t) : NumMaps(t, k) \in Nat
  BY NodeTypes
<1>2. \A k \in Nodes(t) : Extra(t, t, k) = 0
  BY <1>1 DEF Extra
<1> QED BY <1>1, <1>2 DEF Follows

LEMMA FollowsTransitive ==
  ASSUME NEW s \in Table, NEW t \in Table, NEW u \in Table,
         Follows(s, t), Follows(t, u)
  PROVE  Follows(s, u)
<1>1. Nodes(s) = Nodes(t) /\ Nodes(t) = Nodes(u)
  BY DEF Follows
<1>2. \A k \in Nodes(s) :
        /\ NumMaps(s, k) \in Nat /\ NumMaps(t, k) \in Nat /\ NumMaps(u, k) \in Nat
        /\ NumMaps(t, k) >= NumMaps(s, k) /\ NumMaps(u, k) >= NumMaps(t, k)
  BY <1>1, NodeTypes DEF Follows
<1>3. ASSUME NEW k \in Nodes(s), NEW j \in 1..NumMaps(s, k), NEW i \in Nodes(s)
      PROVE  (Ref(s, k, j) = At(s, i)) = (Ref(u, k, j + Extra(s, u, k)) = At(u, i))
  <2> DEFINE h == j + Extra(s, t, k)
  <2>1. h \in 1..NumMaps(t, k) /\ h + Extra(t, u, k) = j + Extra(s, u, k)
    BY <1>2 DEF Extra
  <2>2. (Ref(s, k, j) = At(s, i)) = (Ref(t, k, h) = At(t, i))
    BY DEF Follows
  <2>3. (Ref(t, k, h) = At(t, i)) = (Ref(u, k, h + Extra(t, u, k)) = At(u, i))
    BY <2>1, <1>1 DEF Follows
  <2> QED BY <2>1, <2>2, <2>3
<1>4. \A k \in Nodes(s) : NumMaps(u, k) >= NumMaps(s, k)
  BY <1>2
<1> QED BY <1>1, <1>3, <1>4 DEF Follows

\* What changes neither the places nor the mappings of the nodes.
SameLayout(t, r) ==
  /\ Nodes(r) = Nodes(t) /\ Len(r.nodes) = Len(t.nodes)
  /\ r.size = t.size /\ r.length = t.length
  /\ \A i \in Nodes(t) :
       /\ At(r, i) = At(t, i) /\ Size(r, i) = Size(t, i) /\ MapAt(r, i) = MapAt(t, i)
       /\ NumMaps(r, i) = NumMaps(t, i)
       /\ \A j \in 1..NumMaps(t, i) : Ref(r, i, j) = Ref(t, i, j)

LEMMA LayoutKept ==
  ASSUME NEW t \in Table, NEW r \in Table, SameLayout(t, r)
  PROVE  Follows(t, r) /\ (Tiled(t) => Tiled(r))
<1>1. ASSUME NEW i \in Nodes(t)
      PROVE  /\ NumMaps(t, i) \in Nat /\ NumMaps(r, i) = NumMaps(t, i)
             /\ Extra(t, r, i) = 0
             /\ \A j \in 1..NumMaps(t, i) : j + Extra(t, r, i) = j
  <2>1. NumMaps(t, i) \in Nat /\ NumMaps(r, i) = NumMaps(t, i)
    BY NodeTypes DEF SameLayout
  <2>2. Extra(t, r, i) = 0
    BY <2>1 DEF Extra
  <2> QED BY <2>1, <2>2
<1>2. Follows(t, r)
  BY <1>1 DEF Follows, SameLayout
<1>3. ASSUME Tiled(t)
      PROVE  Tiled(r)
  <2>1. Nodes(t) = 1..Len(t.nodes) /\ Len(t.nodes) \in Nat
    BY TableTypes
  <2>2. \A i \in Nodes(t) : End(r, i) = End(t, i)
    BY DEF End, SameLayout
  <2>3. \A i \in Nodes(t) : i # 1 => i - 1 \in Nodes(t)
    BY <2>1
  <2>4. Len(t.nodes) # 0 => Len(t.nodes) \in Nodes(t)
    BY <2>1
  <2> QED BY <1>3, <2>2, <2>3, <2>4 DEF Tiled, SameLayout
<1> QED BY <1>2, <1>3

\* Bytes put in behind a node's first and no further than its end leave the
\* nodes side by side.
LEMMA InsertTiles ==
  ASSUME NEW t \in Table, NEW k \in Nodes(t), NEW place \in Nat,
         NEW maps \in Seq(Mapping), NEW mapAt \in Nat, NEW d, d = Len(maps) * MappingLen,
         NEW r, r = InsertMappings(t, k, place, maps, mapAt),
         Tiled(t), At(t, k) < place, place <= End(t, k), mapAt >= NodeHeaderLen
  PROVE  Tiled(r)
<1>1. /\ r \in Table /\ d \in Nat /\ Nodes(r) = Nodes(t) /\ Len(r.nodes) = Len(t.nodes)
      /\ r.size = t.size + d /\ r.length = t.length + d
      /\ \A i \in Nodes(t) :
           /\ At(r, i) = Shift(At(t, i), place, d)
           /\ Size(r, i) = IF i = k THEN Size(t, i) + d ELSE Size(t, i)
           /\ MapAt(r, i) = IF i = k THEN mapAt ELSE MapAt(t, i)
           /\ NumMaps(r, i) = NumMaps(t, i) + IF i = k THEN Len(maps) ELSE 0
  BY Inserted
<1>2. /\ Nodes(t) = 1..Len(t.nodes) /\ Len(t.nodes) \in Nat
      /\ \A i \in Nodes(t) : At(t, i) \in Nat /\ Size(t, i) \in Nat /\ NumMaps(t, i) \in Nat
      /\ t.size \in Nat /\ t.length \in Nat
  BY NodeTypes, TableTypes DEF Table
<1>a. d \in Nat
  BY <1>1
<1>b. \A j \in Nodes(t) : j \in Nat /\ At(t, j) \in Nat /\ Size(t, j) \in Nat
  BY <1>2
<1>3. ASSUME NEW i \in Nodes(t)
      PROVE  At(r, i) = IF i <= k THEN At(t, i) ELSE At(t, i) + d
  <2>0. /\ i \in Nat /\ k \in Nat /\ d \in Nat
        /\ At(t, i) \in Nat /\ Size(t, i) \in Nat /\ At(t, k) \in Nat /\ Size(t, k) \in Nat
        /\ End(t, i) = At(t, i) + Size(t, i) /\ End(t, k) = At(t, k) + Size(t, k)
    BY <1>a, <1>b DEF End
  <2>1. i < k => At(t, i) < place
    <3>1. i < k => End(t, i) <= At(t, k)
      BY DEF Tiled
    <3> QED BY <2>0, <3>1
  <2>2. i > k => At(t, i) >= place
    <3>1. i > k => End(t, k) <= At(t, i)
      BY DEF Tiled
    <3> QED BY <2>0, <3>1
  <2>3. At(r, i) = IF At(t, i) >= place THEN At(t, i) + d ELSE At(t, i)
    BY <1>1 DEF Shift
  <2> QED BY <2>0, <2>1, <2>2, <2>3
<1>4. ASSUME NEW i \in Nodes(t)
      PROVE  End(r, i) = IF i < k THEN End(t, i) ELSE End(t, i) + d
  <2>1. At(t, i) \in Nat /\ Size(t, i) \in Nat /\ i \in Nat /\ k \in Nat /\ d \in Nat
    BY <1>a, <1>b
  <2>2. /\ At(r, i) = IF i <= k THEN At(t, i) ELSE At(t, i) + d
        /\ Size(r, i) = IF i = k THEN Size(t, i) + d ELSE Size(t, i)
    BY <1>1, <1>3
  <2> QED BY <2>1, <2>2 DEF End
<1>5. ASSUME NEW i \in Nodes(t)
      PROVE  /\ Size(r, i) >= NodeHeaderLen
             /\ NumMaps(r, i) > 0 => MapAt(r, i) >= NodeHeaderLen
  <2>1. /\ Size(t, i) \in Nat /\ d \in Nat
        /\ Size(r, i) = IF i = k THEN Size(t, i) + d ELSE Size(t, i)
        /\ Size(t, i) >= NodeHeaderLen
    BY <1>1, <1>2 DEF Tiled
  <2>2. Size(r, i) >= NodeHeaderLen
    BY <2>1 DEF NodeHeaderLen
  <2>3. CASE i = k
    BY <1>1, <2>2, <2>3
  <2>4. CASE i # k
    <3>1. NumMaps(r, i) = NumMaps(t, i) /\ MapAt(r, i) = MapAt(t, i)
      BY <1>1, <1>2, <2>4
    <3> QED BY <2>2, <3>1 DEF Tiled
  <2> QED BY <2>3, <2>4
<1>6. ASSUME NEW i \in Nodes(t)
      PROVE  At(r, i) = IF i = 1 THEN HeaderLen ELSE End(r, i - 1)
  <2>1. At(t, i) = IF i = 1 THEN HeaderLen ELSE End(t, i - 1)
    BY DEF Tiled
  <2>2. CASE i = 1
    BY <1>2, <1>3, <2>1, <2>2
  <2>3. CASE i # 1
    <3>1. i - 1 \in Nodes(t)
      BY <1>2, <2>3
    <3>2. End(r, i - 1) = IF i - 1 < k THEN End(t, i - 1) ELSE End(t, i - 1) + d
      BY <3>1, <1>4
    <3> QED BY <1>2, <1>3, <2>1, <2>3, <3>2
  <2> QED BY <2>2, <2>3
<1>7. ASSUME NEW i \in Nodes(t), NEW j \in Nodes(t), i < j
      PROVE  End(r, i) <= At(r, j)
  <2>1. End(t, i) <= At(t, j)
    BY <1>7 DEF Tiled
  <2>2. At(t, i) \in Nat /\ Size(t, i) \in Nat /\ At(t, j) \in Nat /\ d \in Nat
    BY <1>1, <1>2
  <2>3. End(t, i) \in Nat
    BY <2>2 DEF End
  <2>4. /\ At(r, j) = IF j <= k THEN At(t, j) ELSE At(t, j) + d
        /\ End(r, i) = IF i < k THEN End(t, i) ELSE End(t, i) + d
    BY <1>3, <1>4
  <2>5. i \in Nat /\ j \in Nat /\ k \in Nat
    <3>1. Nodes(t) = 1..Len(t.nodes) /\ Len(t.nodes) \in Nat
      BY TableTypes
    <3> QED BY <3>1
  <2> QED BY <1>7, <2>1, <2>2, <2>3, <2>4, <2>5
<1>8. r.size = IF Len(r.nodes) = 0 THEN HeaderLen ELSE End(r, Len(r.nodes))
  <2>1. Len(t.nodes) \in Nodes(t) /\ k <= Len(t.nodes)
    BY <1>2
  <2>2. t.size = End(t, Len(t.nodes))
    BY <1>2, <2>1 DEF Tiled
  <2>3. End(r, Len(t.nodes)) = End(t, Len(t.nodes)) + d
    BY <1>2, <1>4, <2>1
  <2> QED BY <1>1, <1>2, <2>1, <2>2, <2>3
<1>9. r.length = r.size
  BY <1>1 DEF Tiled
<1> QED BY <1>1, <1>5, <1>6, <1>7, <1>8, <1>9 DEF Tiled

-----------------------------------------------------------------------------
(* The steps *)

\* A set of numbers that is not empty has a least one.
LEMMA Least ==
  ASSUME NEW S \in SUBSET Nat, S # {}
  PROVE  \E k \in S : \A j \in S : k <= j
<1>1. PICK x \in S : \A y \in S : ~(<<y, x>> \in OpToRel(<, Nat))
  BY NatLessThanWellFounded, WFMin
<1>2. \A y \in S : ~(y < x)
  BY <1>1 DEF OpToRel
<1> QED BY <1>2

\* The first SMMU of a base is a node of the table.
LEMMA SmmuFound ==
  ASSUME NEW t \in Table, NEW base, Smmus(t, base) # {}
  PROVE  Smmu(t, base) \in Nodes(t)
<1>1. Smmus(t, base) \in SUBSET Nat
  BY TableTypes DEF Smmus
<1>2. \E k \in Smmus(t, base) : \A j \in Smmus(t, base) : k <= j
  BY <1>1, Least
<1>3. Smmu(t, base) \in Smmus(t, base)
  BY <1>2 DEF Smmu
<1> QED BY <1>3 DEF Smmus

\* Flags and revisions take no room.
LEMMA HttuLayout ==
  ASSUME NEW t \in Table
  PROVE  WithHttu(t) \in Table /\ SameLayout(t, WithHttu(t))
<1> DEFINE N == [k \in Nodes(t) |->
                   IF t.nodes[k].type = "smmu"
                   THEN [t.nodes[k] EXCEPT !.flags = (t.nodes[k].flags \ {"httu_a"}) \cup {"cohacc", "httu_ad"}]
                   ELSE t.nodes[k]]
<1>1. /\ t.nodes \in Seq(Node) /\ Len(t.nodes) \in Nat /\ Nodes(t) = 1..Len(t.nodes)
      /\ \A i \in Nodes(t) : t.nodes[i] \in Node
  BY TableTypes
<1>2. ASSUME NEW i \in Nodes(t)
      PROVE  /\ N[i] \in Node /\ N[i].at = t.nodes[i].at /\ N[i].len = t.nodes[i].len
             /\ N[i].mapAt = t.nodes[i].mapAt /\ N[i].maps = t.nodes[i].maps
  <2>1. t.nodes[i] \in Node
    BY <1>1
  <2>2. ASSUME NEW n \in Node, NEW f \in SUBSET Flags
        PROVE  LET m == [n EXCEPT !.flags = f]
               IN m \in Node /\ m.at = n.at /\ m.len = n.len /\ m.mapAt = n.mapAt /\ m.maps = n.maps
    BY DEF Node
  <2>3. (t.nodes[i].flags \ {"httu_a"}) \cup {"cohacc", "httu_ad"} \in SUBSET Flags
    BY <2>1 DEF Node, Flags
  <2> QED BY <2>1, <2>2, <2>3
<1>3. N \in Seq(Node) /\ Len(N) = Len(t.nodes) /\ DOMAIN N = Nodes(t)
  <2>1. DOMAIN N = 1..Len(t.nodes)
    BY <1>1
  <2>2. N \in [1..Len(t.nodes) -> Node]
    BY <1>1, <1>2
  <2>3. N \in Seq(Node)
    BY <2>2, <1>1, SeqDef
  <2> HIDE DEF N
  <2>4. Len(N) = Len(t.nodes)
    BY <2>1, <2>3, <1>1
  <2> QED BY <2>1, <2>3, <2>4, <1>1
<1>4. WithHttu(t) = [t EXCEPT !.nodes = N]
  BY DEF WithHttu
<1> HIDE DEF N
<1>5. /\ WithHttu(t) \in Table /\ WithHttu(t).nodes = N
      /\ WithHttu(t).size = t.size /\ WithHttu(t).length = t.length
  BY <1>3, <1>4 DEF Table
<1> QED BY <1>2, <1>3, <1>5 DEF SameLayout, Nodes, At, Size, MapAt, NumMaps, Ref

LEMMA EnabledLayout ==
  ASSUME NEW t \in Table, NEW k \in Nodes(t), NEW n, n = t.nodes[k],
         NEW r, r = [t EXCEPT !.nodes[k] = [n EXCEPT !.rev = Max2(@, 5), !.flags = @ \cup {"deviceid"}]]
  PROVE  r \in Table /\ SameLayout(t, r)
<1> DEFINE m == [n EXCEPT !.rev = Max2(n.rev, 5), !.flags = n.flags \cup {"deviceid"}]
<1>1. n \in Node
  BY TableTypes
<1>2. m \in Node /\ m.at = n.at /\ m.len = n.len /\ m.mapAt = n.mapAt /\ m.maps = n.maps
  <2>1. Max2(n.rev, 5) \in Nat /\ n.flags \cup {"deviceid"} \in SUBSET Flags
    BY <1>1 DEF Max2, Node, Flags
  <2> QED BY <1>1, <2>1 DEF Node
<1>3. r = [t EXCEPT !.nodes[k] = m]
  OBVIOUS
<1> HIDE DEF m
<1> DEFINE N == [t.nodes EXCEPT ![k] = m]
<1>4. N \in Seq(Node) /\ Len(N) = Len(t.nodes) /\ DOMAIN N = Nodes(t)
  BY <1>2, TableTypes DEF Nodes
<1>5. \A i \in Nodes(t) : N[i] = IF i = k THEN m ELSE t.nodes[i]
  BY DEF Nodes
<1>6. r = [t EXCEPT !.nodes = N]
  BY <1>3 DEF Table
<1> HIDE DEF N
<1>7. r \in Table /\ r.nodes = N /\ r.size = t.size /\ r.length = t.length
  BY <1>4, <1>6 DEF Table
<1> QED BY <1>2, <1>4, <1>5, <1>7 DEF SameLayout, Nodes, At, Size, MapAt, NumMaps, Ref

LEMMA BothKeep ==
  ASSUME NEW t \in Table, NEW k \in Nodes(t), NEW its \in Nat, Tiled(t),
         NEW r, r = WithBoth(t, k, its)
  PROVE  r \in Table /\ Nodes(r) = Nodes(t) /\ Follows(t, r) /\ Tiled(r)
<1> DEFINE place == End(t, k)
           ref == Shift(its, place, 2 * MappingLen)
           maps == <<[ref |-> ref, single |-> TRUE, whole |-> FALSE],
                     [ref |-> ref, single |-> FALSE, whole |-> TRUE]>>
           d == Len(maps) * MappingLen
<1>1. /\ At(t, k) \in Nat /\ Size(t, k) \in Nat /\ Size(t, k) >= NodeHeaderLen
  BY NodeTypes DEF Tiled
<1>2. place \in Nat /\ At(t, k) < place /\ place <= End(t, k)
  BY <1>1 DEF End, NodeHeaderLen
<1>3. maps \in Seq(Mapping)
  <2>1. ref \in Nat
    BY <1>2 DEF Shift, MappingLen
  <2> HIDE DEF ref
  <2> QED BY <2>1 DEF Mapping
<1>4. r = InsertMappings(t, k, place, maps, Size(t, k))
  BY DEF WithBoth
<1> HIDE DEF maps, place
<1>5. r \in Table /\ Follows(t, r)
  BY <1>1, <1>2, <1>3, <1>4, InsertFollows
<1>6. Tiled(r)
  BY <1>1, <1>2, <1>3, <1>4, InsertTiles
<1> QED BY <1>5, <1>6 DEF Follows

LEMMA SingleKeep ==
  ASSUME NEW t \in Table, NEW k \in Nodes(t), NEW its \in Nat, Tiled(t),
         IdMappingOk(t, k), NEW r, r = WithSingle(t, k, its)
  PROVE  r \in Table /\ Nodes(r) = Nodes(t) /\ Follows(t, r) /\ Tiled(r)
<1> DEFINE place == At(t, k) + MapAt(t, k)
           ref == Shift(its, place, MappingLen)
           maps == <<[ref |-> ref, single |-> TRUE, whole |-> FALSE]>>
           d == Len(maps) * MappingLen
<1>1. /\ At(t, k) \in Nat /\ Size(t, k) \in Nat /\ MapAt(t, k) \in Nat /\ NumMaps(t, k) \in Nat
  BY NodeTypes
<1>2. MapAt(t, k) >= NodeHeaderLen /\ MapAt(t, k) <= Size(t, k)
  <2> DEFINE x == t.nodes[k].idx
  <2>1. x \in Nat
    BY TableTypes DEF Node
  <2>2. x < NumMaps(t, k) /\ MapAt(t, k) + MappingLen * (x + 1) <= Size(t, k)
    BY DEF IdMappingOk
  <2> HIDE DEF x
  <2>3. NumMaps(t, k) > 0
    BY <1>1, <2>1, <2>2
  <2>4. MapAt(t, k) <= Size(t, k)
    BY <1>1, <2>1, <2>2 DEF MappingLen
  <2> QED BY <2>3, <2>4 DEF Tiled
<1>3. place \in Nat /\ At(t, k) < place /\ place <= End(t, k)
  BY <1>1, <1>2 DEF End, NodeHeaderLen
<1>4. maps \in Seq(Mapping)
  <2>1. ref \in Nat
    BY <1>3 DEF Shift, MappingLen
  <2> HIDE DEF ref
  <2> QED BY <2>1 DEF Mapping
<1>5. r = InsertMappings(t, k, place, maps, MapAt(t, k))
  BY DEF WithSingle
<1> HIDE DEF maps, place
<1>6. r \in Table /\ Follows(t, r)
  BY <1>1, <1>3, <1>4, <1>5, InsertFollows
<1>7. Tiled(r)
  BY <1>1, <1>2, <1>3, <1>4, <1>5, InsertTiles
<1> QED BY <1>6, <1>7 DEF Follows

\* A round of the loop.
LEMMA RoundKeeps ==
  ASSUME NEW i, data \in Table, Tiled(data), its_ref \in Nat,
         Smmus(data, Bases[i]) # {}, Possible(i)
  PROVE  SmmuEnabled(i) \in Table /\ Follows(data, SmmuEnabled(i)) /\ Tiled(SmmuEnabled(i))
<1> DEFINE k == Smmu(data, Bases[i])
           p == Provided(i)
           s == Served(i)
<1>1. k \in Nodes(data)
  BY SmmuFound
<1>2. p \in Table /\ Nodes(p) = Nodes(data) /\ Follows(data, p) /\ Tiled(p)
  BY <1>1, BothKeep, FollowsReflexive DEF Provided
<1>3. s \in Table /\ Nodes(s) = Nodes(p) /\ Follows(p, s) /\ Tiled(s)
  <2>1. IdMappingOk(p, k)
    BY DEF Possible
  <2>2. s = p \/ s = WithSingle(p, k, its_ref)
    BY DEF Served
  <2> HIDE DEF p, k, s
  <2> QED BY <1>1, <1>2, <2>1, <2>2, SingleKeep, FollowsReflexive
<1>4. SmmuEnabled(i) \in Table /\ SameLayout(s, SmmuEnabled(i))
  <2>1. k \in Nodes(s)
    BY <1>1, <1>2, <1>3
  <2>2. SmmuEnabled(i) = [s EXCEPT !.nodes[k] =
          [s.nodes[k] EXCEPT !.rev = Max2(@, 5), !.flags = @ \cup {"deviceid"}]]
    BY DEF SmmuEnabled
  <2> HIDE DEF k, s
  <2> QED BY <1>3, <2>1, <2>2, EnabledLayout
<1>5. Follows(s, SmmuEnabled(i)) /\ Tiled(SmmuEnabled(i))
  BY <1>3, <1>4, LayoutKept
<1> QED BY <1>2, <1>3, <1>4, <1>5, FollowsTransitive

\* The header's fields take no room.
LEMMA WriteLayout ==
  ASSUME NEW t \in Table, t.revision < MaxRevision,
         NEW r, r = [t EXCEPT !.revision = @ + 1, !.sum = TRUE]
  PROVE  r \in Table /\ SameLayout(t, r)
<1>1. t.revision + 1 \in 0..MaxRevision
  BY IortAssumption DEF Table
<1>2. r = [t EXCEPT !.revision = t.revision + 1, !.sum = TRUE]
  OBVIOUS
<1>3. r \in Table /\ r.nodes = t.nodes /\ r.size = t.size /\ r.length = t.length
  BY <1>1, <1>2 DEF Table
<1> QED BY <1>3 DEF SameLayout, Nodes, At, Size, MapAt, NumMaps, Ref

-----------------------------------------------------------------------------
(* The invariant *)

IInv == TypeOK /\ firmware \in Inputs /\ RefsFollow /\ Tiles

LEMMA InitInvariant == Init => IInv
<1> SUFFICES ASSUME Init
             PROVE  IInv
  OBVIOUS
<1>1. NoTable \in Table
  BY IortAssumption DEF NoTable, Table
<1>2. TypeOK
  <2>1. firmware \in Table /\ runs \in 0..MaxRuns
    BY IortAssumption DEF Init
  <2> QED BY <1>1, <2>1 DEF Init, TypeOK
<1>3. RefsFollow
  BY <1>1, FollowsReflexive DEF Init, RefsFollow
<1> QED BY <1>2, <1>3 DEF Init, IInv, Tiles

LEMMA ReadKeeps ==
  ASSUME IInv, NEW t \in Table, HeaderValid(t) => Tiled(t),
         NEW o \in SUBSET {"httu", "msi"}, NEW h \in SUBSET {"httu", "msi"}, Read(t, o, h)
  PROVE  IInv'
<1>1. TypeOK'
  <2>1. runs' \in 0..MaxRuns
    BY IortAssumption DEF IInv, TypeOK, Read
  <2>2. pc' \in {"httu", "refused"}
    BY DEF Read
  <2> QED BY <2>1, <2>2 DEF IInv, TypeOK, Read
<1>2. RefsFollow'
  BY FollowsReflexive DEF Read, RefsFollow
<1>3. Tiles'
  BY DEF IInv, Tiles, Read
<1> QED BY <1>1, <1>2, <1>3 DEF IInv, Read

LEMMA StartKeeps == IInv /\ Start => IInv'
<1> SUFFICES ASSUME IInv, Start
             PROVE  IInv'
  OBVIOUS
<1>1. PICK o \in SUBSET {"httu", "msi"} :
        Read(firmware, o, {}) \/ \E w \in written : Read(w.table, o, w.options)
  BY DEF Start
<1>2. CASE Read(firmware, o, {})
  BY <1>2, ReadKeeps, IortAssumption DEF IInv, TypeOK
<1>3. CASE \E w \in written : Read(w.table, o, w.options)
  <2>1. PICK w \in written : Read(w.table, o, w.options)
    BY <1>3
  <2>2. w.table \in Table /\ w.options \in SUBSET {"httu", "msi"} /\ Tiled(w.table)
    BY DEF IInv, TypeOK, Tiles
  <2> QED BY <2>1, <2>2, ReadKeeps
<1> QED BY <1>1, <1>2, <1>3

\* A step that only refuses, or goes on, leaves the table alone.
LEMMA RefuseKeeps == IInv /\ Refuse => IInv'
BY DEF IInv, TypeOK, RefsFollow, Tiles, Refuse, history

\* A step of a run may make a new table if it follows the old one.
LEMMA ChangeKeeps ==
  ASSUME IInv, data' \in Table, Follows(data, data'), Tiled(data'),
         UNCHANGED <<options, its_ref, missing, history>>, changed' \in BOOLEAN,
         pc' \in {"find", "smmu1", "smmu2", "found", "finish"}
  PROVE  IInv'
<1>1. TypeOK'
  BY DEF IInv, TypeOK, history
<1>2. RefsFollow'
  BY FollowsTransitive DEF IInv, TypeOK, RefsFollow, history
<1>3. Tiles'
  BY DEF IInv, Tiles, history
<1> QED BY <1>1, <1>2, <1>3 DEF IInv, history

LEMMA NextInvariant == IInv /\ [Next]_vars => IInv'
<1> SUFFICES ASSUME IInv, [Next]_vars
             PROVE  IInv'
  OBVIOUS
<1>0. data \in Table /\ its_ref \in Nat /\ (pc \notin {"idle", "refused"} => Tiled(data))
  BY DEF IInv, TypeOK, Tiles
<1>1. CASE Start
  BY <1>1, StartKeeps
<1>2. CASE Httu
  <2>1. data' \in Table /\ Follows(data, data') /\ Tiled(data')
    BY <1>0, <1>2, HttuLayout, LayoutKept, FollowsReflexive DEF Httu
  <2>2. changed' \in BOOLEAN
    BY <1>2 DEF Httu, IInv, TypeOK
  <2> QED BY <1>2, <2>1, <2>2, ChangeKeeps DEF Httu
<1>3. CASE FindIts
  <2>1. its_ref' \in Nat
    BY <1>0, <1>3, TableTypes DEF FindIts
  <2> QED BY <1>3, <2>1 DEF FindIts, IInv, TypeOK, RefsFollow, Tiles, history
<1>4. CASE NoSingleIts \/ SomeMissing \/ Unchanged \/ RevisionFull \/ \E i \in 1..2 : RefuseSmmu(i)
  BY <1>4, RefuseKeeps DEF NoSingleIts, SomeMissing, Unchanged, RevisionFull, RefuseSmmu
<1>5. ASSUME NEW i \in 1..2, EnableSmmu(i)
      PROVE  IInv'
  <2>1. pc \notin {"idle", "refused"} /\ pc' \in {"smmu2", "found"}
    BY <1>5 DEF EnableSmmu, Round, Onwards
  <2>2. data' \in Table /\ Follows(data, data') /\ Tiled(data')
    BY <1>0, <1>5, <2>1, RoundKeeps DEF EnableSmmu
  <2>3. changed' \in BOOLEAN
    BY <1>5 DEF EnableSmmu, IInv, TypeOK
  <2> QED BY <1>5, <2>1, <2>2, <2>3, ChangeKeeps DEF EnableSmmu
<1>6. ASSUME NEW i \in 1..2, SkipSmmu(i)
      PROVE  IInv'
  <2>1. pc \notin {"idle", "refused"} /\ pc' \in {"smmu2", "found"}
    BY <1>6 DEF SkipSmmu, Round, Onwards
  <2>2. Bases[i] \in {Bases[1], Bases[2]}
    OBVIOUS
  <2> QED BY <1>6, <2>1, <2>2 DEF SkipSmmu, IInv, TypeOK, RefsFollow, Tiles, history
<1>7. CASE AllFound
  BY <1>7 DEF AllFound, IInv, TypeOK, RefsFollow, Tiles, history
<1>8. CASE Write
  <2>0. data' = [data EXCEPT !.revision = @ + 1, !.sum = TRUE] /\ data.revision < MaxRevision
    BY <1>8 DEF Write
  <2>1. data' \in Table /\ Follows(data, data') /\ Tiled(data')
    <3>1. data' \in Table /\ SameLayout(data, data')
      BY <1>0, <2>0, WriteLayout
    <3>2. Tiled(data)
      BY <1>0, <1>8 DEF Write
    <3> QED BY <1>0, <3>1, <3>2, LayoutKept
  <2>2. TypeOK'
    BY <1>8, <2>1 DEF Write, IInv, TypeOK
  <2>3. RefsFollow'
    BY <1>8, <2>1, FollowsTransitive DEF Write, IInv, TypeOK, RefsFollow
  <2>4. Tiles'
    BY <1>8, <2>1 DEF Write, IInv, Tiles
  <2> QED BY <1>8, <2>2, <2>3, <2>4 DEF Write, IInv
<1>9. CASE UNCHANGED vars
  BY <1>9 DEF vars, IInv, TypeOK, RefsFollow, Tiles
<1> QED BY <1>1, <1>2, <1>3, <1>4, <1>5, <1>6, <1>7, <1>8, <1>9 DEF Next

LEMMA Invariant == Spec => []IInv
BY InitInvariant, NextInvariant, PTL DEF Spec

\* The builder's state, and every table it makes, has its type.
THEOREM TypeCorrect == Spec => []TypeOK
BY Invariant, PTL DEF IInv

\* A mapping names the node it named in the table that was read, wherever and
\* however often bytes were inserted.
THEOREM ReferencesFollow == Spec => []RefsFollow
BY Invariant, PTL DEF IInv

\* What is written is tiled by its nodes, and its header has its length.
THEOREM NodesTile == Spec => []Tiles
BY Invariant, PTL DEF IInv

-----------------------------------------------------------------------------
(* The ITS group, the mappings that are put in, and what they make of a node *)

\* What an insertion leaves of a node it moves.
LEMMA MovedKind ==
  ASSUME NEW n \in Node, NEW place \in Nat, NEW delta \in Nat, NEW m, m = Moved(n, place, delta)
  PROVE  /\ m.type = n.type /\ m.base = n.base /\ m.flags = n.flags
         /\ m.rev = n.rev /\ m.idx = n.idx
         /\ \A j \in DOMAIN n.maps : m.maps[j].single = n.maps[j].single
                                     /\ m.maps[j].whole = n.maps[j].whole
<1> DEFINE M == [j \in DOMAIN n.maps |-> [n.maps[j] EXCEPT !.ref = Shift(@, place, delta)]]
           g == IF n.type = "pmcg" THEN Shift(n.gsiv, place, delta) ELSE n.gsiv
           a == IF n.at >= place THEN n.at + delta ELSE n.at
<1>1. m = [n EXCEPT !.maps = M, !.gsiv = g, !.at = a]
  BY DEF Moved, Followed, Node
<1>2. n.maps \in Seq(Mapping) /\ \A j \in DOMAIN n.maps : n.maps[j] \in Mapping
  BY DEF Node
<1>3. \A j \in DOMAIN n.maps : M[j].single = n.maps[j].single /\ M[j].whole = n.maps[j].whole
  BY <1>2 DEF Mapping
<1> HIDE DEF M, g, a
<1> QED BY <1>1, <1>3 DEF Node

\* A node that gets mappings has the new ones in front.
LEMMA GrownKind ==
  ASSUME NEW n \in Node, NEW delta \in Nat, NEW maps \in Seq(Mapping), NEW mapAt \in Nat,
         NEW g, g = Grown(n, delta, maps, mapAt)
  PROVE  /\ g.type = n.type /\ g.base = n.base /\ g.flags = n.flags
         /\ g.rev = n.rev /\ g.idx = 0
         /\ \A j \in 1..Len(maps) : g.maps[j] = maps[j]
<1> DEFINE M == maps \o n.maps
<1>1. /\ n.maps \in Seq(Mapping) /\ Len(maps) \in Nat
  BY DEF Node
<1>2. \A j \in 1..Len(maps) : M[j] = maps[j]
  BY <1>1
<1>3. g = [n EXCEPT !.len = n.len + delta, !.maps = M, !.mapAt = mapAt, !.idx = 0]
  BY DEF Grown
<1> HIDE DEF M
<1> QED BY <1>2, <1>3 DEF Node

\* How many mappings are put in front of the ones of a node.
Added(i, k, maps) == IF i = k THEN Len(maps) ELSE 0

\* What an insertion does to a table beside the places and the references.
KindsAfter(t, k, maps, r) ==
  /\ r.revision = t.revision
  /\ \A i \in Nodes(t) :
       /\ r.nodes[i].type = t.nodes[i].type /\ r.nodes[i].base = t.nodes[i].base
       /\ r.nodes[i].flags = t.nodes[i].flags /\ r.nodes[i].rev = t.nodes[i].rev
       /\ i # k => r.nodes[i].idx = t.nodes[i].idx
       /\ i = k => r.nodes[i].idx = 0
       /\ \A j \in 1..NumMaps(t, i) :
            /\ r.nodes[i].maps[j + Added(i, k, maps)].single = t.nodes[i].maps[j].single
            /\ r.nodes[i].maps[j + Added(i, k, maps)].whole = t.nodes[i].maps[j].whole
  /\ \A j \in 1..Len(maps) : r.nodes[k].maps[j] = maps[j]

LEMMA InsertedKind ==
  ASSUME NEW t \in Table, NEW k \in Nodes(t), NEW place \in Nat,
         NEW maps \in Seq(Mapping), NEW mapAt \in Nat,
         NEW r, r = InsertMappings(t, k, place, maps, mapAt)
  PROVE  KindsAfter(t, k, maps, r)
<1> DEFINE d == Len(maps) * MappingLen
           m == [i \in Nodes(t) |-> Moved(t.nodes[i], place, d)]
<1>1. d \in Nat
  BY DEF MappingLen
<1> HIDE DEF d
<1>2. /\ Len(t.nodes) \in Nat /\ Nodes(t) = 1..Len(t.nodes)
      /\ \A i \in Nodes(t) : t.nodes[i] \in Node
      /\ \A i \in Nodes(t) : DOMAIN t.nodes[i].maps = 1..NumMaps(t, i)
  BY TableTypes DEF NumMaps
<1>3. /\ r.revision = t.revision
      /\ \A i \in Nodes(t) :
           r.nodes[i] = IF i = k THEN Grown(m[i], d, maps, mapAt) ELSE m[i]
  BY DEF InsertMappings, Table, d
<1> HIDE DEF m
<1>4. ASSUME NEW i \in Nodes(t)
      PROVE  /\ m[i] \in Node
             /\ m[i].type = t.nodes[i].type /\ m[i].base = t.nodes[i].base
             /\ m[i].flags = t.nodes[i].flags /\ m[i].rev = t.nodes[i].rev
             /\ m[i].idx = t.nodes[i].idx
             /\ DOMAIN m[i].maps = 1..NumMaps(t, i)
             /\ \A j \in 1..NumMaps(t, i) :
                  /\ m[i].maps[j].single = t.nodes[i].maps[j].single
                  /\ m[i].maps[j].whole = t.nodes[i].maps[j].whole
  <2>1. t.nodes[i] \in Node /\ DOMAIN t.nodes[i].maps = 1..NumMaps(t, i)
    BY <1>2
  <2>2. /\ Moved(t.nodes[i], place, d) \in Node
        /\ DOMAIN Moved(t.nodes[i], place, d).maps = DOMAIN t.nodes[i].maps
    BY <1>1, <2>1, MovedNode
  <2>3. m[i] = Moved(t.nodes[i], place, d)
    BY DEF m
  <2> DEFINE n == t.nodes[i]
             h == m[i]
  <2>4. n \in Node /\ h = Moved(n, place, d)
    BY <2>1, <2>3
  <2>5. DOMAIN n.maps = 1..NumMaps(t, i) /\ DOMAIN h.maps = 1..NumMaps(t, i) /\ h \in Node
    BY <2>1, <2>2, <2>3
  <2> HIDE DEF n, h
  <2>6. /\ h.type = n.type /\ h.base = n.base /\ h.flags = n.flags
        /\ h.rev = n.rev /\ h.idx = n.idx
        /\ \A j \in DOMAIN n.maps : h.maps[j].single = n.maps[j].single
                                    /\ h.maps[j].whole = n.maps[j].whole
    BY <1>1, <2>4, MovedKind
  <2> QED BY <2>5, <2>6 DEF n, h
<1>5. ASSUME NEW i \in Nodes(t), i # k
      PROVE  r.nodes[i] = m[i] /\ Added(i, k, maps) = 0
  BY <1>3, <1>5 DEF Added
<1>6. ASSUME NEW i \in Nodes(t), i # k
      PROVE  /\ r.nodes[i].type = t.nodes[i].type /\ r.nodes[i].base = t.nodes[i].base
             /\ r.nodes[i].flags = t.nodes[i].flags /\ r.nodes[i].rev = t.nodes[i].rev
             /\ r.nodes[i].idx = t.nodes[i].idx
             /\ \A j \in 1..NumMaps(t, i) :
                  /\ r.nodes[i].maps[j + Added(i, k, maps)].single = t.nodes[i].maps[j].single
                  /\ r.nodes[i].maps[j + Added(i, k, maps)].whole = t.nodes[i].maps[j].whole
  <2>1. \A j \in 1..NumMaps(t, i) : j + Added(i, k, maps) = j
    BY <1>5, <1>6, NodeTypes
  <2> QED BY <1>4, <1>5, <1>6, <2>1
<1>7. /\ r.nodes[k].type = t.nodes[k].type /\ r.nodes[k].base = t.nodes[k].base
      /\ r.nodes[k].flags = t.nodes[k].flags /\ r.nodes[k].rev = t.nodes[k].rev
      /\ r.nodes[k].idx = 0
      /\ \A j \in 1..Len(maps) : r.nodes[k].maps[j] = maps[j]
      /\ \A j \in 1..NumMaps(t, k) :
           /\ r.nodes[k].maps[j + Added(k, k, maps)].single = t.nodes[k].maps[j].single
           /\ r.nodes[k].maps[j + Added(k, k, maps)].whole = t.nodes[k].maps[j].whole
  <2>1. r.nodes[k] = Grown(m[k], d, maps, mapAt)
    BY <1>3
  <2>2. m[k] \in Node
    BY <1>4
  <2> DEFINE g == r.nodes[k]
  <2>3. /\ g.type = m[k].type /\ g.base = m[k].base /\ g.flags = m[k].flags
        /\ g.rev = m[k].rev /\ g.idx = 0
        /\ \A j \in 1..Len(maps) : g.maps[j] = maps[j]
    BY <1>1, <2>1, <2>2, GrownKind
  <2>4. \A j \in DOMAIN m[k].maps : g.maps[j + Len(maps)] = m[k].maps[j]
    BY <1>1, <2>1, <2>2, GrownNode
  <2>5. Added(k, k, maps) = Len(maps)
    BY DEF Added
  <2> HIDE DEF g
  <2>6. \A j \in 1..NumMaps(t, k) :
           /\ g.maps[j + Added(k, k, maps)].single = t.nodes[k].maps[j].single
           /\ g.maps[j + Added(k, k, maps)].whole = t.nodes[k].maps[j].whole
    <3> TAKE j \in 1..NumMaps(t, k)
    <3>1. j \in DOMAIN m[k].maps
      BY <1>4
    <3>2. g.maps[j + Len(maps)] = m[k].maps[j]
      BY <2>4, <3>1
    <3>3. /\ m[k].maps[j].single = t.nodes[k].maps[j].single
          /\ m[k].maps[j].whole = t.nodes[k].maps[j].whole
      BY <1>4
    <3> QED BY <2>5, <3>2, <3>3
  <2> QED BY <1>4, <2>3, <2>6 DEF g
<1> QED BY <1>3, <1>6, <1>7 DEF KindsAfter

\* What every step of the builder leaves of a table: its references, the kinds
\* of its nodes and of its mappings.
Kept(t, r) ==
  /\ Follows(t, r)
  /\ \A i \in Nodes(t) :
       /\ r.nodes[i].type = t.nodes[i].type /\ r.nodes[i].base = t.nodes[i].base
       /\ \A j \in 1..NumMaps(t, i) :
            /\ r.nodes[i].maps[j + Extra(t, r, i)].single = t.nodes[i].maps[j].single
            /\ r.nodes[i].maps[j + Extra(t, r, i)].whole = t.nodes[i].maps[j].whole

\* What else a node is judged by.
SameMaps(t, r, i) ==
  /\ NumMaps(r, i) = NumMaps(t, i) /\ r.nodes[i].idx = t.nodes[i].idx
  /\ Size(r, i) = Size(t, i) /\ MapAt(r, i) = MapAt(t, i)
SameUse(t, r, i) ==
  /\ SameMaps(t, r, i)
  /\ r.nodes[i].rev = t.nodes[i].rev /\ r.nodes[i].flags = t.nodes[i].flags

\* The mappings that t has and s has not name the ITS group.
AddedNameIts(s, t) ==
  \A k \in Nodes(s) : \A j \in 1..Extra(s, t, k) : NamesIts(t, t.nodes[k].maps[j])

LEMMA KeptGroups ==
  ASSUME NEW t \in Table, NEW r \in Table, Kept(t, r)
  PROVE  /\ Nodes(r) = Nodes(t) /\ ItsGroups(r) = ItsGroups(t)
         /\ \A base : Smmus(r, base) = Smmus(t, base) /\ Smmu(r, base) = Smmu(t, base)
<1>1. Nodes(r) = Nodes(t) /\ ItsGroups(r) = ItsGroups(t)
  BY DEF Kept, Follows, ItsGroups
<1>2. \A base : Smmus(r, base) = Smmus(t, base)
  BY <1>1 DEF Kept, Smmus
<1> QED BY <1>1, <1>2 DEF Smmu

\* A mapping names the ITS group after a step if and only if it did before.
LEMMA NamesKept ==
  ASSUME NEW t \in Table, NEW r \in Table, Kept(t, r),
         NEW i \in Nodes(t), NEW j \in 1..NumMaps(t, i)
  PROVE  /\ j + Extra(t, r, i) \in 1..NumMaps(r, i) /\ Extra(t, r, i) \in Nat
         /\ NamesIts(t, t.nodes[i].maps[j]) = NamesIts(r, r.nodes[i].maps[j + Extra(t, r, i)])
<1>1. /\ NumMaps(t, i) \in Nat /\ NumMaps(r, i) \in Nat /\ NumMaps(r, i) >= NumMaps(t, i)
      /\ Nodes(r) = Nodes(t) /\ ItsGroups(r) = ItsGroups(t)
  BY NodeTypes, KeptGroups DEF Kept, Follows
<1>2. j + Extra(t, r, i) \in 1..NumMaps(r, i) /\ Extra(t, r, i) \in Nat
  BY <1>1 DEF Extra
<1>3. \A k \in Nodes(t) :
        (t.nodes[i].maps[j].ref = At(t, k)) = (r.nodes[i].maps[j + Extra(t, r, i)].ref = At(r, k))
  BY DEF Kept, Follows, Ref
<1>4. \A k \in ItsGroups(t) : k \in Nodes(t)
  BY DEF ItsGroups
<1>5. NamesIts(t, t.nodes[i].maps[j]) = NamesIts(r, r.nodes[i].maps[j + Extra(t, r, i)])
  BY <1>1, <1>3, <1>4 DEF NamesIts, At
<1> QED BY <1>2, <1>5

LEMMA KeptReflexive ==
  ASSUME NEW t \in Table
  PROVE  Kept(t, t) /\ AddedNameIts(t, t)
<1>1. ASSUME NEW i \in Nodes(t)
      PROVE  Extra(t, t, i) = 0 /\ \A j \in 1..NumMaps(t, i) : j + Extra(t, t, i) = j
  BY NodeTypes DEF Extra
<1>2. Follows(t, t)
  BY FollowsReflexive
<1>3. \A i \in Nodes(t) : \A j \in 1..Extra(t, t, i) : FALSE
  BY <1>1
<1> QED BY <1>1, <1>2, <1>3 DEF Kept, AddedNameIts

LEMMA KeptTransitive ==
  ASSUME NEW s \in Table, NEW t \in Table, NEW u \in Table, Kept(s, t), Kept(t, u)
  PROVE  Kept(s, u) /\ (AddedNameIts(s, t) /\ AddedNameIts(t, u) => AddedNameIts(s, u))
<1>1. Follows(s, u) /\ Nodes(t) = Nodes(s) /\ Nodes(u) = Nodes(s)
  BY FollowsTransitive, KeptGroups DEF Kept
<1>2. ASSUME NEW i \in Nodes(s)
      PROVE  /\ NumMaps(s, i) \in Nat /\ Extra(s, t, i) \in Nat /\ Extra(t, u, i) \in Nat
             /\ NumMaps(t, i) = NumMaps(s, i) + Extra(s, t, i)
             /\ Extra(s, u, i) = Extra(s, t, i) + Extra(t, u, i)
  <2>1. /\ NumMaps(s, i) \in Nat /\ NumMaps(t, i) \in Nat /\ NumMaps(u, i) \in Nat
        /\ NumMaps(t, i) >= NumMaps(s, i) /\ NumMaps(u, i) >= NumMaps(t, i)
    BY <1>1, NodeTypes DEF Kept, Follows
  <2> QED BY <2>1 DEF Extra
<1>3. ASSUME NEW i \in Nodes(s), NEW j \in 1..NumMaps(s, i)
      PROVE  /\ u.nodes[i].maps[j + Extra(s, u, i)].single = s.nodes[i].maps[j].single
             /\ u.nodes[i].maps[j + Extra(s, u, i)].whole = s.nodes[i].maps[j].whole
  <2> DEFINE h == j + Extra(s, t, i)
  <2>1. h \in 1..NumMaps(t, i) /\ h + Extra(t, u, i) = j + Extra(s, u, i)
    BY <1>2
  <2>2. t.nodes[i].maps[h].single = s.nodes[i].maps[j].single
        /\ t.nodes[i].maps[h].whole = s.nodes[i].maps[j].whole
    BY DEF Kept
  <2> HIDE DEF h
  <2>3. u.nodes[i].maps[h + Extra(t, u, i)].single = t.nodes[i].maps[h].single
        /\ u.nodes[i].maps[h + Extra(t, u, i)].whole = t.nodes[i].maps[h].whole
    BY <1>1, <2>1 DEF Kept
  <2> QED BY <2>1, <2>2, <2>3
<1>4. ASSUME NEW i \in Nodes(s)
      PROVE  u.nodes[i].type = s.nodes[i].type /\ u.nodes[i].base = s.nodes[i].base
  BY <1>1 DEF Kept
<1>5. ASSUME AddedNameIts(s, t), AddedNameIts(t, u), NEW i \in Nodes(s), NEW j \in 1..Extra(s, u, i)
      PROVE  NamesIts(u, u.nodes[i].maps[j])
  <2>1. CASE j <= Extra(t, u, i)
    <3>1. j \in 1..Extra(t, u, i)
      BY <1>2, <2>1
    <3> QED BY <1>1, <1>5, <3>1 DEF AddedNameIts
  <2>2. CASE j > Extra(t, u, i)
    <3> DEFINE h == j - Extra(t, u, i)
    <3>1. h \in 1..Extra(s, t, i) /\ h \in 1..NumMaps(t, i) /\ h + Extra(t, u, i) = j
      BY <1>2, <2>2
    <3> HIDE DEF h
    <3>2. NamesIts(t, t.nodes[i].maps[h])
      BY <1>5, <3>1 DEF AddedNameIts
    <3>3. NamesIts(u, u.nodes[i].maps[h + Extra(t, u, i)])
      BY <1>1, <3>1, <3>2, NamesKept
    <3> QED BY <3>1, <3>3
  <2> QED BY <1>2, <2>1, <2>2
<1> QED BY <1>1, <1>3, <1>4, <1>5 DEF Kept, AddedNameIts

\* A node whose mappings a step leaves alone raises its interrupts as before.
LEMMA CapableKept ==
  ASSUME NEW t \in Table, NEW r \in Table, Kept(t, r), NEW i \in Nodes(t),
         SameMaps(t, r, i), MsiCapable(t, i),
         r.nodes[i].rev = t.nodes[i].rev,
         "deviceid" \in t.nodes[i].flags => "deviceid" \in r.nodes[i].flags
  PROVE  MsiCapable(r, i)
<1> DEFINE n == t.nodes[i]
           x == n.idx + 1
<1>1. /\ NumMaps(t, i) \in Nat /\ n.idx \in Nat /\ n.idx < NumMaps(t, i)
      /\ DOMAIN n.maps = 1..NumMaps(t, i) /\ DOMAIN r.nodes[i].maps = 1..NumMaps(r, i)
  <2>1. n \in Node /\ DOMAIN n.maps = 1..NumMaps(t, i)
    BY TableTypes DEF NumMaps
  <2>2. DOMAIN r.nodes[i].maps = 1..NumMaps(r, i)
    BY TableTypes, KeptGroups DEF NumMaps
  <2> QED BY <2>1, <2>2, NodeTypes DEF MsiCapable, IdMappingOk, Node
<1>2. NumMaps(r, i) = NumMaps(t, i) /\ Extra(t, r, i) = 0
      /\ \A j \in 1..NumMaps(t, i) : j + Extra(t, r, i) = j
  BY <1>1 DEF SameMaps, Extra
<1>3. ASSUME NEW j \in 1..NumMaps(t, i)
      PROVE  /\ r.nodes[i].maps[j].single = n.maps[j].single
             /\ r.nodes[i].maps[j].whole = n.maps[j].whole
             /\ NamesIts(t, n.maps[j]) = NamesIts(r, r.nodes[i].maps[j])
  <2>1. j + Extra(t, r, i) = j
    BY <1>2
  <2>2. NamesIts(t, n.maps[j]) = NamesIts(r, r.nodes[i].maps[j + Extra(t, r, i)])
    BY NamesKept
  <2> QED BY <2>1, <2>2 DEF Kept
<1>4. x \in 1..NumMaps(t, i) /\ r.nodes[i].idx = n.idx
  BY <1>1 DEF SameMaps
<1>5. IdMapping(n) = n.maps[x] /\ IdMapping(r.nodes[i]) = r.nodes[i].maps[x]
  BY <1>4 DEF IdMapping
<1>6. IdMappingOk(r, i) /\ IdMapping(r.nodes[i]).single
  <2>1. IdMappingOk(t, i) /\ IdMapping(n).single
    BY DEF MsiCapable
  <2>2. NamesIts(r, IdMapping(r.nodes[i])) /\ IdMapping(r.nodes[i]).single
    BY <1>3, <1>4, <1>5, <2>1 DEF IdMappingOk
  <2> QED BY <2>1, <2>2 DEF IdMappingOk, SameMaps
<1>7. PICK j \in 1..NumMaps(t, i) : ~n.maps[j].single /\ n.maps[j].whole /\ NamesIts(t, n.maps[j])
  BY <1>1 DEF MsiCapable
<1>8. /\ j \in DOMAIN r.nodes[i].maps /\ ~r.nodes[i].maps[j].single /\ r.nodes[i].maps[j].whole
      /\ NamesIts(r, r.nodes[i].maps[j])
  BY <1>1, <1>2, <1>3, <1>7
<1>9. r.nodes[i].rev >= 5 /\ "deviceid" \in r.nodes[i].flags
  BY DEF MsiCapable
<1> QED BY <1>6, <1>8, <1>9 DEF MsiCapable

\* An insertion keeps the table, and uses only the node it is made in otherwise.
UseAfter(t, k, maps, r) ==
  /\ r.revision = t.revision
  /\ \A i \in Nodes(t) : i # k => SameUse(t, r, i)
  /\ \A i \in Nodes(t) : Extra(t, r, i) = Added(i, k, maps)
  /\ r.nodes[k].flags = t.nodes[k].flags /\ r.nodes[k].rev = t.nodes[k].rev
  /\ r.nodes[k].idx = 0
  /\ \A j \in 1..Len(maps) : r.nodes[k].maps[j] = maps[j]

LEMMA InsertKept ==
  ASSUME NEW t \in Table, NEW k \in Nodes(t), NEW place \in Nat,
         NEW maps \in Seq(Mapping), NEW mapAt \in Nat,
         NEW r, r = InsertMappings(t, k, place, maps, mapAt)
  PROVE  r \in Table /\ Kept(t, r) /\ UseAfter(t, k, maps, r)
<1> DEFINE d == Len(maps) * MappingLen
<1>1. /\ r \in Table
      /\ \A i \in Nodes(t) :
           /\ Size(r, i) = IF i = k THEN Size(t, i) + d ELSE Size(t, i)
           /\ MapAt(r, i) = IF i = k THEN mapAt ELSE MapAt(t, i)
           /\ NumMaps(r, i) = NumMaps(t, i) + IF i = k THEN Len(maps) ELSE 0
  <2> HIDE DEF d
  <2>1. d = Len(maps) * MappingLen
    BY DEF d
  <2> QED BY <2>1, Inserted
<1>2. Follows(t, r)
  BY InsertFollows
<1>3. ASSUME NEW i \in Nodes(t)
      PROVE  Extra(t, r, i) = Added(i, k, maps) /\ Added(i, k, maps) \in Nat
  <2>1. NumMaps(t, i) \in Nat /\ Added(i, k, maps) \in Nat
        /\ NumMaps(r, i) = NumMaps(t, i) + Added(i, k, maps)
    BY <1>1, NodeTypes DEF Added
  <2> QED BY <2>1 DEF Extra
<1> HIDE DEF d
<1>4. KindsAfter(t, k, maps, r)
  BY InsertedKind
<1>5. Kept(t, r)
  BY <1>2, <1>3, <1>4 DEF Kept, KindsAfter
<1>6. ASSUME NEW i \in Nodes(t), i # k
      PROVE  SameUse(t, r, i)
  <2>1. NumMaps(t, i) \in Nat /\ NumMaps(r, i) = NumMaps(t, i) + 0
    BY <1>1, <1>6, NodeTypes
  <2> QED BY <1>1, <1>4, <1>6, <2>1 DEF SameUse, SameMaps, KindsAfter
<1>7. UseAfter(t, k, maps, r)
  BY <1>3, <1>4, <1>6 DEF UseAfter, KindsAfter
<1> QED BY <1>1, <1>5, <1>7

\* What is put in, if it names the place the ITS group has afterwards.
LEMMA InsertNames ==
  ASSUME NEW t \in Table, NEW k \in Nodes(t), NEW place \in Nat,
         NEW maps \in Seq(Mapping), NEW mapAt \in Nat, NEW d, d = Len(maps) * MappingLen,
         NEW r, r = InsertMappings(t, k, place, maps, mapAt),
         Named(t), NEW g, ItsGroups(t) = {g},
         \A j \in 1..Len(maps) : maps[j].ref = Shift(At(t, g), place, d)
  PROVE  /\ AddedNameIts(t, r) /\ Named(r) /\ ItsGroups(r) = {g}
         /\ At(r, g) = Shift(At(t, g), place, d)
<1>1. /\ r \in Table /\ Kept(t, r) /\ Nodes(r) = Nodes(t) /\ ItsGroups(r) = {g}
      /\ \A i \in Nodes(t) : Extra(t, r, i) = Added(i, k, maps)
      /\ \A j \in 1..Len(maps) : r.nodes[k].maps[j] = maps[j]
  <2>1. r \in Table /\ Kept(t, r) /\ UseAfter(t, k, maps, r)
    BY InsertKept
  <2> QED BY <2>1, KeptGroups DEF UseAfter
<1>2. /\ d \in Nat
      /\ \A i \in Nodes(t) :
           /\ At(r, i) = Shift(At(t, i), place, d)
           /\ Size(r, i) = IF i = k THEN Size(t, i) + d ELSE Size(t, i)
           /\ NumMaps(r, i) = NumMaps(t, i) + IF i = k THEN Len(maps) ELSE 0
  BY Inserted
<1>3. g \in Nodes(t) /\ At(r, g) = Shift(At(t, g), place, d)
  BY <1>2 DEF ItsGroups
<1>4. ASSUME NEW j \in 1..Len(maps)
      PROVE  r.nodes[k].maps[j].ref = At(r, g)
  BY <1>1, <1>3
<1>5. AddedNameIts(t, r)
  <2> SUFFICES ASSUME NEW i \in Nodes(t), NEW j \in 1..Extra(t, r, i)
               PROVE  NamesIts(r, r.nodes[i].maps[j])
    BY DEF AddedNameIts
  <2>1. j \in 1..Added(i, k, maps)
    BY <1>1
  <2>2. i = k /\ j \in 1..Len(maps)
    BY <2>1 DEF Added
  <2> QED BY <1>1, <1>4, <2>2 DEF NamesIts, At
<1>6. ASSUME NEW i \in Nodes(r), NEW j \in 1..NumMaps(r, i)
      PROVE  \E h \in Nodes(r) : Ref(r, i, j) = At(r, h)
  <2>1. Extra(t, r, i) \in Nat /\ NumMaps(t, i) \in Nat
        /\ NumMaps(r, i) = NumMaps(t, i) + Extra(t, r, i)
    <3>1. Len(maps) \in Nat /\ NumMaps(t, i) \in Nat /\ i \in Nodes(t)
      BY <1>1, NodeTypes
    <3> QED BY <1>1, <1>2, <3>1 DEF Added
  <2>2. CASE j <= Extra(t, r, i)
    <3>1. j \in 1..Extra(t, r, i)
      BY <2>1, <2>2
    <3>2. NamesIts(r, r.nodes[i].maps[j])
      BY <1>1, <1>5, <3>1 DEF AddedNameIts
    <3> QED BY <3>2 DEF NamesIts, Ref, At, ItsGroups
  <2>3. CASE j > Extra(t, r, i)
    <3> DEFINE m == j - Extra(t, r, i)
    <3>1. m \in 1..NumMaps(t, i) /\ m + Extra(t, r, i) = j
      BY <2>1, <2>3
    <3> HIDE DEF m
    <3>2. PICK h \in Nodes(t) : Ref(t, i, m) = At(t, h)
      BY <1>1, <3>1 DEF Named
    <3>3. Ref(r, i, m + Extra(t, r, i)) = At(r, h)
      BY <1>1, <3>1, <3>2 DEF Kept, Follows
    <3> QED BY <1>1, <3>1, <3>3
  <2> QED BY <2>1, <2>2, <2>3
<1>7. ASSUME NEW i \in Nodes(r)
      PROVE  Size(r, i) > MappingLen
  <2>1. Size(t, i) \in Nat /\ Size(t, i) > MappingLen /\ MappingLen \in Nat
    BY <1>1, NodeTypes DEF Named, MappingLen
  <2> QED BY <1>1, <1>2, <2>1
<1> QED BY <1>1, <1>3, <1>5, <1>6, <1>7 DEF Named

\* When a mapping is put in and one that was there still names the offset the
\* ITS group had, the ITS group has not moved: nothing is as short as a mapping.
LEMMA GroupStays ==
  ASSUME NEW t \in Table, Tiled(t), Named(t), NEW g \in Nodes(t), NEW h \in Nodes(t),
         NEW place \in Nat, Shift(At(t, h), place, MappingLen) = At(t, g)
  PROVE  Shift(At(t, g), place, MappingLen) = At(t, g)
<1>1. /\ At(t, g) \in Nat /\ At(t, h) \in Nat /\ Size(t, g) \in Nat /\ Size(t, h) \in Nat
      /\ Size(t, g) > MappingLen /\ Size(t, h) > MappingLen
      /\ g \in Nat /\ h \in Nat
  <2>1. /\ At(t, g) \in Nat /\ At(t, h) \in Nat /\ Size(t, g) \in Nat /\ Size(t, h) \in Nat
    BY NodeTypes
  <2>2. Size(t, g) > MappingLen /\ Size(t, h) > MappingLen
    BY DEF Named
  <2>3. g \in Nat /\ h \in Nat
    BY TableTypes
  <2> QED BY <2>1, <2>2, <2>3
<1>2. /\ h < g => At(t, h) + Size(t, h) <= At(t, g)
      /\ g < h => At(t, g) + Size(t, g) <= At(t, h)
  BY DEF Tiled, End
<1> QED BY <1>1, <1>2 DEF Shift, MappingLen

\* What a table is after an insertion into node k that the builder goes on with.
Grows(t, k, r) ==
  /\ r \in Table /\ Kept(t, r) /\ Tiled(r) /\ Named(r) /\ AddedNameIts(t, r)
  /\ r.revision = t.revision
  /\ \A i \in Nodes(t) : i # k => SameUse(t, r, i)
  /\ r.nodes[k].flags = t.nodes[k].flags /\ r.nodes[k].rev = t.nodes[k].rev

\* Node k of r has an ID mapping to the ITS group, a single one; and the ITS
\* group is where it was if a mapping for all requesters names this place.
Serves(r, k, g, its) ==
  /\ IdMappingOk(r, k) /\ IdMapping(r.nodes[k]).single
  /\ HasDownstream(r, k, its) => At(r, g) = its

LEMMA BothGrows ==
  ASSUME NEW t \in Table, Tiled(t), Named(t), NEW k \in Nodes(t), NumMaps(t, k) = 0,
         NEW g, ItsGroups(t) = {g}, NEW its, its = At(t, g),
         NEW r, r = WithBoth(t, k, its)
  PROVE  /\ Grows(t, k, r) /\ Serves(r, k, g, its)
         /\ Shift(its, End(t, k), 2 * MappingLen) = its => HasDownstream(r, k, its)
<1> DEFINE place == End(t, k)
           ref == Shift(its, place, 2 * MappingLen)
           maps == <<[ref |-> ref, single |-> TRUE, whole |-> FALSE],
                     [ref |-> ref, single |-> FALSE, whole |-> TRUE]>>
           d == Len(maps) * MappingLen
<1>1. /\ At(t, k) \in Nat /\ Size(t, k) \in Nat /\ Size(t, k) >= NodeHeaderLen
      /\ g \in Nodes(t) /\ its \in Nat
  BY NodeTypes DEF Tiled, ItsGroups
<1>2. place \in Nat /\ At(t, k) < place /\ place <= End(t, k)
  BY <1>1 DEF End, NodeHeaderLen
<1>3. ref \in Nat /\ r = InsertMappings(t, k, place, maps, Size(t, k))
  BY <1>1, <1>2 DEF Shift, MappingLen, WithBoth
<1> HIDE DEF place, ref
<1>4. /\ maps \in Seq(Mapping) /\ Len(maps) = 2
      /\ maps[1].ref = ref /\ maps[1].single
      /\ maps[2].ref = ref /\ ~maps[2].single /\ maps[2].whole
      /\ \A j \in 1..Len(maps) : maps[j].ref = ref
  BY <1>3 DEF Mapping
<1>5. d = 2 * MappingLen /\ ref = Shift(its, place, d) /\ d = Len(maps) * MappingLen
  BY <1>4 DEF ref
<1> HIDE DEF maps, d
<1>6. r \in Table /\ Kept(t, r) /\ UseAfter(t, k, maps, r) /\ Tiled(r)
  BY <1>1, <1>2, <1>3, <1>4, InsertKept, InsertTiles
<1>7. AddedNameIts(t, r) /\ Named(r) /\ ItsGroups(r) = {g} /\ At(r, g) = Shift(its, place, d)
  <2>1. \A j \in 1..Len(maps) : maps[j].ref = Shift(At(t, g), place, d)
    BY <1>4, <1>5
  <2>2. place \in Nat /\ maps \in Seq(Mapping) /\ Size(t, k) \in Nat /\ d = Len(maps) * MappingLen
    BY <1>1, <1>2, <1>4, <1>5
  <2>3. /\ AddedNameIts(t, r) /\ Named(r) /\ ItsGroups(r) = {g}
        /\ At(r, g) = Shift(At(t, g), place, d)
    BY <1>3, <2>1, <2>2, InsertNames
  <2> QED BY <2>3
<1>8. Grows(t, k, r)
  BY <1>6, <1>7 DEF Grows, UseAfter
<1>9. /\ NumMaps(r, k) = 2 /\ MapAt(r, k) = Size(t, k) /\ Size(r, k) = Size(t, k) + 2 * MappingLen
  <2>1. /\ NumMaps(r, k) = NumMaps(t, k) + Len(maps) /\ MapAt(r, k) = Size(t, k)
        /\ Size(r, k) = Size(t, k) + d
    <3>1. place \in Nat /\ maps \in Seq(Mapping) /\ Size(t, k) \in Nat
          /\ d = Len(maps) * MappingLen
      BY <1>1, <1>2, <1>4, <1>5
    <3>2. \A i \in Nodes(t) :
              /\ Size(r, i) = IF i = k THEN Size(t, i) + d ELSE Size(t, i)
              /\ MapAt(r, i) = IF i = k THEN Size(t, k) ELSE MapAt(t, i)
              /\ NumMaps(r, i) = NumMaps(t, i) + IF i = k THEN Len(maps) ELSE 0
      BY <1>3, <3>1, Inserted
    <3> QED BY <3>2
  <2> QED BY <1>4, <1>5, <2>1
<1>10. /\ r.nodes[k].idx = 0 /\ r.nodes[k].maps[1] = maps[1] /\ r.nodes[k].maps[2] = maps[2]
  BY <1>4, <1>6 DEF UseAfter
<1>11. \A j \in 1..2 : r.nodes[k].maps[j].ref = At(r, g)
  BY <1>4, <1>5, <1>7, <1>10
<1>12. IdMappingOk(r, k) /\ IdMapping(r.nodes[k]).single
  <2>1. IdMapping(r.nodes[k]) = maps[1]
    BY <1>10 DEF IdMapping
  <2>2. NamesIts(r, maps[1])
    BY <1>4, <1>5, <1>7 DEF NamesIts, At
  <2>3. 0 < NumMaps(r, k) /\ MapAt(r, k) + MappingLen * (0 + 1) <= Size(r, k)
    BY <1>1, <1>9 DEF MappingLen
  <2> QED BY <1>4, <1>10, <2>1, <2>2, <2>3 DEF IdMappingOk
<1>13. DOMAIN r.nodes[k].maps = 1..2
  BY <1>6, <1>9, KeptGroups, TableTypes DEF NumMaps
<1>14. ASSUME HasDownstream(r, k, its)
       PROVE  At(r, g) = its
  BY <1>11, <1>13, <1>14 DEF HasDownstream
<1>15. ASSUME Shift(its, End(t, k), 2 * MappingLen) = its
       PROVE  HasDownstream(r, k, its)
  <2>1. 2 \in DOMAIN r.nodes[k].maps /\ r.nodes[k].maps[2].ref = its
    BY <1>4, <1>10, <1>13, <1>15 DEF ref, place
  <2> QED BY <1>4, <1>10, <2>1 DEF HasDownstream
<1> QED BY <1>8, <1>12, <1>14, <1>15 DEF Serves

LEMMA SingleGrows ==
  ASSUME NEW t \in Table, Tiled(t), Named(t), NEW k \in Nodes(t), IdMappingOk(t, k),
         NEW g, ItsGroups(t) = {g}, NEW its, its = At(t, g),
         NEW r, r = WithSingle(t, k, its)
  PROVE  /\ Grows(t, k, r) /\ Serves(r, k, g, its)
         /\ HasDownstream(t, k, its) /\ Shift(its, At(t, k) + MapAt(t, k), MappingLen) = its
              => HasDownstream(r, k, its)
<1> DEFINE place == At(t, k) + MapAt(t, k)
           ref == Shift(its, place, MappingLen)
           maps == <<[ref |-> ref, single |-> TRUE, whole |-> FALSE]>>
           d == Len(maps) * MappingLen
<1>1. /\ At(t, k) \in Nat /\ Size(t, k) \in Nat /\ MapAt(t, k) \in Nat /\ NumMaps(t, k) \in Nat
      /\ g \in Nodes(t) /\ its \in Nat
  BY NodeTypes DEF ItsGroups
<1>2. /\ MapAt(t, k) >= NodeHeaderLen /\ MapAt(t, k) + MappingLen <= Size(t, k)
      /\ NumMaps(t, k) > 0
  <2> DEFINE x == t.nodes[k].idx
  <2>1. x \in Nat
    BY TableTypes DEF Node
  <2>2. x < NumMaps(t, k) /\ MapAt(t, k) + MappingLen * (x + 1) <= Size(t, k)
    BY DEF IdMappingOk
  <2> HIDE DEF x
  <2>3. NumMaps(t, k) > 0
    BY <1>1, <2>1, <2>2
  <2>4. MapAt(t, k) + MappingLen <= Size(t, k)
    BY <1>1, <2>1, <2>2 DEF MappingLen
  <2> QED BY <2>3, <2>4 DEF Tiled
<1>3. place \in Nat /\ At(t, k) < place /\ place <= End(t, k)
  BY <1>1, <1>2 DEF End, NodeHeaderLen, MappingLen
<1>4. ref \in Nat /\ r = InsertMappings(t, k, place, maps, MapAt(t, k))
  BY <1>1, <1>3 DEF Shift, MappingLen, WithSingle
<1> HIDE DEF place, ref
<1>5. /\ maps \in Seq(Mapping) /\ Len(maps) = 1
      /\ maps[1].ref = ref /\ maps[1].single
      /\ \A j \in 1..Len(maps) : maps[j].ref = ref
  BY <1>4 DEF Mapping
<1>6. d = MappingLen /\ ref = Shift(its, place, d) /\ d = Len(maps) * MappingLen
  BY <1>5 DEF ref, MappingLen
<1> HIDE DEF maps, d
<1>7. r \in Table /\ Kept(t, r) /\ UseAfter(t, k, maps, r) /\ Tiled(r)
  BY <1>1, <1>2, <1>3, <1>4, <1>5, InsertKept, InsertTiles
<1>8. AddedNameIts(t, r) /\ Named(r) /\ ItsGroups(r) = {g} /\ At(r, g) = Shift(its, place, d)
  <2>1. \A j \in 1..Len(maps) : maps[j].ref = Shift(At(t, g), place, d)
    BY <1>5, <1>6
  <2>2. place \in Nat /\ maps \in Seq(Mapping) /\ MapAt(t, k) \in Nat /\ d = Len(maps) * MappingLen
    BY <1>1, <1>3, <1>5, <1>6
  <2>3. /\ AddedNameIts(t, r) /\ Named(r) /\ ItsGroups(r) = {g}
        /\ At(r, g) = Shift(At(t, g), place, d)
    BY <1>4, <2>1, <2>2, InsertNames
  <2> QED BY <2>3
<1>9. Grows(t, k, r)
  BY <1>7, <1>8 DEF Grows, UseAfter
<1>10. /\ NumMaps(r, k) = NumMaps(t, k) + 1 /\ MapAt(r, k) = MapAt(t, k)
       /\ Size(r, k) = Size(t, k) + MappingLen
       /\ \A j \in 1..NumMaps(t, k) : Ref(r, k, j + 1) = Shift(Ref(t, k, j), place, d)
  <2>1. place \in Nat /\ maps \in Seq(Mapping) /\ MapAt(t, k) \in Nat
        /\ d = Len(maps) * MappingLen
    BY <1>1, <1>3, <1>5, <1>6
  <2>2. \A i \in Nodes(t) :
            /\ Size(r, i) = IF i = k THEN Size(t, i) + d ELSE Size(t, i)
            /\ MapAt(r, i) = IF i = k THEN MapAt(t, k) ELSE MapAt(t, i)
            /\ NumMaps(r, i) = NumMaps(t, i) + IF i = k THEN Len(maps) ELSE 0
            /\ \A j \in 1..NumMaps(t, i) :
                 Ref(r, i, j + IF i = k THEN Len(maps) ELSE 0) = Shift(Ref(t, i, j), place, d)
    BY <1>4, <2>1, Inserted
  <2>3. \A j \in 1..NumMaps(t, k) : Ref(r, k, j + Len(maps)) = Shift(Ref(t, k, j), place, d)
    BY <2>2
  <2> QED BY <1>5, <1>6, <2>2, <2>3
<1>11. r.nodes[k].idx = 0 /\ r.nodes[k].maps[1] = maps[1]
  BY <1>5, <1>7 DEF UseAfter
<1>12. IdMappingOk(r, k) /\ IdMapping(r.nodes[k]).single
  <2>1. IdMapping(r.nodes[k]) = maps[1]
    BY <1>11 DEF IdMapping
  <2>2. NamesIts(r, maps[1])
    BY <1>5, <1>6, <1>8 DEF NamesIts, At
  <2>3. 0 < NumMaps(r, k) /\ MapAt(r, k) + MappingLen * (0 + 1) <= Size(r, k)
    BY <1>1, <1>2, <1>10 DEF MappingLen
  <2> QED BY <1>5, <1>11, <2>1, <2>2, <2>3 DEF IdMappingOk
<1>13. ASSUME HasDownstream(r, k, its)
       PROVE  At(r, g) = its
  <2>1. DOMAIN r.nodes[k].maps = 1..NumMaps(r, k)
    BY <1>7, KeptGroups, TableTypes DEF NumMaps
  <2>2. PICK j \in 1..NumMaps(r, k) : ~r.nodes[k].maps[j].single /\ Ref(r, k, j) = its
    BY <1>13, <2>1 DEF HasDownstream, Ref
  <2>3. j # 1
    BY <1>5, <1>11, <2>2
  <2>4. j - 1 \in 1..NumMaps(t, k) /\ (j - 1) + 1 = j
    BY <1>1, <1>10, <2>3
  <2>5. Shift(Ref(t, k, j - 1), place, d) = its
    BY <1>10, <2>2, <2>4
  <2>6. PICK h \in Nodes(t) : Ref(t, k, j - 1) = At(t, h)
    BY <2>4 DEF Named
  <2> QED BY <1>1, <1>3, <1>6, <1>8, <2>5, <2>6, GroupStays
<1>14. ASSUME HasDownstream(t, k, its), Shift(its, At(t, k) + MapAt(t, k), MappingLen) = its
       PROVE  HasDownstream(r, k, its)
  <2>1. /\ DOMAIN t.nodes[k].maps = 1..NumMaps(t, k)
        /\ DOMAIN r.nodes[k].maps = 1..NumMaps(r, k)
    BY <1>7, KeptGroups, TableTypes DEF NumMaps
  <2>2. PICK j \in 1..NumMaps(t, k) :
          ~t.nodes[k].maps[j].single /\ Ref(t, k, j) = its /\ t.nodes[k].maps[j].whole
    BY <1>14, <2>1 DEF HasDownstream, Ref
  <2>3. Extra(t, r, k) = 1
    BY <1>1, <1>10 DEF Extra
  <2>4. j + 1 \in DOMAIN r.nodes[k].maps
    BY <1>1, <1>10, <2>1
  <2>5. ~r.nodes[k].maps[j + 1].single /\ r.nodes[k].maps[j + 1].whole
    BY <1>7, <2>2, <2>3 DEF Kept
  <2>6. Ref(r, k, j + 1) = its
    BY <1>6, <1>10, <1>14, <2>2 DEF place
  <2> QED BY <2>4, <2>5, <2>6 DEF HasDownstream, Ref
<1> QED BY <1>9, <1>12, <1>13, <1>14 DEF Serves

-----------------------------------------------------------------------------
(* The steps of a run, by what they make of the table *)

\* A table that differs in its nodes' revisions and flags, and in its header.
Redressed(t, r) ==
  /\ r \in Table /\ Nodes(r) = Nodes(t) /\ Len(r.nodes) = Len(t.nodes)
  /\ r.size = t.size /\ r.length = t.length
  /\ \A i \in Nodes(t) :
       /\ r.nodes[i].type = t.nodes[i].type /\ r.nodes[i].base = t.nodes[i].base
       /\ r.nodes[i].at = t.nodes[i].at /\ r.nodes[i].len = t.nodes[i].len
       /\ r.nodes[i].idx = t.nodes[i].idx /\ r.nodes[i].mapAt = t.nodes[i].mapAt
       /\ r.nodes[i].maps = t.nodes[i].maps

LEMMA RedressedKept ==
  ASSUME NEW t \in Table, NEW r, Redressed(t, r)
  PROVE  /\ r \in Table /\ Kept(t, r) /\ AddedNameIts(t, r)
         /\ Tiled(t) => Tiled(r)
         /\ Named(t) => Named(r)
         /\ \A i \in Nodes(t) :
              /\ At(r, i) = At(t, i)
              /\ IdMappingOk(r, i) = IdMappingOk(t, i)
              /\ IdMapping(r.nodes[i]) = IdMapping(t.nodes[i])
              /\ NumMaps(r, i) = NumMaps(t, i)
              /\ \A its : HasDownstream(r, i, its) = HasDownstream(t, i, its)
              /\ \A m : NamesIts(r, m) = NamesIts(t, m)
<1>1. r \in Table /\ SameLayout(t, r)
  BY DEF Redressed, SameLayout, At, Size, MapAt, NumMaps, Ref
<1>2. Follows(t, r) /\ (Tiled(t) => Tiled(r))
  BY <1>1, LayoutKept
<1>3. ASSUME NEW i \in Nodes(t)
      PROVE  Extra(t, r, i) = 0 /\ \A j \in 1..NumMaps(t, i) : j + Extra(t, r, i) = j
  BY <1>1, <1>3, NodeTypes DEF SameLayout, Extra
<1>4. Kept(t, r)
  BY <1>2, <1>3 DEF Kept, Redressed
<1>5. AddedNameIts(t, r)
  <2>1. \A i \in Nodes(t) : \A j \in 1..Extra(t, r, i) : FALSE
    BY <1>3
  <2> QED BY <2>1 DEF AddedNameIts
<1>6. Named(t) => Named(r)
  BY <1>1 DEF Named, SameLayout
<1>7. ItsGroups(r) = ItsGroups(t)
  BY <1>1, <1>4, KeptGroups
<1>8. \A m : NamesIts(r, m) = NamesIts(t, m)
  BY <1>7 DEF NamesIts, Redressed, ItsGroups
<1>9. ASSUME NEW i \in Nodes(t)
      PROVE  /\ IdMapping(r.nodes[i]) = IdMapping(t.nodes[i])
             /\ IdMappingOk(r, i) = IdMappingOk(t, i)
             /\ \A its : HasDownstream(r, i, its) = HasDownstream(t, i, its)
  <2>1. r.nodes[i].maps = t.nodes[i].maps /\ r.nodes[i].idx = t.nodes[i].idx
    BY DEF Redressed
  <2>2. IdMapping(r.nodes[i]) = IdMapping(t.nodes[i])
    BY <2>1 DEF IdMapping
  <2>3. IdMappingOk(r, i) = IdMappingOk(t, i)
    BY <1>1, <1>8, <2>1, <2>2 DEF IdMappingOk, SameLayout
  <2>4. \A its : HasDownstream(r, i, its) = HasDownstream(t, i, its)
    BY <2>1 DEF HasDownstream
  <2> QED BY <2>2, <2>3, <2>4
<1> QED BY <1>1, <1>2, <1>4, <1>5, <1>6, <1>8, <1>9 DEF SameLayout

\* The flags of an SMMU after enable_httu.
HttuFlags(f) == (f \ {"httu_a"}) \cup {"cohacc", "httu_ad"}

LEMMA HttuRedressed ==
  ASSUME NEW t \in Table, NEW r, r = WithHttu(t)
  PROVE  /\ Redressed(t, r) /\ r.revision = t.revision
         /\ \A i \in Nodes(t) :
              /\ r.nodes[i].rev = t.nodes[i].rev
              /\ r.nodes[i].flags = IF t.nodes[i].type = "smmu" THEN HttuFlags(t.nodes[i].flags)
                                    ELSE t.nodes[i].flags
              /\ SameMaps(t, r, i)
<1> DEFINE N == [k \in Nodes(t) |->
                   IF t.nodes[k].type = "smmu"
                   THEN [t.nodes[k] EXCEPT !.flags = HttuFlags(t.nodes[k].flags)]
                   ELSE t.nodes[k]]
<1>1. r \in Table /\ Nodes(r) = Nodes(t) /\ Len(r.nodes) = Len(t.nodes)
      /\ r.size = t.size /\ r.length = t.length
  BY HttuLayout DEF SameLayout
<1>2. r = [t EXCEPT !.nodes = N]
  BY DEF WithHttu, HttuFlags
<1> HIDE DEF N
<1>3. r.revision = t.revision /\ r.nodes = N
  BY <1>2 DEF Table
<1>4. ASSUME NEW i \in Nodes(t)
      PROVE  /\ N[i].type = t.nodes[i].type /\ N[i].base = t.nodes[i].base
             /\ N[i].at = t.nodes[i].at /\ N[i].len = t.nodes[i].len
             /\ N[i].idx = t.nodes[i].idx /\ N[i].mapAt = t.nodes[i].mapAt
             /\ N[i].maps = t.nodes[i].maps /\ N[i].rev = t.nodes[i].rev
             /\ N[i].flags = IF t.nodes[i].type = "smmu" THEN HttuFlags(t.nodes[i].flags)
                             ELSE t.nodes[i].flags
  <2>1. t.nodes[i] \in Node
    BY TableTypes
  <2>2. CASE t.nodes[i].type = "smmu"
    <3>1. N[i] = [t.nodes[i] EXCEPT !.flags = HttuFlags(t.nodes[i].flags)]
      BY <2>2 DEF N
    <3> QED BY <2>1, <2>2, <3>1 DEF Node
  <2>3. CASE t.nodes[i].type # "smmu"
    <3>1. N[i] = t.nodes[i]
      BY <2>3 DEF N
    <3> QED BY <2>3, <3>1
  <2> QED BY <2>2, <2>3
<1> QED BY <1>1, <1>3, <1>4 DEF Redressed, SameMaps, NumMaps, Size, MapAt

\* A round of the loop by the node, as Provided, Served and SmmuEnabled have it.
ProvidedIn(t, k, its) == IF NumMaps(t, k) = 0 THEN WithBoth(t, k, its) ELSE t
ServedIn(t, k, its) ==
  LET p == ProvidedIn(t, k, its)
  IN IF IdMapping(p.nodes[k]).single THEN p ELSE WithSingle(p, k, its)
EnabledNode(n) == [n EXCEPT !.rev = Max2(@, 5), !.flags = @ \cup {"deviceid"}]
EnabledIn(t, k, its) ==
  LET s == ServedIn(t, k, its) IN [s EXCEPT !.nodes[k] = EnabledNode(s.nodes[k])]

LEMMA RoundIn ==
  ASSUME NEW i, NEW k, k = Smmu(data, Bases[i])
  PROVE  /\ Provided(i) = ProvidedIn(data, k, its_ref)
         /\ Served(i) = ServedIn(data, k, its_ref)
         /\ SmmuEnabled(i) = EnabledIn(data, k, its_ref)
<1>1. Provided(i) = ProvidedIn(data, k, its_ref)
  BY DEF Provided, ProvidedIn
<1>2. Served(i) = ServedIn(data, k, its_ref)
  BY <1>1 DEF Served, ServedIn
<1>3. SmmuEnabled(i) = EnabledIn(data, k, its_ref)
  BY <1>2 DEF SmmuEnabled, EnabledIn, EnabledNode
<1> QED BY <1>1, <1>2, <1>3

\* A round puts in mappings once at most: what it adds to a node without any
\* is a single mapping and the one for all requesters.
LEMMA ServedGrows ==
  ASSUME NEW t \in Table, Tiled(t), Named(t), NEW k \in Nodes(t),
         NEW g, ItsGroups(t) = {g}, NEW its, its = At(t, g),
         IdMappingOk(ProvidedIn(t, k, its), k),
         NEW s, s = ServedIn(t, k, its)
  PROVE  Grows(t, k, s) /\ Serves(s, k, g, its)
<1> DEFINE p == ProvidedIn(t, k, its)
<1>0. s = IF IdMapping(p.nodes[k]).single THEN p ELSE WithSingle(p, k, its)
  BY DEF ServedIn
<1>1. CASE NumMaps(t, k) = 0
  <2>1. p = WithBoth(t, k, its)
    BY <1>1 DEF ProvidedIn
  <2> HIDE DEF p
  <2>2. Grows(t, k, p) /\ Serves(p, k, g, its)
    BY <1>1, <2>1, BothGrows
  <2> QED BY <1>0, <2>2 DEF Serves
<1>2. CASE NumMaps(t, k) # 0 /\ ~IdMapping(t.nodes[k]).single
  <2>1. p = t
    BY <1>2 DEF ProvidedIn
  <2>2. s = WithSingle(t, k, its)
    BY <1>0, <1>2, <2>1
  <2> QED BY <2>1, <2>2, SingleGrows
<1>3. CASE NumMaps(t, k) # 0 /\ IdMapping(t.nodes[k]).single
  <2>1. p = t
    BY <1>3 DEF ProvidedIn
  <2>2. s = t
    BY <1>0, <1>3, <2>1
  <2>3. Grows(t, k, t)
    BY KeptReflexive DEF Grows, SameUse, SameMaps
  <2>4. Serves(t, k, g, its)
    BY <1>3, <2>1 DEF Serves
  <2> QED BY <2>2, <2>3, <2>4
<1> QED BY <1>1, <1>2, <1>3

\* The revision and the flag of the node the round is about.
EnabledFrom(s, k, r) ==
  /\ Redressed(s, r) /\ r.revision = s.revision
  /\ \A i \in Nodes(s) : i # k => SameUse(s, r, i)
  /\ r.nodes[k].flags = s.nodes[k].flags \cup {"deviceid"}
  /\ r.nodes[k].rev >= 5

LEMMA EnabledRedressed ==
  ASSUME NEW s \in Table, NEW k \in Nodes(s),
         NEW r, r = [s EXCEPT !.nodes[k] = EnabledNode(s.nodes[k])]
  PROVE  EnabledFrom(s, k, r)
<1> DEFINE n == s.nodes[k]
           m == [n EXCEPT !.rev = Max2(n.rev, 5), !.flags = n.flags \cup {"deviceid"}]
<1>1. n \in Node
  BY TableTypes
<1>2. /\ m.at = n.at /\ m.len = n.len /\ m.mapAt = n.mapAt /\ m.maps = n.maps
      /\ m.type = n.type /\ m.base = n.base /\ m.idx = n.idx
      /\ m.rev = Max2(n.rev, 5) /\ m.flags = n.flags \cup {"deviceid"}
  BY <1>1 DEF Node
<1>3. m.rev >= 5
  BY <1>1, <1>2 DEF Max2, Node
<1>4. r = [s EXCEPT !.nodes[k] = m]
  BY DEF EnabledNode
<1>5. r = [s EXCEPT !.nodes[k] = [n EXCEPT !.rev = Max2(@, 5), !.flags = @ \cup {"deviceid"}]]
  BY <1>4
<1> HIDE DEF m, n
<1>6. r \in Table /\ SameLayout(s, r)
  BY <1>5, EnabledLayout DEF n
<1>7. /\ r.revision = s.revision
      /\ \A i \in Nodes(s) : r.nodes[i] = IF i = k THEN m ELSE s.nodes[i]
  BY <1>4 DEF Table, Nodes
<1>8. Redressed(s, r)
  BY <1>2, <1>6, <1>7 DEF Redressed, SameLayout, n
<1>9. \A i \in Nodes(s) : i # k => SameUse(s, r, i)
  BY <1>7 DEF SameUse, SameMaps, NumMaps, Size, MapAt
<1> QED BY <1>2, <1>3, <1>7, <1>8, <1>9 DEF n, EnabledFrom

\* What a round makes of the table: the ITS group stays, the node is served.
RoundMade(t, k, g, r) ==
  /\ r \in Table /\ Kept(t, r) /\ Tiled(r) /\ Named(r) /\ AddedNameIts(t, r)
  /\ r.revision = t.revision /\ At(r, g) = At(t, g)
  /\ \A i \in Nodes(t) : i # k => SameUse(t, r, i)
  /\ r.nodes[k].flags = t.nodes[k].flags \cup {"deviceid"}
  /\ MsiCapable(r, k) /\ HasDownstream(r, k, At(r, g))

LEMMA RoundMakes ==
  ASSUME NEW t \in Table, Tiled(t), Named(t), NEW k \in Nodes(t),
         NEW g, ItsGroups(t) = {g}, NEW its, its = At(t, g),
         IdMappingOk(ProvidedIn(t, k, its), k),
         HasDownstream(ServedIn(t, k, its), k, its),
         NEW r, r = EnabledIn(t, k, its)
  PROVE  RoundMade(t, k, g, r)
<1> DEFINE s == ServedIn(t, k, its)
<1>1. r = [s EXCEPT !.nodes[k] = EnabledNode(s.nodes[k])]
  BY DEF EnabledIn
<1>2. Grows(t, k, s) /\ Serves(s, k, g, its)
  BY ServedGrows
<1>3. HasDownstream(s, k, its)
  OBVIOUS
<1> HIDE DEF s
<1>4. /\ s \in Table /\ Kept(t, s) /\ Tiled(s) /\ Named(s) /\ AddedNameIts(t, s)
      /\ Nodes(s) = Nodes(t) /\ ItsGroups(s) = {g} /\ At(s, g) = its
      /\ IdMappingOk(s, k) /\ IdMapping(s.nodes[k]).single
  BY <1>2, <1>3, KeptGroups DEF Grows, Serves
<1>5. /\ Redressed(s, r) /\ r.revision = s.revision
      /\ \A i \in Nodes(s) : i # k => SameUse(s, r, i)
      /\ r.nodes[k].flags = s.nodes[k].flags \cup {"deviceid"}
      /\ r.nodes[k].rev >= 5
  BY <1>1, <1>4, EnabledRedressed DEF EnabledFrom
<1>6. /\ r \in Table /\ Kept(s, r) /\ AddedNameIts(s, r) /\ Tiled(r) /\ Named(r)
      /\ At(r, g) = At(s, g)
      /\ IdMappingOk(r, k) /\ IdMapping(r.nodes[k]).single /\ HasDownstream(r, k, its)
  <2>1. g \in Nodes(s)
    BY <1>4 DEF ItsGroups
  <2> QED BY <1>3, <1>4, <1>5, <2>1, RedressedKept
<1>7. Kept(t, r) /\ AddedNameIts(t, r)
  BY <1>4, <1>6, KeptTransitive
<1>8. \A i \in Nodes(t) : i # k => SameUse(t, r, i)
  BY <1>2, <1>4, <1>5 DEF Grows, SameUse, SameMaps
<1>9. \E j \in DOMAIN r.nodes[k].maps :
        ~r.nodes[k].maps[j].single /\ r.nodes[k].maps[j].whole /\ NamesIts(r, r.nodes[k].maps[j])
  <2>1. ItsGroups(r) = {g} /\ r.nodes[g].at = its
    BY <1>4, <1>6, KeptGroups DEF At
  <2>2. \A m : m.ref = its => NamesIts(r, m)
    BY <2>1 DEF NamesIts
  <2>3. PICK j \in DOMAIN r.nodes[k].maps :
          ~r.nodes[k].maps[j].single /\ r.nodes[k].maps[j].ref = its /\ r.nodes[k].maps[j].whole
    BY <1>6 DEF HasDownstream
  <2> QED BY <2>2, <2>3
<1>10. "deviceid" \in r.nodes[k].flags /\ r.nodes[k].flags = t.nodes[k].flags \cup {"deviceid"}
       /\ r.revision = t.revision
  BY <1>2, <1>5 DEF Grows
<1>11. MsiCapable(r, k)
  BY <1>5, <1>6, <1>9, <1>10 DEF MsiCapable
<1> QED BY <1>4, <1>6, <1>7, <1>8, <1>10, <1>11 DEF RoundMade

\* Mappings for all requesters that name the ITS group still do.
LEMMA DownstreamKept ==
  ASSUME NEW t \in Table, NEW r \in Table, Kept(t, r), NEW i \in Nodes(t), NEW g \in Nodes(t),
         HasDownstream(t, i, At(t, g))
  PROVE  HasDownstream(r, i, At(r, g))
<1>1. /\ DOMAIN t.nodes[i].maps = 1..NumMaps(t, i) /\ DOMAIN r.nodes[i].maps = 1..NumMaps(r, i)
      /\ NumMaps(t, i) \in Nat
  BY KeptGroups, TableTypes, NodeTypes DEF NumMaps
<1>2. PICK j \in 1..NumMaps(t, i) :
        ~t.nodes[i].maps[j].single /\ Ref(t, i, j) = At(t, g) /\ t.nodes[i].maps[j].whole
  BY <1>1 DEF HasDownstream, Ref
<1> DEFINE h == j + Extra(t, r, i)
<1>3. h \in DOMAIN r.nodes[i].maps
  BY <1>1, NamesKept
<1>4. ~r.nodes[i].maps[h].single /\ r.nodes[i].maps[h].whole
  BY <1>2 DEF Kept
<1>5. Ref(r, i, h) = At(r, g)
  BY <1>2 DEF Kept, Follows
<1> HIDE DEF h
<1> QED BY <1>3, <1>4, <1>5 DEF HasDownstream, Ref

\* The ID mapping of a node whose mappings a step leaves alone.
LEMMA IdMappingKept ==
  ASSUME NEW t \in Table, NEW r \in Table, Kept(t, r), NEW i \in Nodes(t),
         SameMaps(t, r, i), IdMappingOk(t, i)
  PROVE  IdMappingOk(r, i)
<1> DEFINE n == t.nodes[i]
           x == n.idx + 1
<1>1. NumMaps(t, i) \in Nat /\ n.idx \in Nat /\ n.idx < NumMaps(t, i)
  <2>1. n \in Node
    BY TableTypes
  <2> QED BY <2>1, NodeTypes DEF IdMappingOk, Node
<1>2. x \in 1..NumMaps(t, i) /\ r.nodes[i].idx = n.idx /\ x + Extra(t, r, i) = x
  BY <1>1 DEF SameMaps, Extra
<1>3. IdMapping(n) = n.maps[x] /\ IdMapping(r.nodes[i]) = r.nodes[i].maps[x]
  BY <1>2 DEF IdMapping
<1>4. NamesIts(t, n.maps[x]) = NamesIts(r, r.nodes[i].maps[x])
  <2>1. NamesIts(t, n.maps[x]) = NamesIts(r, r.nodes[i].maps[x + Extra(t, r, i)])
    BY <1>2, NamesKept
  <2> QED BY <1>2, <2>1
<1> QED BY <1>3, <1>4 DEF IdMappingOk, SameMaps

\* An SMMU that the builder can serve: it comes behind the ITS group.
ReadyNode(t, i, g) ==
  /\ g < i
  /\ NumMaps(t, i) = 0 \/ (IdMappingOk(t, i) /\ HasDownstream(t, i, At(t, g)))

LEMMA ReadyKept ==
  ASSUME NEW t \in Table, NEW r \in Table, Kept(t, r), NEW i \in Nodes(t), NEW g \in Nodes(t),
         SameMaps(t, r, i), ReadyNode(t, i, g)
  PROVE  ReadyNode(r, i, g)
BY DownstreamKept, IdMappingKept DEF ReadyNode, SameMaps

\* Such an SMMU is not refused.
LEMMA ReadyPossible ==
  ASSUME NEW t \in Table, Tiled(t), Named(t), NEW k \in Nodes(t),
         NEW g, ItsGroups(t) = {g}, ReadyNode(t, k, g), NEW its, its = At(t, g)
  PROVE  /\ IdMappingOk(ProvidedIn(t, k, its), k)
         /\ HasDownstream(ServedIn(t, k, its), k, its)
<1>1. /\ g \in Nodes(t) /\ g < k /\ g \in Nat /\ k \in Nat
      /\ At(t, g) \in Nat /\ At(t, k) \in Nat /\ Size(t, g) \in Nat /\ Size(t, k) \in Nat
      /\ MapAt(t, k) \in Nat /\ Size(t, g) > MappingLen /\ MappingLen \in Nat
  <2>1. g \in Nodes(t) /\ g < k
    BY DEF ReadyNode, ItsGroups
  <2>2. Nodes(t) = 1..Len(t.nodes) /\ Len(t.nodes) \in Nat
    BY TableTypes
  <2>3. g \in Nat /\ k \in Nat
    BY <2>1, <2>2
  <2>4. Size(t, g) > MappingLen /\ MappingLen \in Nat
    BY <2>1 DEF Named, MappingLen
  <2> QED BY <2>1, <2>3, <2>4, NodeTypes
<1>2. At(t, g) + Size(t, g) <= At(t, k)
  BY <1>1 DEF Tiled, End
<1>3. its \in Nat /\ its < End(t, k) /\ its < At(t, k) + MapAt(t, k)
  BY <1>1, <1>2 DEF End, MappingLen
<1>4. /\ Shift(its, End(t, k), 2 * MappingLen) = its
      /\ Shift(its, At(t, k) + MapAt(t, k), MappingLen) = its
  BY <1>1, <1>3 DEF Shift, End
<1>5. CASE NumMaps(t, k) = 0
  <2> DEFINE p == WithBoth(t, k, its)
  <2>1. Serves(p, k, g, its) /\ HasDownstream(p, k, its)
    BY <1>4, <1>5, BothGrows
  <2>2. ProvidedIn(t, k, its) = p
    BY <1>5 DEF ProvidedIn
  <2> HIDE DEF p
  <2> QED BY <2>1, <2>2 DEF ServedIn, Serves
<1>6. CASE NumMaps(t, k) # 0
  <2>1. ProvidedIn(t, k, its) = t /\ IdMappingOk(t, k) /\ HasDownstream(t, k, its)
    BY <1>6 DEF ProvidedIn, ReadyNode
  <2>2. CASE IdMapping(t.nodes[k]).single
    BY <2>1, <2>2 DEF ServedIn
  <2>3. CASE ~IdMapping(t.nodes[k]).single
    <3> DEFINE s == WithSingle(t, k, its)
    <3>1. HasDownstream(s, k, its)
      BY <1>4, <2>1, SingleGrows
    <3>2. ServedIn(t, k, its) = s
      BY <2>1, <2>3 DEF ServedIn
    <3> HIDE DEF s
    <3> QED BY <2>1, <3>1, <3>2
  <2> QED BY <2>2, <2>3
<1> QED BY <1>5, <1>6

\* A table the loop can serve, whatever is in its header.
Ready(t) ==
  \E g \in Nodes(t) :
    /\ ItsGroups(t) = {g}
    /\ \A i \in 1..2 : Smmus(t, Bases[i]) # {} /\ ReadyNode(t, Smmu(t, Bases[i]), g)

LEMMA UpgradableReady ==
  ASSUME NEW t \in Table, Upgradable(t)
  PROVE  HeaderValid(t) /\ t.revision < MaxRevision /\ Ready(t)
<1>1. PICK g \in Nodes(t) : ItsGroups(t) = {g} /\ \A i \in 1..2 :
        /\ Smmus(t, Bases[i]) # {}
        /\ g < Smmu(t, Bases[i])
        /\ \/ NumMaps(t, Smmu(t, Bases[i])) = 0
           \/ /\ IdMappingOk(t, Smmu(t, Bases[i]))
              /\ HasDownstream(t, Smmu(t, Bases[i]), t.nodes[g].at)
  BY DEF Upgradable
<1> QED BY <1>1 DEF Upgradable, Ready, ReadyNode, At

-----------------------------------------------------------------------------
(* What one step does for what was asked, and for what can be served *)

LEMMA RedressedReady ==
  ASSUME NEW t \in Table, NEW r, Redressed(t, r), Ready(t)
  PROVE  Ready(r)
<1>1. PICK g \in Nodes(t) : ItsGroups(t) = {g} /\ \A i \in 1..2 :
        Smmus(t, Bases[i]) # {} /\ ReadyNode(t, Smmu(t, Bases[i]), g)
  BY DEF Ready
<1>2. r \in Table /\ Kept(t, r)
  BY RedressedKept
<1>3. /\ Nodes(r) = Nodes(t) /\ ItsGroups(r) = {g}
      /\ \A base : Smmus(r, base) = Smmus(t, base) /\ Smmu(r, base) = Smmu(t, base)
  BY <1>1, <1>2, KeptGroups
<1>4. ASSUME NEW i \in 1..2
      PROVE  Smmus(r, Bases[i]) # {} /\ ReadyNode(r, Smmu(r, Bases[i]), g)
  <2>1. Smmu(t, Bases[i]) \in Nodes(t)
    BY <1>1, SmmuFound
  <2>2. SameMaps(t, r, Smmu(t, Bases[i]))
    BY <2>1 DEF Redressed, SameMaps, NumMaps, Size, MapAt
  <2> QED BY <1>1, <1>2, <1>3, <2>1, <2>2, ReadyKept
<1> QED BY <1>3, <1>4 DEF Ready

LEMMA RoundReady ==
  ASSUME NEW t \in Table, Ready(t), NEW k \in Nodes(t), NEW g, ItsGroups(t) = {g},
         NEW r, RoundMade(t, k, g, r)
  PROVE  Ready(r)
<1>1. g \in Nodes(t) /\ \A i \in 1..2 :
        Smmus(t, Bases[i]) # {} /\ ReadyNode(t, Smmu(t, Bases[i]), g)
  BY DEF Ready
<1>2. r \in Table /\ Kept(t, r)
  BY DEF RoundMade
<1>3. /\ Nodes(r) = Nodes(t) /\ ItsGroups(r) = {g}
      /\ \A base : Smmus(r, base) = Smmus(t, base) /\ Smmu(r, base) = Smmu(t, base)
  BY <1>2, KeptGroups
<1>4. ASSUME NEW i \in 1..2
      PROVE  Smmus(r, Bases[i]) # {} /\ ReadyNode(r, Smmu(r, Bases[i]), g)
  <2> DEFINE s == Smmu(t, Bases[i])
  <2>1. s \in Nodes(t) /\ ReadyNode(t, s, g) /\ Smmus(r, Bases[i]) # {} /\ Smmu(r, Bases[i]) = s
    BY <1>1, <1>3, SmmuFound
  <2> HIDE DEF s
  <2>2. CASE s = k
    BY <2>1, <2>2 DEF RoundMade, MsiCapable, ReadyNode
  <2>3. CASE s # k
    BY <1>1, <1>2, <2>1, <2>3, ReadyKept DEF RoundMade, SameUse
  <2> QED BY <2>1, <2>2, <2>3
<1> QED BY <1>1, <1>3, <1>4 DEF Ready

\* The SMMUs that serve still do, after each of the steps.
HttuDone(t) == \A k \in Nodes(t) : t.nodes[k].type = "smmu" => HttuCapable(t.nodes[k])
MsiDone(t, i) == Smmus(t, Bases[i]) # {} /\ MsiCapable(t, Smmu(t, Bases[i]))

LEMMA AsAskedParts ==
  ASSUME NEW t, NEW o
  PROVE  AsAsked(t, o) <=> /\ "msi" \in o => \A i \in 1..2 : MsiDone(t, i)
                           /\ "httu" \in o => HttuDone(t)
BY DEF AsAsked, MsiDone, HttuDone

LEMMA HttuDoes ==
  ASSUME NEW t \in Table, NEW r, r = WithHttu(t)
  PROVE  HttuDone(r) /\ \A i \in 1..2 : MsiDone(t, i) => MsiDone(r, i)
<1>1. /\ Redressed(t, r)
      /\ \A i \in Nodes(t) :
           /\ r.nodes[i].rev = t.nodes[i].rev
           /\ r.nodes[i].flags = IF t.nodes[i].type = "smmu" THEN HttuFlags(t.nodes[i].flags)
                                 ELSE t.nodes[i].flags
           /\ SameMaps(t, r, i)
  BY HttuRedressed
<1>2. r \in Table /\ Kept(t, r)
  BY <1>1, RedressedKept
<1>3. HttuDone(r)
  <2> SUFFICES ASSUME NEW i \in Nodes(r), r.nodes[i].type = "smmu"
               PROVE  HttuCapable(r.nodes[i])
    BY DEF HttuDone
  <2>1. i \in Nodes(t) /\ t.nodes[i].type = "smmu"
    BY <1>1 DEF Redressed
  <2>2. r.nodes[i].flags = (t.nodes[i].flags \ {"httu_a"}) \cup {"cohacc", "httu_ad"}
    BY <1>1, <2>1 DEF HttuFlags
  <2> QED BY <2>2 DEF HttuCapable
<1>4. ASSUME NEW i \in 1..2, MsiDone(t, i)
      PROVE  MsiDone(r, i)
  <2> DEFINE s == Smmu(t, Bases[i])
  <2>1. /\ s \in Nodes(t) /\ MsiCapable(t, s)
        /\ Smmus(r, Bases[i]) # {} /\ Smmu(r, Bases[i]) = s
    BY <1>2, <1>4, SmmuFound, KeptGroups DEF MsiDone
  <2> HIDE DEF s
  <2>2. "deviceid" \in t.nodes[s].flags => "deviceid" \in r.nodes[s].flags
    BY <1>1, <2>1 DEF HttuFlags
  <2>3. MsiCapable(r, s)
    BY <1>1, <1>2, <2>1, <2>2, CapableKept
  <2> QED BY <2>1, <2>3 DEF MsiDone
<1> QED BY <1>3, <1>4

LEMMA RoundDoes ==
  ASSUME NEW t \in Table, NEW g, NEW b \in 1..2, Smmus(t, Bases[b]) # {},
         NEW k, k = Smmu(t, Bases[b]), NEW r, RoundMade(t, k, g, r)
  PROVE  /\ HttuDone(t) => HttuDone(r)
         /\ MsiDone(r, b)
         /\ \A i \in 1..2 : MsiDone(t, i) => MsiDone(r, i)
<1>1. r \in Table /\ Kept(t, r) /\ k \in Nodes(t)
  BY SmmuFound DEF RoundMade
<1>2. /\ Nodes(r) = Nodes(t)
      /\ \A base : Smmus(r, base) = Smmus(t, base) /\ Smmu(r, base) = Smmu(t, base)
  BY <1>1, KeptGroups
<1>3. HttuDone(t) => HttuDone(r)
  BY <1>1, <1>2 DEF HttuDone, HttuCapable, RoundMade, Kept, SameUse
<1>4. MsiDone(r, b)
  BY <1>2 DEF MsiDone, RoundMade
<1>5. ASSUME NEW i \in 1..2, MsiDone(t, i)
      PROVE  MsiDone(r, i)
  <2> DEFINE s == Smmu(t, Bases[i])
  <2>1. /\ s \in Nodes(t) /\ MsiCapable(t, s)
        /\ Smmus(r, Bases[i]) # {} /\ Smmu(r, Bases[i]) = s
    BY <1>2, <1>5, SmmuFound DEF MsiDone
  <2> HIDE DEF s
  <2>2. MsiCapable(r, s)
    <3>1. CASE s = k
      BY <3>1 DEF RoundMade
    <3>2. CASE s # k
      BY <1>1, <2>1, <3>2, CapableKept DEF RoundMade, SameUse
    <3> QED BY <3>1, <3>2
  <2> QED BY <2>1, <2>2 DEF MsiDone
<1> QED BY <1>3, <1>4, <1>5

\* What was done already is not done again.
LEMMA HttuSettles ==
  ASSUME NEW t \in Table, HttuDone(t)
  PROVE  WithHttu(t) = t
<1> DEFINE N == [k \in Nodes(t) |->
                   IF t.nodes[k].type = "smmu"
                   THEN [t.nodes[k] EXCEPT !.flags = HttuFlags(t.nodes[k].flags)]
                   ELSE t.nodes[k]]
<1>1. WithHttu(t) = [t EXCEPT !.nodes = N]
  BY DEF WithHttu, HttuFlags
<1>2. \A n \in Node : [n EXCEPT !.flags = n.flags] = n
  BY DEF Node
<1>3. ASSUME NEW k \in Nodes(t)
      PROVE  N[k] = t.nodes[k]
  <2>1. t.nodes[k] \in Node
    BY TableTypes
  <2>2. t.nodes[k].type = "smmu" => HttuFlags(t.nodes[k].flags) = t.nodes[k].flags
    BY DEF HttuDone, HttuCapable, HttuFlags
  <2> QED BY <1>2, <2>1, <2>2
<1>4. t.nodes \in Seq(Node) /\ t.nodes = [k \in Nodes(t) |-> t.nodes[k]]
  BY TableTypes DEF Nodes
<1>5. N = t.nodes
  BY <1>3, <1>4
<1> HIDE DEF N
<1> QED BY <1>1, <1>5 DEF Table

LEMMA RoundSettles ==
  ASSUME NEW t \in Table, NEW k \in Nodes(t), MsiCapable(t, k), NEW its
  PROVE  EnabledIn(t, k, its) = t
<1> DEFINE n == t.nodes[k]
<1>1. n \in Node /\ n.idx < NumMaps(t, k) /\ NumMaps(t, k) \in Nat
  BY TableTypes, NodeTypes DEF MsiCapable, IdMappingOk
<1>2. NumMaps(t, k) # 0
  <2>1. n.idx \in Nat
    BY <1>1 DEF Node
  <2> HIDE DEF n
  <2> QED BY <1>1, <2>1
<1>3. ServedIn(t, k, its) = t
  BY <1>2 DEF ServedIn, ProvidedIn, MsiCapable
<1>4. EnabledNode(n) = n
  <2>1. Max2(n.rev, 5) = n.rev /\ n.flags \cup {"deviceid"} = n.flags
    BY <1>1 DEF MsiCapable, Max2, Node
  <2>2. EnabledNode(n) = [n EXCEPT !.rev = n.rev, !.flags = n.flags]
    BY <2>1 DEF EnabledNode
  <2> QED BY <1>1, <2>2 DEF Node
<1>5. EnabledIn(t, k, its) = [t EXCEPT !.nodes[k] = t.nodes[k]]
  BY <1>3, <1>4 DEF EnabledIn
<1> QED BY <1>5, TableTypes DEF Table

-----------------------------------------------------------------------------
(* The second invariant: what has been asked for so far, and what was there *)

Running == pc \notin {"idle", "refused"}

AllNamed == (Running => Named(data)) /\ \A w \in written : Named(w.table)

\* The place read before the loop is the ITS group's until the loop ends.
Fresh == pc \in {"smmu1", "smmu2"} =>
           \E g \in Nodes(data) : ItsGroups(data) = {g} /\ At(data, g) = its_ref

SinceInput == Kept(input, data) /\ AddedNameIts(input, data)

AllAsAsked == \A w \in written : AsAsked(w.table, w.options)

\* What the runs before have done is still so.
DoneBefore ==
  /\ AsAsked(input, had) /\ (Running => AsAsked(data, had))
  /\ AllAsAsked

\* What this run has done by now.
DoneByNow ==
  /\ pc \in {"find", "smmu1", "smmu2", "found"} => "msi" \in options
  /\ Running /\ pc # "httu" /\ "httu" \in options => HttuDone(data)
  /\ pc \in {"smmu2", "found"} => Bases[1] \in missing \/ MsiDone(data, 1)
  /\ pc = "found" => Bases[2] \in missing \/ MsiDone(data, 2)
  /\ pc = "finish" /\ "msi" \in options => MsiDone(data, 1) /\ MsiDone(data, 2)

Settled ==
  /\ pc = "httu" \/ options \subseteq had => ~changed
  /\ ~changed => data = input

\* A table that can be upgraded stays one to the end.
StillReady ==
  Running => /\ HeaderValid(input) /\ data.revision = input.revision
             /\ Ready(input) => Ready(data) /\ missing = {}

JInv ==
  /\ AllNamed /\ Fresh /\ SinceInput /\ DoneBefore /\ DoneByNow /\ Settled /\ StillReady
  /\ ServesFirmware

LEMMA JInit == Init => JInv
<1> SUFFICES ASSUME Init
             PROVE  JInv
  OBVIOUS
<1>1. NoTable \in Table
  BY IortAssumption DEF NoTable, Table
<1>2. SinceInput
  BY <1>1, KeptReflexive DEF Init, SinceInput
<1>3. DoneBefore
  BY DEF Init, DoneBefore, AsAsked, AllAsAsked, Running
<1> QED BY <1>2, <1>3 DEF Init, JInv, AllNamed, Fresh, DoneByNow, Settled, StillReady,
                          ServesFirmware, Running

LEMMA ReadJ ==
  ASSUME IInv, JInv, NEW t \in Table, HeaderValid(t) => Named(t), NEW o, NEW h,
         AsAsked(t, h), Read(t, o, h)
  PROVE  JInv'
<1>0. /\ input' = t /\ had' = h /\ data' = t /\ options' = o /\ changed' = FALSE
      /\ missing' = {} /\ written' = written
      /\ pc' = IF HeaderValid(t) THEN "httu" ELSE "refused"
  BY DEF Read
<1>1. AllNamed'
  BY <1>0 DEF JInv, AllNamed, Running
<1>2. SinceInput'
  BY <1>0, KeptReflexive DEF SinceInput
<1>3. DoneBefore'
  BY <1>0 DEF JInv, DoneBefore, AllAsAsked
<1>4. Fresh' /\ DoneByNow' /\ Settled'
  BY <1>0 DEF Fresh, DoneByNow, Settled, Running
<1>5. StillReady'
  BY <1>0 DEF StillReady, Running
<1>6. ServesFirmware'
  BY <1>0 DEF ServesFirmware, Upgradable
<1> QED BY <1>1, <1>2, <1>3, <1>4, <1>5, <1>6 DEF JInv

LEMMA StartJ == IInv /\ JInv /\ Start => JInv'
<1> SUFFICES ASSUME IInv, JInv, Start
             PROVE  JInv'
  OBVIOUS
<1>1. PICK o : Read(firmware, o, {}) \/ \E w \in written : Read(w.table, o, w.options)
  BY DEF Start
<1>2. CASE Read(firmware, o, {})
  <2>1. firmware \in Table /\ (HeaderValid(firmware) => Named(firmware))
    BY NamedAssumption DEF IInv, TypeOK
  <2>2. AsAsked(firmware, {})
    BY DEF AsAsked
  <2> QED BY <1>2, <2>1, <2>2, ReadJ
<1>3. CASE \E w \in written : Read(w.table, o, w.options)
  <2>1. PICK w \in written : Read(w.table, o, w.options)
    BY <1>3
  <2>2. w.table \in Table /\ Named(w.table) /\ AsAsked(w.table, w.options)
    BY DEF IInv, TypeOK, JInv, AllNamed, DoneBefore, AllAsAsked
  <2> QED BY <2>1, <2>2, ReadJ
<1> QED BY <1>1, <1>2, <1>3

\* A refusal is right if the table could not be upgraded or has what was asked.
LEMMA RefuseJ ==
  ASSUME JInv, Refuse, ~Upgradable(input) \/ AsAsked(input, options)
  PROVE  JInv'
<1>0. /\ pc' = "refused"
      /\ UNCHANGED <<data, options, changed, its_ref, missing, written, input, had>>
  BY DEF Refuse, history
<1>1. AllNamed' /\ SinceInput' /\ DoneBefore' /\ Settled'
  BY <1>0 DEF JInv, AllNamed, SinceInput, DoneBefore, AllAsAsked, Settled, Running
<1>2. Fresh' /\ DoneByNow' /\ StillReady' /\ ServesFirmware'
  BY <1>0 DEF Fresh, DoneByNow, StillReady, ServesFirmware, Running
<1> QED BY <1>1, <1>2 DEF JInv

LEMMA RefusalsJ ==
  ASSUME IInv, JInv,
         NoSingleIts \/ SomeMissing \/ Unchanged \/ RevisionFull
  PROVE  JInv'
<1>0. data \in Table /\ input \in Table
  BY DEF IInv, TypeOK
<1>1. CASE NoSingleIts
  <2>1. Running /\ Refuse /\ ~Ready(data)
    BY <1>1 DEF NoSingleIts, Running, Ready
  <2>2. ~Upgradable(input)
    BY <1>0, <2>1, UpgradableReady DEF JInv, StillReady
  <2> QED BY <2>1, <2>2, RefuseJ
<1>2. CASE SomeMissing
  <2>1. Running /\ Refuse /\ missing # {}
    BY <1>2 DEF SomeMissing, Running
  <2>2. ~Upgradable(input)
    BY <1>0, <2>1, UpgradableReady DEF JInv, StillReady
  <2> QED BY <2>1, <2>2, RefuseJ
<1>3. CASE Unchanged
  <2>1. pc = "finish" /\ Running /\ Refuse /\ data = input
    BY <1>3 DEF Unchanged, Running, JInv, Settled
  <2>2. AsAsked(data, options)
    <3>1. \A i \in 1..2 : i = 1 \/ i = 2
      OBVIOUS
    <3> QED BY <2>1, <3>1, AsAskedParts DEF JInv, DoneByNow
  <2> QED BY <2>1, <2>2, RefuseJ
<1>4. CASE RevisionFull
  <2>1. Running /\ Refuse /\ data.revision = MaxRevision
    BY <1>4 DEF RevisionFull, Running
  <2>2. ~Upgradable(input)
    BY <1>0, <2>1, UpgradableReady, IortAssumption DEF JInv, StillReady
  <2> QED BY <2>1, <2>2, RefuseJ
<1> QED BY <1>1, <1>2, <1>3, <1>4

LEMMA HttuJ ==
  ASSUME IInv, JInv, Httu
  PROVE  JInv'
<1> DEFINE r == WithHttu(data)
<1>0. /\ data \in Table /\ input \in Table /\ pc = "httu" /\ Running /\ Tiled(data)
      /\ pc' = IF "msi" \in options THEN "find" ELSE "finish"
      /\ UNCHANGED <<options, its_ref, missing, written, input, had>>
  BY DEF IInv, TypeOK, Tiles, Httu, Running, history
<1>1. /\ Redressed(data, r) /\ r.revision = data.revision /\ HttuDone(r)
      /\ \A i \in 1..2 : MsiDone(data, i) => MsiDone(r, i)
  BY <1>0, HttuRedressed, HttuDoes
<1>2. /\ "httu" \in options => data' = r /\ changed' = (data' # data)
      /\ "httu" \notin options => data' = data /\ changed' = changed
  BY DEF Httu
<1>3. data = r => data' = data
  BY <1>2
<1>4. HttuDone(data) => r = data
  BY <1>0, HttuSettles
<1>5. /\ r \in Table /\ Kept(data, r) /\ AddedNameIts(data, r) /\ (Named(data) => Named(r))
  BY <1>0, <1>1, RedressedKept
<1>6. Ready(data) => Ready(r)
  BY <1>0, <1>1, RedressedReady
<1> HIDE DEF r
<1>7. AllNamed'
  BY <1>0, <1>2, <1>5 DEF JInv, AllNamed, Running
<1>8. SinceInput'
  BY <1>0, <1>2, <1>5, KeptTransitive DEF JInv, SinceInput
<1>9. DoneBefore'
  <2>1. AsAsked(data, had) => AsAsked(r, had)
    BY <1>1, AsAskedParts
  <2> QED BY <1>0, <1>2, <2>1 DEF JInv, DoneBefore, AllAsAsked, Running
<1>10. DoneByNow'
  <2>1. "msi" \in options => pc' = "find"
    BY <1>0
  <2>2. "httu" \in options => HttuDone(data')
    BY <1>1, <1>2
  <2> QED BY <1>0, <2>1, <2>2 DEF DoneByNow, Running
<1>11. Settled'
  <2>2. ASSUME options \subseteq had, "httu" \in options
        PROVE  r = data
    BY <1>0, <1>4, <2>2, AsAskedParts DEF JInv, DoneBefore
  <2>3. CASE "httu" \in options
    <3>1. data = input
      BY <1>0 DEF JInv, Settled
    <3> QED BY <1>0, <1>2, <2>2, <2>3, <3>1 DEF JInv, Settled
  <2>4. CASE "httu" \notin options
    BY <1>0, <1>2, <2>4 DEF JInv, Settled
  <2> QED BY <2>3, <2>4
<1>12. StillReady'
  BY <1>0, <1>1, <1>2, <1>6 DEF JInv, StillReady, Running
<1>13. Fresh' /\ ServesFirmware'
  BY <1>0 DEF Fresh, ServesFirmware
<1> QED BY <1>7, <1>8, <1>9, <1>10, <1>11, <1>12, <1>13 DEF JInv

LEMMA FindItsJ ==
  ASSUME IInv, JInv, FindIts
  PROVE  JInv'
<1>0. /\ pc = "find" /\ pc' = "smmu1"
      /\ UNCHANGED <<data, options, changed, missing, written, input, had>>
      /\ \E g \in Nodes(data) : ItsGroups(data) = {g} /\ its_ref' = At(data, g)
  BY DEF FindIts, history, At
<1>1. Fresh'
  BY <1>0 DEF Fresh
<1>2. AllNamed' /\ SinceInput' /\ DoneBefore' /\ Settled' /\ StillReady'
  BY <1>0 DEF JInv, AllNamed, SinceInput, DoneBefore, AllAsAsked, Settled, StillReady, Running
<1>3. DoneByNow' /\ ServesFirmware'
  BY <1>0 DEF JInv, DoneByNow, ServesFirmware, Running
<1> QED BY <1>1, <1>2, <1>3 DEF JInv

\* In the loop, where the ITS group is known.
LEMMA InLoop ==
  ASSUME IInv, JInv, NEW i \in 1..2, Round(i)
  PROVE  /\ data \in Table /\ input \in Table /\ Tiled(data) /\ Named(data) /\ Running
         /\ pc \in {"smmu1", "smmu2"} /\ pc # "httu" /\ "msi" \in options
         /\ i = 1 => pc = "smmu1"
         /\ i = 2 => pc = "smmu2"
         /\ \E g \in Nodes(data) : ItsGroups(data) = {g} /\ its_ref = At(data, g)
<1>1. /\ pc \in {"smmu1", "smmu2"} /\ (i = 1 => pc = "smmu1") /\ (i = 2 => pc = "smmu2")
  BY DEF Round
<1> QED BY <1>1 DEF IInv, TypeOK, Tiles, JInv, AllNamed, Fresh, DoneByNow, Running

LEMMA EnableJ ==
  ASSUME IInv, JInv, NEW i \in 1..2, EnableSmmu(i)
  PROVE  JInv'
<1> DEFINE k == Smmu(data, Bases[i])
<1>0. /\ Round(i) /\ Smmus(data, Bases[i]) # {} /\ Possible(i)
      /\ data' = SmmuEnabled(i) /\ changed' = (changed \/ data' # data)
      /\ pc' = IF i = 1 THEN "smmu2" ELSE "found"
      /\ UNCHANGED <<options, its_ref, missing, written, input, had>>
  BY DEF EnableSmmu, Onwards, history
<1>1. /\ data \in Table /\ input \in Table /\ Tiled(data) /\ Named(data) /\ Running
      /\ pc \in {"smmu1", "smmu2"} /\ pc # "httu" /\ "msi" \in options
      /\ i = 1 => pc = "smmu1"
      /\ i = 2 => pc = "smmu2"
  BY <1>0, InLoop
<1>2. PICK g \in Nodes(data) : ItsGroups(data) = {g} /\ its_ref = At(data, g)
  BY <1>0, InLoop
<1>3. k \in Nodes(data)
  BY <1>0, <1>1, SmmuFound
<1>4. /\ data' = EnabledIn(data, k, its_ref)
      /\ IdMappingOk(ProvidedIn(data, k, its_ref), k)
      /\ HasDownstream(ServedIn(data, k, its_ref), k, its_ref)
  BY <1>0, RoundIn DEF Possible
<1> HIDE DEF k
<1>5. RoundMade(data, k, g, data')
  BY <1>1, <1>2, <1>3, <1>4, RoundMakes
<1>6. /\ HttuDone(data) => HttuDone(data')
      /\ MsiDone(data', i)
      /\ \A b \in 1..2 : MsiDone(data, b) => MsiDone(data', b)
  BY <1>0, <1>1, <1>5, RoundDoes DEF k
<1>7. i = 1 \/ i = 2
  OBVIOUS
<1>8. AllNamed'
  BY <1>0, <1>5 DEF JInv, AllNamed, RoundMade
<1>9. Fresh'
  <2>1. g \in Nodes(data') /\ ItsGroups(data') = {g} /\ At(data', g) = its_ref'
    BY <1>0, <1>1, <1>2, <1>5, KeptGroups DEF RoundMade
  <2> QED BY <2>1 DEF Fresh
<1>10. SinceInput'
  BY <1>0, <1>1, <1>5, KeptTransitive DEF JInv, SinceInput, RoundMade
<1>11. DoneBefore'
  <2>1. AsAsked(data, had) => AsAsked(data', had)
    BY <1>6, AsAskedParts
  <2> QED BY <1>0, <1>1, <2>1 DEF JInv, DoneBefore, AllAsAsked
<1>12. DoneByNow'
  <2>1. CASE i = 1
    <3>1. pc' = "smmu2" /\ MsiDone(data', 1)
      BY <1>0, <1>6, <2>1
    <3> QED BY <1>0, <1>1, <1>6, <3>1 DEF JInv, DoneByNow, Running
  <2>2. CASE i = 2
    <3>1. pc = "smmu2" /\ pc' = "found" /\ MsiDone(data', 2) /\ (MsiDone(data, 1) => MsiDone(data', 1))
      BY <1>0, <1>1, <1>6, <2>2
    <3> QED BY <1>0, <1>1, <1>6, <3>1 DEF JInv, DoneByNow, Running
  <2> QED BY <1>7, <2>1, <2>2
<1>13. Settled'
  <2>1. ASSUME options \subseteq had
        PROVE  data' = data
    <3>1. MsiDone(data, i)
      BY <1>1, <2>1, AsAskedParts DEF JInv, DoneBefore
    <3>2. MsiCapable(data, k)
      BY <3>1 DEF MsiDone, k
    <3> QED BY <1>1, <1>3, <1>4, <3>2, RoundSettles
  <2>2. pc' # "httu"
    BY <1>0
  <2> QED BY <1>0, <2>1, <2>2 DEF JInv, Settled
<1>14. StillReady'
  <2>1. Ready(data) => Ready(data')
    BY <1>1, <1>2, <1>3, <1>5, RoundReady
  <2> QED BY <1>0, <1>1, <1>5, <2>1 DEF JInv, StillReady, RoundMade
<1>15. ServesFirmware'
  BY <1>0 DEF ServesFirmware
<1> QED BY <1>8, <1>9, <1>10, <1>11, <1>12, <1>13, <1>14, <1>15 DEF JInv

LEMMA RefuseSmmuJ ==
  ASSUME IInv, JInv, NEW i \in 1..2, RefuseSmmu(i)
  PROVE  JInv'
<1> DEFINE k == Smmu(data, Bases[i])
<1>1. Round(i) /\ Smmus(data, Bases[i]) # {} /\ ~Possible(i) /\ Refuse
  BY DEF RefuseSmmu
<1>2. data \in Table /\ input \in Table /\ Tiled(data) /\ Named(data) /\ Running
  BY <1>1, InLoop
<1>3. PICK g \in Nodes(data) : ItsGroups(data) = {g} /\ its_ref = At(data, g)
  BY <1>1, InLoop
<1>4. ASSUME Ready(data)
      PROVE  FALSE
  <2>1. k \in Nodes(data) /\ ReadyNode(data, k, g)
    BY <1>1, <1>2, <1>3, <1>4, SmmuFound DEF Ready
  <2>2. Provided(i) = ProvidedIn(data, k, its_ref) /\ Served(i) = ServedIn(data, k, its_ref)
    BY RoundIn
  <2>3. ~(IdMappingOk(Provided(i), k) /\ HasDownstream(Served(i), k, its_ref))
    BY <1>1 DEF Possible
  <2> HIDE DEF k
  <2> QED BY <1>2, <1>3, <2>1, <2>2, <2>3, ReadyPossible
<1>5. ~Upgradable(input)
  BY <1>2, <1>4, UpgradableReady DEF JInv, StillReady
<1> QED BY <1>1, <1>5, RefuseJ

LEMMA SkipSmmuJ ==
  ASSUME IInv, JInv, NEW i \in 1..2, SkipSmmu(i)
  PROVE  JInv'
<1>0. /\ Round(i) /\ Smmus(data, Bases[i]) = {} /\ missing' = missing \cup {Bases[i]}
      /\ pc' = IF i = 1 THEN "smmu2" ELSE "found"
      /\ UNCHANGED <<data, options, changed, its_ref, written, input, had>>
  BY DEF SkipSmmu, Onwards, history
<1>1. /\ Running /\ pc \in {"smmu1", "smmu2"} /\ pc # "httu" /\ "msi" \in options
      /\ i = 1 => pc = "smmu1"
      /\ i = 2 => pc = "smmu2"
  BY <1>0, InLoop
<1>2. ~Ready(data)
  BY <1>0 DEF Ready
<1>3. AllNamed' /\ SinceInput' /\ DoneBefore' /\ Settled' /\ StillReady'
  BY <1>0, <1>1, <1>2 DEF JInv, AllNamed, SinceInput, DoneBefore, AllAsAsked, Settled,
                          StillReady, Running
<1>4. Fresh' /\ ServesFirmware'
  BY <1>0, <1>1 DEF JInv, Fresh, ServesFirmware
<1>5. DoneByNow'
  <2>1. CASE i = 1
    BY <1>0, <1>1, <2>1 DEF JInv, DoneByNow, Running
  <2>2. CASE i = 2
    BY <1>0, <1>1, <2>2 DEF JInv, DoneByNow, Running
  <2> QED BY <2>1, <2>2
<1> QED BY <1>3, <1>4, <1>5 DEF JInv

LEMMA AllFoundJ ==
  ASSUME IInv, JInv, AllFound
  PROVE  JInv'
<1>0. /\ pc = "found" /\ missing = {} /\ pc' = "finish"
      /\ UNCHANGED <<data, options, changed, its_ref, missing, written, input, had>>
  BY DEF AllFound, history
<1>1. AllNamed' /\ SinceInput' /\ DoneBefore' /\ Settled' /\ StillReady'
  BY <1>0 DEF JInv, AllNamed, SinceInput, DoneBefore, AllAsAsked, Settled,
              StillReady, Running
<1>2. Fresh' /\ ServesFirmware' /\ DoneByNow'
  BY <1>0 DEF JInv, Fresh, ServesFirmware, DoneByNow, Running
<1> QED BY <1>1, <1>2 DEF JInv

LEMMA WriteJ ==
  ASSUME IInv, JInv, Write
  PROVE  JInv'
<1>0. /\ pc = "finish" /\ changed /\ data.revision < MaxRevision
      /\ data' = [data EXCEPT !.revision = @ + 1, !.sum = TRUE]
      /\ written' = written \cup {[table |-> data', options |-> options \cup had]}
      /\ pc' = "idle" /\ UNCHANGED <<options, changed, its_ref, missing, input, had>>
  BY DEF Write
<1>1. data \in Table /\ input \in Table /\ Running
  BY <1>0 DEF IInv, TypeOK, Running
<1>2. data' \in Table /\ data'.nodes = data.nodes /\ Redressed(data, data')
  <2>1. data' \in Table /\ SameLayout(data, data')
    BY <1>0, <1>1, WriteLayout
  <2>2. data'.nodes = data.nodes
    BY <1>0, <1>1 DEF Table
  <2> QED BY <2>1, <2>2 DEF Redressed, SameLayout
<1>3. Kept(data, data') /\ AddedNameIts(data, data') /\ (Named(data) => Named(data'))
  BY <1>1, <1>2, RedressedKept
<1>4. \A o : AsAsked(data, o) => AsAsked(data', o)
  <2>1. /\ Nodes(data') = Nodes(data) /\ ItsGroups(data') = ItsGroups(data)
        /\ \A base : Smmus(data', base) = Smmus(data, base) /\ Smmu(data', base) = Smmu(data, base)
    BY <1>1, <1>2, <1>3, KeptGroups
  <2>2. \A m : NamesIts(data', m) = NamesIts(data, m)
    BY <1>2, <2>1 DEF NamesIts
  <2>3. \A k : IdMappingOk(data', k) = IdMappingOk(data, k)
    BY <1>2, <2>2 DEF IdMappingOk, NumMaps, MapAt, Size
  <2>4. \A k : MsiCapable(data', k) = MsiCapable(data, k)
    BY <1>2, <2>2, <2>3 DEF MsiCapable
  <2> QED BY <1>2, <2>1, <2>4 DEF AsAsked
<1>5. AllNamed'
  BY <1>0, <1>1, <1>3 DEF JInv, AllNamed, Running
<1>6. SinceInput'
  BY <1>0, <1>1, <1>2, <1>3, KeptTransitive DEF JInv, SinceInput
<1>7. DoneBefore'
  <2>1. AsAsked(data, options \cup had)
    <3>1. AsAsked(data, had)
      BY <1>1 DEF JInv, DoneBefore
    <3>2. "httu" \in options => HttuDone(data)
      BY <1>0, <1>1 DEF JInv, DoneByNow
    <3>3. "msi" \in options => \A i \in 1..2 : MsiDone(data, i)
      <4>1. \A i \in 1..2 : i = 1 \/ i = 2
        OBVIOUS
      <4> QED BY <1>0, <4>1 DEF JInv, DoneByNow
    <3> QED BY <3>1, <3>2, <3>3, AsAskedParts
  <2>2. AsAsked(data', options \cup had)
    BY <1>4, <2>1
  <2>3. AllAsAsked'
    BY <1>0, <2>2 DEF JInv, DoneBefore, AllAsAsked
  <2> QED BY <1>0, <2>3 DEF JInv, DoneBefore, Running
<1>8. Fresh' /\ DoneByNow' /\ Settled' /\ StillReady' /\ ServesFirmware'
  BY <1>0 DEF JInv, Fresh, DoneByNow, Settled, StillReady, ServesFirmware, Running
<1> QED BY <1>5, <1>6, <1>7, <1>8 DEF JInv

LEMMA NextJ == IInv /\ JInv /\ [Next]_vars => JInv'
<1> SUFFICES ASSUME IInv, JInv, [Next]_vars
             PROVE  JInv'
  OBVIOUS
<1>1. CASE Start
  BY <1>1, StartJ
<1>2. CASE Httu
  BY <1>2, HttuJ
<1>3. CASE FindIts
  BY <1>3, FindItsJ
<1>4. CASE NoSingleIts \/ SomeMissing \/ Unchanged \/ RevisionFull
  BY <1>4, RefusalsJ
<1>5. CASE \E i \in 1..2 : EnableSmmu(i) \/ RefuseSmmu(i) \/ SkipSmmu(i)
  BY <1>5, EnableJ, RefuseSmmuJ, SkipSmmuJ
<1>6. CASE AllFound
  BY <1>6, AllFoundJ
<1>7. CASE Write
  BY <1>7, WriteJ
<1>8. CASE UNCHANGED vars
  BY <1>8 DEF vars, JInv, AllNamed, Fresh, SinceInput, DoneBefore, AllAsAsked, DoneByNow,
              Settled, StillReady, ServesFirmware, Running
<1> QED BY <1>1, <1>2, <1>3, <1>4, <1>5, <1>6, <1>7, <1>8 DEF Next

LEMMA InvariantJ == Spec => [](IInv /\ JInv)
<1>1. Init => IInv /\ JInv
  BY InitInvariant, JInit
<1>2. IInv /\ JInv /\ [Next]_vars => (IInv /\ JInv)'
  BY NextInvariant, NextJ
<1> QED BY <1>1, <1>2, PTL DEF Spec

\* The ITS place read before the loop is good until its last use, and every
\* mapping that a run puts in names the ITS group.
THEOREM ItsRefStaysFresh == Spec => []ItsRefFresh
<1>1. IInv /\ JInv => ItsRefFresh
  BY DEF JInv, Fresh, SinceInput, AddedNameIts, ItsRefFresh, At
<1> QED BY <1>1, InvariantJ, PTL

\* Revisions only rise: a run begins with no less than the firmware's.
Outranks ==
  /\ Running => input.revision >= firmware.revision
  /\ \A w \in written : w.table.revision > firmware.revision

LEMMA NextOutranks == IInv /\ JInv /\ Outranks /\ [Next]_vars => Outranks'
<1> SUFFICES ASSUME IInv, JInv, Outranks, [Next]_vars
             PROVE  Outranks'
  OBVIOUS
<1>0. /\ firmware.revision \in Nat
      /\ \A w \in written : w.table.revision \in Nat
  <2>1. \A t \in Table : t.revision \in Nat
    BY IortAssumption DEF Table
  <2>2. firmware \in Table /\ \A w \in written : w.table \in Table
    BY DEF IInv, TypeOK
  <2> QED BY <2>1, <2>2
<1>1. CASE Start
  <2>1. PICK t, o, h : Read(t, o, h) /\ t.revision >= firmware.revision
    <3>1. PICK o : Read(firmware, o, {}) \/ \E w \in written : Read(w.table, o, w.options)
      BY <1>1 DEF Start
    <3>2. CASE Read(firmware, o, {})
      <4>1. firmware.revision >= firmware.revision
        BY <1>0
      <4> QED BY <3>2, <4>1
    <3>3. CASE \E w \in written : Read(w.table, o, w.options)
      <4>1. PICK w \in written : Read(w.table, o, w.options)
        BY <3>3
      <4>2. w.table.revision > firmware.revision
        BY DEF Outranks
      <4>3. w.table.revision >= firmware.revision
        BY <1>0, <4>2
      <4> QED BY <4>1, <4>3
    <3> QED BY <3>1, <3>2, <3>3
  <2>2. input' = t /\ UNCHANGED <<firmware, written>>
    BY <2>1 DEF Read
  <2> QED BY <2>1, <2>2 DEF Outranks
<1>2. CASE Write
  <2>1. /\ Running /\ pc' = "idle" /\ UNCHANGED <<firmware, input>>
        /\ data' = [data EXCEPT !.revision = @ + 1, !.sum = TRUE]
        /\ written' = written \cup {[table |-> data', options |-> options \cup had]}
    BY <1>2 DEF Write, Running
  <2>2. data \in Table
    BY DEF IInv, TypeOK
  <2>3. data'.revision = data.revision + 1 /\ data.revision \in Nat
    BY <2>1, <2>2, IortAssumption DEF Table
  <2>4. data.revision >= firmware.revision
    BY <2>1 DEF Outranks, JInv, StillReady
  <2>5. data'.revision > firmware.revision
    BY <1>0, <2>3, <2>4
  <2>6. ASSUME NEW w \in written'
        PROVE  w.table.revision > firmware.revision
    <3>1. CASE w \in written
      BY <3>1 DEF Outranks
    <3>2. CASE w = [table |-> data', options |-> options \cup had]
      <4>1. w.table = data'
        BY <3>2
      <4> QED BY <4>1, <2>5
    <3> QED BY <2>1, <3>1, <3>2
  <2> QED BY <2>1, <2>6 DEF Outranks, Running
<1>3. CASE UNCHANGED <<firmware, input, written>> /\ (Running' => Running)
  BY <1>3 DEF Outranks
<1>4. ASSUME ~Start, ~Write
      PROVE  UNCHANGED <<firmware, input, written>> /\ (Running' => Running)
  BY <1>4 DEF Next, vars, history, Running, Refuse, Httu, FindIts, NoSingleIts, EnableSmmu,
              RefuseSmmu, SkipSmmu, AllFound, SomeMissing, Unchanged, RevisionFull, Round
<1> QED BY <1>1, <1>2, <1>3, <1>4

\* A table that is written has all that was asked of the runs it went through,
\* and a revision above the firmware's.
THEOREM WrittenTablesServe == Spec => []WrittenAsAsked
<1>1. Init => Outranks
  BY DEF Init, Outranks, Running
<1>2. IInv /\ JInv /\ Outranks => WrittenAsAsked
  BY DEF JInv, DoneBefore, AllAsAsked, Outranks, WrittenAsAsked
<1> QED BY <1>1, <1>2, InvariantJ, NextOutranks, PTL DEF Spec

\* Asked again for what a table has, the builder finds nothing to change.
THEOREM SecondRunSettles == Spec => []Settles
<1>1. IInv /\ JInv => Settles
  BY DEF JInv, Settled, Settles
<1> QED BY <1>1, InvariantJ, PTL

\* A table that can be upgraded, and has not all that is asked, is not refused.
THEOREM FirmwareIsServed == Spec => []ServesFirmware
<1>1. IInv /\ JInv => ServesFirmware
  BY DEF JInv
<1> QED BY <1>1, InvariantJ, PTL

-----------------------------------------------------------------------------
(* One result: what the nodes become depends on the options alone *)

\* Two nodes with the same fields are the same.
LEMMA SameNode ==
  ASSUME NEW m \in Node, NEW n \in Node,
         m.type = n.type, m.at = n.at, m.len = n.len, m.rev = n.rev, m.base = n.base,
         m.flags = n.flags, m.idx = n.idx, m.mapAt = n.mapAt, m.maps = n.maps, m.gsiv = n.gsiv
  PROVE  m = n
BY DEF Node

HttuNode(n) == IF n.type = "smmu" THEN [n EXCEPT !.flags = HttuFlags(n.flags)] ELSE n

LEMMA HttuNodeFields ==
  ASSUME NEW n \in Node, NEW h, h = HttuNode(n)
  PROVE  /\ h \in Node
         /\ h.type = n.type /\ h.at = n.at /\ h.len = n.len /\ h.rev = n.rev /\ h.base = n.base
         /\ h.idx = n.idx /\ h.mapAt = n.mapAt /\ h.maps = n.maps /\ h.gsiv = n.gsiv
         /\ h.flags = IF n.type = "smmu" THEN HttuFlags(n.flags) ELSE n.flags
<1>1. HttuFlags(n.flags) \in SUBSET Flags
  BY DEF Node, HttuFlags, Flags
<1>2. CASE n.type = "smmu"
  BY <1>1, <1>2 DEF HttuNode, Node
<1>3. CASE n.type # "smmu"
  BY <1>3 DEF HttuNode
<1> QED BY <1>2, <1>3

\* The fields of a node that was moved.
MovedMaps(maps, place, delta) ==
  [j \in DOMAIN maps |-> [maps[j] EXCEPT !.ref = Shift(maps[j].ref, place, delta)]]
MovedGsiv(n, place, delta) ==
  IF n.type = "pmcg" THEN Shift(n.gsiv, place, delta) ELSE n.gsiv
MovedFrom(n, place, delta, m) ==
  /\ m \in Node
  /\ m.type = n.type /\ m.len = n.len /\ m.rev = n.rev /\ m.base = n.base
  /\ m.idx = n.idx /\ m.mapAt = n.mapAt /\ m.flags = n.flags
  /\ m.at = Shift(n.at, place, delta)
  /\ m.maps = MovedMaps(n.maps, place, delta) /\ m.gsiv = MovedGsiv(n, place, delta)

LEMMA MovedFields ==
  ASSUME NEW n \in Node, NEW place \in Nat, NEW delta \in Nat,
         NEW m, m = Moved(n, place, delta)
  PROVE  MovedFrom(n, place, delta, m)
<1> DEFINE M == MovedMaps(n.maps, place, delta)
           g == MovedGsiv(n, place, delta)
           a == Shift(n.at, place, delta)
<1>1. m = [n EXCEPT !.maps = M, !.gsiv = g, !.at = a]
  BY DEF Moved, Followed, Node, MovedMaps, MovedGsiv, Shift
<1>2. m \in Node
  BY MovedNode
<1> HIDE DEF M, g, a
<1>3. /\ m.type = n.type /\ m.len = n.len /\ m.rev = n.rev /\ m.base = n.base
      /\ m.idx = n.idx /\ m.mapAt = n.mapAt /\ m.flags = n.flags
      /\ m.at = a /\ m.maps = M /\ m.gsiv = g
  BY <1>1 DEF Node
<1> QED BY <1>2, <1>3 DEF MovedFrom, M, g, a

\* Dirty bits and insertions do not meet.
LEMMA HttuMoved ==
  ASSUME NEW n \in Node, NEW place \in Nat, NEW delta \in Nat
  PROVE  Moved(HttuNode(n), place, delta) = HttuNode(Moved(n, place, delta))
<1> DEFINE h == HttuNode(n)
           m == Moved(n, place, delta)
           hm == Moved(h, place, delta)
           mh == HttuNode(m)
<1>1. /\ h \in Node
      /\ h.type = n.type /\ h.at = n.at /\ h.len = n.len /\ h.rev = n.rev /\ h.base = n.base
      /\ h.idx = n.idx /\ h.mapAt = n.mapAt /\ h.maps = n.maps /\ h.gsiv = n.gsiv
      /\ h.flags = IF n.type = "smmu" THEN HttuFlags(n.flags) ELSE n.flags
  BY HttuNodeFields
<1>2. MovedFrom(n, place, delta, m)
  BY MovedFields
<1> HIDE DEF h
<1>3. MovedFrom(h, place, delta, hm)
  BY <1>1, MovedFields
<1> HIDE DEF m, hm
<1>4. m \in Node /\ hm \in Node
  BY <1>2, <1>3 DEF MovedFrom
<1>5. /\ mh \in Node
      /\ mh.type = m.type /\ mh.at = m.at /\ mh.len = m.len /\ mh.rev = m.rev /\ mh.base = m.base
      /\ mh.idx = m.idx /\ mh.mapAt = m.mapAt /\ mh.maps = m.maps /\ mh.gsiv = m.gsiv
      /\ mh.flags = IF m.type = "smmu" THEN HttuFlags(m.flags) ELSE m.flags
  BY <1>4, HttuNodeFields
<1> HIDE DEF mh
<1>6. MovedGsiv(h, place, delta) = MovedGsiv(n, place, delta)
  BY <1>1 DEF MovedGsiv
<1>7. /\ hm.type = mh.type /\ hm.at = mh.at /\ hm.len = mh.len /\ hm.rev = mh.rev
      /\ hm.base = mh.base /\ hm.flags = mh.flags /\ hm.idx = mh.idx
      /\ hm.mapAt = mh.mapAt /\ hm.maps = mh.maps /\ hm.gsiv = mh.gsiv
  BY <1>1, <1>2, <1>3, <1>5, <1>6 DEF MovedFrom
<1>8. hm = mh
  BY <1>4, <1>5, <1>7, SameNode
<1> QED BY <1>8 DEF hm, mh, h, m

LEMMA HttuGrown ==
  ASSUME NEW n \in Node, NEW delta \in Nat, NEW maps \in Seq(Mapping), NEW mapAt \in Nat
  PROVE  Grown(HttuNode(n), delta, maps, mapAt) = HttuNode(Grown(n, delta, maps, mapAt))
<1> DEFINE h == HttuNode(n)
           m == Grown(n, delta, maps, mapAt)
           hm == Grown(h, delta, maps, mapAt)
           mh == HttuNode(m)
           M == maps \o n.maps
<1>1. /\ h \in Node
      /\ h.type = n.type /\ h.at = n.at /\ h.len = n.len /\ h.rev = n.rev /\ h.base = n.base
      /\ h.idx = n.idx /\ h.mapAt = n.mapAt /\ h.maps = n.maps /\ h.gsiv = n.gsiv
      /\ h.flags = IF n.type = "smmu" THEN HttuFlags(n.flags) ELSE n.flags
  BY HttuNodeFields
<1>2. m \in Node /\ m = [n EXCEPT !.len = n.len + delta, !.maps = M, !.mapAt = mapAt, !.idx = 0]
  BY GrownNode DEF Grown
<1> HIDE DEF h
<1>3. hm \in Node /\ hm = [h EXCEPT !.len = n.len + delta, !.maps = M, !.mapAt = mapAt, !.idx = 0]
  <2>1. hm \in Node
        /\ hm = [h EXCEPT !.len = h.len + delta, !.maps = maps \o h.maps, !.mapAt = mapAt, !.idx = 0]
    BY <1>1, GrownNode DEF Grown
  <2> QED BY <1>1, <2>1
<1> HIDE DEF M, m, hm
<1>4. /\ m.type = n.type /\ m.at = n.at /\ m.len = n.len + delta /\ m.rev = n.rev /\ m.base = n.base
      /\ m.idx = 0 /\ m.mapAt = mapAt /\ m.maps = M /\ m.gsiv = n.gsiv /\ m.flags = n.flags
  BY <1>2 DEF Node
<1>5. /\ hm.type = h.type /\ hm.at = h.at /\ hm.len = n.len + delta /\ hm.rev = h.rev
      /\ hm.base = h.base /\ hm.idx = 0 /\ hm.mapAt = mapAt /\ hm.maps = M
      /\ hm.gsiv = h.gsiv /\ hm.flags = h.flags
  BY <1>1, <1>3 DEF Node
<1>6. /\ mh \in Node
      /\ mh.type = m.type /\ mh.at = m.at /\ mh.len = m.len /\ mh.rev = m.rev /\ mh.base = m.base
      /\ mh.idx = m.idx /\ mh.mapAt = m.mapAt /\ mh.maps = m.maps /\ mh.gsiv = m.gsiv
      /\ mh.flags = IF m.type = "smmu" THEN HttuFlags(m.flags) ELSE m.flags
  BY <1>2, HttuNodeFields
<1> HIDE DEF mh
<1>7. /\ hm.type = mh.type /\ hm.at = mh.at /\ hm.len = mh.len /\ hm.rev = mh.rev
      /\ hm.base = mh.base /\ hm.flags = mh.flags /\ hm.idx = mh.idx
      /\ hm.mapAt = mh.mapAt /\ hm.maps = mh.maps /\ hm.gsiv = mh.gsiv
  BY <1>1, <1>4, <1>5, <1>6
<1>8. hm = mh
  BY <1>3, <1>6, <1>7, SameNode
<1> QED BY <1>8 DEF hm, mh, h, m

LEMMA HttuEnabled ==
  ASSUME NEW n \in Node
  PROVE  EnabledNode(n) \in Node /\ EnabledNode(HttuNode(n)) = HttuNode(EnabledNode(n))
<1> DEFINE h == HttuNode(n)
           m == EnabledNode(n)
           hm == EnabledNode(h)
           mh == HttuNode(m)
<1>0. \A x \in Node : /\ EnabledNode(x) = [x EXCEPT !.rev = Max2(x.rev, 5),
                                                    !.flags = x.flags \cup {"deviceid"}]
                      /\ Max2(x.rev, 5) \in Nat /\ x.flags \cup {"deviceid"} \in SUBSET Flags
  BY DEF EnabledNode, Max2, Node, Flags
<1>a. \A x \in Node :
        LET e == EnabledNode(x)
        IN /\ e \in Node
           /\ e.type = x.type /\ e.at = x.at /\ e.len = x.len /\ e.rev = Max2(x.rev, 5)
           /\ e.base = x.base /\ e.idx = x.idx /\ e.mapAt = x.mapAt /\ e.maps = x.maps
           /\ e.gsiv = x.gsiv /\ e.flags = x.flags \cup {"deviceid"}
  <2> SUFFICES ASSUME NEW x \in Node, NEW e, e = EnabledNode(x)
               PROVE  /\ e \in Node
                      /\ e.type = x.type /\ e.at = x.at /\ e.len = x.len /\ e.rev = Max2(x.rev, 5)
                      /\ e.base = x.base /\ e.idx = x.idx /\ e.mapAt = x.mapAt /\ e.maps = x.maps
                      /\ e.gsiv = x.gsiv /\ e.flags = x.flags \cup {"deviceid"}
    OBVIOUS
  <2> DEFINE v == Max2(x.rev, 5)
             f == x.flags \cup {"deviceid"}
  <2>1. e = [x EXCEPT !.rev = v, !.flags = f] /\ v \in Nat /\ f \in SUBSET Flags
    BY <1>0
  <2> HIDE DEF v, f
  <2>2. e \in Node
    BY <2>1 DEF Node
  <2>3. /\ e.type = x.type /\ e.at = x.at /\ e.len = x.len /\ e.rev = v
        /\ e.base = x.base /\ e.idx = x.idx /\ e.mapAt = x.mapAt /\ e.maps = x.maps
        /\ e.gsiv = x.gsiv /\ e.flags = f
    BY <2>1 DEF Node
  <2> QED BY <2>2, <2>3 DEF v, f
<1>1. /\ h \in Node
      /\ h.type = n.type /\ h.at = n.at /\ h.len = n.len /\ h.rev = n.rev /\ h.base = n.base
      /\ h.idx = n.idx /\ h.mapAt = n.mapAt /\ h.maps = n.maps /\ h.gsiv = n.gsiv
      /\ h.flags = IF n.type = "smmu" THEN HttuFlags(n.flags) ELSE n.flags
  BY HttuNodeFields
<1>2. /\ m \in Node
      /\ m.type = n.type /\ m.at = n.at /\ m.len = n.len /\ m.rev = Max2(n.rev, 5)
      /\ m.base = n.base /\ m.idx = n.idx /\ m.mapAt = n.mapAt /\ m.maps = n.maps
      /\ m.gsiv = n.gsiv /\ m.flags = n.flags \cup {"deviceid"}
  BY <1>a
<1> HIDE DEF h
<1>3. /\ hm \in Node
      /\ hm.type = h.type /\ hm.at = h.at /\ hm.len = h.len /\ hm.rev = Max2(h.rev, 5)
      /\ hm.base = h.base /\ hm.idx = h.idx /\ hm.mapAt = h.mapAt /\ hm.maps = h.maps
      /\ hm.gsiv = h.gsiv /\ hm.flags = h.flags \cup {"deviceid"}
  BY <1>a, <1>1
<1> HIDE DEF m, hm
<1>4. /\ mh \in Node
      /\ mh.type = m.type /\ mh.at = m.at /\ mh.len = m.len /\ mh.rev = m.rev /\ mh.base = m.base
      /\ mh.idx = m.idx /\ mh.mapAt = m.mapAt /\ mh.maps = m.maps /\ mh.gsiv = m.gsiv
      /\ mh.flags = IF m.type = "smmu" THEN HttuFlags(m.flags) ELSE m.flags
  BY <1>2, HttuNodeFields
<1> HIDE DEF mh
<1>5. \A f : HttuFlags(f \cup {"deviceid"}) = HttuFlags(f) \cup {"deviceid"}
  BY DEF HttuFlags
<1>6. hm.flags = mh.flags
  BY <1>1, <1>2, <1>3, <1>4, <1>5
<1>7. hm = mh
  BY <1>1, <1>2, <1>3, <1>4, <1>6, SameNode
<1> QED BY <1>2, <1>7 DEF hm, mh, h, m

\* u has the nodes of t, with dirty bits if b.
Dressed(b, n) == IF b THEN HttuNode(n) ELSE n
Alike(t, u, b) ==
  /\ t \in Table /\ u \in Table /\ Nodes(u) = Nodes(t)
  /\ \A i \in Nodes(t) : u.nodes[i] = Dressed(b, t.nodes[i])

LEMMA DressedFields ==
  ASSUME NEW b \in BOOLEAN, NEW n \in Node, NEW h, h = Dressed(b, n)
  PROVE  /\ h \in Node
         /\ h.type = n.type /\ h.at = n.at /\ h.len = n.len /\ h.base = n.base
         /\ h.idx = n.idx /\ h.mapAt = n.mapAt /\ h.maps = n.maps
BY HttuNodeFields DEF Dressed

LEMMA AlikeFields ==
  ASSUME NEW b \in BOOLEAN, NEW t, NEW u, Alike(t, u, b)
  PROVE  /\ \A i \in Nodes(t) :
              /\ t.nodes[i] \in Node
              /\ u.nodes[i].type = t.nodes[i].type /\ u.nodes[i].base = t.nodes[i].base
              /\ u.nodes[i].idx = t.nodes[i].idx /\ u.nodes[i].maps = t.nodes[i].maps
              /\ At(u, i) = At(t, i) /\ Size(u, i) = Size(t, i) /\ End(u, i) = End(t, i)
              /\ MapAt(u, i) = MapAt(t, i) /\ NumMaps(u, i) = NumMaps(t, i)
              /\ IdMapping(u.nodes[i]) = IdMapping(t.nodes[i])
         /\ ItsGroups(u) = ItsGroups(t)
         /\ \A base : Smmus(u, base) = Smmus(t, base) /\ Smmu(u, base) = Smmu(t, base)
<1>1. ASSUME NEW i \in Nodes(t)
      PROVE  /\ t.nodes[i] \in Node
             /\ u.nodes[i].type = t.nodes[i].type /\ u.nodes[i].base = t.nodes[i].base
             /\ u.nodes[i].idx = t.nodes[i].idx /\ u.nodes[i].maps = t.nodes[i].maps
             /\ u.nodes[i].at = t.nodes[i].at /\ u.nodes[i].len = t.nodes[i].len
             /\ u.nodes[i].mapAt = t.nodes[i].mapAt
  BY TableTypes, DressedFields DEF Alike
<1>2. ASSUME NEW i \in Nodes(t)
      PROVE  /\ At(u, i) = At(t, i) /\ Size(u, i) = Size(t, i) /\ End(u, i) = End(t, i)
             /\ MapAt(u, i) = MapAt(t, i) /\ NumMaps(u, i) = NumMaps(t, i)
             /\ IdMapping(u.nodes[i]) = IdMapping(t.nodes[i])
  BY <1>1 DEF At, Size, End, MapAt, NumMaps, IdMapping
<1>3. ItsGroups(u) = ItsGroups(t) /\ \A base : Smmus(u, base) = Smmus(t, base)
  BY <1>1 DEF Alike, ItsGroups, Smmus
<1> QED BY <1>1, <1>2, <1>3 DEF Smmu

LEMMA AlikeInsert ==
  ASSUME NEW b \in BOOLEAN, NEW t, NEW u, Alike(t, u, b),
         NEW k \in Nodes(t), NEW place \in Nat, NEW maps \in Seq(Mapping), NEW mapAt \in Nat
  PROVE  Alike(InsertMappings(t, k, place, maps, mapAt), InsertMappings(u, k, place, maps, mapAt), b)
<1> DEFINE d == Len(maps) * MappingLen
           r == InsertMappings(t, k, place, maps, mapAt)
           s == InsertMappings(u, k, place, maps, mapAt)
<1>1. d \in Nat
  BY DEF MappingLen
<1>2. t \in Table /\ u \in Table /\ Nodes(u) = Nodes(t) /\ k \in Nodes(u)
      /\ \A i \in Nodes(t) : t.nodes[i] \in Node /\ u.nodes[i] = Dressed(b, t.nodes[i])
  BY TableTypes DEF Alike
<1>3. /\ r \in Table /\ s \in Table
      /\ Nodes(r) = Nodes(t) /\ Nodes(s) = Nodes(t)
  BY <1>2, InsertKept, KeptGroups
<1>4. ASSUME NEW i \in Nodes(t)
      PROVE  /\ r.nodes[i] = IF i = k THEN Grown(Moved(t.nodes[i], place, d), d, maps, mapAt)
                             ELSE Moved(t.nodes[i], place, d)
             /\ s.nodes[i] = IF i = k THEN Grown(Moved(u.nodes[i], place, d), d, maps, mapAt)
                             ELSE Moved(u.nodes[i], place, d)
  BY <1>2 DEF InsertMappings, Table
<1> HIDE DEF r, s, d
<1>5. ASSUME NEW n \in Node
      PROVE  /\ Moved(n, place, d) \in Node
             /\ Moved(Dressed(b, n), place, d) = Dressed(b, Moved(n, place, d))
             /\ Grown(Dressed(b, n), d, maps, mapAt) = Dressed(b, Grown(n, d, maps, mapAt))
  <2>1. Moved(n, place, d) \in Node
    BY <1>1, MovedNode
  <2>2. Moved(HttuNode(n), place, d) = HttuNode(Moved(n, place, d))
    BY <1>1, HttuMoved
  <2>3. Grown(HttuNode(n), d, maps, mapAt) = HttuNode(Grown(n, d, maps, mapAt))
    BY <1>1, HttuGrown
  <2> QED BY <2>1, <2>2, <2>3 DEF Dressed
<1>6. ASSUME NEW i \in Nodes(t)
      PROVE  s.nodes[i] = Dressed(b, r.nodes[i])
  <2>1. t.nodes[i] \in Node /\ u.nodes[i] = Dressed(b, t.nodes[i])
    BY <1>2
  <2> DEFINE n == t.nodes[i]
             m == Moved(n, place, d)
  <2>2. m \in Node /\ Moved(u.nodes[i], place, d) = Dressed(b, m)
    BY <1>5, <2>1
  <2> HIDE DEF m
  <2>3. Grown(Dressed(b, m), d, maps, mapAt) = Dressed(b, Grown(m, d, maps, mapAt))
    BY <1>5, <2>2
  <2>4. CASE i = k
    BY <1>4, <2>2, <2>3, <2>4 DEF m
  <2>5. CASE i # k
    BY <1>4, <2>2, <2>5 DEF m
  <2> QED BY <2>4, <2>5
<1>7. Alike(r, s, b)
  BY <1>3, <1>6 DEF Alike
<1> QED BY <1>7 DEF r, s

\* The steps of a round, for any place of the ITS group.
LEMMA AlikeBoth ==
  ASSUME NEW b \in BOOLEAN, NEW t, NEW u, Alike(t, u, b), NEW k \in Nodes(t), NEW its \in Nat
  PROVE  Alike(WithBoth(t, k, its), WithBoth(u, k, its), b)
<1> DEFINE place == End(t, k)
           ref == Shift(its, place, 2 * MappingLen)
           maps == <<[ref |-> ref, single |-> TRUE, whole |-> FALSE],
                     [ref |-> ref, single |-> FALSE, whole |-> TRUE]>>
<1>1. t \in Table /\ End(u, k) = End(t, k) /\ Size(u, k) = Size(t, k)
  BY AlikeFields DEF Alike
<1>2. At(t, k) \in Nat /\ Size(t, k) \in Nat
  BY <1>1, NodeTypes
<1>3. place \in Nat
  BY <1>2 DEF End
<1>4. maps \in Seq(Mapping)
  <2>1. ref \in Nat
    BY <1>3 DEF Shift, MappingLen
  <2> HIDE DEF ref
  <2> QED BY <2>1 DEF Mapping
<1>5. /\ WithBoth(t, k, its) = InsertMappings(t, k, place, maps, Size(t, k))
      /\ WithBoth(u, k, its) = InsertMappings(u, k, place, maps, Size(t, k))
  BY <1>1 DEF WithBoth
<1> HIDE DEF maps, place
<1> QED BY <1>2, <1>3, <1>4, <1>5, AlikeInsert

LEMMA AlikeSingle ==
  ASSUME NEW b \in BOOLEAN, NEW t, NEW u, Alike(t, u, b), NEW k \in Nodes(t), NEW its \in Nat
  PROVE  Alike(WithSingle(t, k, its), WithSingle(u, k, its), b)
<1> DEFINE place == At(t, k) + MapAt(t, k)
           ref == Shift(its, place, MappingLen)
           maps == <<[ref |-> ref, single |-> TRUE, whole |-> FALSE]>>
<1>1. t \in Table /\ At(u, k) = At(t, k) /\ MapAt(u, k) = MapAt(t, k)
  BY AlikeFields DEF Alike
<1>2. At(t, k) \in Nat /\ MapAt(t, k) \in Nat
  BY <1>1, NodeTypes
<1>3. place \in Nat
  BY <1>2
<1>4. maps \in Seq(Mapping)
  <2>1. ref \in Nat
    BY <1>3 DEF Shift, MappingLen
  <2> HIDE DEF ref
  <2> QED BY <2>1 DEF Mapping
<1>5. /\ WithSingle(t, k, its) = InsertMappings(t, k, place, maps, MapAt(t, k))
      /\ WithSingle(u, k, its) = InsertMappings(u, k, place, maps, MapAt(t, k))
  BY <1>1 DEF WithSingle
<1> HIDE DEF maps, place
<1> QED BY <1>2, <1>3, <1>4, <1>5, AlikeInsert

\* What a round makes of two such tables is alike again.
LEMMA AlikeEnabled ==
  ASSUME NEW b \in BOOLEAN, NEW t, NEW u, Alike(t, u, b), NEW k \in Nodes(t), NEW its \in Nat
  PROVE  /\ Alike(EnabledIn(t, k, its), EnabledIn(u, k, its), b)
         /\ Kept(t, EnabledIn(t, k, its))
<1> DEFINE p == ProvidedIn(t, k, its)
           q == ProvidedIn(u, k, its)
           s == ServedIn(t, k, its)
           v == ServedIn(u, k, its)
           r == EnabledIn(t, k, its)
           w == EnabledIn(u, k, its)
<1>0. ASSUME NEW x \in Table, NEW h \in Nodes(x)
      PROVE  Kept(x, WithBoth(x, h, its)) /\ Kept(x, WithSingle(x, h, its))
  <2>1. At(x, h) \in Nat /\ Size(x, h) \in Nat /\ MapAt(x, h) \in Nat
    BY NodeTypes
  <2> DEFINE place == End(x, h)
             ref == Shift(its, place, 2 * MappingLen)
             maps == <<[ref |-> ref, single |-> TRUE, whole |-> FALSE],
                       [ref |-> ref, single |-> FALSE, whole |-> TRUE]>>
             place1 == At(x, h) + MapAt(x, h)
             ref1 == Shift(its, place1, MappingLen)
             maps1 == <<[ref |-> ref1, single |-> TRUE, whole |-> FALSE]>>
  <2>2. place \in Nat /\ place1 \in Nat
    BY <2>1 DEF End
  <2>3. ref \in Nat /\ ref1 \in Nat
    BY <2>2 DEF Shift, MappingLen
  <2>4. /\ WithBoth(x, h, its) = InsertMappings(x, h, place, maps, Size(x, h))
        /\ WithSingle(x, h, its) = InsertMappings(x, h, place1, maps1, MapAt(x, h))
    BY DEF WithBoth, WithSingle
  <2> HIDE DEF ref, ref1, place, place1
  <2>5. maps \in Seq(Mapping) /\ maps1 \in Seq(Mapping)
    BY <2>3 DEF Mapping
  <2> HIDE DEF maps, maps1
  <2> QED BY <2>1, <2>2, <2>4, <2>5, InsertKept
<1>1. t \in Table /\ NumMaps(u, k) = NumMaps(t, k)
  BY AlikeFields DEF Alike
<1>2. Alike(p, q, b) /\ Kept(t, p)
  BY <1>0, <1>1, AlikeBoth, KeptReflexive DEF ProvidedIn
<1>3. p \in Table /\ Nodes(p) = Nodes(t) /\ k \in Nodes(p)
  BY <1>1, <1>2, KeptGroups DEF Alike
<1>4. /\ s = IF IdMapping(p.nodes[k]).single THEN p ELSE WithSingle(p, k, its)
      /\ v = IF IdMapping(q.nodes[k]).single THEN q ELSE WithSingle(q, k, its)
  BY DEF ServedIn
<1>5. /\ r = [s EXCEPT !.nodes[k] = EnabledNode(s.nodes[k])]
      /\ w = [v EXCEPT !.nodes[k] = EnabledNode(v.nodes[k])]
  BY DEF EnabledIn
<1> HIDE DEF p, q, s, v, r, w
<1>6. IdMapping(q.nodes[k]) = IdMapping(p.nodes[k])
  BY <1>2, <1>3, AlikeFields
<1>7. Alike(s, v, b) /\ Kept(p, s)
  BY <1>0, <1>2, <1>3, <1>4, <1>6, AlikeSingle, KeptReflexive
<1>8. s \in Table /\ v \in Table /\ Nodes(s) = Nodes(t) /\ Nodes(v) = Nodes(t)
  BY <1>3, <1>7, KeptGroups DEF Alike
<1>9. EnabledFrom(s, k, r) /\ EnabledFrom(v, k, w)
  BY <1>5, <1>8, EnabledRedressed
<1>10. r \in Table /\ w \in Table /\ Kept(s, r) /\ Nodes(r) = Nodes(s) /\ Nodes(w) = Nodes(v)
  BY <1>8, <1>9, RedressedKept DEF EnabledFrom, Redressed
<1>11. ASSUME NEW i \in Nodes(s)
       PROVE  w.nodes[i] = Dressed(b, r.nodes[i])
  <2>1. /\ r.nodes[i] = IF i = k THEN EnabledNode(s.nodes[i]) ELSE s.nodes[i]
        /\ w.nodes[i] = IF i = k THEN EnabledNode(v.nodes[i]) ELSE v.nodes[i]
    BY <1>5, <1>8 DEF Table, Nodes
  <2>2. s.nodes[i] \in Node /\ v.nodes[i] = Dressed(b, s.nodes[i])
    BY <1>7, TableTypes DEF Alike
  <2>3. EnabledNode(Dressed(b, s.nodes[i])) = Dressed(b, EnabledNode(s.nodes[i]))
    BY <2>2, HttuEnabled DEF Dressed
  <2> QED BY <2>1, <2>2, <2>3
<1>12. Alike(r, w, b)
  BY <1>8, <1>10, <1>11 DEF Alike
<1>13. Kept(t, r)
  <2>1. Kept(t, s)
    BY <1>1, <1>2, <1>3, <1>7, <1>8, KeptTransitive
  <2> QED BY <1>1, <1>8, <1>10, <2>1, KeptTransitive
<1> QED BY <1>12, <1>13 DEF r, w

LEMMA AlikeItself ==
  ASSUME NEW t \in Table
  PROVE  Alike(t, t, FALSE) /\ Alike(t, WithHttu(t), TRUE)
<1> DEFINE r == WithHttu(t)
<1>1. r \in Table /\ Nodes(r) = Nodes(t)
  BY HttuRedressed DEF Redressed
<1>2. ASSUME NEW i \in Nodes(t)
      PROVE  r.nodes[i] = HttuNode(t.nodes[i])
  <2> DEFINE N == [k \in Nodes(t) |->
                     IF t.nodes[k].type = "smmu"
                     THEN [t.nodes[k] EXCEPT !.flags = HttuFlags(t.nodes[k].flags)]
                     ELSE t.nodes[k]]
  <2>1. r = [t EXCEPT !.nodes = N]
    BY DEF WithHttu, HttuFlags
  <2>2. N[i] = HttuNode(t.nodes[i])
    BY DEF HttuNode
  <2> HIDE DEF N
  <2>3. r.nodes = N
    BY <2>1 DEF Table
  <2> QED BY <2>2, <2>3
<1> HIDE DEF r
<1>3. Alike(t, r, TRUE)
  BY <1>1, <1>2 DEF Alike, Dressed
<1> QED BY <1>3 DEF Alike, Dressed, r

\* Tables with the same nodes stand for each other.
LEMMA AlikeSame ==
  ASSUME NEW t, NEW u, Alike(t, u, FALSE)
  PROVE  /\ u.nodes = t.nodes
         /\ \A v : Alike(u, v, FALSE) => Alike(t, v, FALSE)
         /\ \A v, w : Alike(t, v, TRUE) /\ Alike(u, w, TRUE) => Alike(v, w, FALSE)
<1>1. t \in Table /\ u \in Table /\ Nodes(u) = Nodes(t)
      /\ \A i \in Nodes(t) : u.nodes[i] = t.nodes[i]
  BY DEF Alike, Dressed
<1>2. \A v \in Table : v.nodes = [i \in Nodes(v) |-> v.nodes[i]]
  BY TableTypes DEF Nodes
<1>3. u.nodes = t.nodes
  BY <1>1, <1>2
<1>4. ASSUME NEW v, Alike(u, v, FALSE)
      PROVE  Alike(t, v, FALSE)
  BY <1>1, <1>4 DEF Alike, Dressed
<1>5. ASSUME NEW v, NEW w, Alike(t, v, TRUE), Alike(u, w, TRUE)
      PROVE  Alike(v, w, FALSE)
  BY <1>1, <1>5 DEF Alike, Dressed
<1> QED BY <1>3, <1>4, <1>5

\* What one round of the loop makes of a table, and all that the builder does.
ItsPlace(t) == At(t, CHOOSE g \in Nodes(t) : ItsGroups(t) = {g})
RoundOf(t, i) ==
  IF Smmus(t, Bases[i]) # {} /\ (\E g \in Nodes(t) : ItsGroups(t) = {g})
  THEN EnabledIn(t, Smmu(t, Bases[i]), ItsPlace(t))
  ELSE t
HttuOf(t, o) == IF "httu" \in o THEN WithHttu(t) ELSE t
RoundsOf(t, n) ==
  IF n = 0 THEN t ELSE IF n = 1 THEN RoundOf(t, 1) ELSE RoundOf(RoundOf(t, 1), 2)
Made(t, o, n) == RoundsOf(HttuOf(t, o), n)
Rounds(o) == IF "msi" \in o THEN 2 ELSE 0

LEMMA PlaceFound ==
  ASSUME NEW t \in Table, NEW g \in Nodes(t), ItsGroups(t) = {g}
  PROVE  ItsPlace(t) = At(t, g)
<1> DEFINE h == CHOOSE x \in Nodes(t) : ItsGroups(t) = {x}
<1>1. ItsGroups(t) = {h}
  OBVIOUS
<1>2. h = g
  BY <1>1
<1> QED BY <1>2 DEF ItsPlace

LEMMA AlikeRound ==
  ASSUME NEW b \in BOOLEAN, NEW t, NEW u, Alike(t, u, b), NEW i \in 1..2
  PROVE  Alike(RoundOf(t, i), RoundOf(u, i), b)
<1>1. /\ t \in Table /\ u \in Table /\ Nodes(u) = Nodes(t)
      /\ ItsGroups(u) = ItsGroups(t)
      /\ Smmus(u, Bases[i]) = Smmus(t, Bases[i]) /\ Smmu(u, Bases[i]) = Smmu(t, Bases[i])
      /\ \A h \in Nodes(t) : At(u, h) = At(t, h)
  BY AlikeFields DEF Alike
<1>2. CASE Smmus(t, Bases[i]) # {} /\ (\E g \in Nodes(t) : ItsGroups(t) = {g})
  <2>1. PICK g \in Nodes(t) : ItsGroups(t) = {g}
    BY <1>2
  <2> DEFINE k == Smmu(t, Bases[i])
  <2>2. ItsPlace(t) = At(t, g) /\ ItsPlace(u) = At(u, g)
    BY <1>1, <2>1, PlaceFound
  <2>3. ItsPlace(u) = ItsPlace(t) /\ ItsPlace(t) \in Nat
    BY <1>1, <2>1, <2>2, NodeTypes
  <2>4. k \in Nodes(t)
    BY <1>1, <1>2, SmmuFound
  <2>5. /\ RoundOf(t, i) = EnabledIn(t, k, ItsPlace(t))
        /\ RoundOf(u, i) = EnabledIn(u, k, ItsPlace(t))
    BY <1>1, <1>2, <2>3 DEF RoundOf
  <2> HIDE DEF k
  <2> QED BY <2>3, <2>4, <2>5, AlikeEnabled
<1>3. CASE ~(Smmus(t, Bases[i]) # {} /\ (\E g \in Nodes(t) : ItsGroups(t) = {g}))
  <2>1. RoundOf(t, i) = t /\ RoundOf(u, i) = u
    BY <1>1, <1>3 DEF RoundOf
  <2> QED BY <2>1
<1> QED BY <1>2, <1>3

LEMMA AlikeRounds ==
  ASSUME NEW b \in BOOLEAN, NEW t, NEW u, Alike(t, u, b), NEW n \in 0..2
  PROVE  Alike(RoundsOf(t, n), RoundsOf(u, n), b)
<1>1. Alike(RoundOf(t, 1), RoundOf(u, 1), b)
  BY AlikeRound
<1>2. Alike(RoundOf(RoundOf(t, 1), 2), RoundOf(RoundOf(u, 1), 2), b)
  BY <1>1, AlikeRound
<1>3. n = 0 \/ n = 1 \/ n = 2
  OBVIOUS
<1> QED BY <1>1, <1>2, <1>3 DEF RoundsOf

\* Dirty bits may come first or last.
LEMMA HttuAnyTime ==
  ASSUME NEW t \in Table, NEW o, "httu" \notin o, NEW n \in 0..2
  PROVE  Alike(Made(t, o, n), Made(t, o \cup {"httu"}, n), TRUE)
<1>1. HttuOf(t, o) = t /\ HttuOf(t, o \cup {"httu"}) = WithHttu(t)
  BY DEF HttuOf
<1>2. Alike(t, WithHttu(t), TRUE)
  BY AlikeItself
<1> QED BY <1>1, <1>2, AlikeRounds DEF Made

-----------------------------------------------------------------------------
(* The third invariant: the table is what its options make of the firmware *)

OptionsDone == IF pc = "httu" THEN had ELSE options \cup had
RoundsDone ==
  IF pc \in {"httu", "find", "smmu1"} THEN Rounds(had)
  ELSE IF pc = "smmu2" /\ "msi" \notin had THEN 1 ELSE Rounds(options \cup had)

AsMade == Running /\ missing = {} => Alike(Made(firmware, OptionsDone, RoundsDone), data, FALSE)
WrittenAsMade ==
  \A w \in written : Alike(Made(firmware, w.options, Rounds(w.options)), w.table, FALSE)

KInv ==
  /\ pc \in {"httu", "find", "smmu1", "finish"} => missing = {}
  /\ AsMade /\ WrittenAsMade

LEMMA InitK == Init => KInv
BY DEF Init, KInv, AsMade, WrittenAsMade, Running

LEMMA StartK ==
  ASSUME IInv, JInv, KInv, Start
  PROVE  KInv'
<1>1. PICK o : Read(firmware, o, {}) \/ \E w \in written : Read(w.table, o, w.options)
  BY DEF Start
<1>2. /\ pc' \in {"httu", "refused"} /\ missing' = {} /\ UNCHANGED <<firmware, written>>
  BY <1>1 DEF Read
<1>3. firmware \in Table
  BY DEF IInv, TypeOK
<1>4. Alike(Made(firmware, had', Rounds(had')), data', FALSE)
  <2>1. CASE Read(firmware, o, {})
    <3>1. data' = firmware /\ had' = {}
      BY <2>1 DEF Read
    <3>2. Made(firmware, {}, Rounds({})) = firmware
      BY DEF Made, Rounds, RoundsOf, HttuOf
    <3> QED BY <1>3, <3>1, <3>2, AlikeItself
  <2>2. CASE \E w \in written : Read(w.table, o, w.options)
    <3>1. PICK w \in written : Read(w.table, o, w.options)
      BY <2>2
    <3>2. data' = w.table /\ had' = w.options
      BY <3>1 DEF Read
    <3> QED BY <3>2 DEF KInv, WrittenAsMade
  <2> QED BY <1>1, <2>1, <2>2
<1>5. AsMade'
  BY <1>2, <1>4 DEF AsMade, OptionsDone, RoundsDone, Running
<1> QED BY <1>2, <1>5 DEF KInv, WrittenAsMade

LEMMA HttuK ==
  ASSUME IInv, JInv, KInv, Httu
  PROVE  KInv'
<1> DEFINE n == Rounds(had)
           o == options \cup had
<1>0. /\ firmware \in Table /\ data \in Table /\ pc = "httu" /\ Running
      /\ pc' = IF "msi" \in options THEN "find" ELSE "finish"
      /\ UNCHANGED <<firmware, options, missing, written, had>>
      /\ options \subseteq {"httu", "msi"} /\ had \subseteq {"httu", "msi"}
      /\ missing = {} /\ n \in 0..2
  BY DEF IInv, TypeOK, Httu, Running, history, KInv, Rounds
<1>1. Alike(Made(firmware, had, n), data, FALSE)
  BY <1>0 DEF KInv, AsMade, OptionsDone, RoundsDone
<1>2. /\ "httu" \in options => data' = WithHttu(data)
      /\ "httu" \notin options => data' = data
  BY DEF Httu
<1>3. Rounds(had)' = n /\ ("msi" \notin options => Rounds(o) = n)
  BY <1>0 DEF Rounds
<1>4. Alike(Made(firmware, o, n), data', FALSE)
  <2>1. CASE "httu" \in had
    <3>1. HttuOf(firmware, o) = HttuOf(firmware, had)
      BY <2>1 DEF HttuOf
    <3>2. WithHttu(data) = data
      BY <1>0, <2>1, HttuSettles, AsAskedParts DEF JInv, DoneBefore
    <3> QED BY <1>1, <1>2, <3>1, <3>2 DEF Made
  <2>2. CASE "httu" \notin had /\ "httu" \in options
    <3>1. HttuOf(firmware, o) = HttuOf(firmware, had \cup {"httu"})
      BY <2>2 DEF HttuOf
    <3>2. Alike(Made(firmware, had, n), Made(firmware, had \cup {"httu"}, n), TRUE)
      BY <1>0, <2>2, HttuAnyTime
    <3>3. Alike(data, WithHttu(data), TRUE)
      BY <1>0, AlikeItself
    <3>4. Alike(Made(firmware, had \cup {"httu"}, n), WithHttu(data), FALSE)
      BY <1>1, <3>2, <3>3, AlikeSame
    <3> QED BY <1>2, <2>2, <3>1, <3>4 DEF Made
  <2>3. CASE "httu" \notin had /\ "httu" \notin options
    <3>1. HttuOf(firmware, o) = HttuOf(firmware, had)
      BY <2>3 DEF HttuOf
    <3> QED BY <1>1, <1>2, <2>3, <3>1 DEF Made
  <2> QED BY <2>1, <2>2, <2>3
<1>5. OptionsDone' = o /\ RoundsDone' = n
  BY <1>0, <1>3 DEF OptionsDone, RoundsDone
<1> HIDE DEF n, o
<1>6. AsMade'
  BY <1>0, <1>4, <1>5 DEF AsMade
<1>7. missing' = {}
  BY <1>0
<1> QED BY <1>0, <1>6, <1>7 DEF KInv, WrittenAsMade

LEMMA EnableK ==
  ASSUME IInv, JInv, KInv, NEW i \in 1..2, EnableSmmu(i)
  PROVE  KInv'
<1> DEFINE k == Smmu(data, Bases[i])
           o == options \cup had
           n == RoundsDone
<1>0. /\ Round(i) /\ Smmus(data, Bases[i]) # {} /\ data' = SmmuEnabled(i)
      /\ pc' = IF i = 1 THEN "smmu2" ELSE "found"
      /\ UNCHANGED <<firmware, options, missing, written, had>>
  BY DEF EnableSmmu, Onwards, history
<1>1. /\ data \in Table /\ Running /\ pc # "httu" /\ "msi" \in options
      /\ i = 1 => pc = "smmu1"
      /\ i = 2 => pc = "smmu2"
  BY <1>0, InLoop
<1>2. PICK g \in Nodes(data) : ItsGroups(data) = {g} /\ its_ref = At(data, g)
  BY <1>0, InLoop
<1>3. k \in Nodes(data)
  BY <1>0, <1>1, SmmuFound
<1>4. data' = EnabledIn(data, k, its_ref)
  BY <1>0, RoundIn
<1>5. data' = RoundOf(data, i)
  <2>1. its_ref = ItsPlace(data)
    BY <1>1, <1>2, PlaceFound
  <2> QED BY <1>0, <1>2, <1>4, <2>1 DEF RoundOf
<1>6. missing = {} => Alike(Made(firmware, o, n), data, FALSE)
  BY <1>1 DEF KInv, AsMade, OptionsDone
<1>7. OptionsDone' = o /\ i \in {1, 2}
  BY <1>0 DEF OptionsDone
<1>8. missing = {} => Alike(Made(firmware, o, RoundsDone'), data', FALSE)
  <2>1. CASE "msi" \in had
    <3>1. MsiDone(data, i)
      BY <1>1, <2>1, AsAskedParts DEF JInv, DoneBefore
    <3>2. data' = data
      BY <1>1, <1>3, <1>4, <3>1, RoundSettles DEF MsiDone
    <3>3. n = 2 /\ RoundsDone' = 2
      BY <1>0, <1>1, <2>1 DEF RoundsDone, Rounds
    <3> QED BY <1>6, <3>2, <3>3
  <2>2. CASE "msi" \notin had
    <3>1. missing = {} => Alike(RoundOf(Made(firmware, o, n), i), data', FALSE)
      BY <1>5, <1>6, AlikeRound
    <3>2. CASE i = 1
      <4>1. n = 0 /\ RoundsDone' = 1
        BY <1>0, <1>1, <2>2, <3>2 DEF RoundsDone, Rounds
      <4>2. RoundOf(Made(firmware, o, n), i) = Made(firmware, o, RoundsDone')
        BY <3>2, <4>1 DEF Made, RoundsOf
      <4> QED BY <3>1, <4>2
    <3>3. CASE i = 2
      <4>1. n = 1 /\ RoundsDone' = 2
        BY <1>0, <1>1, <2>2, <3>3 DEF RoundsDone, Rounds
      <4>2. RoundOf(Made(firmware, o, n), i) = Made(firmware, o, RoundsDone')
        BY <3>3, <4>1 DEF Made, RoundsOf
      <4> QED BY <3>1, <4>2
    <3> QED BY <1>7, <3>2, <3>3
  <2> QED BY <2>1, <2>2
<1> HIDE DEF o
<1>9. AsMade'
  BY <1>0, <1>7, <1>8 DEF AsMade
<1> QED BY <1>0, <1>9 DEF KInv, WrittenAsMade

LEMMA WriteK ==
  ASSUME IInv, JInv, KInv, Write
  PROVE  KInv'
<1> DEFINE o == options \cup had
<1>0. /\ pc = "finish" /\ pc' = "idle" /\ Running
      /\ data' = [data EXCEPT !.revision = @ + 1, !.sum = TRUE]
      /\ written' = written \cup {[table |-> data', options |-> o]}
      /\ UNCHANGED firmware /\ data \in Table /\ missing = {} /\ data.revision < MaxRevision
  BY DEF Write, IInv, TypeOK, KInv, Running
<1>1. Alike(Made(firmware, o, Rounds(o)), data, FALSE)
  BY <1>0 DEF KInv, AsMade, OptionsDone, RoundsDone
<1>2. data' \in Table /\ data'.nodes = data.nodes
  BY <1>0, WriteLayout DEF Table
<1> HIDE DEF o
<1>3. Alike(Made(firmware, o, Rounds(o)), data', FALSE)
  BY <1>1, <1>2 DEF Alike, Nodes, Dressed
<1>4. ASSUME NEW w \in written'
      PROVE  Alike(Made(firmware, w.options, Rounds(w.options)), w.table, FALSE)
  <2>1. CASE w \in written
    BY <2>1 DEF KInv, WrittenAsMade
  <2>2. CASE w = [table |-> data', options |-> o]
    <3>1. w.table = data' /\ w.options = o
      BY <2>2
    <3> QED BY <1>3, <3>1
  <2> QED BY <1>0, <2>1, <2>2
<1>5. WrittenAsMade'
  BY <1>0, <1>4 DEF WrittenAsMade
<1> QED BY <1>0, <1>5 DEF KInv, AsMade, Running

LEMMA NextK == IInv /\ JInv /\ KInv /\ [Next]_vars => KInv'
<1> SUFFICES ASSUME IInv, JInv, KInv, [Next]_vars
             PROVE  KInv'
  OBVIOUS
<1>1. CASE Start
  BY <1>1, StartK
<1>2. CASE Httu
  BY <1>2, HttuK
<1>3. CASE FindIts
  BY <1>3 DEF FindIts, history, KInv, AsMade, WrittenAsMade, OptionsDone, RoundsDone, Running
<1>4. CASE Refuse
  BY <1>4 DEF Refuse, history, KInv, AsMade, WrittenAsMade, Running
<1>5. ASSUME NEW i \in 1..2, EnableSmmu(i)
      PROVE  KInv'
  BY <1>5, EnableK
<1>6. ASSUME NEW i \in 1..2, SkipSmmu(i)
      PROVE  KInv'
  <2>1. pc' \in {"smmu2", "found"} /\ missing' # {} /\ UNCHANGED <<firmware, written>>
    BY <1>6 DEF SkipSmmu, Onwards, history
  <2> QED BY <2>1 DEF KInv, AsMade, WrittenAsMade
<1>7. CASE AllFound
  <2>1. pc = "found" /\ pc' = "finish" /\ missing = {}
        /\ UNCHANGED <<firmware, data, options, missing, written, had>>
    BY <1>7 DEF AllFound, history
  <2> QED BY <2>1 DEF KInv, AsMade, WrittenAsMade, OptionsDone, RoundsDone, Running
<1>8. CASE Write
  BY <1>8, WriteK
<1>9. CASE UNCHANGED vars
  BY <1>9 DEF vars, KInv, AsMade, WrittenAsMade, OptionsDone, RoundsDone, Running
<1> QED BY <1>1, <1>2, <1>3, <1>4, <1>5, <1>6, <1>7, <1>8, <1>9
        DEF Next, NoSingleIts, RefuseSmmu, SomeMissing, Unchanged, RevisionFull

LEMMA InvariantK == Spec => [](IInv /\ JInv /\ KInv)
<1>1. Init => IInv /\ JInv /\ KInv
  BY InitInvariant, JInit, InitK
<1>2. IInv /\ JInv /\ KInv /\ [Next]_vars => (IInv /\ JInv /\ KInv)'
  BY NextInvariant, NextJ, NextK
<1> QED BY <1>1, <1>2, PTL DEF Spec

\* Whatever the runs a table went through, and their order, its nodes are what
\* the options alone make of the firmware's table.
THEOREM OneResultHolds == Spec => []OneResult
<1>1. KInv => OneResult
  <2> SUFFICES ASSUME KInv, NEW v \in written, NEW w \in written, v.options = w.options
               PROVE  v.table.nodes = w.table.nodes
    BY DEF OneResult
  <2> DEFINE m == Made(firmware, v.options, Rounds(v.options))
  <2>1. Alike(m, v.table, FALSE) /\ Alike(m, w.table, FALSE)
    BY DEF KInv, WrittenAsMade
  <2> HIDE DEF m
  <2>2. v.table.nodes = m.nodes /\ w.table.nodes = m.nodes
    BY <2>1, AlikeSame
  <2> QED BY <2>2
<1> QED BY <1>1, InvariantK, PTL

=============================================================================
