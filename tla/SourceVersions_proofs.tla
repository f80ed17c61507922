------------------------ MODULE SourceVersions_proofs ------------------------
(***************************************************************************)
(* For every set of names and every sequence of commits, refreshes, builds *)
(* and comparisons: the three programs that choose the newest version of a *)
(* line choose the same one.                                               *)
(***************************************************************************)
EXTENDS SourceVersions, TLAPS, FiniteSetTheorems, WellFoundedInduction

\* Names are finitely many version numbers; a revision above 0 is written out;
\* what must be there is not older than what is still built.
Versioned ==
  /\ IsFiniteSet(Names)
  /\ \A n \in Names :
       /\ n.patch \in Nat /\ n.rev \in Nat /\ n.dashed \in BOOLEAN
       /\ n.rev > 0 => n.dashed
  /\ \A l \in Required : l >= First

-----------------------------------------------------------------------------
(* The order of versions *)

LEMMA Ordered ==
  ASSUME Versioned, NEW a \in Names, NEW b \in Names
  PROVE  /\ ~Less(Key(a), Key(a))
         /\ Less(Key(a), Key(b)) \/ Less(Key(b), Key(a)) \/ Key(a) = Key(b)
         /\ \A c \in Names : Less(Key(a), Key(b)) /\ Less(Key(b), Key(c)) => Less(Key(a), Key(c))
BY DEF Versioned, Less, Key

\* Of two names that none is newer than, neither is newer.
LEMMA NewestAlike ==
  ASSUME Versioned, NEW S \in SUBSET Names, NEW l, NEW a \in Newest(S, l), NEW b \in Newest(S, l)
  PROVE  Key(a) = Key(b)
<1>1. a \in Names /\ b \in Names /\ ~Less(Key(a), Key(b)) /\ ~Less(Key(b), Key(a))
  BY DEF Newest, OfLine
<1> QED BY <1>1, Ordered

\* The name with the fewest newer ones has none.
LEMMA NewestThere ==
  ASSUME Versioned, NEW S \in SUBSET Names, NEW l, OfLine(S, l) # {}
  PROVE  Newest(S, l) # {}
<1> DEFINE L == OfLine(S, l)
           Newer(n) == {m \in L : Less(Key(n), Key(m))}
           Rank(n) == Cardinality(Newer(n))
           Ranks == {Rank(n) : n \in L}
<1>1. L \subseteq Names /\ IsFiniteSet(Names)
  BY DEF OfLine, Versioned
<1>2. \A n \in L : IsFiniteSet(Newer(n)) /\ Rank(n) \in Nat
  <2> TAKE n \in L
  <2>1. Newer(n) \in SUBSET Names
    BY <1>1
  <2> HIDE DEF Newer
  <2> QED BY <1>1, <2>1, FS_Subset, FS_CardinalityType
<1>3. Ranks \in SUBSET Nat /\ Ranks # {}
  BY <1>2
<1>4. PICK k \in Ranks : \A j \in Ranks : k <= j
  <2> HIDE DEF Ranks
  <2>1. PICK x \in Ranks : \A y \in Ranks : ~(<<y, x>> \in OpToRel(<, Nat))
    BY <1>3, NatLessThanWellFounded, WFMin
  <2>2. \A y \in Ranks : ~(y < x)
    BY <1>3, <2>1 DEF OpToRel
  <2> QED BY <1>3, <2>2
<1>5. PICK n \in L : Rank(n) = k
  BY <1>4
<1>6. ASSUME NEW m \in L, Less(Key(n), Key(m))
      PROVE  FALSE
  <2>1. Newer(m) \in SUBSET Newer(n) /\ m \in Newer(n) /\ m \notin Newer(m)
    BY <1>1, <1>6, Ordered
  <2>2. Rank(n) <= Rank(m)
    BY <1>4, <1>5
  <2> HIDE DEF Newer
  <2>3. Cardinality(Newer(m)) <= Cardinality(Newer(n)) /\ Cardinality(Newer(n)) # Cardinality(Newer(m))
    BY <1>2, <2>1, FS_Subset
  <2> QED BY <1>2, <2>2, <2>3
<1>7. n \in Newest(S, l)
  BY <1>6 DEF Newest
<1> QED BY <1>7

LEMMA FirstIsNewest ==
  ASSUME Versioned, NEW S \in SUBSET Names, NEW l, OfLine(S, l) # {}
  PROVE  FirstNewest(S, l) \in Newest(S, l)
<1>1. PICK n \in Newest(S, l) : n.dashed \/ \A m \in Newest(S, l) : ~m.dashed
  <2>1. Newest(S, l) # {}
    BY NewestThere
  <2> QED BY <2>1
<1> QED BY <1>1 DEF FirstNewest

\* What compact_gentoo_metadata keeps of a line is the newest name of it.
LEMMA Compacted ==
  ASSUME Versioned, NEW S \in SUBSET Names, Complete(S), NEW l \in Required
  PROVE  /\ FirstNewest(S, l) \in S
         /\ OfLine(Compact(S), l) = {FirstNewest(S, l)}
         /\ {Key(n) : n \in Newest(S, l)} = {Key(FirstNewest(S, l))}
<1>1. \A k \in Required : FirstNewest(S, k) \in Newest(S, k)
  BY FirstIsNewest DEF Complete
<1>2. \A k \in Required : FirstNewest(S, k) \in S /\ FirstNewest(S, k).line = k
  BY <1>1 DEF Newest, OfLine
<1>3. OfLine(Compact(S), l) = {FirstNewest(S, l)}
  BY <1>2 DEF OfLine, Compact
<1>4. \A n \in Newest(S, l) : Key(n) = Key(FirstNewest(S, l))
  BY <1>1, NewestAlike
<1> QED BY <1>1, <1>2, <1>3, <1>4

-----------------------------------------------------------------------------
(* The inductive invariant *)

\* Of each line one name is retained, the newest that the last refresh saw.
Retained ==
  \A l \in Required :
    \E x \in Names : OfLine(retained, l) = {x} /\ refreshed[l] = {Key(x)}

\* The matrix and the verdict are of the present lists.
Chosen ==
  matrix # Nothing => Complete(ebuilds) /\ matrix.selected \in Selections

Judged ==
  verdict \in {"current", "behind"} =>
    \E f \in [Required -> ebuilds] :
      /\ \A l \in Required : f[l] \in Newest(ebuilds, l)
      /\ verdict = Said(f, [l \in Required |-> FirstNewest(retained, l)])

VInv == TypeOK /\ Retained /\ Chosen /\ Judged

LEMMA CompactRetained ==
  ASSUME Versioned, NEW S \in SUBSET Names, Complete(S)
  PROVE  /\ Compact(S) \subseteq Names
         /\ \A l \in Required : \E x \in Names :
              OfLine(Compact(S), l) = {x} /\ {Key(n) : n \in Newest(S, l)} = {Key(x)}
<1>1. \A l \in Required : FirstNewest(S, l) \in Names
  BY Compacted
<1> QED BY <1>1, Compacted DEF Compact

LEMMA InitVInv ==
  ASSUME Versioned, Init
  PROVE  VInv
<1>1. ebuilds \in SUBSET Names /\ Complete(ebuilds)
  BY DEF Init
<1>2. Retained
  BY <1>1, CompactRetained DEF Init, Retained
<1>3. TypeOK
  BY <1>1, CompactRetained DEF Init, TypeOK
<1> QED BY <1>2, <1>3 DEF Init, VInv, Chosen, Judged

LEMMA VInvStep ==
  ASSUME Versioned, VInv, [Next]_vars
  PROVE  VInv'
<1>1. CASE Upstream \/ Maintain
  <2>1. ebuilds' \subseteq Names /\ upstream' \subseteq Names /\ stray' \in BOOLEAN
    BY <1>1 DEF Upstream, Maintain, VInv, TypeOK
  <2>2. UNCHANGED <<retained, refreshed>> /\ matrix' = Nothing /\ verdict' = "none"
    BY <1>1 DEF Upstream, Maintain
  <2> QED BY <2>1, <2>2 DEF VInv, TypeOK, Retained, Chosen, Judged, OfLine
<1>2. CASE Refresh
  <2>1. upstream \in SUBSET Names /\ Complete(upstream)
    BY <1>2 DEF Refresh, VInv, TypeOK
  <2>2. /\ retained' = Compact(upstream) /\ matrix' = Nothing /\ verdict' = "none"
        /\ refreshed' = [l \in Required |-> {Key(n) : n \in Newest(upstream, l)}]
        /\ UNCHANGED <<ebuilds, stray, upstream>>
    BY <1>2 DEF Refresh
  <2>3. Retained'
    BY <2>1, <2>2, CompactRetained DEF Retained
  <2>4. TypeOK'
    BY <2>1, <2>2, CompactRetained DEF VInv, TypeOK
  <2> QED BY <2>2, <2>3, <2>4 DEF VInv, Chosen, Judged
<1>3. CASE Discover
  <2>1. UNCHANGED <<repository, verdict>>
    BY <1>3 DEF Discover
  <2>2. Retained' /\ Judged'
    BY <2>1 DEF VInv, Retained, Judged, repository
  <2>3. ASSUME matrix' # Nothing
        PROVE  Complete(ebuilds) /\ matrix'.selected \in Selections
               /\ DOMAIN matrix'.selected \subseteq Declared
    <3>1. Discoverable /\ \E f \in Selections : matrix'.selected = f
      BY <1>3, <2>3 DEF Discover
    <3> QED BY <3>1 DEF Discoverable, Selections
  <2>4. Chosen'
    BY <2>1, <2>3 DEF Chosen, repository, Selections
  <2>5. TypeOK'
    BY <2>1, <2>3 DEF VInv, TypeOK, repository
  <2> QED BY <2>2, <2>4, <2>5 DEF VInv
<1>4. CASE Check
  <2>1. UNCHANGED <<repository, matrix>>
    BY <1>4 DEF Check
  <2>2. Retained' /\ Chosen'
    BY <2>1 DEF VInv, Retained, Chosen, repository, Selections
  <2>3. Judged' /\ verdict' \in {"current", "behind", "refused"}
    <3>1. CASE Complete(ebuilds)
      <4>1. PICK f \in [Required -> ebuilds] :
              /\ \A l \in Required : f[l] \in Newest(ebuilds, l)
              /\ verdict' = Said(f, [l \in Required |-> FirstNewest(retained, l)])
        BY <1>4, <3>1 DEF Check
      <4>2. verdict' \in {"current", "behind"}
        BY <4>1 DEF Said
      <4> QED BY <2>1, <4>1, <4>2 DEF Judged, repository
    <3>2. CASE ~Complete(ebuilds)
      BY <1>4, <3>2 DEF Check, Judged
    <3> QED BY <3>1, <3>2
  <2>4. TypeOK'
    BY <2>1, <2>3 DEF VInv, TypeOK, repository
  <2> QED BY <2>2, <2>3, <2>4 DEF VInv
<1>5. CASE UNCHANGED vars
  BY <1>5 DEF vars, VInv, TypeOK, Retained, Chosen, Judged, Selections
<1> QED BY <1>1, <1>2, <1>3, <1>4, <1>5 DEF Next

-----------------------------------------------------------------------------
(* What the three choose fits together *)

LEMMA Agree ==
  ASSUME Versioned, VInv
  PROVE  SelectionsAgree
<1>1. ASSUME NEW l \in Required, NEW x \in Names, OfLine(retained, l) = {x}
      PROVE  FirstNewest(retained, l) = x
  <2>1. FirstNewest(retained, l) \in Newest(retained, l)
    BY <1>1, FirstIsNewest DEF VInv, TypeOK
  <2> QED BY <1>1, <2>1 DEF Newest
<1>2. ASSUME verdict = "current", matrix # Nothing, NEW l \in Required
      PROVE  {Key(matrix.selected[l])} = refreshed[l]
  <2>1. PICK f \in [Required -> ebuilds] :
          /\ \A k \in Required : f[k] \in Newest(ebuilds, k)
          /\ verdict = Said(f, [k \in Required |-> FirstNewest(retained, k)])
    BY <1>2 DEF VInv, Judged
  <2>2. PICK x \in Names : OfLine(retained, l) = {x} /\ refreshed[l] = {Key(x)}
    BY <1>2 DEF VInv, Retained
  <2>3. Written(f[l]) = Written(x)
    BY <1>1, <1>2, <2>1, <2>2 DEF Said
  <2>4. Key(f[l]) = Key(x)
    BY <2>3 DEF Written, Key
  <2>5. l \in Maintained(ebuilds)
    <3>1. OfLine(ebuilds, l) # {} /\ l >= First
      BY <1>2 DEF VInv, Chosen, Complete, Versioned
    <3> QED BY <3>1 DEF OfLine, Maintained
  <2>6. matrix.selected[l] \in Newest(ebuilds, l)
    BY <1>2, <2>5 DEF VInv, Chosen, Selections
  <2>7. Key(matrix.selected[l]) = Key(f[l])
    BY <1>2, <2>1, <2>6, NewestAlike DEF VInv, TypeOK
  <2> QED BY <2>2, <2>4, <2>7
<1>3. ASSUME verdict = "behind", \A n \in ebuilds \cup retained : n.dashed => n.rev > 0
      PROVE  \E l \in Required : {Key(n) : n \in Newest(ebuilds, l)} # refreshed[l]
  <2>1. PICK f \in [Required -> ebuilds] :
          /\ \A k \in Required : f[k] \in Newest(ebuilds, k)
          /\ verdict = Said(f, [k \in Required |-> FirstNewest(retained, k)])
    BY <1>3 DEF VInv, Judged
  <2>2. PICK l \in Required : Written(f[l]) # Written(FirstNewest(retained, l))
    BY <1>3, <2>1 DEF Said
  <2>3. PICK x \in Names : OfLine(retained, l) = {x} /\ refreshed[l] = {Key(x)}
    BY DEF VInv, Retained
  <2>4. Written(f[l]) # Written(x) /\ x \in retained
    BY <1>1, <2>2, <2>3 DEF OfLine
  <2>5. Key(f[l]) # Key(x)
    <3>1. f[l] \in ebuilds /\ f[l] \in Names
      BY DEF VInv, TypeOK
    <3>2. (f[l].dashed <=> f[l].rev > 0) /\ (x.dashed <=> x.rev > 0)
      BY <1>3, <2>4, <3>1 DEF Versioned
    <3>3. f[l].dashed \in BOOLEAN /\ x.dashed \in BOOLEAN
      BY <3>1 DEF Versioned
    <3> QED BY <2>4, <3>2, <3>3 DEF Written, Key
  <2>6. f[l] \in Newest(ebuilds, l)
    BY <2>1
  <2> QED BY <2>3, <2>5, <2>6
<1> QED BY <1>2, <1>3 DEF SelectionsAgree

\* The comparison calls the overlay current only if the build takes the newest
\* version of every line that the last refresh saw, and behind only if it does
\* not, unless a name spells out "-r0": discover-cix-matrix.py,
\* check-cix-source-versions.py and compact_gentoo_metadata choose alike.
THEOREM SelectionsAlwaysAgree ==
  ASSUME Versioned
  PROVE  Spec => [](TypeOK /\ SelectionsAgree)
<1>1. Init => VInv
  BY InitVInv
<1>2. VInv /\ [Next]_vars => VInv'
  BY VInvStep
<1>3. VInv => TypeOK /\ SelectionsAgree
  BY Agree DEF VInv
<1> QED BY <1>1, <1>2, <1>3, PTL DEF Spec

=============================================================================
