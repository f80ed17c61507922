------------------------- MODULE KconfigUpdates_proofs -------------------------
(***************************************************************************)
(* What the layers of build_config_updates can leave for a symbol, for     *)
(* every option, kernel tree and .config.  W[s] is the set of the values   *)
(* that a symbol s may get.                                                *)
(***************************************************************************)
EXTENDS KconfigUpdates, TLAPS, FiniteSetTheorems, SequenceTheorems

Valued(d, W) == \A s \in DOMAIN d : s \in Symbols => d[s] \in W[s]
AllIn(u, W) == \A s \in Symbols : u[s] \in Seq(W[s])

\* The layers of settings: all but the supported hardware.
Pruned(o, tree, current) ==
  In(tree, All(Absent(o, tree) \cup FoundUseless(o, tree, current), "n"))

Layers(o, tree, current) ==
  {Firmware(o), BuildHygiene(tree, current), In(tree, BoardProfile(o)),
   In(tree, All(EthernetConflict(o, tree), "n")), In(tree, All(PolicyDisabled, "n")),
   In(tree, All(Gated(o, tree), "n")),
   TableUpgrade(o), Diagnostics(o, tree, current), PlatformMemory(tree, current),
   In(tree, [s \in HiFi5Switches(o) |-> HiFi5(o, s)])}
    \cup (IF o.prune THEN {Pruned(o, tree, current)} ELSE {})
    \cup (IF o.hifi5 = "none" THEN {} ELSE {PageBlock(tree, current)})

EntryValue(o, e, current) ==
  SupportedValue(o, e[2], Policy(e[2], e[3], current), current)

-----------------------------------------------------------------------------
(* The three ways to lay a layer *)

LEMMA SingleValue ==
  ASSUME NEW S, NEW x \in S
  PROVE  <<x>> \in Seq(S)
OBVIOUS

LEMMA UnseenIn ==
  ASSUME NEW W, NEW u, AllIn(u, W), NEW d, Valued(d, W)
  PROVE  AllIn(IfUnseen(u, d), W)
<1>1. ASSUME NEW s \in Symbols
      PROVE  (IF s \in DOMAIN d /\ u[s] = <<>> THEN <<d[s]>> ELSE u[s]) \in Seq(W[s])
  <2>1. u[s] \in Seq(W[s])
    BY DEF AllIn
  <2>2. ASSUME s \in DOMAIN d
        PROVE  <<d[s]>> \in Seq(W[s])
    BY <2>2, SingleValue DEF Valued
  <2> QED BY <2>1, <2>2
<1> QED BY <1>1 DEF IfUnseen, AllIn

LEMMA OverrideIn ==
  ASSUME NEW W, NEW u, AllIn(u, W), NEW d, Valued(d, W)
  PROVE  AllIn(Override(u, d), W)
<1>1. ASSUME NEW s \in Symbols
      PROVE  (IF s \notin DOMAIN d THEN u[s] ELSE IF u[s] = <<>> THEN <<d[s]>>
              ELSE [u[s] EXCEPT ![1] = d[s]]) \in Seq(W[s])
  <2>1. u[s] \in Seq(W[s])
    BY DEF AllIn
  <2>2. CASE s \in DOMAIN d /\ u[s] = <<>>
    BY <2>2, SingleValue DEF Valued
  <2>3. CASE s \in DOMAIN d /\ u[s] # <<>>
    <3>1. d[s] \in W[s] /\ 1 \in 1..Len(u[s])
      BY <2>1, <2>3 DEF Valued
    <3>2. [u[s] EXCEPT ![1] = d[s]] \in Seq(W[s])
      BY <2>1, <3>1, ExceptSeq
    <3> QED BY <2>3, <3>2
  <2> QED BY <2>1, <2>2, <2>3
<1> QED BY <1>1 DEF Override, AllIn

(* The tables of supported hardware are finite, so that a symbol has a number *)
(* of entries.                                                                *)

LEMMA TableFinite ==
  ASSUME NEW table, NEW policies, IsFiniteSet(DOMAIN policies)
  PROVE  IsFiniteSet(InTable(table, policies))
<1> DEFINE f == [s \in DOMAIN policies |-> <<table, s, policies[s]>>]
<1>1. f \in Surjection(DOMAIN policies, InTable(table, policies))
  BY DEF InTable, Surjection
<1> QED BY <1>1, FS_Surjection

LEMMA FewFinite ==
  ASSUME NEW a, NEW b, NEW c, NEW d
  PROVE  /\ IsFiniteSet({a}) /\ IsFiniteSet({a, b})
         /\ IsFiniteSet({a, b, c}) /\ IsFiniteSet({a, b, c, d})
<1>1. IsFiniteSet({a})
  BY FS_Singleton
<1>2. IsFiniteSet({a} \cup {b})
  BY <1>1, FS_AddElement
<1>3. {a, b} = {a} \cup {b} /\ {a, b, c} = {a, b} \cup {c} /\ {a, b, c, d} = {a, b, c} \cup {d}
  OBVIOUS
<1>4. IsFiniteSet({a, b} \cup {c})
  BY <1>2, <1>3, FS_AddElement
<1>5. IsFiniteSet({a, b, c} \cup {d})
  BY <1>3, <1>4, FS_AddElement
<1> QED BY <1>1, <1>2, <1>3, <1>4, <1>5

LEMMA TablesFinite ==
  /\ IsFiniteSet(SupportedCommon)
  /\ IsFiniteSet(SupportedDt)
  /\ IsFiniteSet(SupportedVendorAcpi)
  /\ IsFiniteSet(SupportedVendorAcpiO6)
  /\ IsFiniteSet(SupportedVendorDt)
  /\ IsFiniteSet(SupportedDisplay)
  /\ IsFiniteSet(SupportedGpu)
  /\ IsFiniteSet(SupportedMedia)
  /\ IsFiniteSet(SupportedNpu)
  /\ IsFiniteSet(SupportedEdp)
  /\ IsFiniteSet(SupportedTouchscreen)
  /\ IsFiniteSet(SupportedAudioAnalog)
  /\ IsFiniteSet(SupportedAudioDisplay)
<1>1. IsFiniteSet(SupportedCommon)
  BY FewFinite, TableFinite DEF SupportedCommon
<1>2. IsFiniteSet(SupportedDt)
  BY FewFinite, TableFinite DEF SupportedDt
<1>3. IsFiniteSet(SupportedVendorAcpi)
  BY FewFinite, TableFinite DEF SupportedVendorAcpi
<1>4. IsFiniteSet(SupportedVendorAcpiO6)
  BY FewFinite, TableFinite DEF SupportedVendorAcpiO6
<1>5. IsFiniteSet(SupportedVendorDt)
  BY FewFinite, TableFinite DEF SupportedVendorDt
<1>6. IsFiniteSet(SupportedDisplay)
  BY FewFinite, TableFinite DEF SupportedDisplay
<1>7. IsFiniteSet(SupportedGpu)
  BY FewFinite, TableFinite DEF SupportedGpu
<1>8. IsFiniteSet(SupportedMedia)
  BY FewFinite, TableFinite DEF SupportedMedia
<1>9. IsFiniteSet(SupportedNpu)
  BY FewFinite, TableFinite DEF SupportedNpu
<1>10. IsFiniteSet(SupportedEdp)
  BY FewFinite, TableFinite DEF SupportedEdp
<1>11. IsFiniteSet(SupportedTouchscreen)
  BY FewFinite, TableFinite DEF SupportedTouchscreen
<1>12. IsFiniteSet(SupportedAudioAnalog)
  BY FewFinite, TableFinite DEF SupportedAudioAnalog
<1>13. IsFiniteSet(SupportedAudioDisplay)
  BY FewFinite, TableFinite DEF SupportedAudioDisplay
<1> QED BY <1>1, <1>2, <1>3, <1>4, <1>5, <1>6, <1>7, <1>8, <1>9, <1>10, <1>11, <1>12, <1>13

LEMMA TwoFinite ==
  ASSUME NEW S, NEW T, IsFiniteSet(S), IsFiniteSet(T)
  PROVE  IsFiniteSet(S \cup T)
BY FS_Union

LEMMA SupportedFinite ==
  ASSUME NEW o, NEW tree
  PROVE  IsFiniteSet(Supported(o, tree))
<1> DEFINE E == {"ethernet"} \X Ethernet(o, tree) \X {"prefer"}
           Boards == SupportedCommon \cup SupportedDt \cup SupportedTouchscreen \cup E
           Vendors == SupportedVendorAcpi \cup SupportedVendorDt \cup SupportedVendorAcpiO6
           Graphic == SupportedDisplay \cup SupportedGpu \cup SupportedMedia
           Others == SupportedAudioAnalog \cup SupportedAudioDisplay \cup SupportedNpu \cup SupportedEdp
<1>1. IsFiniteSet(E)
  <2>1. E \subseteq {<<"ethernet", "R8126", "prefer">>, <<"ethernet", "R8169", "prefer">>}
    BY DEF Ethernet
  <2> QED BY <2>1, FewFinite, FS_Subset
<1>2. IsFiniteSet(Boards)
  BY <1>1, TablesFinite, TwoFinite
<1>3. IsFiniteSet(Vendors)
  BY TablesFinite, TwoFinite
<1>4. IsFiniteSet(Graphic)
  BY TablesFinite, TwoFinite
<1>5. IsFiniteSet(Others)
  BY TablesFinite, TwoFinite
<1>6. IsFiniteSet((Boards \cup Vendors) \cup (Graphic \cup Others))
  <2> HIDE DEF Boards, Vendors, Graphic, Others
  <2> QED BY <1>2, <1>3, <1>4, <1>5, TwoFinite
<1>7. Supported(o, tree) \subseteq (Boards \cup Vendors) \cup (Graphic \cup Others)
  BY DEF Supported
<1> QED
  BY <1>6, <1>7, FS_Subset

LEMMA SupportedIn ==
  ASSUME NEW W, NEW u, AllIn(u, W), NEW o, NEW tree, NEW current,
         \A e \in Supported(o, tree) : e[2] \in Symbols => EntryValue(o, e, current) \in W[e[2]]
  PROVE  AllIn(WithSupported(u, o, tree, current), W)
<1> DEFINE entries == {e \in Supported(o, tree) : e[2] \in Settable(tree)}
           of(s) == {e \in entries : e[2] = s}
           added(s) == [i \in 1..Cardinality(of(s)) |->
                          EntryValue(o, CHOOSE e \in of(s) : TRUE, current)]
<1>1. ASSUME NEW s \in Symbols
      PROVE  added(s) \in Seq(W[s])
  <2>1. Cardinality(of(s)) \in Nat
    <3>1. IsFiniteSet(of(s))
      BY SupportedFinite, FS_Subset
    <3> HIDE DEF of
    <3> QED BY <3>1, FS_CardinalityType
  <2>2. of(s) # {} => EntryValue(o, CHOOSE e \in of(s) : TRUE, current) \in W[s]
    <3>1. of(s) # {} => (CHOOSE e \in of(s) : TRUE) \in of(s)
      OBVIOUS
    <3>2. \A e \in of(s) : EntryValue(o, e, current) \in W[s]
      OBVIOUS
    <3> HIDE DEF of
    <3> QED BY <3>1, <3>2
  <2>3. of(s) = {} => 1..Cardinality(of(s)) = {}
    BY FS_EmptySet
  <2> HIDE DEF of
  <2> QED
    BY <2>1, <2>2, <2>3, IsASeq
<1>2. \A s \in Symbols : u[s] \o added(s) \in Seq(W[s])
  <2> TAKE s \in Symbols
  <2>1. u[s] \in Seq(W[s])
    BY DEF AllIn
  <2>2. added(s) \in Seq(W[s])
    BY <1>1
  <2> HIDE DEF added
  <2> QED BY <2>1, <2>2, ConcatProperties
<1>3. WithSupported(u, o, tree, current) = [s \in Symbols |-> u[s] \o added(s)]
  BY DEF WithSupported, EntryValue
<1> HIDE DEF added
<1> QED BY <1>2, <1>3 DEF AllIn

\* What has an entry keeps one.
LEMMA StaysSeen ==
  ASSUME NEW W, NEW u, AllIn(u, W), NEW d, NEW s \in Symbols, u[s] # <<>> \/ s \in DOMAIN d
  PROVE  IfUnseen(u, d)[s] # <<>> /\ Override(u, d)[s] # <<>>
<1>1. u[s] \in Seq(W[s])
  BY DEF AllIn
<1>2. ASSUME u[s] # <<>>, NEW x
      PROVE  [u[s] EXCEPT ![1] = x] # <<>>
  <2>1. 1 \in DOMAIN u[s]
    BY <1>1, <1>2
  <2>2. DOMAIN [u[s] EXCEPT ![1] = x] = DOMAIN u[s]
    OBVIOUS
  <2>3. DOMAIN <<>> = {}
    OBVIOUS
  <2> QED BY <2>1, <2>2, <2>3
<1>3. /\ IfUnseen(u, d)[s] = IF s \in DOMAIN d /\ u[s] = <<>> THEN <<d[s]>> ELSE u[s]
      /\ Override(u, d)[s] = IF s \notin DOMAIN d THEN u[s] ELSE IF u[s] = <<>> THEN <<d[s]>>
                             ELSE [u[s] EXCEPT ![1] = d[s]]
  BY DEF IfUnseen, Override
<1>4. \A x : <<x>> # <<>>
  OBVIOUS
<1> QED BY <1>2, <1>3, <1>4

\* The hardware that the profile selects and the tree declares gets an entry.
Selected(o, tree) == {e[2] : e \in {x \in Supported(o, tree) : x[2] \in Settable(tree)}}

LEMMA SupportedStaysSeen ==
  ASSUME NEW W, NEW u, AllIn(u, W), NEW o, NEW tree, NEW current, NEW s \in Symbols,
         u[s] # <<>> \/ s \in Selected(o, tree)
  PROVE  WithSupported(u, o, tree, current)[s] # <<>>
<1> DEFINE entries == {e \in Supported(o, tree) : e[2] \in Settable(tree)}
           of(x) == {e \in entries : e[2] = x}
           added == [i \in 1..Cardinality(of(s)) |->
                          EntryValue(o, CHOOSE e \in of(s) : TRUE, current)]
<1>1. WithSupported(u, o, tree, current)[s] = u[s] \o added
  BY DEF WithSupported, EntryValue
<1>2. Cardinality(of(s)) \in Nat /\ (of(s) # {} => Cardinality(of(s)) > 0)
  <2>1. IsFiniteSet(of(s))
    BY SupportedFinite, FS_Subset
  <2> HIDE DEF of
  <2> QED BY <2>1, FS_CardinalityType, FS_EmptySet
<1> DEFINE A == W[s] \cup {EntryValue(o, CHOOSE e \in of(s) : TRUE, current)}
<1>3. added \in Seq(A) /\ u[s] \in Seq(A)
  <2>1. u[s] \in Seq(W[s])
    BY DEF AllIn
  <2>2. u[s] \in Seq(A)
    BY <2>1
  <2>3. added \in Seq(A)
    <3>1. Cardinality(of(s)) \in Nat
      BY <1>2
    <3> HIDE DEF of
    <3> QED BY <3>1
  <2> QED BY <2>2, <2>3
<1>4. Len(u[s]) > 0 \/ Len(added) > 0
  <2>1. u[s] # <<>> => Len(u[s]) > 0
    BY <1>3
  <2>2. s \in Selected(o, tree) => of(s) # {}
    BY DEF Selected
  <2>3. of(s) # {} => Len(added) > 0
    <3> HIDE DEF of
    <3> QED BY <1>2
  <2> QED BY <2>1, <2>2, <2>3
<1> HIDE DEF added, A
<1>5. Len(u[s] \o added) > 0
  BY <1>3, <1>4
<1> QED BY <1>1, <1>5, <1>3

-----------------------------------------------------------------------------
(* All layers *)

\* The symbols that a run has a line for.
Lines(o, tree, current) ==
  Selected(o, tree) \cup UNION {DOMAIN d : d \in Layers(o, tree, current)}

\* What every layer allows for a symbol, all of them together allow; what a
\* layer mentions has an entry.
LEMMA UpdatesIn ==
  ASSUME NEW W, NEW o, NEW tree, NEW current,
         \A d \in Layers(o, tree, current) : Valued(d, W),
         \A e \in Supported(o, tree) : e[2] \in Symbols => EntryValue(o, e, current) \in W[e[2]]
  PROVE  /\ AllIn(Updates(o, tree, current), W)
         /\ \A s \in Symbols \cap Lines(o, tree, current) : Updates(o, tree, current)[s] # <<>>
<1> DEFINE d1 == Firmware(o)
           d2 == BuildHygiene(tree, current)
           d3 == In(tree, BoardProfile(o))
           d4 == In(tree, All(EthernetConflict(o, tree), "n"))
           d5 == In(tree, All(PolicyDisabled, "n"))
           d7 == In(tree, All(Gated(o, tree), "n"))
           d8 == Pruned(o, tree, current)
           d9 == TableUpgrade(o)
           d10 == Diagnostics(o, tree, current)
           d11 == PlatformMemory(tree, current)
           d12 == In(tree, [s \in HiFi5Switches(o) |-> HiFi5(o, s)])
           d13 == PageBlock(tree, current)
           u1 == IfUnseen(NoUpdates, d1)
           u2 == IfUnseen(u1, d2)
           u3 == IfUnseen(u2, d3)
           u4 == IfUnseen(u3, d4)
           u5 == IfUnseen(u4, d5)
           u6 == WithSupported(u5, o, tree, current)
           u7 == Override(u6, d7)
           S == Selection(o, tree, current)
           v1 == IfUnseen(S, d9)
           v2 == Override(v1, d10)
           v3 == Override(v2, d11)
           v4 == Override(v3, d12)
           U == Updates(o, tree, current)
           L == Layers(o, tree, current)
<1>1. L = {d1, d2, d3, d4, d5, d7, d9, d10, d11, d12} \cup (IF o.prune THEN {d8} ELSE {})
            \cup (IF o.hifi5 = "none" THEN {} ELSE {d13})
  BY DEF Layers
<1>2. S = IF ~o.prune THEN u7 ELSE IfUnseen(u7, d8)
  BY DEF Selection, Pruned
<1>3. U = IF o.hifi5 = "none" THEN v4 ELSE Override(v4, d13)
  BY DEF Updates
<1>4. \A d \in L : Valued(d, W)
  OBVIOUS
<1> HIDE DEF d1, d2, d3, d4, d5, d7, d8, d9, d10, d11, d12, d13, S, U, L
<1>5. AllIn(NoUpdates, W)
  BY DEF NoUpdates, AllIn
<1>6. /\ Valued(d1, W) /\ Valued(d2, W) /\ Valued(d3, W) /\ Valued(d4, W)
      /\ Valued(d5, W) /\ Valued(d7, W) /\ Valued(d9, W)
      /\ Valued(d10, W) /\ Valued(d11, W) /\ Valued(d12, W)
      /\ o.prune => Valued(d8, W)
      /\ o.hifi5 # "none" => Valued(d13, W)
  BY <1>1, <1>4
<1>7. AllIn(u1, W) /\ \A s \in Symbols : s \in DOMAIN d1 => u1[s] # <<>>
  BY <1>5, <1>6, UnseenIn, StaysSeen
<1> HIDE DEF u1
<1>8. AllIn(u2, W) /\ \A s \in Symbols : u1[s] # <<>> \/ s \in DOMAIN d2 => u2[s] # <<>>
  BY <1>6, <1>7, UnseenIn, StaysSeen
<1> HIDE DEF u2
<1>9. AllIn(u3, W) /\ \A s \in Symbols : u2[s] # <<>> \/ s \in DOMAIN d3 => u3[s] # <<>>
  BY <1>6, <1>8, UnseenIn, StaysSeen
<1> HIDE DEF u3
<1>10. AllIn(u4, W) /\ \A s \in Symbols : u3[s] # <<>> \/ s \in DOMAIN d4 => u4[s] # <<>>
  BY <1>6, <1>9, UnseenIn, StaysSeen
<1> HIDE DEF u4
<1>11. AllIn(u5, W) /\ \A s \in Symbols : u4[s] # <<>> \/ s \in DOMAIN d5 => u5[s] # <<>>
  BY <1>6, <1>10, UnseenIn, StaysSeen
<1> HIDE DEF u5
<1>12. AllIn(u6, W) /\ \A s \in Symbols : u5[s] # <<>> \/ s \in Selected(o, tree) => u6[s] # <<>>
  BY <1>11, SupportedIn, SupportedStaysSeen
<1> HIDE DEF u6
<1>13. AllIn(u7, W) /\ \A s \in Symbols : u6[s] # <<>> \/ s \in DOMAIN d7 => u7[s] # <<>>
  BY <1>6, <1>12, OverrideIn, StaysSeen
<1> HIDE DEF u7
<1>14. /\ AllIn(S, W)
       /\ \A s \in Symbols : u7[s] # <<>> \/ (o.prune /\ s \in DOMAIN d8) => S[s] # <<>>
  BY <1>2, <1>6, <1>13, UnseenIn, StaysSeen
<1>15. AllIn(v1, W) /\ \A s \in Symbols : S[s] # <<>> \/ s \in DOMAIN d9 => v1[s] # <<>>
  BY <1>6, <1>14, UnseenIn, StaysSeen
<1> HIDE DEF v1
<1>16. AllIn(v2, W) /\ \A s \in Symbols : v1[s] # <<>> \/ s \in DOMAIN d10 => v2[s] # <<>>
  BY <1>6, <1>15, OverrideIn, StaysSeen
<1> HIDE DEF v2
<1>17. AllIn(v3, W) /\ \A s \in Symbols : v2[s] # <<>> \/ s \in DOMAIN d11 => v3[s] # <<>>
  BY <1>6, <1>16, OverrideIn, StaysSeen
<1> HIDE DEF v3
<1>18. AllIn(v4, W) /\ \A s \in Symbols : v3[s] # <<>> \/ s \in DOMAIN d12 => v4[s] # <<>>
  BY <1>6, <1>17, OverrideIn, StaysSeen
<1> HIDE DEF v4
<1>19. /\ AllIn(U, W)
       /\ \A s \in Symbols : v4[s] # <<>> \/ (o.hifi5 # "none" /\ s \in DOMAIN d13) => U[s] # <<>>
  BY <1>3, <1>6, <1>18, OverrideIn, StaysSeen
<1>20. ASSUME NEW s \in Symbols, s \in Lines(o, tree, current)
       PROVE  U[s] # <<>>
  <2>1. CASE s \in Selected(o, tree)
    BY <2>1, <1>12, <1>13, <1>14, <1>15, <1>16, <1>17, <1>18, <1>19
  <2>2. ASSUME NEW d \in L, s \in DOMAIN d
        PROVE  U[s] # <<>>
    BY <2>2, <1>1, <1>7, <1>8, <1>9, <1>10, <1>11, <1>12, <1>13, <1>14, <1>15, <1>16, <1>17,
       <1>18, <1>19
  <2> QED BY <1>20, <2>1, <2>2 DEF Lines, L
<1> QED BY <1>19, <1>20 DEF U

-----------------------------------------------------------------------------
(* What the file gets *)

\* A symbol keeps its line or gets one of the values it may get.
LEMMA AppliedIn ==
  ASSUME NEW W, NEW u, AllIn(u, W), NEW original, NEW s \in Symbols
  PROVE  /\ u[s] = <<>> => ApplyUpdates(original, u)[s] = original[s]
         /\ u[s] # <<>> => ApplyUpdates(original, u)[s] \in W[s]
<1>1. u[s] \in Seq(W[s])
  BY DEF AllIn
<1>2. u[s] # <<>> => Len(u[s]) \in 1..Len(u[s])
  BY <1>1
<1> QED BY <1>1, <1>2 DEF ApplyUpdates

-----------------------------------------------------------------------------
(* The values that a run may give to the symbols the properties are about *)

\* What only the diagnostic profiles set.
Facilities ==
  MemoryDebug \cup KasanSymbols \cup Qualification \cup QualificationEnableOnly
    \cup FaultInjection

\* The rule of DriversKept for one symbol.
KeepsDriver(s, from, to) ==
  /\ from = "y" /\ to = "m" => s = "ARMCHINA_NPU"
  /\ from = "m" /\ to = "y" => s \in {"CIX_MBOX", "PINCTRL_SKY1", "INPUT"}

Allowed(o, tree, current, s) ==
  {v \in Values :
     /\ s = "ACPI" => v # "absent"
     /\ s = "ACPI_TABLE_UPGRADE" => v = Is(o.upgrade # "none")
     /\ s = "INITRAMFS_SOURCE" => v = o.upgrade
     /\ s = "SND_SOC_SOF_CIX_SKY1" /\ o.hifi5 # "sof" => v = "n"
     /\ s \in Facilities => v = Is(s \in Wanted(o, tree))
     /\ s \in MemoryDebugEnableOnly \cup QualificationEnableOnly => v = "y"
     /\ s \in TristateSymbols /\ ~o.rewrite /\ o.hifi5 = "none" =>
          KeepsDriver(s, current[s], v)}

AllowedBy(o, tree, current) == [s \in Symbols |-> Allowed(o, tree, current, s)]

Turnable == Symbols \ (Facilities \cup {"ACPI", "ACPI_TABLE_UPGRADE", "INITRAMFS_SOURCE"})

\* Any driver but the ones that the rules protect may be turned off.
LEMMA OffAllowed ==
  ASSUME NEW o, NEW tree, NEW current, NEW s \in Turnable
  PROVE  "n" \in Allowed(o, tree, current, s)
<1>1. s \notin MemoryDebugEnableOnly \cup QualificationEnableOnly
  BY DEF Turnable, Facilities, MemoryDebug, MemoryDebugEnableOnly, QualificationEnableOnly
<1>2. "n" \in Values
  BY DEF Values
<1>3. KeepsDriver(s, current[s], "n")
  BY DEF KeepsDriver
<1> QED BY <1>1, <1>2, <1>3 DEF Allowed, Turnable

LEMMA OffLayer ==
  ASSUME NEW o, NEW tree, NEW current, NEW S, S \cap Symbols \subseteq Turnable
  PROVE  Valued(In(tree, All(S, "n")), AllowedBy(o, tree, current))
<1>1. ASSUME NEW s \in DOMAIN In(tree, All(S, "n")), s \in Symbols
      PROVE  In(tree, All(S, "n"))[s] = "n" /\ s \in Turnable
  BY <1>1 DEF In, All
<1> QED BY <1>1, OffAllowed DEF Valued, AllowedBy

\* Symbols that no rule is about may get any value.
Plain == BoolSymbols \cup ValueSymbols

LEMMA PlainAllowed ==
  ASSUME NEW o, NEW tree, NEW current, NEW s \in Turnable, s \in Plain, NEW v \in Values
  PROVE  v \in Allowed(o, tree, current, s)
<1>1. s \notin MemoryDebugEnableOnly \cup QualificationEnableOnly
  BY DEF Turnable, Facilities, MemoryDebug, MemoryDebugEnableOnly, QualificationEnableOnly
<1>2. s \notin TristateSymbols /\ s # "SND_SOC_SOF_CIX_SKY1"
  BY DEF Plain, BoolSymbols, ValueSymbols, TristateSymbols
<1> QED BY <1>1, <1>2 DEF Allowed, Turnable

LEMMA OffLayersAllowed ==
  ASSUME NEW o, NEW tree, NEW current
  PROVE  /\ Valued(In(tree, All(EthernetConflict(o, tree), "n")), AllowedBy(o, tree, current))
         /\ Valued(In(tree, All(PolicyDisabled, "n")), AllowedBy(o, tree, current))
         /\ Valued(In(tree, All(Gated(o, tree), "n")), AllowedBy(o, tree, current))
         /\ Valued(Pruned(o, tree, current), AllowedBy(o, tree, current))
<1> DEFINE Off == {"R8169", "R8126", "ARMCHINA_NPU_ARCH_V1", "TOUCHSCREEN_GOODIX", "DRM_CIX",
                   "DRM_PANTHOR", "VIDEO_LINLON", "SND_HDA_CIX_IPBLOQ", "SND_SOC_CIX",
                   "ARMCHINA_NPU", "PWM_SKY1", "I2C_HID_ACPI", "ACPI_EC", "I2C_CADENCE",
                   "PCI_SKY1", "DRM_CIX_VIRTUAL", "PLAT_BBOX", "RTC_DRV_HYM8563", "TCG_TIS",
                   "USB_CDNS3_STARFIVE", "USB_CDNS3", "USB_CDNS3_SKY1"}
<1>1. Off \cap Symbols \subseteq Turnable
  BY DEF Turnable, Facilities, MemoryDebug, KasanSymbols, KasanChoices, Qualification,
         QualificationEnableOnly, FaultInjection
<1>2. EthernetConflict(o, tree) \subseteq Off
  BY DEF EthernetConflict
<1>3. PolicyDisabled \subseteq Off
  BY DEF PolicyDisabled
<1>4. Gated(o, tree) \subseteq Off
  <2>1. \A g \in DOMAIN GraphicsDrivers : GraphicsDrivers[g] \subseteq Off
    BY DEF GraphicsDrivers
  <2>2. \A a \in DOMAIN AudioDrivers : AudioDrivers[a] \subseteq Off
    BY DEF AudioDrivers
  <2> DEFINE G == UNION {GraphicsDrivers[g] : g \in DOMAIN GraphicsDrivers \ Graphics(o)}
             A == UNION {AudioDrivers[a] : a \in DOMAIN AudioDrivers \ Audio(o)}
  <2>3. G \subseteq Off
    BY <2>1
  <2>4. A \subseteq Off
    BY <2>2
  <2>5. Gated(o, tree) \subseteq
          G \cup A \cup {"TOUCHSCREEN_GOODIX", "ARMCHINA_NPU", "PWM_SKY1"}
    <3>1. Gated(o, tree) = (IF o.touch THEN {} ELSE {"TOUCHSCREEN_GOODIX"})
            \cup IF ~Vendor(o, tree) THEN {} ELSE
              G \cup A \cup (IF o.npu THEN {} ELSE {"ARMCHINA_NPU"})
                \cup (IF Panel(o) THEN {} ELSE {"PWM_SKY1"})
      BY DEF Gated
    <3> HIDE DEF G, A, Off
    <3> QED BY <3>1
  <2> HIDE DEF G, A
  <2> QED BY <2>3, <2>4, <2>5
<1>5. Absent(o, tree) \subseteq Off
  BY DEF Absent, PatchOnlyDisabled, AcpiDisabled, AcpiUpstreamDisabled, AcpiVendorDisabled,
         VendorDisabled
<1>6. FoundUseless(o, tree, current) \subseteq Off
  <2>1. UselessByName(o, tree) \subseteq Off
    BY DEF UselessByName
  <2> QED BY <2>1 DEF FoundUseless
<1> HIDE DEF Off
<1> QED BY <1>1, <1>2, <1>3, <1>4, <1>5, <1>6, OffLayer DEF Pruned

LEMMA PlainLayer ==
  ASSUME NEW o, NEW tree, NEW current, NEW d,
         \A s \in DOMAIN d : s \in Plain /\ s \in Turnable /\ d[s] \in Values
  PROVE  Valued(d, AllowedBy(o, tree, current))
BY PlainAllowed DEF Valued, AllowedBy

LEMMA PlainLayersAllowed ==
  ASSUME NEW o, NEW tree, NEW current
  PROVE  /\ Valued(BuildHygiene(tree, current), AllowedBy(o, tree, current))
         /\ Valued(In(tree, BoardProfile(o)), AllowedBy(o, tree, current))
         /\ Valued(PlatformMemory(tree, current), AllowedBy(o, tree, current))
         /\ Valued(PageBlock(tree, current), AllowedBy(o, tree, current))
<1> DEFINE Names == {"FRAME_WARN", "ARCH_CIX", "CIX_RADXA_ORION_O6", "CIX_RADXA_ORION_O6N",
                     "CIX_RADXA_ORION_ACPI", "CIX_RADXA_ORION_DT", "CMA_SIZE_MBYTES",
                     "PAGE_BLOCK_MAX_ORDER"}
<1>1. Names \subseteq Plain /\ Names \subseteq Turnable
  BY DEF Plain, BoolSymbols, ValueSymbols, Symbols, Switches, Turnable, Facilities, MemoryDebug,
         KasanSymbols, KasanChoices, Qualification, QualificationEnableOnly, FaultInjection
<1>2. \A s \in DOMAIN BuildHygiene(tree, current) :
        s \in Names /\ BuildHygiene(tree, current)[s] \in Values
  BY DEF BuildHygiene, Values
<1>3. \A s \in DOMAIN In(tree, BoardProfile(o)) :
        s \in Names /\ In(tree, BoardProfile(o))[s] \in Values
  BY DEF In, BoardProfile, Is, Values
<1>4. \A s \in DOMAIN PlatformMemory(tree, current) :
        s \in Names /\ PlatformMemory(tree, current)[s] \in Values
  BY DEF PlatformMemory, Values
<1>5. \A s \in DOMAIN PageBlock(tree, current) :
        s \in Names /\ PageBlock(tree, current)[s] \in Values
  BY DEF PageBlock, PageBlockLimit, Values
<1> HIDE DEF Names
<1> QED BY <1>1, <1>2, <1>3, <1>4, <1>5, PlainLayer

LEMMA FirmwareAllowed ==
  ASSUME NEW o, NEW tree, NEW current
  PROVE  Valued(Firmware(o), AllowedBy(o, tree, current))
<1> DEFINE d == Firmware(o)
<1>1. \A s \in DOMAIN d :
        /\ s \in {"ACPI", "OF", "IOMMU_DEFAULT_DMA_STRICT", "IOMMU_DEFAULT_DMA_LAZY"}
        /\ d[s] \in {"y", "n"}
  BY DEF Firmware
<1>2. {"OF", "IOMMU_DEFAULT_DMA_STRICT", "IOMMU_DEFAULT_DMA_LAZY"} \subseteq Plain
  BY DEF Plain, BoolSymbols
<1>3. {"OF", "IOMMU_DEFAULT_DMA_STRICT", "IOMMU_DEFAULT_DMA_LAZY"} \subseteq Turnable
  BY DEF BoolSymbols, Symbols, Switches, Turnable, Facilities, MemoryDebug,
         KasanSymbols, KasanChoices, Qualification, QualificationEnableOnly, FaultInjection
<1>4. {"y", "n"} \subseteq Allowed(o, tree, current, "ACPI")
  BY DEF Allowed, Values, Facilities, MemoryDebug, KasanSymbols, KasanChoices, Qualification,
         QualificationEnableOnly, FaultInjection, MemoryDebugEnableOnly, TristateSymbols
<1>5. {"y", "n"} \subseteq Values
  BY DEF Values
<1> HIDE DEF d
<1>6. \A s \in DOMAIN d : d[s] \in Allowed(o, tree, current, s)
  BY <1>1, <1>2, <1>3, <1>4, <1>5, PlainAllowed
<1> QED BY <1>6 DEF Valued, AllowedBy, d

LEMMA TableUpgradeAllowed ==
  ASSUME NEW o, NEW tree, NEW current, o.upgrade \in {"none", "ssdt", "dsdt"}
  PROVE  Valued(TableUpgrade(o), AllowedBy(o, tree, current))
<1> DEFINE d == TableUpgrade(o)
           Rest == {"BLK_DEV_INITRD", "INITRAMFS_COMPRESSION_GZIP", "INITRAMFS_COMPRESSION_NONE"}
<1>1. \A s \in DOMAIN d :
        /\ s \in Rest \cup {"ACPI_TABLE_UPGRADE", "INITRAMFS_SOURCE"}
        /\ s \in Rest => d[s] \in {"y", "n"}
        /\ s = "ACPI_TABLE_UPGRADE" => d[s] = Is(o.upgrade # "none")
        /\ s = "INITRAMFS_SOURCE" => d[s] = o.upgrade /\ o.upgrade # "none"
  BY DEF TableUpgrade, Is
<1>2. Rest \subseteq Plain
  BY DEF Plain, BoolSymbols
<1>3. Rest \subseteq Turnable
  BY DEF BoolSymbols, Symbols, Switches, Turnable, Facilities, MemoryDebug,
         KasanSymbols, KasanChoices, Qualification, QualificationEnableOnly, FaultInjection
<1>4. {"y", "n"} \subseteq Values /\ Is(o.upgrade # "none") \in Values
  BY DEF Values, Is
<1>5. /\ Is(o.upgrade # "none") \in Allowed(o, tree, current, "ACPI_TABLE_UPGRADE")
      /\ o.upgrade # "none" => o.upgrade \in Allowed(o, tree, current, "INITRAMFS_SOURCE")
  <2>1. o.upgrade # "none" => o.upgrade \in Values
    BY DEF Values
  <2>2. {"ACPI_TABLE_UPGRADE", "INITRAMFS_SOURCE"} \cap
           (Facilities \cup MemoryDebugEnableOnly \cup QualificationEnableOnly
              \cup TristateSymbols \cup {"ACPI", "SND_SOC_SOF_CIX_SKY1"}) = {}
    BY DEF Facilities, MemoryDebug, KasanSymbols, KasanChoices, Qualification,
           QualificationEnableOnly, FaultInjection, MemoryDebugEnableOnly, TristateSymbols
  <2> QED BY <1>4, <2>1, <2>2 DEF Allowed
<1> HIDE DEF d, Rest
<1>6. \A s \in DOMAIN d : d[s] \in Allowed(o, tree, current, s)
  BY <1>1, <1>2, <1>3, <1>4, <1>5, PlainAllowed
<1> QED BY <1>6 DEF Valued, AllowedBy, d

LEMMA DiagnosticsAllowed ==
  ASSUME NEW o, NEW tree, NEW current
  PROVE  Valued(Diagnostics(o, tree, current), AllowedBy(o, tree, current))
<1> DEFINE d == Diagnostics(o, tree, current)
           Nocodec == {"SND_SOC_SOF_NOCODEC_DEBUG_SUPPORT", "SND_SOC_SOF_NOCODEC_SUPPORT"}
<1>1. ASSUME NEW s \in DOMAIN d
      PROVE  /\ d[s] = Is(s \in Wanted(o, tree))
             /\ s \in Wanted(o, tree) \cup Unwanted(o, tree, current)
  BY DEF Diagnostics
<1>2. Wanted(o, tree) \subseteq Facilities
  <2>1. KasanWanted(tree) \subseteq KasanSymbols
    BY DEF KasanWanted, KasanSymbols, KasanChoices
  <2>2. FaultInjectionEnableOnly \subseteq MemoryDebug
    BY DEF FaultInjectionEnableOnly, MemoryDebug
  <2> QED BY <2>1, <2>2 DEF Wanted, Facilities
<1>3. Unwanted(o, tree, current) \subseteq Facilities \cup Nocodec
  BY DEF Unwanted, Facilities, KasanSymbols, QualificationDisabled, QualificationCleared
<1>4. (MemoryDebugEnableOnly \cup QualificationEnableOnly) \cap Unwanted(o, tree, current) = {}
  BY DEF Unwanted, MemoryDebug, KasanSymbols, KasanChoices, Qualification, FaultInjection,
         MemoryDebugEnableOnly, QualificationEnableOnly, QualificationDisabled, QualificationCleared
<1>5. Nocodec \subseteq Plain /\ Nocodec \subseteq Turnable
  BY DEF Plain, BoolSymbols, Symbols, Switches, Turnable, Facilities, MemoryDebug,
         KasanSymbols, KasanChoices, Qualification, QualificationEnableOnly, FaultInjection
<1>6. Is(TRUE) = "y" /\ Is(FALSE) = "n" /\ {"y", "n"} \subseteq Values
  BY DEF Is, Values
<1>7. Facilities \cap (TristateSymbols \cup {"ACPI", "ACPI_TABLE_UPGRADE", "INITRAMFS_SOURCE",
                                             "SND_SOC_SOF_CIX_SKY1"}) = {}
  BY DEF Facilities, MemoryDebug, KasanSymbols, KasanChoices, Qualification,
         QualificationEnableOnly, FaultInjection, TristateSymbols
<1>8. ASSUME NEW s \in DOMAIN d
      PROVE  d[s] \in Allowed(o, tree, current, s)
  <2>1. d[s] \in Values
    BY <1>1, <1>6 DEF Is
  <2>2. CASE s \in Facilities
    <3>1. s \in MemoryDebugEnableOnly \cup QualificationEnableOnly => d[s] = "y"
      BY <1>1, <1>4, <1>6 DEF Is
    <3> QED BY <1>1, <1>7, <2>1, <2>2, <3>1 DEF Allowed
  <2>3. CASE s \notin Facilities
    <3>1. s \in Nocodec
      BY <1>1, <1>2, <1>3, <2>3
    <3> QED BY <1>5, <2>1, <3>1, PlainAllowed
  <2> QED BY <2>2, <2>3
<1> HIDE DEF d
<1> QED BY <1>8 DEF Valued, AllowedBy, d

LEMMA HiFi5Allowed ==
  ASSUME NEW o, NEW tree, NEW current, o.hifi5 \in {"none", "xaf", "sof"}
  PROVE  Valued(In(tree, [s \in HiFi5Switches(o) |-> HiFi5(o, s)]), AllowedBy(o, tree, current))
<1> DEFINE d == In(tree, [s \in HiFi5Switches(o) |-> HiFi5(o, s)])
           Names == {"CIX_DSP_RPROC", "RPMSG_CHAR", "SND", "SND_SOC", "SND_SOC_SOF_CIX_SKY1",
                     "MAILBOX", "CIX_HIFI5_FIRMWARE_XAF", "CIX_HIFI5_FIRMWARE_SOF",
                     "SND_SOC_SOF_NOCODEC_SUPPORT", "SND_SOC_SOF_NOCODEC_DEBUG_SUPPORT"}
<1>1. \A s \in DOMAIN d : s \in HiFi5Switches(o) /\ d[s] = HiFi5(o, s)
  BY DEF In
<1>2. HiFi5Switches(o) \subseteq Names
  BY DEF HiFi5Switches, HiFi5Drivers, HiFi5BuiltIn, HiFi5Excluded, HiFi5XafDrivers, HiFi5SofDrivers
<1>3. Names \cap (Facilities \cup MemoryDebugEnableOnly \cup QualificationEnableOnly
                    \cup {"ACPI", "ACPI_TABLE_UPGRADE", "INITRAMFS_SOURCE"}) = {}
  BY DEF Facilities, MemoryDebug, KasanSymbols, KasanChoices, Qualification,
         QualificationEnableOnly, FaultInjection, MemoryDebugEnableOnly
<1>4. \A s : HiFi5(o, s) \in {"n", "y", "m"}
  BY DEF HiFi5, TristateValue
<1>5. {"n", "y", "m"} \subseteq Values
  BY DEF Values
<1>6. o.hifi5 = "none" => \A s \in HiFi5Switches(o) : HiFi5(o, s) = "n"
  BY DEF HiFi5Switches, HiFi5Drivers, HiFi5BuiltIn, HiFi5Excluded, HiFi5
<1>7. o.hifi5 # "sof" => HiFi5(o, "SND_SOC_SOF_CIX_SKY1") = "n"
  BY DEF HiFi5Excluded, HiFi5
<1>8. ASSUME NEW s \in HiFi5Switches(o)
      PROVE  HiFi5(o, s) \in Allowed(o, tree, current, s)
  <2>1. o.hifi5 = "none" => KeepsDriver(s, current[s], HiFi5(o, s))
    BY <1>6 DEF KeepsDriver
  <2>2. s \in Names /\ HiFi5(o, s) \in Values
    BY <1>2, <1>4, <1>5
  <2> HIDE DEF Names
  <2>3. s \notin Facilities \cup MemoryDebugEnableOnly \cup QualificationEnableOnly
                    \cup {"ACPI", "ACPI_TABLE_UPGRADE", "INITRAMFS_SOURCE"}
    BY <1>3, <2>2
  <2> QED BY <1>7, <2>1, <2>2, <2>3 DEF Allowed
<1> HIDE DEF d
<1> QED BY <1>1, <1>8 DEF Valued, AllowedBy, d

LEMMA TableEntry ==
  ASSUME NEW table, NEW policies, NEW e \in InTable(table, policies)
  PROVE  e[2] \in DOMAIN policies /\ e[3] = policies[e[2]]
BY DEF InTable

LEMMA SupportedSymbols ==
  ASSUME NEW o, NEW tree, NEW e \in Supported(o, tree)
  PROVE  /\ e[2] \in Turnable \/ e[2] \notin Symbols
         /\ e[2] # "SND_SOC_SOF_CIX_SKY1"
         /\ e[3] = "builtin" => e[2] \in {"MAILBOX", "CIX_MBOX", "PINCTRL_SKY1"}
         /\ e[3] = "module" => e[2] = "ARMCHINA_NPU"
<1> DEFINE Names == {"EFI", "RTC_DRV_EFI", "RTC_DRV_HYM8563", "MAILBOX", "CIX_MBOX",
                     "PINCTRL_SKY1", "I2C_CADENCE", "SENSORS_CIX_FAN", "DRM", "DRM_CIX",
                     "DRM_PANTHOR", "VIDEO_LINLON", "MODULES", "ARMCHINA_NPU", "PWM_SKY1",
                     "INPUT", "TOUCHSCREEN_GOODIX", "SND", "SND_HDA_CIX_IPBLOQ", "SND_SOC",
                     "SND_SOC_CIX", "R8126", "R8169"}
           Good(x) == /\ x[2] \in Names
                      /\ x[3] = "builtin" => x[2] \in {"MAILBOX", "CIX_MBOX", "PINCTRL_SKY1"}
                      /\ x[3] = "module" => x[2] = "ARMCHINA_NPU"
<1>1. \A x \in SupportedCommon : Good(x)
  BY TableEntry DEF SupportedCommon
<1>2. \A x \in SupportedDt : Good(x)
  BY TableEntry DEF SupportedDt
<1>3. \A x \in SupportedVendorAcpi : Good(x)
  BY TableEntry DEF SupportedVendorAcpi
<1>4. \A x \in SupportedVendorAcpiO6 : Good(x)
  BY TableEntry DEF SupportedVendorAcpiO6
<1>5. \A x \in SupportedVendorDt : Good(x)
  BY TableEntry DEF SupportedVendorDt
<1>6. \A x \in SupportedDisplay : Good(x)
  BY TableEntry DEF SupportedDisplay
<1>7. \A x \in SupportedGpu : Good(x)
  BY TableEntry DEF SupportedGpu
<1>8. \A x \in SupportedMedia : Good(x)
  BY TableEntry DEF SupportedMedia
<1>9. \A x \in SupportedNpu : Good(x)
  BY TableEntry DEF SupportedNpu
<1>10. \A x \in SupportedEdp : Good(x)
  BY TableEntry DEF SupportedEdp
<1>11. \A x \in SupportedTouchscreen : Good(x)
  BY TableEntry DEF SupportedTouchscreen
<1>12. \A x \in SupportedAudioAnalog : Good(x)
  BY TableEntry DEF SupportedAudioAnalog
<1>13. \A x \in SupportedAudioDisplay : Good(x)
  BY TableEntry DEF SupportedAudioDisplay
<1>14. \A x \in {"ethernet"} \X Ethernet(o, tree) \X {"prefer"} : Good(x)
  BY DEF Ethernet
<1>15. Good(e)
  <2> HIDE DEF Good
  <2> QED BY <1>1, <1>2, <1>3, <1>4, <1>5, <1>6, <1>7, <1>8, <1>9, <1>10, <1>11, <1>12, <1>13,
             <1>14 DEF Supported
<1>16. Names \cap (Facilities \cup {"ACPI", "ACPI_TABLE_UPGRADE", "INITRAMFS_SOURCE"}) = {}
  BY DEF Facilities, MemoryDebug, KasanSymbols, KasanChoices, Qualification,
         QualificationEnableOnly, FaultInjection
<1> QED BY <1>15, <1>16 DEF Turnable

LEMMA SupportedAllowed ==
  ASSUME NEW o, NEW tree, NEW current \in Configs,
         NEW e \in Supported(o, tree), e[2] \in Symbols
  PROVE  EntryValue(o, e, current) \in AllowedBy(o, tree, current)[e[2]]
<1> DEFINE s == e[2]
           p == Policy(s, e[3], current)
           v == EntryValue(o, e, current)
<1>1. s \in Turnable /\ s # "SND_SOC_SOF_CIX_SKY1"
  BY SupportedSymbols
<1>2. /\ p = "builtin" => s \in {"MAILBOX", "CIX_MBOX", "PINCTRL_SKY1", "INPUT"}
      /\ p = "module" => s = "ARMCHINA_NPU"
  BY SupportedSymbols DEF Policy
<1>3. "MAILBOX" \notin TristateSymbols /\ BoolSymbols \cap TristateSymbols = {}
  BY DEF TristateSymbols, BoolSymbols
<1>4. v = IF p \notin {"builtin", "module"} /\ ~o.rewrite /\ On(current[s]) THEN current[s]
          ELSE TristateValue(s, p, o.pref)
  BY DEF EntryValue, SupportedValue
<1>5. current[s] \in Values /\ TristateValue(s, p, o.pref) \in {"y", "m"}
  BY DEF Configs, TristateValue
<1> HIDE DEF p, v
<1>6. v \in Values
  BY <1>4, <1>5 DEF Values
<1>7. s \in TristateSymbols /\ ~o.rewrite => KeepsDriver(s, current[s], v)
  <2> SUFFICES ASSUME s \in TristateSymbols, ~o.rewrite
               PROVE  KeepsDriver(s, current[s], v)
    OBVIOUS
  <2>1. CASE p = "builtin"
    <3>1. v = "y"
      BY <1>4, <2>1 DEF TristateValue
    <3> QED BY <1>2, <1>3, <2>1, <3>1 DEF KeepsDriver
  <2>2. CASE p = "module"
    BY <1>2, <1>3, <1>4, <2>2 DEF KeepsDriver, TristateValue
  <2>3. CASE p \notin {"builtin", "module"}
    BY <1>4, <2>3 DEF KeepsDriver, On
  <2> QED BY <2>1, <2>2, <2>3
<1>8. s \notin MemoryDebugEnableOnly \cup QualificationEnableOnly
  BY <1>1 DEF Turnable, Facilities, MemoryDebug, MemoryDebugEnableOnly, QualificationEnableOnly
<1>9. v \in Allowed(o, tree, current, s)
  BY <1>1, <1>6, <1>7, <1>8 DEF Allowed, Turnable
<1> QED BY <1>9 DEF AllowedBy, v

-----------------------------------------------------------------------------
(* What the .config becomes *)

Mentioned(o, tree, current) ==
  DOMAIN Firmware(o) \cup DOMAIN TableUpgrade(o) \cup DOMAIN Diagnostics(o, tree, current)
    \cup DOMAIN In(tree, [s \in HiFi5Switches(o) |-> HiFi5(o, s)])

LEMMA MentionedLines ==
  ASSUME NEW o, NEW tree, NEW current
  PROVE  Mentioned(o, tree, current) \subseteq Lines(o, tree, current)
BY DEF Mentioned, Lines, Layers

LEMMA LayersAllowed ==
  ASSUME NEW o, NEW tree, NEW current \in Configs,
         o.upgrade \in {"none", "ssdt", "dsdt"}, o.hifi5 \in {"none", "xaf", "sof"}
  PROVE  /\ \A d \in Layers(o, tree, current) : Valued(d, AllowedBy(o, tree, current))
         /\ \A e \in Supported(o, tree) :
              e[2] \in Symbols => EntryValue(o, e, current) \in AllowedBy(o, tree, current)[e[2]]
<1>1. \A d \in Layers(o, tree, current) : Valued(d, AllowedBy(o, tree, current))
  BY OffLayersAllowed, PlainLayersAllowed, FirmwareAllowed, TableUpgradeAllowed,
     DiagnosticsAllowed, HiFi5Allowed DEF Layers
<1> QED BY <1>1, SupportedAllowed

\* Every line that a run writes has an allowed value; every symbol of the
\* firmware, of the table upgrade, of the diagnostic profiles and of the DSP
\* gets a line.
LEMMA AppliedAllowed ==
  ASSUME NEW o, NEW tree, NEW current \in Configs, NEW original,
         o.upgrade \in {"none", "ssdt", "dsdt"}, o.hifi5 \in {"none", "xaf", "sof"},
         NEW after, after = ApplyUpdates(original, Updates(o, tree, current)),
         NEW s \in Symbols
  PROVE  /\ after[s] = original[s] \/ after[s] \in Allowed(o, tree, current, s)
         /\ s \in Mentioned(o, tree, current) => after[s] \in Allowed(o, tree, current, s)
<1> DEFINE W == AllowedBy(o, tree, current)
           U == Updates(o, tree, current)
<1>1. \A d \in Layers(o, tree, current) : Valued(d, W)
  BY LayersAllowed
<1>2. \A e \in Supported(o, tree) : e[2] \in Symbols => EntryValue(o, e, current) \in W[e[2]]
  BY LayersAllowed
<1>3. W[s] = Allowed(o, tree, current, s)
  BY DEF AllowedBy
<1> HIDE DEF W
<1>4. AllIn(U, W) /\ (s \in Mentioned(o, tree, current) => U[s] # <<>>)
  BY <1>1, <1>2, UpdatesIn, MentionedLines
<1>5. /\ U[s] = <<>> => ApplyUpdates(original, U)[s] = original[s]
      /\ U[s] # <<>> => ApplyUpdates(original, U)[s] \in W[s]
  BY <1>4, AppliedIn
<1> HIDE DEF U
<1>6. after = ApplyUpdates(original, U)
  BY DEF U
<1> QED BY <1>3, <1>4, <1>5, <1>6

-----------------------------------------------------------------------------
(* What a run decides whatever the .config says: one board, one driver of a  *)
(* device, one owner of the DSP, and the features that the options ask for   *)

\* A run that writes one of these symbols turns it off.
Excluded(o, tree) ==
  Gated(o, tree) \cup EthernetConflict(o, tree) \cup HiFi5Excluded(o)
    \cup (IF o.hifi5 = "none" THEN FirmwareStacks ELSE {})
    \cup {"INITRAMFS_COMPRESSION_GZIP"}
    \cup (IF o.upgrade = "none" THEN {"INITRAMFS_COMPRESSION_NONE"} ELSE {})

Ruled(o, tree, s) ==
  {v \in Values :
     /\ s \in Excluded(o, tree) => v = "n"
     /\ s \in Providers \ Excluded(o, tree) => On(v)
     /\ s = "ARMCHINA_NPU" => v # "y"
     /\ s \in FirmwareStacks => s \in tree.symbols
     /\ s \in DOMAIN BoardProfile(o) => v = BoardProfile(o)[s]}

RuledBy(o, tree) == [s \in Symbols |-> Ruled(o, tree, s)]

\* The symbols that no other rule is about.
BoardSymbols == {"ARCH_CIX", "CIX_RADXA_ORION_O6", "CIX_RADXA_ORION_O6N",
                 "CIX_RADXA_ORION_ACPI", "CIX_RADXA_ORION_DT"}
DriverSymbols ==
  {"TOUCHSCREEN_GOODIX", "DRM_CIX", "DRM_PANTHOR", "VIDEO_LINLON", "SND_HDA_CIX_IPBLOQ",
   "SND_SOC_CIX", "ARMCHINA_NPU", "PWM_SKY1"}
DspSymbols ==
  FirmwareStacks \cup {"CIX_DSP_RPROC", "SND_SOC_SOF_CIX_SKY1", "SND_SOC_SOF_NOCODEC_SUPPORT",
                       "SND_SOC_SOF_NOCODEC_DEBUG_SUPPORT"}
RuledSymbols ==
  BoardSymbols \cup DriverSymbols \cup DspSymbols \cup Compressions \cup Providers
    \cup {"R8126", "R8169"}

LEMMA GatedDrivers ==
  ASSUME NEW o, NEW tree
  PROVE  Gated(o, tree) \subseteq DriverSymbols
<1>1. \A g \in DOMAIN GraphicsDrivers : GraphicsDrivers[g] \subseteq DriverSymbols
  BY DEF GraphicsDrivers, DriverSymbols
<1>2. \A a \in DOMAIN AudioDrivers : AudioDrivers[a] \subseteq DriverSymbols
  BY DEF AudioDrivers, DriverSymbols
<1> DEFINE G == UNION {GraphicsDrivers[g] : g \in DOMAIN GraphicsDrivers \ Graphics(o)}
           A == UNION {AudioDrivers[a] : a \in DOMAIN AudioDrivers \ Audio(o)}
<1>3. G \subseteq DriverSymbols /\ A \subseteq DriverSymbols
  BY <1>1, <1>2
<1>4. Gated(o, tree) = (IF o.touch THEN {} ELSE {"TOUCHSCREEN_GOODIX"})
        \cup IF ~Vendor(o, tree) THEN {} ELSE
          G \cup A \cup (IF o.npu THEN {} ELSE {"ARMCHINA_NPU"})
            \cup (IF Panel(o) THEN {} ELSE {"PWM_SKY1"})
  BY DEF Gated
<1>5. {"TOUCHSCREEN_GOODIX", "ARMCHINA_NPU", "PWM_SKY1"} \subseteq DriverSymbols
  BY DEF DriverSymbols
<1> HIDE DEF G, A
<1> QED BY <1>3, <1>4, <1>5

LEMMA ExcludedSymbols ==
  ASSUME NEW o, NEW tree, o.hifi5 \in {"none", "xaf", "sof"}
  PROVE  Excluded(o, tree) \subseteq DriverSymbols \cup DspSymbols \cup Compressions
                                       \cup {"R8126", "R8169"}
<1>1. EthernetConflict(o, tree) \subseteq {"R8126", "R8169"}
  BY DEF EthernetConflict
<1>2. HiFi5Excluded(o) \subseteq DspSymbols
  BY DEF HiFi5Excluded, DspSymbols, FirmwareStacks
<1>3. FirmwareStacks \subseteq DspSymbols
  BY DEF DspSymbols
<1> QED BY <1>1, <1>2, <1>3, GatedDrivers DEF Excluded, Compressions

LEMMA BoardDomain ==
  ASSUME NEW o
  PROVE  DOMAIN BoardProfile(o) = BoardSymbols
BY DEF BoardProfile, BoardSymbols

\* Where no rule applies, every value is allowed.
LEMMA FreeRuled ==
  ASSUME NEW o, NEW tree, o.hifi5 \in {"none", "xaf", "sof"}, NEW s, s \notin RuledSymbols,
         NEW v \in Values
  PROVE  v \in Ruled(o, tree, s)
<1>1. s \notin Excluded(o, tree) \cup Providers \cup BoardSymbols \cup FirmwareStacks
                   \cup {"ARMCHINA_NPU"}
  BY ExcludedSymbols DEF RuledSymbols, DriverSymbols, DspSymbols
<1> QED BY <1>1, BoardDomain DEF Ruled

\* What is neither a provider nor a board may be turned off.
LEMMA OffRuled ==
  ASSUME NEW o, NEW tree, NEW s, s \notin BoardSymbols, s \in Excluded(o, tree) \/ s \notin Providers,
         s \in FirmwareStacks => s \in tree.symbols
  PROVE  "n" \in Ruled(o, tree, s)
BY BoardDomain DEF Ruled, Values

LEMMA FreeLayer ==
  ASSUME NEW o, NEW tree, o.hifi5 \in {"none", "xaf", "sof"}, NEW d,
         \A s \in DOMAIN d : s \notin RuledSymbols /\ d[s] \in Values
  PROVE  Valued(d, RuledBy(o, tree))
BY FreeRuled DEF Valued, RuledBy

LEMMA OffLayerRuled ==
  ASSUME NEW o, NEW tree, NEW S,
         \A s \in S : /\ s \notin BoardSymbols \cup FirmwareStacks
                      /\ s \in Excluded(o, tree) \/ s \notin Providers
  PROVE  Valued(In(tree, All(S, "n")), RuledBy(o, tree))
<1>1. ASSUME NEW s \in DOMAIN In(tree, All(S, "n"))
      PROVE  In(tree, All(S, "n"))[s] = "n" /\ s \in S
  BY <1>1 DEF In, All
<1> QED BY <1>1, OffRuled DEF Valued, RuledBy

LEMMA FreeLayersRuled ==
  ASSUME NEW o, NEW tree, NEW current, o.hifi5 \in {"none", "xaf", "sof"}
  PROVE  /\ Valued(Firmware(o), RuledBy(o, tree))
         /\ Valued(BuildHygiene(tree, current), RuledBy(o, tree))
         /\ Valued(PlatformMemory(tree, current), RuledBy(o, tree))
         /\ Valued(PageBlock(tree, current), RuledBy(o, tree))
<1> DEFINE Names == {"ACPI", "OF", "IOMMU_DEFAULT_DMA_STRICT", "IOMMU_DEFAULT_DMA_LAZY",
                     "FRAME_WARN", "CMA_SIZE_MBYTES", "PAGE_BLOCK_MAX_ORDER"}
<1>1. Names \cap RuledSymbols = {}
  BY DEF RuledSymbols, BoardSymbols, DriverSymbols, DspSymbols, FirmwareStacks, Compressions,
         Providers
<1>2. \A s \in DOMAIN Firmware(o) : s \in Names /\ Firmware(o)[s] \in Values
  BY DEF Firmware, Values
<1>3. \A s \in DOMAIN BuildHygiene(tree, current) :
        s \in Names /\ BuildHygiene(tree, current)[s] \in Values
  BY DEF BuildHygiene, Values
<1>4. \A s \in DOMAIN PlatformMemory(tree, current) :
        s \in Names /\ PlatformMemory(tree, current)[s] \in Values
  BY DEF PlatformMemory, Values
<1>5. \A s \in DOMAIN PageBlock(tree, current) :
        s \in Names /\ PageBlock(tree, current)[s] \in Values
  BY DEF PageBlock, PageBlockLimit, Values
<1> HIDE DEF Names
<1> QED BY <1>1, <1>2, <1>3, <1>4, <1>5, FreeLayer

LEMMA OffLayersRuled ==
  ASSUME NEW o, NEW tree, NEW current
  PROVE  /\ Valued(In(tree, All(EthernetConflict(o, tree), "n")), RuledBy(o, tree))
         /\ Valued(In(tree, All(PolicyDisabled, "n")), RuledBy(o, tree))
         /\ Valued(In(tree, All(Gated(o, tree), "n")), RuledBy(o, tree))
         /\ Valued(Pruned(o, tree, current), RuledBy(o, tree))
<1> DEFINE Off == {"R8169", "R8126", "ARMCHINA_NPU_ARCH_V1", "I2C_HID_ACPI", "ACPI_EC",
                   "I2C_CADENCE", "PCI_SKY1", "DRM_CIX_VIRTUAL", "PLAT_BBOX", "RTC_DRV_HYM8563",
                   "TCG_TIS", "USB_CDNS3_STARFIVE", "USB_CDNS3", "USB_CDNS3_SKY1"}
<1>1. Off \cap (BoardSymbols \cup Providers \cup FirmwareStacks) = {}
  BY DEF BoardSymbols, Providers, FirmwareStacks
<1>2. EthernetConflict(o, tree) \subseteq Off /\ PolicyDisabled \subseteq Off
  BY DEF EthernetConflict, PolicyDisabled
<1>3. Absent(o, tree) \subseteq Off
  BY DEF Absent, PatchOnlyDisabled, AcpiDisabled, AcpiUpstreamDisabled, AcpiVendorDisabled,
         VendorDisabled
<1>4. FoundUseless(o, tree, current) \subseteq Off
  <2>1. UselessByName(o, tree) \subseteq Off
    BY DEF UselessByName
  <2> QED BY <2>1 DEF FoundUseless
<1>5. /\ Gated(o, tree) \subseteq Excluded(o, tree)
      /\ Gated(o, tree) \cap (BoardSymbols \cup FirmwareStacks) = {}
  BY GatedDrivers DEF Excluded, BoardSymbols, DriverSymbols, FirmwareStacks
<1> HIDE DEF Off
<1>6. Valued(In(tree, All(Gated(o, tree), "n")), RuledBy(o, tree))
  BY <1>5, OffLayerRuled
<1>7. ASSUME NEW S, S \subseteq Off
      PROVE  Valued(In(tree, All(S, "n")), RuledBy(o, tree))
  BY <1>1, <1>7, OffLayerRuled
<1> QED BY <1>2, <1>3, <1>4, <1>6, <1>7 DEF Pruned

LEMMA BoardRuled ==
  ASSUME NEW o, NEW tree, o.hifi5 \in {"none", "xaf", "sof"}
  PROVE  Valued(In(tree, BoardProfile(o)), RuledBy(o, tree))
<1> DEFINE d == BoardProfile(o)
<1>1. BoardSymbols \cap (Providers \cup FirmwareStacks \cup {"ARMCHINA_NPU"}) = {}
  BY DEF BoardSymbols, Providers, FirmwareStacks
<1>2. BoardSymbols \cap Excluded(o, tree) = {}
  <2>1. BoardSymbols \cap (DriverSymbols \cup DspSymbols \cup Compressions
                             \cup {"R8126", "R8169"}) = {}
    BY DEF BoardSymbols, DriverSymbols, DspSymbols, FirmwareStacks, Compressions
  <2> QED BY <2>1, ExcludedSymbols
<1>3. \A s \in DOMAIN d : d[s] \in Values
  BY DEF BoardProfile, Is, Values
<1>4. DOMAIN d = BoardSymbols
  BY BoardDomain
<1>5. \A s \in DOMAIN In(tree, d) : s \in BoardSymbols /\ In(tree, d)[s] = d[s]
  BY <1>4 DEF In
<1>6. \A s \in BoardSymbols : d[s] \in Ruled(o, tree, s)
  BY <1>1, <1>2, <1>3, <1>4 DEF Ruled
<1> HIDE DEF d
<1> QED BY <1>5, <1>6 DEF Valued, RuledBy, d

LEMMA TableUpgradeRuled ==
  ASSUME NEW o, NEW tree, o.hifi5 \in {"none", "xaf", "sof"}, o.upgrade \in {"none", "ssdt", "dsdt"}
  PROVE  Valued(TableUpgrade(o), RuledBy(o, tree))
<1> DEFINE d == TableUpgrade(o)
           Rest == {"BLK_DEV_INITRD", "ACPI_TABLE_UPGRADE", "INITRAMFS_SOURCE"}
           gzip == "INITRAMFS_COMPRESSION_GZIP"
           none == "INITRAMFS_COMPRESSION_NONE"
<1>1. \A s \in DOMAIN d :
        /\ s \in Rest \cup {gzip, none}
        /\ d[s] \in Values
        /\ s = gzip => d[s] = "n"
        /\ s = none => d[s] = "y" /\ o.upgrade # "none"
  BY DEF TableUpgrade, Values
<1>2. Rest \cap RuledSymbols = {}
  BY DEF RuledSymbols, BoardSymbols, DriverSymbols, DspSymbols, FirmwareStacks, Compressions,
         Providers
<1>3. "n" \in Ruled(o, tree, gzip)
  BY OffRuled DEF BoardSymbols, Providers, FirmwareStacks
<1>4. o.upgrade # "none" => "y" \in Ruled(o, tree, none)
  <2>1. none \notin BoardSymbols \cup Providers \cup DriverSymbols \cup DspSymbols
                    \cup {"R8126", "R8169", gzip, "ARMCHINA_NPU"}
    BY DEF BoardSymbols, Providers, DriverSymbols, DspSymbols, FirmwareStacks
  <2>2. EthernetConflict(o, tree) \subseteq {"R8126", "R8169"}
    BY DEF EthernetConflict
  <2>3. HiFi5Excluded(o) \cup FirmwareStacks \subseteq DspSymbols
    BY DEF HiFi5Excluded, DspSymbols, FirmwareStacks
  <2>4. o.upgrade # "none" => none \notin Excluded(o, tree)
    BY <2>1, <2>2, <2>3, GatedDrivers DEF Excluded
  <2> QED BY <2>1, <2>4, BoardDomain DEF Ruled, Values, DspSymbols
<1> HIDE DEF d, Rest
<1>5. \A s \in DOMAIN d : d[s] \in Ruled(o, tree, s)
  BY <1>1, <1>2, <1>3, <1>4, FreeRuled
<1> QED BY <1>5 DEF Valued, RuledBy, d

LEMMA DiagnosticsRuled ==
  ASSUME NEW o, NEW tree, NEW current, o.hifi5 \in {"none", "xaf", "sof"}
  PROVE  Valued(Diagnostics(o, tree, current), RuledBy(o, tree))
<1> DEFINE d == Diagnostics(o, tree, current)
           Nocodec == {"SND_SOC_SOF_NOCODEC_DEBUG_SUPPORT", "SND_SOC_SOF_NOCODEC_SUPPORT"}
<1>1. ASSUME NEW s \in DOMAIN d
      PROVE  /\ d[s] = Is(s \in Wanted(o, tree))
             /\ s \in Wanted(o, tree) \cup Unwanted(o, tree, current)
  BY DEF Diagnostics
<1>2. Wanted(o, tree) \subseteq Facilities
  <2>1. KasanWanted(tree) \subseteq KasanSymbols
    BY DEF KasanWanted, KasanSymbols, KasanChoices
  <2>2. FaultInjectionEnableOnly \subseteq MemoryDebug
    BY DEF FaultInjectionEnableOnly, MemoryDebug
  <2> QED BY <2>1, <2>2 DEF Wanted, Facilities
<1>3. Unwanted(o, tree, current) \subseteq Facilities \cup Nocodec
  BY DEF Unwanted, Facilities, KasanSymbols, QualificationDisabled, QualificationCleared
<1>4. Facilities \cap (RuledSymbols \cup Nocodec) = {}
  BY DEF Facilities, MemoryDebug, KasanSymbols, KasanChoices, Qualification,
         QualificationEnableOnly, FaultInjection, RuledSymbols, BoardSymbols, DriverSymbols,
         DspSymbols, FirmwareStacks, Compressions, Providers
<1>5. Nocodec \cap (BoardSymbols \cup Providers \cup FirmwareStacks) = {}
  BY DEF BoardSymbols, Providers, FirmwareStacks
<1>6. {"y", "n"} \subseteq Values
  BY DEF Values
<1> HIDE DEF Nocodec, d
<1>7. ASSUME NEW s \in DOMAIN d
      PROVE  d[s] \in Ruled(o, tree, s)
  <2>1. CASE s \in Facilities
    BY <1>1, <1>4, <1>6, <2>1, FreeRuled DEF Is
  <2>2. CASE s \notin Facilities
    <3>1. s \in Nocodec /\ d[s] = "n"
      BY <1>1, <1>2, <1>3, <2>2 DEF Is
    <3> QED BY <1>5, <3>1, OffRuled
  <2> QED BY <2>1, <2>2
<1> QED BY <1>7 DEF Valued, RuledBy, d

LEMMA HiFi5Ruled ==
  ASSUME NEW o, NEW tree, o.hifi5 \in {"none", "xaf", "sof"}
  PROVE  Valued(In(tree, [s \in HiFi5Switches(o) |-> HiFi5(o, s)]), RuledBy(o, tree))
<1> DEFINE d == In(tree, [s \in HiFi5Switches(o) |-> HiFi5(o, s)])
<1>1. \A s \in DOMAIN d : s \in HiFi5Switches(o) \cap tree.symbols /\ d[s] = HiFi5(o, s)
  BY DEF In, Settable
<1>2. HiFi5Excluded(o) \subseteq DspSymbols
  BY DEF HiFi5Excluded, DspSymbols, FirmwareStacks
<1>3. DspSymbols \cap BoardSymbols = {}
  BY DEF DspSymbols, FirmwareStacks, BoardSymbols
<1>4. ASSUME NEW s \in HiFi5Excluded(o) \cap tree.symbols
      PROVE  HiFi5(o, s) \in Ruled(o, tree, s)
  <2>1. HiFi5(o, s) = "n" /\ s \in Excluded(o, tree)
    BY DEF HiFi5, Excluded
  <2> QED BY <1>2, <1>3, <2>1, OffRuled
<1>5. ASSUME NEW s \in (HiFi5Switches(o) \cap tree.symbols) \ HiFi5Excluded(o)
      PROVE  HiFi5(o, s) \in Ruled(o, tree, s)
  <2> DEFINE Names == {"CIX_DSP_RPROC", "RPMSG_CHAR", "MAILBOX", "CIX_HIFI5_FIRMWARE_XAF", "SND",
                       "SND_SOC", "SND_SOC_SOF_CIX_SKY1", "CIX_HIFI5_FIRMWARE_SOF"}
  <2>1. HiFi5(o, s) \in {"y", "m"}
    BY DEF HiFi5, TristateValue
  <2>2. s \in Names /\ o.hifi5 # "none"
    BY DEF HiFi5Switches, HiFi5Drivers, HiFi5BuiltIn, HiFi5Excluded, HiFi5XafDrivers,
           HiFi5SofDrivers
  <2>3. Names \cap (DriverSymbols \cup Compressions \cup BoardSymbols
                      \cup {"R8126", "R8169", "ARMCHINA_NPU"}) = {}
    BY DEF DriverSymbols, Compressions, BoardSymbols
  <2>4. EthernetConflict(o, tree) \subseteq {"R8126", "R8169"}
    BY DEF EthernetConflict
  <2> HIDE DEF Names
  <2>5. s \notin Excluded(o, tree)
    <3>1. Excluded(o, tree) \subseteq Gated(o, tree) \cup EthernetConflict(o, tree)
                                        \cup HiFi5Excluded(o) \cup Compressions
      BY <2>2 DEF Excluded, Compressions
    <3> QED BY <1>5, <2>2, <2>3, <2>4, <3>1, GatedDrivers
  <2> QED BY <2>1, <2>2, <2>3, <2>5, BoardDomain DEF Ruled, Values, On
<1> HIDE DEF d
<1>6. \A s \in HiFi5Switches(o) \cap tree.symbols : HiFi5(o, s) \in Ruled(o, tree, s)
  BY <1>4, <1>5
<1> QED BY <1>1, <1>6 DEF Valued, RuledBy, d

\* Which drivers the options leave out.
LEMMA GatedCases ==
  ASSUME NEW o, NEW tree
  PROVE  /\ "TOUCHSCREEN_GOODIX" \in Gated(o, tree) <=> ~o.touch
         /\ "DRM_CIX" \in Gated(o, tree) <=> Vendor(o, tree) /\ "display" \notin Graphics(o)
         /\ "DRM_PANTHOR" \in Gated(o, tree) <=> Vendor(o, tree) /\ "gpu" \notin Graphics(o)
         /\ "VIDEO_LINLON" \in Gated(o, tree) <=> Vendor(o, tree) /\ "media" \notin Graphics(o)
         /\ "SND_HDA_CIX_IPBLOQ" \in Gated(o, tree) <=> Vendor(o, tree) /\ "analog" \notin Audio(o)
         /\ "SND_SOC_CIX" \in Gated(o, tree) <=> Vendor(o, tree) /\ "display" \notin Audio(o)
         /\ "ARMCHINA_NPU" \in Gated(o, tree) <=> Vendor(o, tree) /\ ~o.npu
         /\ "PWM_SKY1" \in Gated(o, tree) <=> Vendor(o, tree) /\ ~Panel(o)
<1> DEFINE G == UNION {GraphicsDrivers[g] : g \in DOMAIN GraphicsDrivers \ Graphics(o)}
           A == UNION {AudioDrivers[a] : a \in DOMAIN AudioDrivers \ Audio(o)}
<1>1. \A s : s \in G <=> \/ s = "DRM_CIX" /\ "display" \notin Graphics(o)
                         \/ s = "DRM_PANTHOR" /\ "gpu" \notin Graphics(o)
                         \/ s = "VIDEO_LINLON" /\ "media" \notin Graphics(o)
  <2>1. \A s : s \in G <=> \E g \in DOMAIN GraphicsDrivers \ Graphics(o) : s \in GraphicsDrivers[g]
    OBVIOUS
  <2>2. /\ DOMAIN GraphicsDrivers = {"display", "gpu", "media"}
        /\ GraphicsDrivers["display"] = {"DRM_CIX"} /\ GraphicsDrivers["gpu"] = {"DRM_PANTHOR"}
        /\ GraphicsDrivers["media"] = {"VIDEO_LINLON"}
    BY DEF GraphicsDrivers
  <2> HIDE DEF G
  <2> QED BY <2>1, <2>2
<1>2. \A s : s \in A <=> \/ s = "SND_HDA_CIX_IPBLOQ" /\ "analog" \notin Audio(o)
                         \/ s = "SND_SOC_CIX" /\ "display" \notin Audio(o)
  <2>1. \A s : s \in A <=> \E g \in DOMAIN AudioDrivers \ Audio(o) : s \in AudioDrivers[g]
    OBVIOUS
  <2>2. /\ DOMAIN AudioDrivers = {"analog", "display"}
        /\ AudioDrivers["analog"] = {"SND_HDA_CIX_IPBLOQ"}
        /\ AudioDrivers["display"] = {"SND_SOC_CIX"}
    BY DEF AudioDrivers
  <2> HIDE DEF A
  <2> QED BY <2>1, <2>2
<1>3. Gated(o, tree) = (IF o.touch THEN {} ELSE {"TOUCHSCREEN_GOODIX"})
        \cup IF ~Vendor(o, tree) THEN {} ELSE
          G \cup A \cup (IF o.npu THEN {} ELSE {"ARMCHINA_NPU"})
            \cup (IF Panel(o) THEN {} ELSE {"PWM_SKY1"})
  BY DEF Gated
<1> HIDE DEF G, A
<1> QED BY <1>1, <1>2, <1>3

\* No profile selects what it leaves out.
LEMMA SelectedKept ==
  ASSUME NEW o, NEW tree, NEW e \in Supported(o, tree), o.hifi5 \in {"none", "xaf", "sof"}
  PROVE  /\ e[2] \notin Excluded(o, tree) \cup BoardSymbols \cup FirmwareStacks
         /\ e[2] = "ARMCHINA_NPU" => e[3] = "module"
<1> DEFINE Plains == {"EFI", "RTC_DRV_EFI", "RTC_DRV_HYM8563", "MAILBOX", "CIX_MBOX",
                      "PINCTRL_SKY1", "I2C_CADENCE", "SENSORS_CIX_FAN", "DRM", "MODULES", "INPUT",
                      "SND", "SND_SOC"}
           Nic == {"R8126", "R8169"}
           Good(x) == /\ x[2] \notin Gated(o, tree)
                      /\ x[2] \in Plains \cup DriverSymbols \cup Nic
                      /\ x[2] \notin EthernetConflict(o, tree)
                      /\ x[2] = "ARMCHINA_NPU" => x[3] = "module"
<1>1. Plains \cap (DriverSymbols \cup Nic) = {} /\ DriverSymbols \cap Nic = {}
  BY DEF DriverSymbols
<1>2. EthernetConflict(o, tree) \subseteq Nic
  BY DEF EthernetConflict
<1>3. ASSUME NEW x, x[2] \in Plains PROVE Good(x)
  <2>1. x[2] # "ARMCHINA_NPU"
    BY <1>3
  <2> HIDE DEF Plains, Nic
  <2> QED BY <1>1, <1>2, <1>3, <2>1, GatedDrivers
<1>4. ASSUME NEW x, x[2] \in DriverSymbols \ Gated(o, tree), x[2] = "ARMCHINA_NPU" => x[3] = "module"
      PROVE  Good(x)
  <2> HIDE DEF Plains, Nic
  <2> QED BY <1>1, <1>2, <1>4
<1>5. ASSUME NEW x \in SupportedCommon \cup SupportedDt \cup SupportedVendorAcpi
                        \cup SupportedVendorAcpiO6 \cup SupportedVendorDt
      PROVE  x[2] \in Plains
  <2>1. x \in SupportedCommon => x[2] \in Plains
    BY TableEntry DEF SupportedCommon
  <2>2. x \in SupportedDt => x[2] \in Plains
    BY TableEntry DEF SupportedDt
  <2>3. x \in SupportedVendorAcpi => x[2] \in Plains
    BY TableEntry DEF SupportedVendorAcpi
  <2>4. x \in SupportedVendorAcpiO6 => x[2] \in Plains
    BY TableEntry DEF SupportedVendorAcpiO6
  <2>5. x \in SupportedVendorDt => x[2] \in Plains
    BY TableEntry DEF SupportedVendorDt
  <2> HIDE DEF Plains
  <2> QED BY <2>1, <2>2, <2>3, <2>4, <2>5
<1>6. /\ \A x \in SupportedTouchscreen : x[2] \in Plains \cup {"TOUCHSCREEN_GOODIX"}
      /\ \A x \in SupportedDisplay : x[2] \in Plains \cup {"DRM_CIX"}
      /\ \A x \in SupportedGpu : x[2] \in Plains \cup {"DRM_PANTHOR"}
      /\ \A x \in SupportedMedia : x[2] = "VIDEO_LINLON"
      /\ \A x \in SupportedAudioAnalog : x[2] \in Plains \cup {"SND_HDA_CIX_IPBLOQ"}
      /\ \A x \in SupportedAudioDisplay : x[2] \in Plains \cup {"SND_SOC_CIX"}
      /\ \A x \in SupportedEdp : x[2] = "PWM_SKY1"
  <2>1. \A x \in SupportedTouchscreen : x[2] \in Plains \cup {"TOUCHSCREEN_GOODIX"}
    BY TableEntry DEF SupportedTouchscreen
  <2>2. \A x \in SupportedDisplay : x[2] \in Plains \cup {"DRM_CIX"}
    BY TableEntry DEF SupportedDisplay
  <2>3. \A x \in SupportedGpu : x[2] \in Plains \cup {"DRM_PANTHOR"}
    BY TableEntry DEF SupportedGpu
  <2>4. \A x \in SupportedMedia : x[2] = "VIDEO_LINLON"
    BY TableEntry DEF SupportedMedia
  <2>5. \A x \in SupportedAudioAnalog : x[2] \in Plains \cup {"SND_HDA_CIX_IPBLOQ"}
    BY TableEntry DEF SupportedAudioAnalog
  <2>6. \A x \in SupportedAudioDisplay : x[2] \in Plains \cup {"SND_SOC_CIX"}
    BY TableEntry DEF SupportedAudioDisplay
  <2>7. \A x \in SupportedEdp : x[2] = "PWM_SKY1"
    BY TableEntry DEF SupportedEdp
  <2> QED BY <2>1, <2>2, <2>3, <2>4, <2>5, <2>6, <2>7
<1>7. \A x \in SupportedNpu : x[2] \in Plains \/ (x[2] = "ARMCHINA_NPU" /\ x[3] = "module")
  BY TableEntry DEF SupportedNpu
<1>8. \A x \in {"ethernet"} \X Ethernet(o, tree) \X {"prefer"} : Good(x)
  <2> TAKE x \in {"ethernet"} \X Ethernet(o, tree) \X {"prefer"}
  <2>1. x[2] \in Ethernet(o, tree)
    OBVIOUS
  <2>2. Ethernet(o, tree) \cap EthernetConflict(o, tree) = {} /\ Ethernet(o, tree) \subseteq Nic
    BY DEF Ethernet, EthernetConflict
  <2>3. "ARMCHINA_NPU" \in DriverSymbols
    BY DEF DriverSymbols
  <2> HIDE DEF Nic, Plains
  <2> QED BY <1>1, <2>1, <2>2, <2>3, GatedDrivers
<1>9. DriverSymbols = {"TOUCHSCREEN_GOODIX", "DRM_CIX", "DRM_PANTHOR", "VIDEO_LINLON",
                       "SND_HDA_CIX_IPBLOQ", "SND_SOC_CIX", "ARMCHINA_NPU", "PWM_SKY1"}
  BY DEF DriverSymbols
<1>10. \/ e[2] \in Plains
       \/ e \in {"ethernet"} \X Ethernet(o, tree) \X {"prefer"}
       \/ e[2] = "TOUCHSCREEN_GOODIX" /\ o.touch
       \/ e[2] = "DRM_CIX" /\ "display" \in Graphics(o)
       \/ e[2] = "DRM_PANTHOR" /\ "gpu" \in Graphics(o)
       \/ e[2] = "VIDEO_LINLON" /\ "media" \in Graphics(o)
       \/ e[2] = "SND_HDA_CIX_IPBLOQ" /\ "analog" \in Audio(o)
       \/ e[2] = "SND_SOC_CIX" /\ "display" \in Audio(o)
       \/ e[2] = "PWM_SKY1" /\ Panel(o)
       \/ e[2] = "ARMCHINA_NPU" /\ o.npu /\ e[3] = "module"
  <2> HIDE DEF Plains
  <2>1. \/ e \in SupportedCommon \cup SupportedDt \cup SupportedVendorAcpi
                        \cup SupportedVendorAcpiO6 \cup SupportedVendorDt
        \/ e \in {"ethernet"} \X Ethernet(o, tree) \X {"prefer"}
        \/ e \in SupportedTouchscreen /\ o.touch
        \/ e \in SupportedDisplay /\ "display" \in Graphics(o)
        \/ e \in SupportedGpu /\ "gpu" \in Graphics(o)
        \/ e \in SupportedMedia /\ "media" \in Graphics(o)
        \/ e \in SupportedAudioAnalog /\ "analog" \in Audio(o)
        \/ e \in SupportedAudioDisplay /\ "display" \in Audio(o)
        \/ e \in SupportedEdp /\ Panel(o)
        \/ e \in SupportedNpu /\ o.npu
    BY DEF Supported
  <2> QED BY <1>5, <1>6, <1>7, <2>1
<1>11. Good(e)
  <2> HIDE DEF Good, Plains
  <2>1. CASE e[2] \in Plains
    BY <1>3, <2>1
  <2>2. CASE e \in {"ethernet"} \X Ethernet(o, tree) \X {"prefer"}
    BY <1>8, <2>2
  <2>3. CASE /\ e[2] \notin Plains
             /\ e \notin {"ethernet"} \X Ethernet(o, tree) \X {"prefer"}
    <3>1. e[2] \in DriverSymbols \ Gated(o, tree) /\ (e[2] = "ARMCHINA_NPU" => e[3] = "module")
      BY <1>9, <1>10, <2>3, GatedCases
    <3> QED BY <1>4, <3>1
  <2> QED BY <2>1, <2>2, <2>3
<1>12. (Plains \cup DriverSymbols \cup Nic) \cap (DspSymbols \cup Compressions \cup BoardSymbols) = {}
  BY DEF DriverSymbols, DspSymbols, FirmwareStacks, Compressions, BoardSymbols
<1>13. HiFi5Excluded(o) \cup FirmwareStacks \subseteq DspSymbols
  BY DEF HiFi5Excluded, DspSymbols, FirmwareStacks
<1>14. Excluded(o, tree) \subseteq Gated(o, tree) \cup EthernetConflict(o, tree) \cup DspSymbols
                                     \cup Compressions
  BY <1>13 DEF Excluded, Compressions
<1> HIDE DEF Plains, Nic
<1> QED BY <1>11, <1>12, <1>13, <1>14

LEMMA SupportedRuled ==
  ASSUME NEW o, NEW tree, NEW current \in Configs, o.hifi5 \in {"none", "xaf", "sof"},
         NEW e \in Supported(o, tree), e[2] \in Symbols
  PROVE  EntryValue(o, e, current) \in RuledBy(o, tree)[e[2]]
<1> DEFINE s == e[2]
           v == EntryValue(o, e, current)
<1>1. s \notin Excluded(o, tree) \cup BoardSymbols \cup FirmwareStacks /\ (s = "ARMCHINA_NPU" => e[3] = "module")
  BY SelectedKept
<1>2. \A p : TristateValue(s, p, o.pref) \in {"y", "m"}
  BY DEF TristateValue
<1>3. v \in {"y", "m"}
  BY <1>2 DEF EntryValue, SupportedValue, On
<1>4. s = "ARMCHINA_NPU" => v = "m"
  <2>1. "ARMCHINA_NPU" \notin BoolSymbols
    BY DEF BoolSymbols
  <2>2. s = "ARMCHINA_NPU" => Policy(s, e[3], current) = "module"
    BY <1>1 DEF Policy
  <2> QED BY <2>1, <2>2 DEF EntryValue, SupportedValue, TristateValue
<1> HIDE DEF v
<1>5. v \in Ruled(o, tree, s)
  BY <1>1, <1>3, <1>4, BoardDomain DEF Ruled, Values, On
<1> QED BY <1>5 DEF RuledBy, v

\* What always gets a line: the boards, the profile's hardware, what it leaves out.
Settled(o, tree, current) ==
  Mentioned(o, tree, current) \cup Selected(o, tree)
    \cup (Settable(tree) \cap (BoardSymbols \cup EthernetConflict(o, tree) \cup Gated(o, tree)))

LEMMA AppliedRuled ==
  ASSUME NEW o, NEW tree, NEW current \in Configs, NEW original,
         o.upgrade \in {"none", "ssdt", "dsdt"}, o.hifi5 \in {"none", "xaf", "sof"},
         NEW after, after = ApplyUpdates(original, Updates(o, tree, current)),
         NEW s \in Symbols
  PROVE  /\ after[s] = original[s] \/ after[s] \in Ruled(o, tree, s)
         /\ s \in Settled(o, tree, current) => after[s] \in Ruled(o, tree, s)
<1> DEFINE W == RuledBy(o, tree)
           U == Updates(o, tree, current)
<1>1. \A d \in Layers(o, tree, current) : Valued(d, W)
  BY FreeLayersRuled, OffLayersRuled, BoardRuled, TableUpgradeRuled, DiagnosticsRuled,
     HiFi5Ruled DEF Layers
<1>2. \A e \in Supported(o, tree) : e[2] \in Symbols => EntryValue(o, e, current) \in W[e[2]]
  BY SupportedRuled
<1>3. W[s] = Ruled(o, tree, s)
  BY DEF RuledBy
<1>4. /\ DOMAIN In(tree, BoardProfile(o)) = BoardSymbols \cap Settable(tree)
      /\ DOMAIN In(tree, All(EthernetConflict(o, tree), "n"))
           = EthernetConflict(o, tree) \cap Settable(tree)
      /\ DOMAIN In(tree, All(Gated(o, tree), "n")) = Gated(o, tree) \cap Settable(tree)
  BY BoardDomain DEF In, All
<1> HIDE DEF W
<1>5. AllIn(U, W) /\ (s \in Settled(o, tree, current) => U[s] # <<>>)
  <2>1. s \in Settled(o, tree, current) => s \in Lines(o, tree, current)
    BY <1>4, MentionedLines DEF Settled, Lines, Layers
  <2> QED BY <1>1, <1>2, <2>1, UpdatesIn
<1>6. /\ U[s] = <<>> => ApplyUpdates(original, U)[s] = original[s]
      /\ U[s] # <<>> => ApplyUpdates(original, U)[s] \in W[s]
  BY <1>5, AppliedIn
<1> HIDE DEF U
<1>7. after = ApplyUpdates(original, U)
  BY DEF U
<1> QED BY <1>3, <1>5, <1>6, <1>7

\* Of each pair that a run decides about it turns one off, if the tree has both.
LEMMA PairsApart ==
  ASSUME NEW o, NEW tree, NEW current \in Configs, NEW original,
         o.upgrade \in {"none", "ssdt", "dsdt"}, o.hifi5 \in {"none", "xaf", "sof"},
         NEW after, after = ApplyUpdates(original, Updates(o, tree, current)),
         NEW s \in tree.symbols, NEW t \in tree.symbols,
         <<s, t>> \in {<<"CIX_RADXA_ORION_O6", "CIX_RADXA_ORION_O6N">>,
                       <<"CIX_RADXA_ORION_ACPI", "CIX_RADXA_ORION_DT">>,
                       <<"R8126", "R8169">>, <<"CIX_DSP_RPROC", "SND_SOC_SOF_CIX_SKY1">>}
  PROVE  Apart(after, s, t)
<1>1. {s, t} \subseteq Switches /\ {s, t} \subseteq Symbols
  BY DEF Switches, Symbols, BoolSymbols, TristateSymbols
<1>2. {s, t} \subseteq Settable(tree)
  BY <1>1 DEF Settable
<1>3. \A x \in {s, t} : x \in Settled(o, tree, current) => after[x] \in Ruled(o, tree, x)
  BY <1>1, AppliedRuled
<1>4. CASE s = "CIX_RADXA_ORION_O6" /\ t = "CIX_RADXA_ORION_O6N"
  <2>1. {s, t} \subseteq BoardSymbols
    BY <1>4 DEF BoardSymbols
  <2>2. after[s] = BoardProfile(o)[s] /\ after[t] = BoardProfile(o)[t]
    BY <1>2, <1>3, <2>1, BoardDomain DEF Settled, Ruled
  <2>3. BoardProfile(o)[s] = Is(o.board = "o6") /\ BoardProfile(o)[t] = Is(o.board = "o6n")
    BY <1>4 DEF BoardProfile
  <2> QED BY <2>2, <2>3 DEF Apart, Is, On
<1>5. CASE s = "CIX_RADXA_ORION_ACPI" /\ t = "CIX_RADXA_ORION_DT"
  <2>1. {s, t} \subseteq BoardSymbols
    BY <1>5 DEF BoardSymbols
  <2>2. after[s] = BoardProfile(o)[s] /\ after[t] = BoardProfile(o)[t]
    BY <1>2, <1>3, <2>1, BoardDomain DEF Settled, Ruled
  <2>3. BoardProfile(o)[s] = Is(o.acpi) /\ BoardProfile(o)[t] = Is(~o.acpi)
    BY <1>5 DEF BoardProfile
  <2> QED BY <2>2, <2>3 DEF Apart, Is, On
<1>6. CASE s = "R8126" /\ t = "R8169"
  <2>1. PICK x \in {s, t} : x \in EthernetConflict(o, tree)
    BY <1>6 DEF EthernetConflict
  <2>2. after[x] = "n"
    BY <1>2, <1>3, <2>1 DEF Settled, Ruled, Excluded
  <2> QED BY <2>2 DEF Apart, On
<1>7. CASE s = "CIX_DSP_RPROC" /\ t = "SND_SOC_SOF_CIX_SKY1"
  <2>1. PICK x \in {s, t} : x \in HiFi5Excluded(o)
    BY <1>7 DEF HiFi5Excluded
  <2>2. x \in DOMAIN In(tree, [y \in HiFi5Switches(o) |-> HiFi5(o, y)])
    BY <1>2, <2>1 DEF In, HiFi5Switches
  <2>3. after[x] = "n"
    BY <1>3, <2>1, <2>2 DEF Settled, Mentioned, Ruled, Excluded
  <2> QED BY <2>3 DEF Apart, On
<1> QED BY <1>4, <1>5, <1>6, <1>7

\* Of a choice that a run may leave alone one member at most is on after it if
\* it was so before; the tree must declare the firmware stacks together.
LEMMA ChoicesKept ==
  ASSUME NEW o, NEW tree, NEW current \in Configs, NEW original, OneOfEach(original),
         o.upgrade \in {"none", "ssdt", "dsdt"}, o.hifi5 \in {"none", "xaf", "sof"},
         FirmwareStacks \subseteq tree.symbols \/ FirmwareStacks \cap tree.symbols = {},
         NEW after, after = ApplyUpdates(original, Updates(o, tree, current))
  PROVE  OneOfEach(after)
<1> DEFINE xaf == "CIX_HIFI5_FIRMWARE_XAF"
           sof == "CIX_HIFI5_FIRMWARE_SOF"
           gzip == "INITRAMFS_COMPRESSION_GZIP"
           none == "INITRAMFS_COMPRESSION_NONE"
<1>1. FirmwareStacks \subseteq Switches /\ FirmwareStacks \cup {gzip, none} \subseteq Symbols
  BY DEF Switches, Symbols, BoolSymbols, FirmwareStacks
<1>2. \A s \in FirmwareStacks \cup {gzip, none} :
        /\ after[s] = original[s] \/ after[s] \in Ruled(o, tree, s)
        /\ s \in Settled(o, tree, current) => after[s] \in Ruled(o, tree, s)
  BY <1>1, AppliedRuled
<1>3. FirmwareStacks = {xaf, sof}
  BY DEF FirmwareStacks
<1>4. Apart(after, xaf, sof)
  <2>1. CASE FirmwareStacks \cap tree.symbols = {}
    <3>1. \A s \in FirmwareStacks : after[s] = original[s]
      BY <1>2, <2>1 DEF Ruled
    <3> QED BY <1>3, <3>1 DEF OneOfEach, Apart
  <2>2. CASE FirmwareStacks \subseteq tree.symbols /\ o.hifi5 # "none"
    <3>1. PICK x \in FirmwareStacks : x \in HiFi5Excluded(o)
      BY <1>3, <2>2 DEF HiFi5Excluded
    <3>2. x \in DOMAIN In(tree, [y \in HiFi5Switches(o) |-> HiFi5(o, y)])
      BY <1>1, <2>2, <3>1 DEF In, HiFi5Switches, Settable
    <3>3. after[x] = "n"
      BY <1>2, <3>1, <3>2 DEF Settled, Mentioned, Ruled, Excluded
    <3> QED BY <1>3, <3>3 DEF Apart, On
  <2>3. CASE o.hifi5 = "none"
    <3>1. \A s \in FirmwareStacks : after[s] = original[s] \/ after[s] = "n"
      BY <1>2, <2>3 DEF Ruled, Excluded
    <3> QED BY <1>3, <3>1 DEF OneOfEach, Apart, On
  <2> QED BY <2>1, <2>2, <2>3
<1>5. Apart(after, gzip, none)
  <2>1. after[gzip] = original[gzip] \/ after[gzip] = "n"
    BY <1>2 DEF Ruled, Excluded
  <2>2. CASE o.upgrade = "none"
    <3>1. after[none] = original[none] \/ after[none] = "n"
      BY <1>2, <2>2 DEF Ruled, Excluded
    <3> QED BY <2>1, <3>1 DEF OneOfEach, Apart, On
  <2>3. CASE o.upgrade # "none"
    <3>1. gzip \in Settled(o, tree, current)
      BY <2>3 DEF Settled, Mentioned, TableUpgrade
    <3>2. after[gzip] = "n"
      BY <1>2, <3>1 DEF Ruled, Excluded
    <3> QED BY <3>2 DEF Apart, On
  <2> QED BY <2>2, <2>3
<1> QED BY <1>4, <1>5 DEF OneOfEach

LEMMA TableSelected ==
  ASSUME NEW o, NEW tree, NEW table, NEW policies, InTable(table, policies) \subseteq Supported(o, tree)
  PROVE  DOMAIN policies \cap Settable(tree) \subseteq Selected(o, tree)
<1> SUFFICES ASSUME NEW s \in DOMAIN policies, s \in Settable(tree)
             PROVE  s \in Selected(o, tree)
  OBVIOUS
<1>1. <<table, s, policies[s]>> \in Supported(o, tree)
  BY DEF InTable
<1> QED BY <1>1 DEF Selected

\* Audio over the display, and a panel, bring the display pipeline with them.
LEMMA DisplayComes ==
  ASSUME NEW o, "display" \in Audio(o) \/ Panel(o)
  PROVE  "display" \in Graphics(o)
<1>1. Panel(o) => "display" \in AskedGraphics(o)
  BY DEF AskedGraphics
<1>2. "display" \in Audio(o) => o.audio # "auto" \/ "display" \in AskedGraphics(o)
  BY DEF Audio
<1> QED BY <1>1, <1>2 DEF Graphics

\* A driver that is on after a run on a vendor tree has what it works through.
LEMMA FeaturesServed ==
  ASSUME NEW o, NEW tree, NEW current \in Configs, NEW original,
         o.upgrade \in {"none", "ssdt", "dsdt"}, o.hifi5 \in {"none", "xaf", "sof"},
         NEW after, after = ApplyUpdates(original, Updates(o, tree, current)),
         Vendor(o, tree), Providers \subseteq tree.symbols, NEW s \in tree.symbols, On(after[s])
  PROVE  /\ s = "SND_SOC_CIX" => On(after["DRM_CIX"]) /\ On(after["SND_SOC"]) /\ On(after["SND"])
         /\ s = "SND_SOC_SOF_CIX_SKY1" => On(after["SND_SOC"]) /\ On(after["SND"])
         /\ s = "TOUCHSCREEN_GOODIX" =>
              On(after["INPUT"]) /\ On(after["DRM_CIX"]) /\ On(after["PWM_SKY1"])
         /\ s \in {"DRM_CIX", "DRM_PANTHOR"} => On(after["DRM"])
         /\ s = "ARMCHINA_NPU" => after[s] = "m" /\ On(after["MODULES"])
<1>1. Providers \cup DriverSymbols \cup {"SND_SOC_SOF_CIX_SKY1"} \subseteq Switches \cap Symbols
  BY DEF Providers, DriverSymbols, Switches, Symbols, BoolSymbols, TristateSymbols
<1>2. \A x \in Providers \cup DriverSymbols \cup {"SND_SOC_SOF_CIX_SKY1"} :
        x \in Settled(o, tree, current) => after[x] \in Ruled(o, tree, x)
  BY <1>1, AppliedRuled
<1>3. s \in DriverSymbols => s \notin Gated(o, tree)
  <2> SUFFICES ASSUME s \in DriverSymbols, s \in Gated(o, tree) PROVE FALSE
    OBVIOUS
  <2>1. s \in Settled(o, tree, current)
    BY <1>1 DEF Settled, Settable
  <2>2. after[s] = "n"
    BY <1>2, <2>1 DEF Ruled, Excluded
  <2> QED BY <2>2 DEF On
<1>4. ASSUME NEW p \in Providers \cap Selected(o, tree)
      PROVE  On(after[p])
  <2>1. p \in Settled(o, tree, current)
    BY DEF Settled
  <2>2. p \notin Excluded(o, tree)
    BY SelectedKept DEF Selected
  <2> QED BY <1>2, <2>1, <2>2 DEF Ruled
<1>5. Providers \subseteq Settable(tree)
  BY <1>1 DEF Settable
<1>6. "display" \in Graphics(o) => {"DRM", "DRM_CIX"} \subseteq Selected(o, tree)
  <2>1. "display" \in Graphics(o) => SupportedDisplay \subseteq Supported(o, tree)
    BY DEF Supported
  <2> QED BY <1>5, <2>1, TableSelected DEF SupportedDisplay, Providers
<1>7. "gpu" \in Graphics(o) => "DRM" \in Selected(o, tree)
  <2>1. "gpu" \in Graphics(o) => SupportedGpu \subseteq Supported(o, tree)
    BY DEF Supported
  <2> QED BY <1>5, <2>1, TableSelected DEF SupportedGpu, Providers
<1>8. "display" \in Audio(o) => {"SND", "SND_SOC"} \subseteq Selected(o, tree)
  <2>1. "display" \in Audio(o) => SupportedAudioDisplay \subseteq Supported(o, tree)
    BY DEF Supported
  <2> QED BY <1>5, <2>1, TableSelected DEF SupportedAudioDisplay, Providers
<1>9. o.touch => "INPUT" \in Selected(o, tree)
  <2>1. o.touch => SupportedTouchscreen \subseteq Supported(o, tree)
    BY DEF Supported
  <2> QED BY <1>5, <2>1, TableSelected DEF SupportedTouchscreen, Providers
<1>10. Panel(o) => "PWM_SKY1" \in Selected(o, tree)
  <2>1. Panel(o) => SupportedEdp \subseteq Supported(o, tree)
    BY DEF Supported
  <2> QED BY <1>5, <2>1, TableSelected DEF SupportedEdp, Providers
<1>11. o.npu => "MODULES" \in Selected(o, tree)
  <2>1. o.npu => SupportedNpu \subseteq Supported(o, tree)
    BY DEF Supported
  <2> QED BY <1>5, <2>1, TableSelected DEF SupportedNpu, Providers
<1>12. {"DRM", "DRM_CIX", "SND", "SND_SOC", "INPUT", "PWM_SKY1", "MODULES"} \subseteq Providers
  BY DEF Providers
<1>13. CASE s \in {"SND_SOC_CIX", "TOUCHSCREEN_GOODIX", "DRM_CIX", "DRM_PANTHOR"}
  <2>1. s \in DriverSymbols
    BY <1>13 DEF DriverSymbols
  <2>2. /\ s = "SND_SOC_CIX" => "display" \in Audio(o)
        /\ s = "TOUCHSCREEN_GOODIX" => o.touch
        /\ s = "DRM_CIX" => "display" \in Graphics(o)
        /\ s = "DRM_PANTHOR" => "gpu" \in Graphics(o)
    BY <1>3, <2>1, GatedCases
  <2>3. o.touch => Panel(o)
    BY DEF Panel
  <2> QED BY <1>4, <1>6, <1>7, <1>8, <1>9, <1>10, <1>12, <1>13, <2>2, <2>3, DisplayComes
<1>14. CASE s = "ARMCHINA_NPU"
  <2>1. s \in DriverSymbols
    BY <1>14 DEF DriverSymbols
  <2>2. o.npu
    BY <1>3, <1>14, <2>1, GatedCases
  <2>3. s \in Selected(o, tree)
    <3>1. SupportedNpu \subseteq Supported(o, tree)
      BY <2>2 DEF Supported
    <3>2. s \in Settable(tree)
      BY <1>1, <2>1 DEF Settable
    <3> QED BY <1>14, <3>1, <3>2, TableSelected DEF SupportedNpu
  <2>4. after[s] # "y"
    BY <1>2, <1>14, <2>1, <2>3 DEF Settled, Ruled
  <2>5. On(after["MODULES"])
    BY <1>4, <1>11, <1>12, <2>2
  <2> QED BY <1>14, <2>4, <2>5 DEF On
<1>15. CASE s = "SND_SOC_SOF_CIX_SKY1"
  <2> DEFINE Dsp == DOMAIN In(tree, [x \in HiFi5Switches(o) |-> HiFi5(o, x)])
  <2>1. Dsp = HiFi5Switches(o) \cap Settable(tree)
    BY DEF In
  <2>2. Dsp \subseteq Settled(o, tree, current)
    BY DEF Settled, Mentioned
  <2> HIDE DEF Dsp
  <2>3. o.hifi5 = "sof"
    <3> SUFFICES ASSUME o.hifi5 # "sof" PROVE FALSE
      OBVIOUS
    <3>1. s \in HiFi5Excluded(o)
      BY <1>15 DEF HiFi5Excluded
    <3>2. s \in Dsp
      BY <1>1, <1>15, <2>1, <3>1 DEF HiFi5Switches, Settable
    <3>3. after[s] = "n"
      BY <1>2, <1>15, <2>2, <3>1, <3>2 DEF Ruled, Excluded
    <3> QED BY <3>3 DEF On
  <2>4. {"SND", "SND_SOC"} \subseteq Dsp
    BY <1>5, <1>12, <2>1, <2>3 DEF HiFi5Switches, HiFi5Drivers, HiFi5SofDrivers
  <2>5. {"SND", "SND_SOC"} \cap Excluded(o, tree) = {}
    BY ExcludedSymbols DEF DriverSymbols, DspSymbols, FirmwareStacks, Compressions
  <2>6. \A p \in {"SND", "SND_SOC"} : On(after[p])
    BY <1>2, <1>12, <2>2, <2>4, <2>5 DEF Ruled
  <2> QED BY <1>15, <2>6
<1> QED BY <1>13, <1>14, <1>15
-----------------------------------------------------------------------------
(* The second of two equal runs.  A layer either does not look at the         *)
(* .config, or it looks at what the same run leaves alone or settles.         *)

\* What a run reads and never writes.
Given(o) ==
  {"VT", "ARM64_4K_PAGES", "ARM64_16K_PAGES", "ARM64_64K_PAGES", "CMA"} \cup (IF o.rq THEN {} ELSE {"EXPERT"})
Sizes == {"FRAME_WARN", "CMA_SIZE_MBYTES", "PAGE_BLOCK_MAX_ORDER"}
Uselesses == {"RTC_DRV_HYM8563", "TCG_TIS", "I2C_CADENCE", "PCI_SKY1",
              "USB_CDNS3_STARFIVE", "USB_CDNS3", "USB_CDNS3_SKY1"}

LEMMA GivenPrivate ==
  ASSUME NEW o, NEW tree, NEW current,
         o.hifi5 \in {"none", "xaf", "sof"}, NEW d \in Layers(o, tree, current),
         NEW s \in DOMAIN d, s \in Given(o) \cup Sizes \cup Uselesses
  PROVE  \/ s = "FRAME_WARN" /\ d = BuildHygiene(tree, current)
         \/ s = "CMA_SIZE_MBYTES" /\ d = PlatformMemory(tree, current)
         \/ s = "PAGE_BLOCK_MAX_ORDER" /\ o.hifi5 # "none" /\ d = PageBlock(tree, current)
         \/ s \in Uselesses /\ o.prune /\ d = Pruned(o, tree, current)
<1> DEFINE P == Given(o) \cup Sizes \cup Uselesses
<1>1. P \cap (DOMAIN Firmware(o) \cup DOMAIN TableUpgrade(o)) = {}
  BY DEF Given, Sizes, Uselesses, Firmware, TableUpgrade
<1>2. P \cap DOMAIN In(tree, BoardProfile(o)) = {}
  BY DEF Given, Sizes, Uselesses, In, BoardProfile
<1>3. ASSUME NEW S, P \cap S = {}
      PROVE  P \cap DOMAIN In(tree, All(S, "n")) = {}
  BY <1>3 DEF In, All
<1>4. P \cap (EthernetConflict(o, tree) \cup PolicyDisabled) = {}
  BY DEF Given, Sizes, Uselesses, EthernetConflict, PolicyDisabled
<1>5. P \cap Gated(o, tree) = {}
  BY GatedDrivers DEF DriverSymbols, Given, Sizes, Uselesses
<1>6. P \cap DOMAIN Diagnostics(o, tree, current) = {}
  <2>1. DOMAIN Diagnostics(o, tree, current) \subseteq Wanted(o, tree) \cup Unwanted(o, tree, current)
    BY DEF Diagnostics
  <2>2. P \cap Wanted(o, tree) = {}
    BY DEF Given, Sizes, Uselesses, Wanted, MemoryDebug, KasanWanted, Qualification,
           QualificationEnableOnly, FaultInjection, FaultInjectionEnableOnly
  <2>3. P \cap Unwanted(o, tree, current) = {}
    BY DEF Given, Sizes, Uselesses, Unwanted, MemoryDebug, KasanSymbols, KasanChoices,
           Qualification, QualificationDisabled, QualificationCleared, FaultInjection
  <2> QED BY <2>1, <2>2, <2>3
<1>7. P \cap DOMAIN In(tree, [x \in HiFi5Switches(o) |-> HiFi5(o, x)]) = {}
  <2>1. P \cap HiFi5Switches(o) = {}
    BY DEF Given, Sizes, Uselesses, HiFi5Switches, HiFi5Drivers, HiFi5BuiltIn, HiFi5Excluded,
           HiFi5XafDrivers, HiFi5SofDrivers
  <2> QED BY <2>1 DEF In
<1>8. /\ DOMAIN BuildHygiene(tree, current) \subseteq {"FRAME_WARN"}
      /\ DOMAIN PlatformMemory(tree, current) \subseteq {"CMA_SIZE_MBYTES"}
      /\ DOMAIN PageBlock(tree, current) \subseteq {"PAGE_BLOCK_MAX_ORDER"}
  BY DEF BuildHygiene, PlatformMemory, PageBlock
<1>9. P \cap DOMAIN Pruned(o, tree, current) \subseteq Uselesses
  <2>1. P \cap (Absent(o, tree) \cup FoundUseless(o, tree, current)) \subseteq Uselesses
    BY DEF Given, Sizes, Uselesses, Absent, PatchOnlyDisabled, AcpiDisabled, AcpiUpstreamDisabled,
           AcpiVendorDisabled, VendorDisabled, FoundUseless, UselessByName
  <2> QED BY <2>1 DEF Pruned, In, All
<1>10. s \in P
  OBVIOUS
<1> HIDE DEF P
<1> QED BY <1>1, <1>2, <1>3, <1>4, <1>5, <1>6, <1>7, <1>8, <1>9, <1>10 DEF Layers

\* The pruned names are not among the selected hardware.
LEMMA PrivateUnselected ==
  ASSUME NEW o, NEW tree, NEW e \in Supported(o, tree)
  PROVE  /\ e[2] \notin Given(o) \cup Sizes
         /\ o.acpi => e[2] \notin UselessByName(o, tree)
<1> DEFINE Names == {"EFI", "RTC_DRV_EFI", "MAILBOX", "CIX_MBOX",
                     "PINCTRL_SKY1", "SENSORS_CIX_FAN", "DRM", "DRM_CIX",
                     "DRM_PANTHOR", "VIDEO_LINLON", "MODULES", "ARMCHINA_NPU", "PWM_SKY1",
                     "INPUT", "TOUCHSCREEN_GOODIX", "SND", "SND_HDA_CIX_IPBLOQ", "SND_SOC",
                     "SND_SOC_CIX", "R8126", "R8169"}
           Good(x) == \/ x[2] \in Names
                      \/ x[2] = "RTC_DRV_HYM8563" /\ ~o.acpi
                      \/ x[2] = "I2C_CADENCE" /\ Vendor(o, tree)
<1>1. \A x \in SupportedCommon : x[2] \in Names
  BY TableEntry DEF SupportedCommon
<1>2. \A x \in SupportedDt : x[2] = "RTC_DRV_HYM8563"
  BY TableEntry DEF SupportedDt
<1>3. \A x \in SupportedVendorAcpi : x[2] \in Names \cup {"I2C_CADENCE"}
  BY TableEntry DEF SupportedVendorAcpi
<1>4. \A x \in SupportedVendorAcpiO6 : x[2] \in Names
  BY TableEntry DEF SupportedVendorAcpiO6
<1>5. \A x \in SupportedVendorDt : x[2] \in Names \cup {"I2C_CADENCE"}
  BY TableEntry DEF SupportedVendorDt
<1>6. \A x \in SupportedDisplay : x[2] \in Names
  BY TableEntry DEF SupportedDisplay
<1>7. \A x \in SupportedGpu : x[2] \in Names
  BY TableEntry DEF SupportedGpu
<1>8. \A x \in SupportedMedia : x[2] \in Names
  BY TableEntry DEF SupportedMedia
<1>9. \A x \in SupportedNpu : x[2] \in Names
  BY TableEntry DEF SupportedNpu
<1>10. \A x \in SupportedEdp : x[2] \in Names
  BY TableEntry DEF SupportedEdp
<1>11. \A x \in SupportedTouchscreen : x[2] \in Names
  BY TableEntry DEF SupportedTouchscreen
<1>12. \A x \in SupportedAudioAnalog : x[2] \in Names
  BY TableEntry DEF SupportedAudioAnalog
<1>13. \A x \in SupportedAudioDisplay : x[2] \in Names
  BY TableEntry DEF SupportedAudioDisplay
<1>14. \A x \in {"ethernet"} \X Ethernet(o, tree) \X {"prefer"} : x[2] \in Names
  BY DEF Ethernet
<1>15. Good(e)
  <2> HIDE DEF Names
  <2> QED BY <1>1, <1>2, <1>3, <1>4, <1>5, <1>6, <1>7, <1>8, <1>9, <1>10, <1>11, <1>12, <1>13,
             <1>14 DEF Supported
<1>16. /\ Names \cap (Given(o) \cup Sizes \cup UselessByName(o, tree)) = {}
       /\ {"RTC_DRV_HYM8563", "I2C_CADENCE"} \cap (Given(o) \cup Sizes) = {}
  BY DEF Given, Sizes, UselessByName
<1>17. Vendor(o, tree) => "I2C_CADENCE" \notin UselessByName(o, tree)
  BY DEF UselessByName
<1> HIDE DEF Names
<1> QED BY <1>15, <1>16, <1>17

\* A symbol that no table selects gets what the layers about it say, and none
\* else.
LEMMA OwnEntries ==
  ASSUME NEW o, NEW tree, NEW current \in Configs,
         o.upgrade \in {"none", "ssdt", "dsdt"}, o.hifi5 \in {"none", "xaf", "sof"},
         NEW s \in Symbols, NEW X,
         \A d \in Layers(o, tree, current) : s \in DOMAIN d => d[s] \in X,
         \A e \in Supported(o, tree) : e[2] # s
  PROVE  /\ Updates(o, tree, current)[s] \in Seq(X)
         /\ s \in Lines(o, tree, current) => Updates(o, tree, current)[s] # <<>>
<1> DEFINE A == AllowedBy(o, tree, current)
           W == [A EXCEPT ![s] = X]
<1>1. W[s] = X /\ \A t \in Symbols : t # s => W[t] = A[t]
  BY DEF AllowedBy
<1> HIDE DEF W
<1>2. ASSUME NEW d \in Layers(o, tree, current)
      PROVE  Valued(d, W)
  <2>1. Valued(d, A)
    BY LayersAllowed
  <2> QED BY <1>1, <2>1 DEF Valued
<1>3. ASSUME NEW e \in Supported(o, tree), e[2] \in Symbols
      PROVE  EntryValue(o, e, current) \in W[e[2]]
  <2>1. EntryValue(o, e, current) \in A[e[2]]
    BY <1>3, LayersAllowed
  <2>2. e[2] # s
    OBVIOUS
  <2> QED BY <1>1, <1>3, <2>1, <2>2
<1>4. /\ AllIn(Updates(o, tree, current), W)
      /\ \A t \in Symbols \cap Lines(o, tree, current) : Updates(o, tree, current)[t] # <<>>
  BY <1>2, <1>3, UpdatesIn
<1> QED BY <1>1, <1>4 DEF AllIn

LEMMA OwnValue ==
  ASSUME NEW u, NEW config, NEW s \in Symbols, NEW X, u[s] \in Seq(X)
  PROVE  /\ u[s] = <<>> => ApplyUpdates(config, u)[s] = config[s]
         /\ u[s] # <<>> => ApplyUpdates(config, u)[s] \in X
<1>1. u[s] # <<>> => Len(u[s]) \in 1..Len(u[s])
  OBVIOUS
<1> QED BY <1>1 DEF ApplyUpdates

LEMMA GivenKept ==
  ASSUME NEW o, NEW tree, NEW current \in Configs,
         o.upgrade \in {"none", "ssdt", "dsdt"}, o.hifi5 \in {"none", "xaf", "sof"},
         NEW after, after = ApplyUpdates(current, Updates(o, tree, current)),
         NEW s \in Given(o)
  PROVE  after[s] = current[s]
<1>1. s \in Symbols /\ s \notin Sizes \cup Uselesses
  BY DEF Given, Sizes, Uselesses, Symbols, Switches, BoolSymbols
<1>2. \A d \in Layers(o, tree, current) : s \notin DOMAIN d
  BY <1>1, GivenPrivate DEF Sizes
<1>3. \A e \in Supported(o, tree) : e[2] # s
  BY PrivateUnselected
<1>4. Updates(o, tree, current)[s] \in Seq({})
  BY <1>1, <1>2, <1>3, OwnEntries
<1>5. Updates(o, tree, current)[s] = <<>>
  BY <1>4
<1> QED BY <1>1, <1>5 DEF ApplyUpdates

\* A size that one run has raised, or found large enough, the next one leaves.
LEMMA SizesSettle ==
  ASSUME NEW o, NEW tree, NEW current \in Configs,
         o.upgrade \in {"none", "ssdt", "dsdt"}, o.hifi5 \in {"none", "xaf", "sof"},
         NEW after \in Configs, after = ApplyUpdates(current, Updates(o, tree, current)),
         NEW s \in Sizes
  PROVE  ApplyUpdates(after, Updates(o, tree, after))[s] = after[s]
<1> DEFINE L0 == Layers(o, tree, current)
           L1 == Layers(o, tree, after)
           X == {v \in {"2048", "128", "9", "10", "11"} :
                   /\ s = "FRAME_WARN" => v = "2048"
                   /\ s = "CMA_SIZE_MBYTES" => v = "128"
                   /\ s = "PAGE_BLOCK_MAX_ORDER" =>
                        v = PageBlockLimit(current) /\ v # "128" /\ v # "2048"}
           U == Updates(o, tree, current)
<1>1. s \in Symbols /\ s \notin Uselesses
  BY DEF Sizes, Uselesses, Symbols, ValueSymbols
<1>2. \A e \in Supported(o, tree) : e[2] # s
  BY PrivateUnselected
<1>3. ASSUME NEW d \in L0, s \in DOMAIN d
      PROVE  d[s] \in X
  <2>1. \/ s = "FRAME_WARN" /\ d = BuildHygiene(tree, current)
        \/ s = "CMA_SIZE_MBYTES" /\ d = PlatformMemory(tree, current)
        \/ s = "PAGE_BLOCK_MAX_ORDER" /\ d = PageBlock(tree, current)
    BY <1>1, <1>3, GivenPrivate
  <2>2. s = "FRAME_WARN" /\ d = BuildHygiene(tree, current) => d[s] = "2048"
    BY <1>3 DEF BuildHygiene
  <2>3. s = "CMA_SIZE_MBYTES" /\ d = PlatformMemory(tree, current) => d[s] = "128"
    BY <1>3 DEF PlatformMemory
  <2>4. s = "PAGE_BLOCK_MAX_ORDER" /\ d = PageBlock(tree, current) =>
          d[s] = PageBlockLimit(current) /\ PageBlockLimit(current) \in {"9", "10", "11"}
    BY <1>3 DEF PageBlock, PageBlockLimit
  <2> QED BY <2>1, <2>2, <2>3, <2>4
<1>4. U[s] \in Seq(X) /\ (s \in Lines(o, tree, current) => U[s] # <<>>)
  <2> HIDE DEF X
  <2> QED BY <1>1, <1>2, <1>3, OwnEntries
<1>5. (after[s] = current[s] /\ s \notin Lines(o, tree, current)) \/ after[s] \in X
  <2> HIDE DEF X, U
  <2>1. after = ApplyUpdates(current, U)
    BY DEF U
  <2> QED BY <1>1, <1>4, <2>1, OwnValue
<1>6. \A x \in Given(o) : after[x] = current[x]
  BY GivenKept
<1>7. PageBlockLimit(after) = PageBlockLimit(current)
  BY <1>6 DEF PageBlockLimit, Given
<1>8. ASSUME NEW d \in L1, s \in DOMAIN d
      PROVE  FALSE
  <2>1. \/ s = "FRAME_WARN" /\ d = BuildHygiene(tree, after)
        \/ s = "CMA_SIZE_MBYTES" /\ d = PlatformMemory(tree, after)
        \/ s = "PAGE_BLOCK_MAX_ORDER" /\ o.hifi5 # "none" /\ d = PageBlock(tree, after)
    BY <1>1, <1>8, GivenPrivate
  <2>2. CASE s = "FRAME_WARN" /\ d = BuildHygiene(tree, after)
    <3>1. "FRAME_WARN" \in tree.symbols /\ Numeral(after[s]) < 2048
      BY <1>8, <2>2 DEF BuildHygiene
    <3>2. after[s] # "2048"
      BY <3>1 DEF Numeral
    <3>3. after[s] = current[s] /\ s \notin Lines(o, tree, current)
      BY <1>5, <2>2, <3>2
    <3>4. s \in DOMAIN BuildHygiene(tree, current)
      BY <2>2, <3>1, <3>3 DEF BuildHygiene
    <3> QED BY <3>3, <3>4 DEF Lines, Layers
  <2>3. CASE s = "CMA_SIZE_MBYTES" /\ d = PlatformMemory(tree, after)
    <3>1. /\ after["ARM64_64K_PAGES"] = "y" /\ after["CMA"] = "y"
          /\ s \in tree.symbols /\ Numeral(after[s]) < 128
      BY <1>8, <2>3 DEF PlatformMemory
    <3>2. after[s] # "128"
      BY <3>1 DEF Numeral
    <3>3. after[s] = current[s] /\ s \notin Lines(o, tree, current)
      BY <1>5, <2>3, <3>2
    <3>4. s \in DOMAIN PlatformMemory(tree, current)
      BY <1>6, <2>3, <3>1, <3>3 DEF PlatformMemory, Given
    <3> QED BY <3>3, <3>4 DEF Lines, Layers
  <2>4. CASE s = "PAGE_BLOCK_MAX_ORDER" /\ o.hifi5 # "none" /\ d = PageBlock(tree, after)
    <3> DEFINE limit == PageBlockLimit(current)
    <3>1. /\ s \in tree.symbols /\ limit # "none"
          /\ IF after[s] = "absent" THEN limit = "9" ELSE Numeral(after[s]) \notin 1..Numeral(limit)
      BY <1>7, <1>8, <2>4 DEF PageBlock
    <3>2. limit \in {"9", "10", "11"}
      BY <3>1 DEF PageBlockLimit
    <3>3. after[s] # limit
      <4>1. Numeral("9") = 9 /\ Numeral("10") = 10 /\ Numeral("11") = 11
        BY DEF Numeral
      <4> HIDE DEF limit
      <4> QED BY <3>1, <3>2, <4>1
    <3>4. after[s] = current[s] /\ s \notin Lines(o, tree, current)
      BY <1>5, <2>4, <3>3
    <3>5. s \in DOMAIN PageBlock(tree, current)
      BY <2>4, <3>1, <3>4 DEF PageBlock
    <3> QED BY <2>4, <3>4, <3>5 DEF Lines, Layers
  <2> QED BY <2>1, <2>2, <2>3, <2>4
<1>9. Updates(o, tree, after)[s] \in Seq({})
  <2> HIDE DEF X, U
  <2>1. \A d \in L1 : s \in DOMAIN d => d[s] \in {}
    BY <1>8
  <2> QED BY <1>1, <1>2, <2>1, OwnEntries
<1>10. Updates(o, tree, after)[s] = <<>>
  BY <1>9
<1> QED BY <1>1, <1>10 DEF ApplyUpdates

\* A driver of no use that one run has found on is off for the next one.
LEMMA UselessSettle ==
  ASSUME NEW o, NEW tree, NEW current \in Configs,
         o.upgrade \in {"none", "ssdt", "dsdt"}, o.hifi5 \in {"none", "xaf", "sof"},
         NEW after \in Configs, after = ApplyUpdates(current, Updates(o, tree, current)),
         o.acpi, o.prune, NEW s \in UselessByName(o, tree)
  PROVE  ApplyUpdates(after, Updates(o, tree, after))[s] = after[s]
<1> DEFINE U == Updates(o, tree, current)
           V == Updates(o, tree, after)
<1>1. s \in Symbols /\ s \in Uselesses /\ s \notin Sizes /\ s \notin {"R8126", "R8169"}
  BY DEF UselessByName, Sizes, Uselesses, Symbols, Switches, TristateSymbols
<1>2. \A e \in Supported(o, tree) : e[2] # s
  BY PrivateUnselected
<1>3. ASSUME NEW c, NEW d \in Layers(o, tree, c), s \in DOMAIN d
      PROVE  d = Pruned(o, tree, c) /\ d[s] = "n"
  <2>1. d = Pruned(o, tree, c)
    BY <1>1, <1>3, GivenPrivate DEF Sizes
  <2> QED BY <1>3, <2>1 DEF Pruned, In, All
<1>4. U[s] \in Seq({"n"}) /\ (s \in Lines(o, tree, current) => U[s] # <<>>)
  BY <1>1, <1>2, <1>3, OwnEntries
<1>5. (after[s] = current[s] /\ s \notin Lines(o, tree, current)) \/ after[s] = "n"
  <2> HIDE DEF U
  <2>1. after = ApplyUpdates(current, U)
    BY DEF U
  <2>2. /\ U[s] = <<>> => ApplyUpdates(current, U)[s] = current[s]
        /\ U[s] # <<>> => ApplyUpdates(current, U)[s] \in {"n"}
    BY <1>1, <1>4, OwnValue
  <2> QED BY <1>4, <2>1, <2>2
<1>6. \A c : s \in FoundUseless(o, tree, c) <=> On(c[s])
  BY <1>1 DEF FoundUseless
<1>7. \A c : s \in DOMAIN Pruned(o, tree, c) <=>
               (s \in Settable(tree) /\ (s \in Absent(o, tree) \/ On(c[s])))
  <2>1. \A c : DOMAIN Pruned(o, tree, c)
                 = (Absent(o, tree) \cup FoundUseless(o, tree, c)) \cap Settable(tree)
    BY DEF Pruned, In, All
  <2> QED BY <1>6, <2>1
<1>8. s \in DOMAIN Pruned(o, tree, current) => s \in Lines(o, tree, current)
  BY DEF Lines, Layers
<1>9. s \in DOMAIN Pruned(o, tree, after) => after[s] = "n"
  BY <1>5, <1>7, <1>8
<1>10. V[s] \in Seq({after[s]})
  <2>1. \A d \in Layers(o, tree, after) : s \in DOMAIN d => d[s] \in {after[s]}
    BY <1>3, <1>9
  <2> QED BY <1>1, <1>2, <2>1, OwnEntries
<1> HIDE DEF V
<1>11. /\ V[s] = <<>> => ApplyUpdates(after, V)[s] = after[s]
       /\ V[s] # <<>> => ApplyUpdates(after, V)[s] \in {after[s]}
  BY <1>1, <1>10, OwnValue
<1> QED BY <1>11 DEF V

(* All other symbols get entry for entry the same from both runs, but for the *)
(* entries of the supported hardware.                                         *)

Fixed(o, tree) == Sizes \cup (IF o.acpi /\ o.prune THEN UselessByName(o, tree) ELSE {})

Alike(P, q, r) ==
  /\ q \in Seq(Values) /\ r \in Seq(Values) /\ Len(q) = Len(r)
  /\ \A i \in 1..Len(q) : <<q[i], r[i]>> \in P

Same(d, e, s) ==
  /\ s \in DOMAIN d <=> s \in DOMAIN e
  /\ s \in DOMAIN d => d[s] = e[s] /\ d[s] \in Values

LEMMA OneAlike ==
  ASSUME NEW P, NEW x \in Values, <<x, x>> \in P
  PROVE  Alike(P, <<x>>, <<x>>)
BY DEF Alike

LEMMA UnseenAlike ==
  ASSUME NEW P, \A x \in Values : <<x, x>> \in P, NEW s \in Symbols, NEW u, NEW w,
         Alike(P, u[s], w[s]), NEW d, NEW e, Same(d, e, s)
  PROVE  Alike(P, IfUnseen(u, d)[s], IfUnseen(w, e)[s])
<1>1. u[s] = <<>> <=> w[s] = <<>>
  BY DEF Alike
<1>2. CASE s \in DOMAIN d /\ u[s] = <<>>
  <2>1. IfUnseen(u, d)[s] = <<d[s]>> /\ IfUnseen(w, e)[s] = <<d[s]>> /\ d[s] \in Values
    BY <1>1, <1>2 DEF IfUnseen, Same
  <2> QED BY <2>1, OneAlike
<1>3. CASE ~(s \in DOMAIN d /\ u[s] = <<>>)
  <2>1. IfUnseen(u, d)[s] = u[s] /\ IfUnseen(w, e)[s] = w[s]
    BY <1>1, <1>3 DEF IfUnseen, Same
  <2> QED BY <2>1
<1> QED BY <1>2, <1>3

LEMMA OverrideAlike ==
  ASSUME NEW P, \A x \in Values : <<x, x>> \in P, NEW s \in Symbols, NEW u, NEW w,
         Alike(P, u[s], w[s]), NEW d, NEW e, Same(d, e, s)
  PROVE  Alike(P, Override(u, d)[s], Override(w, e)[s])
<1>1. u[s] = <<>> <=> w[s] = <<>>
  BY DEF Alike
<1>2. CASE s \notin DOMAIN d
  <2>1. Override(u, d)[s] = u[s] /\ Override(w, e)[s] = w[s]
    BY <1>2 DEF Override, Same
  <2> QED BY <2>1
<1>3. CASE s \in DOMAIN d /\ u[s] = <<>>
  <2>1. Override(u, d)[s] = <<d[s]>> /\ Override(w, e)[s] = <<d[s]>> /\ d[s] \in Values
    BY <1>1, <1>3 DEF Override, Same
  <2> QED BY <2>1, OneAlike
<1>4. CASE s \in DOMAIN d /\ u[s] # <<>>
  <2> DEFINE q == u[s]
             r == w[s]
             x == d[s]
  <2>1. Override(u, d)[s] = [q EXCEPT ![1] = x] /\ Override(w, e)[s] = [r EXCEPT ![1] = x]
    BY <1>1, <1>4 DEF Override, Same
  <2>2. x \in Values /\ Alike(P, q, r) /\ q # <<>> /\ r # <<>> /\ <<x, x>> \in P
    BY <1>1, <1>4 DEF Same
  <2> HIDE DEF q, r, x
  <2>3. /\ [q EXCEPT ![1] = x] \in Seq(Values) /\ [r EXCEPT ![1] = x] \in Seq(Values)
        /\ Len([q EXCEPT ![1] = x]) = Len(q) /\ Len([r EXCEPT ![1] = x]) = Len(r)
    BY <2>2 DEF Alike
  <2>4. \A i \in 1..Len(q) : /\ [q EXCEPT ![1] = x][i] = IF i = 1 THEN x ELSE q[i]
                             /\ [r EXCEPT ![1] = x][i] = IF i = 1 THEN x ELSE r[i]
    BY <2>2 DEF Alike
  <2>5. Alike(P, [q EXCEPT ![1] = x], [r EXCEPT ![1] = x])
    BY <2>2, <2>3, <2>4 DEF Alike
  <2> QED BY <2>1, <2>5
<1> QED BY <1>2, <1>3, <1>4

LEMMA SupportedAlike ==
  ASSUME NEW P, NEW s \in Symbols, NEW u, NEW w, Alike(P, u[s], w[s]),
         NEW o, NEW tree, NEW current, NEW after,
         \A e \in Supported(o, tree) : e[2] = s =>
           /\ EntryValue(o, e, current) \in Values /\ EntryValue(o, e, after) \in Values
           /\ <<EntryValue(o, e, current), EntryValue(o, e, after)>> \in P
  PROVE  Alike(P, WithSupported(u, o, tree, current)[s], WithSupported(w, o, tree, after)[s])
<1> DEFINE entries == {e \in Supported(o, tree) : e[2] \in Settable(tree)}
           of == {e \in entries : e[2] = s}
           n == Cardinality(of)
           x == EntryValue(o, CHOOSE e \in of : TRUE, current)
           y == EntryValue(o, CHOOSE e \in of : TRUE, after)
           p == [i \in 1..n |-> x]
           t == [i \in 1..n |-> y]
           q == u[s]
           r == w[s]
<1>1. WithSupported(u, o, tree, current)[s] = q \o p /\ WithSupported(w, o, tree, after)[s] = r \o t
  BY DEF WithSupported, EntryValue
<1>2. n \in Nat /\ (of = {} => n = 0)
  <2>1. IsFiniteSet(of)
    BY SupportedFinite, FS_Subset
  <2> HIDE DEF of
  <2> QED BY <2>1, FS_CardinalityType, FS_EmptySet
<1>3. of # {} => x \in Values /\ y \in Values /\ <<x, y>> \in P
  <2>1. \A e \in of : e \in Supported(o, tree) /\ e[2] = s
    OBVIOUS
  <2> HIDE DEF of
  <2>2. of # {} => (CHOOSE e \in of : TRUE) \in of
    OBVIOUS
  <2> QED BY <2>1, <2>2
<1> HIDE DEF of, n, x, y
<1>4. p \in Seq(Values) /\ t \in Seq(Values) /\ Len(p) = n /\ Len(t) = n
  BY <1>2, <1>3
<1>5. \A i \in 1..n : p[i] = x /\ t[i] = y /\ <<x, y>> \in P
  BY <1>2, <1>3
<1>6. Alike(P, q, r)
  OBVIOUS
<1> HIDE DEF p, t, q, r
<1>7. /\ q \o p \in Seq(Values) /\ r \o t \in Seq(Values)
      /\ Len(q \o p) = Len(q) + n /\ Len(r \o t) = Len(q) + n
  BY <1>4, <1>6 DEF Alike
<1>8. ASSUME NEW i \in 1..Len(q \o p)
      PROVE  <<(q \o p)[i], (r \o t)[i]>> \in P
  <2> DEFINE k == Len(q)
             Goal == <<(q \o p)[i], (r \o t)[i]>> \in P
  <2>1. q \in Seq(Values) /\ r \in Seq(Values) /\ Len(r) = k /\ k \in Nat /\ i \in 1..(k + n)
    BY <1>6, <1>7 DEF Alike
  <2>2. ASSUME i <= k
        PROVE  Goal
    <3>1. (q \o p)[i] = q[i] /\ (r \o t)[i] = r[i]
      BY <1>4, <2>1, <2>2
    <3> QED BY <1>6, <2>1, <2>2, <3>1 DEF Alike
  <2>3. ASSUME i > k
        PROVE  Goal
    <3>1. /\ (q \o p)[i] = IF i <= Len(q) THEN q[i] ELSE p[i - Len(q)]
          /\ (r \o t)[i] = IF i <= Len(r) THEN r[i] ELSE t[i - Len(r)]
      <4>1. \A j \in 1..(Len(q) + Len(p)) :
              (q \o p)[j] = IF j <= Len(q) THEN q[j] ELSE p[j - Len(q)]
        BY <1>4, <2>1, ConcatProperties
      <4>2. \A j \in 1..(Len(r) + Len(t)) :
              (r \o t)[j] = IF j <= Len(r) THEN r[j] ELSE t[j - Len(r)]
        BY <1>4, <2>1, ConcatProperties
      <4>3. Len(q) = k /\ Len(p) = n /\ Len(r) = k /\ Len(t) = n
        BY <1>4, <2>1
      <4> QED BY <2>1, <4>1, <4>2, <4>3
    <3>2. i - k \in 1..n /\ ~(i <= k)
      BY <1>2, <2>1, <2>3
    <3> QED BY <1>5, <2>1, <3>1, <3>2
  <2> HIDE DEF k, Goal
  <2>4. i <= k \/ i > k
    BY <1>2, <2>1
  <2>5. Goal
    BY <2>2, <2>3, <2>4
  <2> QED BY <2>5 DEF Goal
<1> QED BY <1>1, <1>7, <1>8 DEF Alike

\* What the same run has for a symbol in two files, the one it starts from
\* and the one it leaves.
Entries(o, tree, current, after, s) ==
  {p \in Values \X Values :
     p[1] = p[2] \/ \E e \in Supported(o, tree) :
                      /\ e[2] = s
                      /\ p[1] = EntryValue(o, e, current) /\ p[2] = EntryValue(o, e, after)}

LEMMA DiagnosticsSame ==
  ASSUME NEW o, NEW tree, NEW current, NEW after,
         \A x \in Given(o) : after[x] = current[x]
  PROVE  Diagnostics(o, tree, after) = Diagnostics(o, tree, current)
<1>1. SlubDebugCanBeDisabled(o, tree, after) = SlubDebugCanBeDisabled(o, tree, current)
  BY DEF SlubDebugCanBeDisabled, Given
<1>2. Unwanted(o, tree, after) = Unwanted(o, tree, current)
  BY <1>1 DEF Unwanted
<1> QED BY <1>2 DEF Diagnostics

LEMMA PrunedSame ==
  ASSUME NEW o, NEW tree, NEW current, NEW after, NEW s, o.prune, s \notin Fixed(o, tree)
  PROVE  Same(Pruned(o, tree, current), Pruned(o, tree, after), s)
<1>1. \A c : /\ DOMAIN Pruned(o, tree, c)
                  = (Absent(o, tree) \cup FoundUseless(o, tree, c)) \cap Settable(tree)
             /\ \A x \in DOMAIN Pruned(o, tree, c) : Pruned(o, tree, c)[x] = "n"
  BY DEF Pruned, In, All
<1>2. s \in FoundUseless(o, tree, current) <=> s \in FoundUseless(o, tree, after)
  BY DEF FoundUseless, Fixed
<1> QED BY <1>1, <1>2 DEF Same, Values

LEMMA UpdatesAlike ==
  ASSUME NEW o, NEW tree, NEW current \in Configs, NEW after \in Configs,
         o.upgrade \in {"none", "ssdt", "dsdt"}, o.hifi5 \in {"none", "xaf", "sof"},
         \A x \in Given(o) : after[x] = current[x],
         NEW s \in Symbols, s \notin Fixed(o, tree)
  PROVE  Alike(Entries(o, tree, current, after, s),
               Updates(o, tree, current)[s], Updates(o, tree, after)[s])
<1> DEFINE P == Entries(o, tree, current, after, s)
           d1 == Firmware(o)
           d2(c) == BuildHygiene(tree, c)
           d3 == In(tree, BoardProfile(o))
           d4 == In(tree, All(EthernetConflict(o, tree), "n"))
           d5 == In(tree, All(PolicyDisabled, "n"))
           d7 == In(tree, All(Gated(o, tree), "n"))
           d8(c) == Pruned(o, tree, c)
           d9 == TableUpgrade(o)
           d10(c) == Diagnostics(o, tree, c)
           d11(c) == PlatformMemory(tree, c)
           d12 == In(tree, [x \in HiFi5Switches(o) |-> HiFi5(o, x)])
           d13(c) == PageBlock(tree, c)
           u1 == IfUnseen(NoUpdates, d1)
           u2(c) == IfUnseen(u1, d2(c))
           u3(c) == IfUnseen(u2(c), d3)
           u4(c) == IfUnseen(u3(c), d4)
           u5(c) == IfUnseen(u4(c), d5)
           u6(c) == WithSupported(u5(c), o, tree, c)
           u7(c) == Override(u6(c), d7)
           S(c) == Selection(o, tree, c)
           v1(c) == IfUnseen(S(c), d9)
           v2(c) == Override(v1(c), d10(c))
           v3(c) == Override(v2(c), d11(c))
           v4(c) == Override(v3(c), d12)
           U(c) == Updates(o, tree, c)
<1>1. \A c : S(c) = IF ~o.prune THEN u7(c) ELSE IfUnseen(u7(c), d8(c))
  BY DEF Selection, Pruned
<1>2. \A c : U(c) = IF o.hifi5 = "none" THEN v4(c) ELSE Override(v4(c), d13(c))
  BY DEF Updates
<1>3. \A x \in Values : <<x, x>> \in P
  BY DEF Entries
<1>4. \A d \in Layers(o, tree, current) : s \in DOMAIN d => d[s] \in Values
  BY LayersAllowed DEF Valued, AllowedBy, Allowed
<1>5. \A d \in {d1, d3, d4, d5, d7, d9, d12} : Same(d, d, s)
  <2>1. {d1, d3, d4, d5, d7, d9, d12} \subseteq Layers(o, tree, current)
    BY DEF Layers
  <2> HIDE DEF d1, d3, d4, d5, d7, d9, d12
  <2> QED BY <1>4, <2>1 DEF Same
<1>6. Same(d10(current), d10(after), s)
  <2>1. d10(current) \in Layers(o, tree, current)
    BY DEF Layers
  <2>2. d10(after) = d10(current)
    BY DiagnosticsSame
  <2> HIDE DEF d10
  <2> QED BY <1>4, <2>1, <2>2 DEF Same
<1>7. /\ Same(d2(current), d2(after), s) /\ Same(d11(current), d11(after), s)
      /\ Same(d13(current), d13(after), s)
  <2>1. s \notin {"FRAME_WARN", "CMA_SIZE_MBYTES", "PAGE_BLOCK_MAX_ORDER"}
    BY DEF Fixed, Sizes
  <2>2. \A c : /\ DOMAIN d2(c) \subseteq {"FRAME_WARN"} /\ DOMAIN d11(c) \subseteq {"CMA_SIZE_MBYTES"}
               /\ DOMAIN d13(c) \subseteq {"PAGE_BLOCK_MAX_ORDER"}
    BY DEF BuildHygiene, PlatformMemory, PageBlock
  <2> HIDE DEF d2, d11, d13
  <2> QED BY <2>1, <2>2 DEF Same
<1>8. o.prune => Same(d8(current), d8(after), s)
  BY PrunedSame
<1>9. \A e \in Supported(o, tree) : e[2] = s =>
        /\ EntryValue(o, e, current) \in Values /\ EntryValue(o, e, after) \in Values
        /\ <<EntryValue(o, e, current), EntryValue(o, e, after)>> \in P
  <2>1. \A e \in Supported(o, tree) : e[2] = s =>
          EntryValue(o, e, current) \in Values /\ EntryValue(o, e, after) \in Values
    BY LayersAllowed DEF AllowedBy, Allowed
  <2> QED BY <2>1 DEF Entries
<1> HIDE DEF P, d1, d2, d3, d4, d5, d7, d8, d9, d10, d11, d12, d13, S, U
<1>10. Alike(P, NoUpdates[s], NoUpdates[s])
  BY DEF NoUpdates, Alike
<1>11. Alike(P, u1[s], u1[s])
  BY <1>3, <1>5, <1>10, UnseenAlike
<1> HIDE DEF u1
<1>12. Alike(P, u2(current)[s], u2(after)[s])
  BY <1>3, <1>7, <1>11, UnseenAlike
<1> HIDE DEF u2
<1>13. Alike(P, u3(current)[s], u3(after)[s])
  BY <1>3, <1>5, <1>12, UnseenAlike
<1> HIDE DEF u3
<1>14. Alike(P, u4(current)[s], u4(after)[s])
  BY <1>3, <1>5, <1>13, UnseenAlike
<1> HIDE DEF u4
<1>15. Alike(P, u5(current)[s], u5(after)[s])
  BY <1>3, <1>5, <1>14, UnseenAlike
<1> HIDE DEF u5
<1>16. Alike(P, u6(current)[s], u6(after)[s])
  BY <1>9, <1>15, SupportedAlike
<1> HIDE DEF u6
<1>17. Alike(P, u7(current)[s], u7(after)[s])
  BY <1>3, <1>5, <1>16, OverrideAlike
<1> HIDE DEF u7
<1>18. Alike(P, S(current)[s], S(after)[s])
  BY <1>1, <1>3, <1>8, <1>17, UnseenAlike
<1>19. Alike(P, v1(current)[s], v1(after)[s])
  BY <1>3, <1>5, <1>18, UnseenAlike
<1> HIDE DEF v1
<1>20. Alike(P, v2(current)[s], v2(after)[s])
  BY <1>3, <1>6, <1>19, OverrideAlike
<1> HIDE DEF v2
<1>21. Alike(P, v3(current)[s], v3(after)[s])
  BY <1>3, <1>7, <1>20, OverrideAlike
<1> HIDE DEF v3
<1>22. Alike(P, v4(current)[s], v4(after)[s])
  BY <1>3, <1>5, <1>21, OverrideAlike
<1> HIDE DEF v4
<1>23. Alike(P, U(current)[s], U(after)[s])
  BY <1>2, <1>3, <1>7, <1>22, OverrideAlike
<1> QED BY <1>23 DEF P, U

\* The preference for a driver that a run has written is the one that the
\* next run reads from the file.
LEMMA EntrySettles ==
  ASSUME NEW o, NEW e, NEW current, NEW after,
         \A x \in Given(o) : after[x] = current[x], ~(e[2] = "INPUT" /\ o.rq),
         after[e[2]] = EntryValue(o, e, current)
  PROVE  EntryValue(o, e, after) = after[e[2]]
<1> DEFINE s == e[2]
           p == Policy(s, e[3], current)
           Kept(c) == p \notin {"builtin", "module"} /\ ~o.rewrite /\ On(c[s])
<1>1. Policy(s, e[3], after) = p
  <2>1. CASE s = "INPUT"
    <3>1. after["EXPERT"] = current["EXPERT"] /\ after["VT"] = current["VT"]
      BY <2>1 DEF Given
    <3> QED BY <3>1 DEF Policy
  <2>2. CASE s # "INPUT"
    BY <2>2 DEF Policy
  <2> QED BY <2>1, <2>2
<1>2. EntryValue(o, e, current) = IF Kept(current) THEN current[s] ELSE TristateValue(s, p, o.pref)
  BY DEF EntryValue, SupportedValue
<1>3. EntryValue(o, e, after) = IF Kept(after) THEN after[s] ELSE TristateValue(s, p, o.pref)
  BY <1>1 DEF EntryValue, SupportedValue
<1> HIDE DEF p
<1>4. after[s] = EntryValue(o, e, current)
  OBVIOUS
<1> HIDE DEF s
<1>5. CASE Kept(current)
  <2>1. after[s] = current[s]
    BY <1>2, <1>4, <1>5
  <2>2. Kept(after)
    BY <1>5, <2>1
  <2> QED BY <1>3, <2>2 DEF s
<1>6. CASE ~Kept(current)
  BY <1>2, <1>3, <1>4, <1>6 DEF s
<1> QED BY <1>5, <1>6

\* The same run on the file that it has left changes no symbol, INPUT with
\* the release qualification apart.
LEMMA RunSettles ==
  ASSUME NEW o, NEW tree, NEW current \in Configs,
         o.upgrade \in {"none", "ssdt", "dsdt"}, o.hifi5 \in {"none", "xaf", "sof"},
         NEW after \in Configs, after = ApplyUpdates(current, Updates(o, tree, current)),
         NEW s \in Symbols, ~(s = "INPUT" /\ o.rq)
  PROVE  ApplyUpdates(after, Updates(o, tree, after))[s] = after[s]
<1> DEFINE q == Updates(o, tree, current)[s]
           r == Updates(o, tree, after)[s]
           P == Entries(o, tree, current, after, s)
<1>1. \A x \in Given(o) : after[x] = current[x]
  BY GivenKept
<1>2. CASE s \in Fixed(o, tree)
  BY <1>2, SizesSettle, UselessSettle DEF Fixed
<1>3. CASE s \notin Fixed(o, tree)
  <2>1. Alike(P, q, r)
    BY <1>1, <1>3, UpdatesAlike
  <2>2. /\ after[s] = IF q = <<>> THEN current[s] ELSE q[Len(q)]
        /\ ApplyUpdates(after, Updates(o, tree, after))[s] = IF r = <<>> THEN after[s] ELSE r[Len(r)]
    BY DEF ApplyUpdates
  <2> HIDE DEF q, r, P
  <2>3. CASE r = <<>>
    BY <2>2, <2>3
  <2>4. CASE r # <<>>
    <3>1. q # <<>> /\ Len(r) = Len(q) /\ Len(q) \in 1..Len(q)
      BY <2>1, <2>4 DEF Alike
    <3>2. <<q[Len(q)], r[Len(q)]>> \in P
      BY <2>1, <3>1 DEF Alike
    <3>3. after[s] = q[Len(q)]
      BY <2>2, <3>1
    <3>4. r[Len(q)] = after[s]
      <4>1. \/ q[Len(q)] = r[Len(q)]
            \/ \E e \in Supported(o, tree) :
                 e[2] = s /\ q[Len(q)] = EntryValue(o, e, current) /\ r[Len(q)] = EntryValue(o, e, after)
        BY <3>2 DEF P, Entries
      <4>2. ASSUME NEW e \in Supported(o, tree), e[2] = s, q[Len(q)] = EntryValue(o, e, current),
                   r[Len(q)] = EntryValue(o, e, after)
            PROVE  r[Len(q)] = after[s]
        BY <1>1, <3>3, <4>2, EntrySettles
      <4> QED BY <3>3, <4>1, <4>2
    <3> QED BY <2>2, <2>4, <3>1, <3>4
  <2> QED BY <2>3, <2>4
<1> QED BY <1>2, <1>3

=============================================================================
