---------------------------- MODULE KconfigUpdates ----------------------------
(***************************************************************************)
(* What sys-kernel/cix-sources/files/kconfig_update.py decides: the new    *)
(* value of each symbol of a kernel .config, given the options of a run,   *)
(* the symbols of the kernel tree and the .config as it is.                *)
(*                                                                         *)
(* A table of the script is the set of its members that some later layer,  *)
(* or another table, treats differently; one symbol stands for the others  *)
(* of its table.  The list of updates becomes, per symbol, the sequence of *)
(* its entries: the order between symbols does not matter, the order of    *)
(* one symbol's entries does, because a later layer replaces the first of  *)
(* them and the .config receives the last.                                 *)
(***************************************************************************)
EXTENDS Naturals, Sequences, FiniteSets

-----------------------------------------------------------------------------
(* The symbols and their Kconfig types *)

BoolSymbols ==
  {"ACPI", "OF", "IOMMU_DEFAULT_DMA_STRICT", "IOMMU_DEFAULT_DMA_LAZY",
   "ARCH_CIX", "CIX_RADXA_ORION_O6", "CIX_RADXA_ORION_O6N",
   "CIX_RADXA_ORION_ACPI", "CIX_RADXA_ORION_DT", "EXPERT", "VT", "EFI", "CMA",
   "ARM64_4K_PAGES", "ARM64_16K_PAGES", "ARM64_64K_PAGES", "ACPI_EC", "MODULES", "MAILBOX",
   "ARMCHINA_NPU_ARCH_V1", "DEBUG_KERNEL", "DEBUG_FS", "STACKTRACE",
   "KALLSYMS", "FTRACE", "KFENCE", "SLUB_DEBUG", "KASAN", "KASAN_HW_TAGS",
   "KASAN_GENERIC", "KASAN_VMALLOC", "PM_DEBUG", "SND_SOC_SOF_DEBUG",
   "SND_SOC_SOF_NOCODEC_DEBUG_SUPPORT", "SND_SOC_SOF_NOCODEC_SUPPORT",
   "FAILSLAB", "CIX_HIFI5_FIRMWARE_XAF", "CIX_HIFI5_FIRMWARE_SOF",
   "ACPI_TABLE_UPGRADE", "BLK_DEV_INITRD", "INITRAMFS_COMPRESSION_GZIP",
   "INITRAMFS_COMPRESSION_NONE", "PLAT_BBOX"}

TristateSymbols ==
  {"I2C_HID_ACPI", "RTC_DRV_EFI", "RTC_DRV_HYM8563", "TCG_TIS", "R8169", "R8126", "CIX_MBOX",
   "PINCTRL_SKY1", "I2C_CADENCE", "SENSORS_CIX_FAN", "USB_CDNS3",
   "USB_CDNS3_SKY1", "USB_CDNS3_STARFIVE", "PCI_SKY1", "DRM", "DRM_CIX",
   "DRM_CIX_VIRTUAL", "DRM_PANTHOR", "VIDEO_LINLON", "SND", "SND_SOC",
   "SND_HDA_CIX_IPBLOQ", "SND_SOC_CIX", "ARMCHINA_NPU", "PWM_SKY1", "INPUT",
   "TOUCHSCREEN_GOODIX", "CIX_DSP_RPROC", "RPMSG_CHAR",
   "SND_SOC_SOF_CIX_SKY1"}

ValueSymbols ==
  {"FRAME_WARN", "CMA_SIZE_MBYTES", "PAGE_BLOCK_MAX_ORDER", "INITRAMFS_SOURCE"}

Switches == BoolSymbols \cup TristateSymbols
Symbols == Switches \cup ValueSymbols

\* int() of the numerals the model uses; anything else reads as 0.
Numeral(v) ==
  CASE v = "9" -> 9 [] v = "10" -> 10 [] v = "11" -> 11 [] v = "64" -> 64
    [] v = "128" -> 128 [] v = "1024" -> 1024 [] v = "2048" -> 2048
    [] OTHER -> 0

Values == {"absent", "n", "y", "m", "0", "9", "10", "11", "64", "128",
           "1024", "2048", "ssdt", "dsdt"}
Configs == [Symbols -> Values]

On(v) == v \in {"y", "m"}
All(S, v) == [s \in S |-> v]

-----------------------------------------------------------------------------
(* The hardware a profile can select: <<table, symbol, policy>> *)

InTable(table, policies) ==
  {<<table, s, policies[s]>> : s \in DOMAIN policies}

SupportedCommon == InTable("common", [EFI |-> "always", RTC_DRV_EFI |-> "prefer"])
SupportedDt == InTable("dt", [RTC_DRV_HYM8563 |-> "prefer"])
SupportedVendorAcpi == InTable("vendor_acpi",
  [MAILBOX |-> "builtin", CIX_MBOX |-> "builtin", PINCTRL_SKY1 |-> "builtin",
   I2C_CADENCE |-> "prefer"])
SupportedVendorAcpiO6 == InTable("vendor_o6", [SENSORS_CIX_FAN |-> "prefer"])
SupportedVendorDt == InTable("vendor_dt",
  [CIX_MBOX |-> "prefer", PINCTRL_SKY1 |-> "builtin", I2C_CADENCE |-> "prefer"])
SupportedDisplay == InTable("display", [DRM |-> "prefer", DRM_CIX |-> "prefer"])
SupportedGpu == InTable("gpu", [DRM |-> "prefer", DRM_PANTHOR |-> "prefer"])
SupportedMedia == InTable("media", [VIDEO_LINLON |-> "prefer"])
SupportedNpu == InTable("npu", [MODULES |-> "always", ARMCHINA_NPU |-> "module"])
SupportedEdp == InTable("edp", [PWM_SKY1 |-> "prefer"])
SupportedTouchscreen == InTable("touchscreen",
  [INPUT |-> "prefer", TOUCHSCREEN_GOODIX |-> "prefer"])
SupportedAudioAnalog == InTable("audio_analog",
  [SND |-> "prefer", SND_HDA_CIX_IPBLOQ |-> "prefer"])
SupportedAudioDisplay == InTable("audio_display",
  [SND |-> "prefer", SND_SOC |-> "prefer", SND_SOC_CIX |-> "prefer"])

\* The drivers that belong to one feature, and are turned off without it.
GraphicsDrivers ==
  [display |-> {"DRM_CIX"}, gpu |-> {"DRM_PANTHOR"}, media |-> {"VIDEO_LINLON"}]
AudioDrivers ==
  [analog |-> {"SND_HDA_CIX_IPBLOQ"}, display |-> {"SND_SOC_CIX"}]

-----------------------------------------------------------------------------
(* The options: what parse_args lets through *)

\* Mutant of LegalOptions: sof no longer asks for the DSDT.
LegalOptionsUnchecked(o) ==
  /\ o.tpm => o.prune
  /\ o.upgrade # "none" => o.acpi

LegalOptions(o) ==
  /\ o.tpm => o.prune
  /\ o.upgrade # "none" => o.acpi
  /\ o.upgrade = "dsdt" => o.firmware = "1.2" \/ o.board = "o6"
  /\ o.hifi5 = "sof" => o.upgrade = "dsdt"

\* auto finds all of the vendor symbols, or none, in a tree that is complete.
Vendor(o, tree) ==
  \/ o.vendor = "yes"
  \/ o.vendor = "auto" /\ "DRM_CIX" \in tree.symbols

HardwareGroups ==
  [server |-> {}, desktop |-> {"display", "gpu"},
   full |-> {"display", "gpu", "media"}]
GraphicsGroups ==
  [none |-> {}, display |-> {"display"}, gpu |-> {"gpu"},
   desktop |-> {"display", "gpu"}, media |-> {"media"},
   all |-> {"display", "gpu", "media"}]
AudioGroups ==
  [none |-> {}, analog |-> {"analog"}, display |-> {"display"},
   all |-> {"analog", "display"}]

AudioCapabilities(o) ==
  IF o.board = "o6" THEN {"analog", "display"}
  ELSE IF o.acpi THEN {} ELSE {"display"}

Panel(o) == o.edp \/ o.touch

AskedGraphics(o) ==
  (IF o.graphics = "auto" THEN HardwareGroups[o.hardware]
                          ELSE GraphicsGroups[o.graphics])
    \cup (IF Panel(o) THEN {"display"} ELSE {})

Audio(o) ==
  IF o.audio # "auto" THEN AudioGroups[o.audio] \cap AudioCapabilities(o)
  ELSE AudioCapabilities(o)
         \ (IF "display" \in AskedGraphics(o) THEN {} ELSE {"display"})

\* Mutant of Graphics: display audio without its display pipeline.
GraphicsAsAsked(o) == AskedGraphics(o)

\* An explicit request for display audio brings the display pipeline with it.
Graphics(o) ==
  AskedGraphics(o) \cup
    (IF o.audio # "auto" /\ "display" \in Audio(o) THEN {"display"} ELSE {})

Ethernet(o, tree) ==
  IF o.board = "o6" /\ "R8126" \in tree.symbols THEN {"R8126"}
  ELSE {"R8169"} \cap tree.symbols

\* Mutant of EthernetConflict: the other driver of the device is left alone.
EthernetConflictIgnored(o, tree) == {}

EthernetConflict(o, tree) ==
  IF "R8126" \notin tree.symbols THEN {}
  ELSE IF o.board = "o6" THEN {"R8169"} \cap tree.symbols ELSE {"R8126"}

Supported(o, tree) ==
  SupportedCommon
    \cup ({"ethernet"} \X Ethernet(o, tree) \X {"prefer"})
    \cup (IF o.acpi THEN {} ELSE SupportedDt)
    \cup (IF o.touch THEN SupportedTouchscreen ELSE {})
    \cup IF ~Vendor(o, tree) THEN {} ELSE
      (IF o.acpi THEN SupportedVendorAcpi ELSE SupportedVendorDt)
        \cup (IF o.acpi /\ o.board = "o6" THEN SupportedVendorAcpiO6 ELSE {})
        \cup (IF "display" \in Graphics(o) THEN SupportedDisplay ELSE {})
        \cup (IF "gpu" \in Graphics(o) THEN SupportedGpu ELSE {})
        \cup (IF "media" \in Graphics(o) THEN SupportedMedia ELSE {})
        \cup (IF "analog" \in Audio(o) THEN SupportedAudioAnalog ELSE {})
        \cup (IF "display" \in Audio(o) THEN SupportedAudioDisplay ELSE {})
        \cup (IF o.npu THEN SupportedNpu ELSE {})
        \cup (IF Panel(o) THEN SupportedEdp ELSE {})

\* The drivers of the features that the options leave out.
Gated(o, tree) ==
  (IF o.touch THEN {} ELSE {"TOUCHSCREEN_GOODIX"})
    \cup IF ~Vendor(o, tree) THEN {} ELSE
      (UNION {GraphicsDrivers[g] : g \in DOMAIN GraphicsDrivers \ Graphics(o)})
        \cup (UNION {AudioDrivers[a] : a \in DOMAIN AudioDrivers \ Audio(o)})
        \cup (IF o.npu THEN {} ELSE {"ARMCHINA_NPU"})
        \cup (IF Panel(o) THEN {} ELSE {"PWM_SKY1"})

\* Hardware that the boards do not have; only --prune turns it off.
PatchOnlyDisabled == {"I2C_HID_ACPI"}
AcpiDisabled == {"ACPI_EC"}
AcpiUpstreamDisabled == {"I2C_CADENCE"}
AcpiVendorDisabled == {"PCI_SKY1"}
VendorDisabled == {"DRM_CIX_VIRTUAL", "PLAT_BBOX"}

Absent(o, tree) ==
  PatchOnlyDisabled
    \cup (IF o.acpi THEN AcpiDisabled ELSE {})
    \cup (IF o.acpi /\ Vendor(o, tree) THEN AcpiVendorDisabled ELSE {})
    \cup (IF o.acpi /\ ~Vendor(o, tree) THEN AcpiUpstreamDisabled ELSE {})
    \cup (IF Vendor(o, tree) THEN VendorDisabled ELSE {})

\* What --prune finds enabled in the .config and knows, by its name, to be
\* of no use: RTC_DRV_*, USB_CDNS3*, TCG_*, I2C_CADENCE, PCI_SKY1.
UselessByName(o, tree) ==
  {"RTC_DRV_HYM8563"}
    \cup (IF o.tpm THEN {} ELSE {"TCG_TIS"})
    \cup IF ~Vendor(o, tree) THEN {"I2C_CADENCE"}
         ELSE {"PCI_SKY1", "USB_CDNS3_STARFIVE"}
           \cup (IF "USB_CDNS3_SKY1" \in tree.symbols THEN {}
                 ELSE {"USB_CDNS3", "USB_CDNS3_SKY1"})

FoundUseless(o, tree, current) ==
  IF ~o.acpi THEN {} ELSE
    {s \in UselessByName(o, tree) : On(current[s])}
      \cup (IF o.board = "o6n" THEN {"R8126"}
            ELSE IF "R8126" \in tree.symbols THEN {"R8169"} ELSE {})

-----------------------------------------------------------------------------
(* The layers of build_config_updates: u[s] holds the entries of symbol s *)

NoUpdates == [s \in Symbols |-> <<>>]

\* "if symbol not in seen: updates.append(...)"
IfUnseen(u, d) ==
  [s \in Symbols |-> IF s \in DOMAIN d /\ u[s] = <<>> THEN <<d[s]>> ELSE u[s]]

\* "if symbol in seen: replace its first entry, else append"
Override(u, d) ==
  [s \in Symbols |-> IF s \notin DOMAIN d THEN u[s]
                     ELSE IF u[s] = <<>> THEN <<d[s]>>
                     ELSE [u[s] EXCEPT ![1] = d[s]]]

\* What no profile may have, pruned or not.
PolicyDisabled == {"ARMCHINA_NPU_ARCH_V1"}

Settable(tree) == tree.symbols \cap Switches

\* d without the symbols that the tree does not declare.
In(tree, d) == [s \in DOMAIN d \cap Settable(tree) |-> d[s]]

Is(b) == IF b THEN "y" ELSE "n"

Firmware(o) ==
  IF o.acpi THEN [ACPI |-> "y", IOMMU_DEFAULT_DMA_STRICT |-> "y",
                  IOMMU_DEFAULT_DMA_LAZY |-> "n"]
            ELSE [ACPI |-> "n", OF |-> "y"]

BuildHygiene(tree, current) ==
  IF "FRAME_WARN" \in tree.symbols /\ Numeral(current["FRAME_WARN"]) < 2048
  THEN [FRAME_WARN |-> "2048"] ELSE << >>

BoardProfile(o) ==
  [ARCH_CIX |-> "y",
   CIX_RADXA_ORION_O6 |-> Is(o.board = "o6"),
   CIX_RADXA_ORION_O6N |-> Is(o.board = "o6n"),
   CIX_RADXA_ORION_ACPI |-> Is(o.acpi),
   CIX_RADXA_ORION_DT |-> Is(~o.acpi)]

TristateValue(s, policy, preference) ==
  IF s \in BoolSymbols THEN "y"
  ELSE IF policy = "module" THEN "m"
  ELSE IF policy \in {"always", "builtin"} \/ preference = "builtin" THEN "y"
  ELSE "m"

\* INPUT has no prompt without EXPERT, and a built-in VT selects it.
Policy(s, policy, current) ==
  IF s = "INPUT" /\ (current["EXPERT"] # "y" \/ current["VT"] = "y")
  THEN "builtin" ELSE policy

\* Mutant of SupportedValue: what the .config says is not looked at.
SupportedValueAnew(o, s, policy, current) == TristateValue(s, policy, o.pref)

SupportedValue(o, s, policy, current) ==
  IF policy \notin {"builtin", "module"} /\ ~o.rewrite /\ On(current[s])
  THEN current[s] ELSE TristateValue(s, policy, o.pref)

\* Unlike the other layers this one appends also what was seen before, once
\* for each table a symbol is in; the policies of these tables agree.
WithSupported(u, o, tree, current) ==
  LET entries == {e \in Supported(o, tree) : e[2] \in Settable(tree)}
      value(e) ==
        SupportedValue(o, e[2], Policy(e[2], e[3], current), current)
      of(s) == {e \in entries : e[2] = s}
  IN [s \in Symbols |->
        u[s] \o [i \in 1..Cardinality(of(s)) |-> value(CHOOSE e \in of(s) : TRUE)]]

\* The list named by --acpi-table-upgrade-initramfs-source is taken to be one
\* of the mode asked for, as the default is.
TableUpgrade(o) ==
  IF o.upgrade = "none" THEN [ACPI_TABLE_UPGRADE |-> "n"]
  ELSE [BLK_DEV_INITRD |-> "y", ACPI_TABLE_UPGRADE |-> "y",
        INITRAMFS_SOURCE |-> o.upgrade, INITRAMFS_COMPRESSION_GZIP |-> "n",
        INITRAMFS_COMPRESSION_NONE |-> "y"]

-----------------------------------------------------------------------------
(* The diagnostic profiles: "y" of any enabled one beats "n" of the others *)

MemoryDebug ==
  {"DEBUG_KERNEL", "DEBUG_FS", "STACKTRACE", "KALLSYMS", "FTRACE", "KFENCE",
   "SLUB_DEBUG"}
Qualification == {"DEBUG_FS", "PM_DEBUG", "FTRACE", "SND_SOC_SOF_DEBUG"}
QualificationCleared == {"SND_SOC_SOF_NOCODEC_DEBUG_SUPPORT"}
QualificationDisabled == {"SND_SOC_SOF_NOCODEC_SUPPORT"}
FaultInjection == {"FAILSLAB"}

\* Symbols that a profile turns on when it is enabled and never turns off.
MemoryDebugEnableOnly == {"DEBUG_KERNEL", "STACKTRACE", "KALLSYMS"}
QualificationEnableOnly == {"EXPERT", "DEBUG_KERNEL"}
FaultInjectionEnableOnly == {"DEBUG_KERNEL", "DEBUG_FS", "STACKTRACE"}

KasanChoices == {"KASAN_HW_TAGS", "KASAN_GENERIC"}
KasanSymbols == {"KASAN", "KASAN_VMALLOC"} \cup KasanChoices

\* The first choice that the tree has, and what comes with it.
KasanWanted(tree) ==
  IF "KASAN" \notin tree.symbols \/ KasanChoices \cap tree.symbols = {} THEN {}
  ELSE {"KASAN", "KASAN_VMALLOC",
        IF "KASAN_HW_TAGS" \in tree.symbols THEN "KASAN_HW_TAGS"
                                            ELSE "KASAN_GENERIC"}

\* Mutant of SlubDebugCanBeDisabled: the EXPERT that the run is about to
\* turn on is forgotten.
SlubDebugByCurrentExpert(o, tree, current) ==
  ~tree.slubHidden \/ current["EXPERT"] = "y"

\* An explicit n for SLUB_DEBUG survives only where its prompt is visible.
SlubDebugCanBeDisabled(o, tree, current) ==
  ~tree.slubHidden \/ current["EXPERT"] = "y" \/ o.rq

Wanted(o, tree) ==
  (IF o.memdebug THEN MemoryDebug \cup KasanWanted(tree) ELSE {})
    \cup (IF o.rq THEN Qualification \cup QualificationEnableOnly ELSE {})
    \cup (IF o.fault THEN FaultInjection \cup FaultInjectionEnableOnly ELSE {})

\* Mutant of Unwanted: the omitted memory profile takes back all it gave.
UnwantedWithPrerequisites(o, tree, current) ==
  (IF o.memdebug THEN {} ELSE MemoryDebug \cup KasanSymbols)
    \cup (IF o.rq THEN {} ELSE Qualification)
    \cup (IF o.fault THEN {} ELSE FaultInjection)

Unwanted(o, tree, current) ==
  (IF o.memdebug
   THEN IF KasanWanted(tree) = {} THEN {} ELSE KasanChoices
   ELSE ((MemoryDebug \cup KasanSymbols) \ MemoryDebugEnableOnly)
          \ (IF SlubDebugCanBeDisabled(o, tree, current) THEN {}
             ELSE {"SLUB_DEBUG"}))
    \cup (IF o.rq THEN QualificationDisabled ELSE Qualification)
    \cup QualificationCleared
    \cup (IF o.fault THEN {} ELSE FaultInjection)

\* Mutant of Diagnostics: the n of a profile that is off beats the y of
\* another one that is on.
DiagnosticsOffWins(o, tree, current) ==
  [s \in (Wanted(o, tree) \cup Unwanted(o, tree, current)) \cap tree.symbols |->
     Is(s \notin Unwanted(o, tree, current))]

Diagnostics(o, tree, current) ==
  [s \in (Wanted(o, tree) \cup Unwanted(o, tree, current)) \cap tree.symbols |->
     Is(s \in Wanted(o, tree))]

-----------------------------------------------------------------------------
(* Memory sizes and the HiFi5 DSP *)

PlatformMemory(tree, current) ==
  IF /\ current["ARM64_64K_PAGES"] = "y" /\ current["CMA"] = "y"
     /\ "CMA_SIZE_MBYTES" \in tree.symbols
     /\ Numeral(current["CMA_SIZE_MBYTES"]) < 128
  THEN [CMA_SIZE_MBYTES |-> "128"] ELSE << >>

\* The largest page block of the page size, "none" if no size is set.
PageBlockLimit(current) ==
  IF current["ARM64_4K_PAGES"] = "y" THEN "10"
  ELSE IF current["ARM64_16K_PAGES"] = "y" THEN "11"
  ELSE IF current["ARM64_64K_PAGES"] = "y" THEN "9" ELSE "none"

PageBlock(tree, current) ==
  LET limit == PageBlockLimit(current)
      order == current["PAGE_BLOCK_MAX_ORDER"]
      unfit == IF order = "absent" THEN limit = "9"
               ELSE Numeral(order) \notin 1..Numeral(limit)
  IN IF "PAGE_BLOCK_MAX_ORDER" \in tree.symbols /\ limit # "none" /\ unfit
     THEN [PAGE_BLOCK_MAX_ORDER |-> limit] ELSE << >>

HiFi5XafDrivers == {"CIX_DSP_RPROC", "RPMSG_CHAR"}
HiFi5SofDrivers == {"SND", "SND_SOC", "SND_SOC_SOF_CIX_SKY1"}

HiFi5Drivers(o) ==
  CASE o.hifi5 = "xaf" -> HiFi5XafDrivers
    [] o.hifi5 = "sof" -> HiFi5SofDrivers
    [] o.hifi5 = "none" -> {}

HiFi5BuiltIn(o) ==
  CASE o.hifi5 = "xaf" -> {"MAILBOX", "CIX_HIFI5_FIRMWARE_XAF"}
    [] o.hifi5 = "sof" -> {"CIX_HIFI5_FIRMWARE_SOF"}
    [] o.hifi5 = "none" -> {}

HiFi5Excluded(o) ==
  CASE o.hifi5 = "xaf" -> {"CIX_HIFI5_FIRMWARE_SOF", "SND_SOC_SOF_CIX_SKY1"}
    [] o.hifi5 = "sof" -> {"CIX_HIFI5_FIRMWARE_XAF", "CIX_DSP_RPROC",
                           "SND_SOC_SOF_NOCODEC_SUPPORT",
                           "SND_SOC_SOF_NOCODEC_DEBUG_SUPPORT"}
    [] o.hifi5 = "none" -> {"CIX_DSP_RPROC", "SND_SOC_SOF_CIX_SKY1"}

HiFi5(o, s) ==
  IF s \in HiFi5Excluded(o) THEN "n"
  ELSE TristateValue(s, IF s \in HiFi5Drivers(o) THEN "prefer" ELSE "builtin",
                     o.pref)

HiFi5Switches(o) == HiFi5Drivers(o) \cup HiFi5BuiltIn(o) \cup HiFi5Excluded(o)

\* sof ends the script where the tree has no Sky1 owner for SOF.
HiFi5Possible(o, tree) ==
  o.hifi5 = "sof" => "SND_SOC_SOF_CIX_SKY1" \in tree.symbols

-----------------------------------------------------------------------------
Selection(o, tree, current) ==
  LET u1 == IfUnseen(NoUpdates, Firmware(o))
      u2 == IfUnseen(u1, BuildHygiene(tree, current))
      u3 == IfUnseen(u2, In(tree, BoardProfile(o)))
      u4 == IfUnseen(u3, In(tree, All(EthernetConflict(o, tree), "n")))
      u5 == IfUnseen(u4, In(tree, All(PolicyDisabled, "n")))
      u6 == WithSupported(u5, o, tree, current)
      u7 == Override(u6, In(tree, All(Gated(o, tree), "n")))
  IN IF ~o.prune THEN u7
     ELSE IfUnseen(u7, In(tree, All(Absent(o, tree)
                                      \cup FoundUseless(o, tree, current), "n")))

Updates(o, tree, current) ==
  LET u1 == IfUnseen(Selection(o, tree, current), TableUpgrade(o))
      u2 == Override(u1, Diagnostics(o, tree, current))
      u3 == Override(u2, PlatformMemory(tree, current))
      u4 == Override(u3, In(tree, [s \in HiFi5Switches(o) |-> HiFi5(o, s)]))
  IN IF o.hifi5 = "none" THEN u4 ELSE Override(u4, PageBlock(tree, current))

\* The setting lines of the .config are replaced, or appended, by the last
\* entry of each symbol that has one.
ApplyUpdates(original, u) ==
  [s \in Symbols |-> IF u[s] = <<>> THEN original[s] ELSE u[s][Len(u[s])]]

-----------------------------------------------------------------------------
(* What Kconfig itself rules out *)

\* The firmware stacks of the DSP are one choice of Kconfig, the compressions
\* of the initramfs another: no file has two members of either on.
FirmwareStacks == {"CIX_HIFI5_FIRMWARE_XAF", "CIX_HIFI5_FIRMWARE_SOF"}
Compressions == {"INITRAMFS_COMPRESSION_GZIP", "INITRAMFS_COMPRESSION_NONE"}

Apart(config, s, t) == ~(On(config[s]) /\ On(config[t]))

OneOfEach(config) ==
  /\ Apart(config, "CIX_HIFI5_FIRMWARE_XAF", "CIX_HIFI5_FIRMWARE_SOF")
  /\ Apart(config, "INITRAMFS_COMPRESSION_GZIP", "INITRAMFS_COMPRESSION_NONE")

\* What the drivers of a tree with the vendor's patches work through.
Providers == {"SND", "SND_SOC", "DRM", "DRM_CIX", "INPUT", "PWM_SKY1", "MODULES"}

=============================================================================
