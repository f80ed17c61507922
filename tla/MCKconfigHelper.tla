--------------------------- MODULE MCKconfigHelper ---------------------------
(* Two kernel trees, the .config files that users come with, and the command  *)
(* lines worth telling apart.                                                 *)
EXTENDS KconfigHelper, TLC

VendorOnly ==
  {"CIX_MBOX", "PINCTRL_SKY1", "DRM_CIX", "DRM_CIX_VIRTUAL", "VIDEO_LINLON",
   "SND_HDA_CIX_IPBLOQ", "SND_SOC_CIX", "ARMCHINA_NPU", "ARMCHINA_NPU_ARCH_V1",
   "PWM_SKY1", "SENSORS_CIX_FAN", "PCI_SKY1", "PLAT_BBOX", "R8126",
   "CIX_DSP_RPROC", "CIX_HIFI5_FIRMWARE_XAF", "CIX_HIFI5_FIRMWARE_SOF",
   "SND_SOC_SOF_CIX_SKY1", "USB_CDNS3_SKY1"}

MCTrees ==
  [patched |-> [symbols |-> Symbols, slubHidden |-> FALSE],
   older |-> [symbols |-> Symbols \ {"SND_SOC_SOF_CIX_SKY1", "USB_CDNS3_SKY1",
                                     "KASAN_HW_TAGS", "R8126"},
              slubHidden |-> TRUE],
   upstream |-> [symbols |-> Symbols \ VendorOnly, slubHidden |-> TRUE]]

Config(settings) ==
  [s \in Symbols |-> IF s \in DOMAIN settings THEN settings[s] ELSE "absent"]

\* Everything modular, 4K pages; everything built in, 64K pages, expert.
Distribution ==
  Config([s \in TristateSymbols |-> IF s = "R8126" THEN "absent" ELSE "m"]
    @@ All({"ACPI", "OF", "EFI", "CMA", "ARM64_4K_PAGES", "ACPI_EC", "VT",
            "MODULES", "DEBUG_KERNEL", "DEBUG_FS", "STACKTRACE", "KALLSYMS",
            "FTRACE", "SLUB_DEBUG", "BLK_DEV_INITRD",
            "INITRAMFS_COMPRESSION_GZIP"}, "y")
    @@ [FRAME_WARN |-> "1024", CMA_SIZE_MBYTES |-> "64",
        PAGE_BLOCK_MAX_ORDER |-> "11"])
BuiltIn ==
  Config([s \in TristateSymbols |-> IF s \in {"R8169", "SND_SOC_SOF_CIX_SKY1"}
                                    THEN "n" ELSE "y"]
    @@ All({"ACPI", "EFI", "CMA", "ARM64_64K_PAGES", "MODULES", "EXPERT",
            "DEBUG_KERNEL", "KASAN", "KASAN_GENERIC", "FAILSLAB", "KALLSYMS",
            "CIX_HIFI5_FIRMWARE_XAF", "INITRAMFS_COMPRESSION_NONE"}, "y")
    @@ [FRAME_WARN |-> "2048", CMA_SIZE_MBYTES |-> "64"])
\* 16K pages and little else.
Small ==
  Config(All({"ACPI", "EFI", "ARM64_16K_PAGES", "VT"}, "y") @@ [PAGE_BLOCK_MAX_ORDER |-> "0"])
MCInitial == {Blank, Distribution, BuiltIn, Small}

MCEdits == {<<"EXPERT", "n">>, <<"INPUT", "m">>, <<"SND_SOC", "y">>}

Default ==
  [board |-> "o6", acpi |-> TRUE, firmware |-> "1.2", tree |-> "patched",
   vendor |-> "auto", hardware |-> "full", graphics |-> "auto",
   audio |-> "auto", pref |-> "module", prune |-> FALSE, tpm |-> FALSE,
   npu |-> FALSE, edp |-> FALSE, touch |-> FALSE, upgrade |-> "none",
   rewrite |-> FALSE, memdebug |-> FALSE, rq |-> FALSE, fault |-> FALSE,
   hifi5 |-> "none", apply |-> TRUE]

With(changes) == changes @@ Default

SettingOptions ==
  {Default,
   With([apply |-> FALSE, memdebug |-> TRUE]),
   With([hardware |-> "server", prune |-> TRUE]),
   With([hardware |-> "desktop", board |-> "o6n", pref |-> "builtin", rewrite |-> TRUE]),
   With([board |-> "o6n", acpi |-> FALSE, hardware |-> "server", audio |-> "all"]),
   With([graphics |-> "gpu", tree |-> "older", memdebug |-> TRUE]),
   With([tree |-> "upstream", prune |-> TRUE, tpm |-> TRUE]),
   With([touch |-> TRUE, rewrite |-> TRUE, rq |-> TRUE, graphics |-> "none"]),
   With([npu |-> TRUE, edp |-> TRUE, pref |-> "builtin", memdebug |-> TRUE, fault |-> TRUE]),
   With([hifi5 |-> "xaf", hardware |-> "server"]),
   With([hifi5 |-> "sof", upgrade |-> "dsdt", rq |-> TRUE]),
   With([hifi5 |-> "sof", upgrade |-> "dsdt", tree |-> "older"]),
   With([hifi5 |-> "sof", upgrade |-> "ssdt"]),
   With([upgrade |-> "ssdt", vendor |-> "no", fault |-> TRUE]),
   With([hifi5 |-> "sof", upgrade |-> "dsdt", pref |-> "builtin", memdebug |-> TRUE,
         firmware |-> "1.3"]),
   With([board |-> "o6n", upgrade |-> "dsdt", firmware |-> "1.3"]),
   With([board |-> "o6n", prune |-> TRUE, hifi5 |-> "xaf", rewrite |-> TRUE]),
   With([audio |-> "display", hardware |-> "server", touch |-> TRUE]),
   With([audio |-> "none", graphics |-> "media", tree |-> "older", prune |-> TRUE,
         rq |-> TRUE])}

=============================================================================
