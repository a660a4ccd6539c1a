------------------------ MODULE MC_CompositorSettings ------------------------
(* The inputs of Initialize, in families that each vary what one group of *)
(* properties is about and hold the rest at one value: the code handles   *)
(* the displays, each numeric switch, the boolean switches and the memory *)
(* queries in separate statements that write separate settings.           *)
EXTENDS CompositorSettings

\* Physical sizes below, at and above the HD and FHD thresholds and at the
\* portrait widths that get 32 extra pixels; <<0, 0>> and <<1080, 0>> are
\* a device that reports none.
MCPhysicalDisplays ==
  {<<0, 0>>, <<1080, 0>>, <<720, 1280>>, <<768, 1024>>, <<768, 1281>>,
   <<800, 1280>>, <<1080, 1920>>, <<1200, 1920>>, <<1200, 1921>>,
   <<1201, 1920>>, <<1440, 2560>>}
\* Logical sizes of 13, 29 and 48 tiles of 256x256.
MCLogicalDisplays == {<<720, 1184>>, <<1080, 1794>>, <<1536, 2048>>}
OneDisplay == {<<1080, 1920>>}
OneLogical == {<<720, 1184>>}

\* Dalvik heaps of 0 (the query failing), small and on both sides of
\* 256 MB; reported memory putting the estimate in every tier and on both
\* sides of the 768 MB boundary (0, 85, 720, 768, 1152, 1536, 2730 and
\* 21845 MB when the Dalvik heap is small).
MCDalvikMbs == {0, 16, 256, 512}
MCPhysicalMbs == {0, 64, 540, 576, 864, 1152, 2048, 16384}

No == {NoSwitch}
\* Numeric switches: absent, unparsable, below the minimum, valid.
MCTileWidthGiven == {NoSwitch, SwitchValue(512)}
MCTileSwitchesBad == {NoSwitch, Unparsable, SwitchValue(0), SwitchValue(300)}
MCSizeSwitches == {NoSwitch, Unparsable, SwitchValue(0), SwitchValue(1024)}
\* Thresholds in hundredths: 1.5 above the range, 0.3 inside.
MCThresholdSwitches == {NoSwitch, Unparsable, SwitchValue(150), SwitchValue(30)}
MCSlowDownSwitches == {NoSwitch, SwitchValue(-1), SwitchValue(3)}
\* --force-gpu-mem-available-mb values that fit in 32 bits and one that
\* does not.
MCGpuMemSwitches == {NoSwitch, SwitchValue(256), SwitchValue(4096)}
MCVsyncValues == {"absent", "gpu", "beginframe", "all"}
\* GPU rasterization as CompositorDependencies reports it: enabled, and
\* every combination of enabled and forced.
DepsRaster == {[enabled |-> TRUE, forced |-> FALSE]}
MCGpuRasters == [enabled : BOOLEAN, forced : BOOLEAN]
\* Diagnostic switches: two kinds of debug rects, benchmarking, property
\* tree verification and disabling, antialiasing.
MCDiagnosticSwitches ==
  {"show-composited-layer-borders", "show-paint-rects",
   "enable-gpu-benchmarking", "enable-property-tree-verification",
   "disable-compositor-property-trees", "disable-composited-antialiasing"}

OneDevice == AndroidDevices(OneDisplay, OneLogical, {32}, {0}, {0}) \cup DesktopDevices({32})

\* Every display, with and without --default-tile-width.
TileFamily ==
  Scenario(AndroidDevices(MCPhysicalDisplays, MCLogicalDisplays, {32}, {0}, {0})
             \cup DesktopDevices({32}),
           Processes(MCTileWidthGiven, No, No, No, {"absent"}, {{}}, No, DepsRaster))

\* Every value of the numeric switches.
NumericFamily ==
  Scenario(OneDevice,
           Processes(MCTileWidthGiven, MCSizeSwitches, MCThresholdSwitches,
                     MCSlowDownSwitches, {"absent"}, {{}}, No, DepsRaster))

\* Every set of the boolean switches and every kind of vsync value.
SwitchFamily ==
  Scenario(OneDevice, Processes(No, No, No, No, MCVsyncValues, SUBSET Flags, No, DepsRaster))

\* 32- and 64-bit builds, every memory query result, and the memory switch.
MemoryFamily ==
  Scenario(AndroidDevices(OneDisplay, OneLogical, {32, 64}, MCDalvikMbs, MCPhysicalMbs)
             \cup DesktopDevices({32, 64}),
           Processes(No, No, No, No, {"absent"}, {{}}, MCGpuMemSwitches, DepsRaster))

\* Every set of the diagnostic switches and every GPU rasterization report.
DiagnosticFamily ==
  Scenario(OneDevice, Processes(No, No, No, No, {"absent"},
                                SUBSET MCDiagnosticSwitches, No, MCGpuRasters))

\* Blink's debug setters after Initialize: an Android device, with and
\* without the borders and benchmarking switches and a slow-down factor.
RuntimeFamily ==
  Scenario(AndroidDevices(OneDisplay, OneLogical, {32}, {0}, {0}),
           Processes(No, No, No, {NoSwitch, SwitchValue(3)}, {"absent"},
                     SUBSET {"show-composited-layer-borders",
                             "enable-gpu-benchmarking"}, No, DepsRaster))

MCScenarios == RuntimeFamily \cup DiagnosticFamily \cup TileFamily \cup NumericFamily \cup SwitchFamily \cup MemoryFamily

\* The tile size switches absent, unparsable, 0 or valid.
TileZeroScenarios ==
  Scenario(OneDevice, Processes(MCTileSwitchesBad, No, No, No, {"absent"}, {{}}, No, DepsRaster))

\* The memory switch in 32- and 64-bit builds.
GpuSwitchScenarios ==
  Scenario(AndroidDevices(OneDisplay, OneLogical, {32, 64}, {16}, {2048})
             \cup DesktopDevices({32, 64}),
           Processes(No, No, No, No, {"absent"}, {{}}, MCGpuMemSwitches, DepsRaster))
=============================================================================
