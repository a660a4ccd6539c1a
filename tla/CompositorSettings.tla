------------------------- MODULE CompositorSettings -------------------------
(***************************************************************************)
(* RenderWidgetCompositor::Initialize: the cc::LayerTreeSettings the       *)
(* compositor is created with, as a function of the build's platform, the *)
(* device, the widget and the process's command line, and the host it     *)
(* then creates.  A behaviour is the inputs the process presents, the     *)
(* settings Initialize hands to cc, and then Blink's run-time debug-state *)
(* setters, which read the host's debug state, change it and write it     *)
(* back.                                                                   *)
(*                                                                          *)
(* A numeric switch is abstracted to what base::StringToInt or            *)
(* StringToDouble makes of its text: absent, unparsable, or a number.     *)
(* Thresholds are counted in hundredths.  Of the settings copied from     *)
(* CompositorDependencies only GPU rasterization is kept, which the        *)
(* Android block overrides; scrollbar colours and fade timings, constants  *)
(* of each platform block, are left out.                                   *)
(* GetGpuMemoryPolicy is the module GpuMemoryPolicy.                       *)
(***************************************************************************)
EXTENDS Integers, GpuMemoryPolicy

CONSTANTS
  Scenarios, \* the inputs covered: built with Scenario below
  RuntimeScenarios, \* bound: the inputs after which the setters are explored
  IntMax     \* std::numeric_limits<int>::max()

\* What StringToInt / StringToDouble make of a switch's text.
NoSwitch == [given |-> FALSE, parses |-> FALSE, value |-> 0]
Unparsable == [given |-> TRUE, parses |-> FALSE, value |-> 0]
SwitchValue(v) == [given |-> TRUE, parses |-> TRUE, value |-> v]

Flags == {"enable-low-res-tiling", "disable-low-res-tiling",
          "enable-begin-frame-scheduling", "enable-rgba-4444-textures",
          "disable-rgba-4444-textures", "enable-tile-compression",
          "enable-main-frame-before-activation",
          "disable-main-frame-before-activation"}

\* The switches of the initial debug state: each shows one kind of rect.
DebugRectSwitches ==
  {"show-composited-layer-borders", "show-layer-animation-bounds",
   "show-paint-rects", "show-property-changed-rects",
   "show-surface-damage-rects", "show-screen-space-rects",
   "show-replica-screen-space-rects"}

\* The flags of cc::LayerTreeDebugState: each rect flag is named after the
\* switch that sets it initially; the others only setters change.
DebugFlags ==
  DebugRectSwitches \cup
  {"show-fps-counter", "touch-event-handler-rects", "wheel-event-handler-rects",
   "non-fast-scrollable-rects", "rasterize-only-visible-content"}

\* The flags each of setShowFPSCounter, setShowPaintRects,
\* setShowDebugBorders and setShowScrollBottleneckRects writes.
DebugSetterFlags ==
  {{"show-fps-counter"}, {"show-paint-rects"}, {"show-composited-layer-borders"},
   {"touch-event-handler-rects", "wheel-event-handler-rects",
    "non-fast-scrollable-rects"}}

\* What Android reads of the device: the physical and logical display size
\* (DeviceDisplayInfo), whether WebView's synchronous compositor is in use
\* (SynchronousCompositorFactory or --ipc-sync-compositing), and the memory
\* queries of GetGpuMemoryPolicy; and the build's size_t width.
AndroidDevices(physicals, logicals, widths, dalviks, mbs) ==
  [platform : {"android"}, physical : physicals, logical : logicals,
   sync : BOOLEAN, highDpi : {FALSE}, overlay : {FALSE}, width : widths,
   dalvik : dalviks, physicalMb : mbs]

\* Other builds read the device scale factor (ChromeOS) and, except on Mac,
\* ui::IsOverlayScrollbarEnabled().
DesktopDevices(widths) ==
  [platform : {"chromeos"}, physical : {<<0, 0>>}, logical : {<<0, 0>>},
   sync : {FALSE}, highDpi : BOOLEAN, overlay : BOOLEAN, width : widths,
   dalvik : {0}, physicalMb : {0}]
  \cup [platform : {"other"}, physical : {<<0, 0>>}, logical : {<<0, 0>>},
        sync : {FALSE}, highDpi : {FALSE}, overlay : BOOLEAN, width : widths,
        dalvik : {0}, physicalMb : {0}]
  \cup [platform : {"mac"}, physical : {<<0, 0>>}, logical : {<<0, 0>>},
        sync : {FALSE}, highDpi : {FALSE}, overlay : {FALSE}, width : widths,
        dalvik : {0}, physicalMb : {0}]

\* The widget, the device class, the command line, and what
\* CompositorDependencies says of GPU rasterization.
Processes(tiles, untiled, thresholds, slowdowns, vsyncs, flagSets, gpuMems,
          rasters) ==
  [oopif : BOOLEAN, threaded : BOOLEAN, lowEnd : BOOLEAN, flags : flagSets,
   vsync : vsyncs, tileWidth : tiles, tileHeight : tiles,
   untiledWidth : untiled, untiledHeight : untiled,
   showThreshold : thresholds, hideThreshold : thresholds,
   slowDown : slowdowns, gpuMem : gpuMems, gpuRaster : rasters]

Scenario(devices, processes) == [p : devices, c : processes]

HasSwitch(in, f) == f \in in.c.flags

\* `cc::LayerTreeSettings settings;`: the constructor's values (cc is outside
\* this tree) of the fields modelled.  Initialize always sets stagingMB and
\* the memory policy.
CCDefaultSettings ==
  [tileWidth |-> 256, tileHeight |-> 256,
   untiledWidth |-> 512, untiledHeight |-> 512,
   showThreshold |-> 50, hideThreshold |-> 50, slowDown |-> 0,
   disableDisplayVsync |-> FALSE, waitForBeginFrameInterval |-> TRUE,
   mainFrameBeforeActivation |-> FALSE, prepaintPercent |-> 100,
   format |-> "default", lowResTiling |-> FALSE,
   useExternalBeginFrameSource |-> FALSE, stagingMB |-> 0, memoryMiB |-> 0,
   layerTransformsShouldScale |-> FALSE, gpuRasterizationEnabled |-> FALSE,
   gpuRasterizationForced |-> FALSE, strictPropertyChecking |-> FALSE,
   verifyPropertyTrees |-> FALSE, usePropertyTrees |-> TRUE,
   allowAntialiasing |-> TRUE, singleThreadProxyScheduler |-> TRUE,
   debugRects |-> {}, recordRenderingStats |-> FALSE,
   scrollbarAnimator |-> "none", synchronousRendererCompositor |-> FALSE,
   ignoreRootLayerFlings |-> FALSE, clearRootRenderPass |-> TRUE]

-----------------------------------------------------------------------------
\* GetSwitchValueAsInt: *result is set only to a parsed value in range.
GetSwitchValueAsInt(sw, min, max, result) ==
  IF sw.parses /\ sw.value >= min /\ sw.value <= max THEN sw.value ELSE result

Portrait(d) == IF d[1] <= d[2] THEN d[1] ELSE d[2]
Landscape(d) == IF d[1] <= d[2] THEN d[2] ELSE d[1]
RealSizeSupported(p) == p.physical[1] # 0 /\ p.physical[2] # 0

\* A variant that adds the 32 pixels to any size at portrait 768.
RealDisplayTileSizeUnguarded(d) ==
  LET pw == Portrait(d)
      lw == Landscape(d)
      s1 == IF pw > 768 \/ lw > 1280 THEN 384 ELSE 256
      s2 == IF pw > 1200 \/ lw > 1920 THEN 512 ELSE s1
      s3 == IF pw = 768 THEN s2 + 32 ELSE s2
  IN  IF s3 = 384 /\ pw = 1200 THEN s3 + 32 ELSE s3

\* The tile size from the physical display: HD and FHD thresholds, and the
\* 32 pixels added where a portrait width barely straddles another tile.
RealDisplayTileSize(d) ==
  LET pw == Portrait(d)
      lw == Landscape(d)
      s1 == IF pw > 768 \/ lw > 1280 THEN 384 ELSE 256
      s2 == IF pw > 1200 \/ lw > 1920 THEN 512 ELSE s1
      s3 == IF s2 = 256 /\ pw = 768 THEN s2 + 32 ELSE s2
  IN  IF s3 = 384 /\ pw = 1200 THEN s3 + 32 ELSE s3

\* The tile size estimated from the number of 256x256 tiles on the display.
EstimatedTileSize(d) ==
  LET numTiles == (d[1] * d[2]) \div (256 * 256)
      s1 == IF numTiles > 16 THEN 384 ELSE 256
  IN  IF numTiles >= 40 THEN 512 ELSE s1

CalculateDefaultTileSize(p) ==
  CASE p.platform = "android" ->
         IF RealSizeSupported(p) THEN RealDisplayTileSize(p.physical)
         ELSE EstimatedTileSize(p.logical)
    [] p.platform = "chromeos" /\ p.highDpi -> 512
    [] OTHER -> 256

\* --default-tile-width/-height: the size starts from 0 and takes the value
\* only when it parses and is at least 1.
TileSizeFromSwitch(sw, size) ==
  IF sw.given THEN GetSwitchValueAsInt(sw, 1, IntMax, 0) ELSE size

\* A variant that starts the untiled size from 0, like the tile size.
MaxUntiledLayerSizeFromZero(sw, size) ==
  IF sw.given THEN GetSwitchValueAsInt(sw, 1, IntMax, 0) ELSE size

\* --max-untiled-layer-width/-height: the size starts from cc's default.
MaxUntiledLayerSize(sw, size) ==
  IF sw.given THEN GetSwitchValueAsInt(sw, 1, IntMax, size) ELSE size

\* --top-controls-show/hide-threshold: kept only when StringToDouble
\* parses it and it lies in [0, 1].
TopControlsThreshold(sw, t) ==
  IF sw.given /\ sw.parses /\ sw.value >= 0 /\ sw.value <= 100
  THEN sw.value ELSE t

\* --slow-down-raster-scale-factor, at least 0.
SlowDownRasterScaleFactor(sw, f) ==
  IF sw.given THEN GetSwitchValueAsInt(sw, 0, IntMax, f) ELSE f

\* --disable-gpu-vsync: "gpu" turns off display vsync, "beginframe" the
\* begin-frame interval, any other value both.
VsyncSettings(v, s) ==
  CASE v = "absent"     -> s
    [] v = "gpu"        -> [s EXCEPT !.disableDisplayVsync = TRUE]
    [] v = "beginframe" -> [s EXCEPT !.waitForBeginFrameInterval = FALSE]
    [] OTHER            -> [s EXCEPT !.disableDisplayVsync = TRUE,
                                     !.waitForBeginFrameInterval = FALSE]

\* settings.gpu_rasterization_* from CompositorDependencies; the other
\* settings copied from it are left out.
DependencySettings(in, s) ==
  [s EXCEPT !.gpuRasterizationForced = in.c.gpuRaster.forced,
            !.gpuRasterizationEnabled = in.c.gpuRaster.enabled]

\* The diagnostic switches: property trees, antialiasing, the initial debug
\* state, and the single-threaded proxy never running a scheduler.
DiagnosticSettings(in, s) ==
  [s EXCEPT
     !.verifyPropertyTrees = HasSwitch(in, "enable-property-tree-verification"),
     !.usePropertyTrees = @ /\ ~HasSwitch(in, "disable-compositor-property-trees"),
     !.allowAntialiasing = @ /\ ~HasSwitch(in, "disable-composited-antialiasing"),
     !.singleThreadProxyScheduler = FALSE,
     !.debugRects = in.c.flags \cap DebugRectSwitches,
     !.recordRenderingStats = HasSwitch(in, "enable-gpu-benchmarking"),
     !.strictPropertyChecking =
        HasSwitch(in, "strict-layer-property-change-checking")]

\* The settings of Initialize up to the platform block.
CommonSettings(in) ==
  LET c == in.c
      s == VsyncSettings(c.vsync, CCDefaultSettings)
      tile == CalculateDefaultTileSize(in.p)
      s1 == [s EXCEPT
               !.layerTransformsShouldScale = TRUE,
               !.mainFrameBeforeActivation =
                  HasSwitch(in, "enable-main-frame-before-activation")
                    /\ ~HasSwitch(in, "disable-main-frame-before-activation"),
               !.tileWidth = TileSizeFromSwitch(c.tileWidth, tile),
               !.tileHeight = TileSizeFromSwitch(c.tileHeight, tile),
               !.untiledWidth = MaxUntiledLayerSize(c.untiledWidth, @),
               !.untiledHeight = MaxUntiledLayerSize(c.untiledHeight, @)]
      s2 == [DependencySettings(in, s1) EXCEPT
               !.showThreshold = TopControlsThreshold(c.showThreshold, @),
               !.hideThreshold = TopControlsThreshold(c.hideThreshold, @)]
  IN  [DiagnosticSettings(in, s2) EXCEPT
         !.slowDown = SlowDownRasterScaleFactor(c.slowDown, @)]

\* A variant whose low-memory policy also applies to WebView.
LowMemoryPolicyIgnoringWebView(in) == in.c.lowEnd

\* use_low_memory_policy: a low-end device, unless it runs WebView's
\* synchronous compositor.
LowMemoryPolicy(in) == in.c.lowEnd /\ ~in.p.sync

\* The OS_ANDROID block: no GPU rasterization on a low-end device; WebView
\* uses the system's scrollbars, handles root flings and does not clear the
\* root pass; the low memory policy and, unless disabled, RGBA_4444 tiles;
\* low-res tilings and an external begin frame source for every renderer.
AndroidSettings(in, s) ==
  LET sync == in.p.sync
      lowMemory == LowMemoryPolicy(in)
  IN  [s EXCEPT
         !.gpuRasterizationEnabled = @ /\ ~in.c.lowEnd,
         !.synchronousRendererCompositor = sync,
         !.scrollbarAnimator = IF sync THEN "none" ELSE "linear_fade",
         !.ignoreRootLayerFlings = sync,
         !.prepaintPercent = IF lowMemory THEN 67 ELSE 50,
         !.format = IF lowMemory /\ ~HasSwitch(in, "disable-rgba-4444-textures")
                    THEN "RGBA_4444" ELSE @,
         !.clearRootRenderPass = ~sync,
         !.lowResTiling = TRUE,
         !.useExternalBeginFrameSource = TRUE]

\* The !OS_MACOSX block of other builds: thinning overlay scrollbars or
\* fading ones; Mac keeps cc's.
DesktopScrollbars(in, s) ==
  IF in.p.platform = "mac" THEN s
  ELSE [s EXCEPT !.scrollbarAnimator =
                   IF in.p.overlay THEN "thinning" ELSE "linear_fade"]

\* A variant that applies --disable-low-res-tiling before the enable switch.
SwitchOverridesEnableLast(in, s) ==
  LET l1 == IF HasSwitch(in, "disable-low-res-tiling") THEN FALSE ELSE s.lowResTiling
      l2 == IF HasSwitch(in, "enable-low-res-tiling") THEN TRUE ELSE l1
      e1 == IF HasSwitch(in, "enable-begin-frame-scheduling") THEN TRUE
            ELSE s.useExternalBeginFrameSource
      f1 == IF HasSwitch(in, "enable-rgba-4444-textures")
               /\ ~HasSwitch(in, "disable-rgba-4444-textures")
            THEN "RGBA_4444" ELSE s.format
      f2 == IF HasSwitch(in, "enable-tile-compression") THEN "ETC1" ELSE f1
  IN  [s EXCEPT !.lowResTiling = l2, !.format = f2,
                !.useExternalBeginFrameSource = IF in.c.oopif THEN FALSE ELSE e1]

\* The switches applied after the platform block, in the code's order, and
\* the OOPIF exception to begin frame scheduling.
SwitchOverrides(in, s) ==
  LET l1 == IF HasSwitch(in, "enable-low-res-tiling") THEN TRUE ELSE s.lowResTiling
      l2 == IF HasSwitch(in, "disable-low-res-tiling") THEN FALSE ELSE l1
      e1 == IF HasSwitch(in, "enable-begin-frame-scheduling") THEN TRUE
            ELSE s.useExternalBeginFrameSource
      f1 == IF HasSwitch(in, "enable-rgba-4444-textures")
               /\ ~HasSwitch(in, "disable-rgba-4444-textures")
            THEN "RGBA_4444" ELSE s.format
      f2 == IF HasSwitch(in, "enable-tile-compression") THEN "ETC1" ELSE f1
  IN  [s EXCEPT !.lowResTiling = l2, !.format = f2,
                !.useExternalBeginFrameSource = IF in.c.oopif THEN FALSE ELSE e1]

\* A variant that multiplies the budget on low-end devices.
StagingBufferMBMultiplied(in) == IF in.c.lowEnd THEN 32 * 4 ELSE 32

\* 32 MB of staging buffers, a quarter of it on low-end devices.
StagingBufferMB(in) == IF in.c.lowEnd THEN 32 \div 4 ELSE 32

\* GetGpuMemoryPolicy's argument: what the process presents to it.
GpuIn(in) ==
  [width |-> in.p.width, android |-> in.p.platform = "android",
   switch |-> in.c.gpuMem, dalvik |-> in.p.dalvik,
   physical |-> in.p.physicalMb, lowEnd |-> in.c.lowEnd]

\* settings.memory_policy_ = GetGpuMemoryPolicy(current).
MemoryPolicy(in) == GetGpuMemoryPolicy(GpuIn(in))

\* The settings Initialize passes to LayerTreeHost.
LayerTreeSettings(in) ==
  LET s1 == CommonSettings(in)
      s2 == IF in.p.platform = "android" THEN AndroidSettings(in, s1)
            ELSE DesktopScrollbars(in, s1)
      s3 == SwitchOverrides(in, s2)
  IN  [s3 EXCEPT !.stagingMB = StagingBufferMB(in),
                 !.memoryMiB = MemoryPolicy(in)]

VARIABLES
  input,    \* the platform, device, widget and command line
  created,  \* Initialize has created the LayerTreeHost
  settings, \* the cc::LayerTreeSettings passed to it
  host,     \* the host: threaded, and given an external begin frame source
  debugState, \* layer_tree_host_->debug_state()
  debugWrites \* history: flag -> the value a setter last wrote, or "none"

vars == <<input, created, settings, host, debugState, debugWrites>>

\* The cc::LayerTreeDebugState the host starts with: settings'
\* initial_debug_state.
InitialDebugState(s) ==
  [flags |-> s.debugRects, recordRenderingStats |-> s.recordRenderingStats,
   slowDown |-> s.slowDown]

Init ==
  /\ input \in Scenarios
  /\ created = FALSE
  /\ settings = CCDefaultSettings
  /\ host = [threaded |-> FALSE, externalSource |-> FALSE]
  /\ debugState = InitialDebugState(CCDefaultSettings)
  /\ debugWrites = [f \in DebugFlags |-> "none"]

\* Initialize, from the settings to LayerTreeHost::Create*: an external
\* begin frame source is created only when the settings use one, and the
\* host is threaded when there is a compositor thread.
CreateLayerTreeHost ==
  /\ ~created
  /\ created' = TRUE
  /\ settings' = LayerTreeSettings(input)
  /\ host' = [threaded |-> input.c.threaded,
              externalSource |-> settings'.useExternalBeginFrameSource]
  /\ debugState' = InitialDebugState(settings')
  /\ UNCHANGED <<input, debugWrites>>

\* The history a setter leaves: the flags it wrote and their value.
Written(flags, show) ==
  [f \in DebugFlags |-> IF f \in flags THEN IF show THEN "on" ELSE "off"
                                       ELSE debugWrites[f]]

\* A variant of the setters that writes a default-constructed
\* LayerTreeDebugState instead of the host's current one.
SetDebugFlagsFresh(flags, show) ==
  /\ created /\ input \in RuntimeScenarios
  /\ debugState' = [InitialDebugState(CCDefaultSettings) EXCEPT
                      !.flags = IF show THEN flags ELSE {}]
  /\ debugWrites' = Written(flags, show)
  /\ UNCHANGED <<input, created, settings, host>>

\* setShowFPSCounter, setShowPaintRects, setShowDebugBorders,
\* setShowScrollBottleneckRects: copy the host's debug state, set or clear
\* the setter's flags, and give it back to the host.
SetDebugFlags(flags, show) ==
  /\ created /\ input \in RuntimeScenarios
  /\ debugState' = [debugState EXCEPT
                      !.flags = IF show THEN @ \cup flags ELSE @ \ flags]
  /\ debugWrites' = Written(flags, show)
  /\ UNCHANGED <<input, created, settings, host>>

\* SetRasterizeOnlyVisibleContent: the same, always setting its flag.
SetRasterizeOnlyVisibleContent ==
  SetDebugFlags({"rasterize-only-visible-content"}, TRUE)

Next ==
  \/ CreateLayerTreeHost
  \/ \E flags \in DebugSetterFlags, show \in BOOLEAN : SetDebugFlags(flags, show)
  \/ SetRasterizeOnlyVisibleContent

Spec == Init /\ [][Next]_vars

-----------------------------------------------------------------------------
Settings == [tileWidth : Int, tileHeight : Int,
             untiledWidth : Int, untiledHeight : Int,
             showThreshold : Int, hideThreshold : Int, slowDown : Int,
             disableDisplayVsync : BOOLEAN, waitForBeginFrameInterval : BOOLEAN,
             mainFrameBeforeActivation : BOOLEAN, prepaintPercent : {50, 67, 100},
             format : {"default", "RGBA_4444", "ETC1"}, lowResTiling : BOOLEAN,
             useExternalBeginFrameSource : BOOLEAN, stagingMB : {0, 8, 32},
             memoryMiB : Nat, layerTransformsShouldScale : BOOLEAN,
             gpuRasterizationEnabled : BOOLEAN, gpuRasterizationForced : BOOLEAN,
             strictPropertyChecking : BOOLEAN, verifyPropertyTrees : BOOLEAN,
             usePropertyTrees : BOOLEAN, allowAntialiasing : BOOLEAN,
             singleThreadProxyScheduler : BOOLEAN,
             debugRects : SUBSET DebugRectSwitches,
             recordRenderingStats : BOOLEAN,
             scrollbarAnimator : {"none", "linear_fade", "thinning"},
             synchronousRendererCompositor : BOOLEAN,
             ignoreRootLayerFlings : BOOLEAN, clearRootRenderPass : BOOLEAN]

TypeOK ==
  /\ input \in Scenarios
  /\ created \in BOOLEAN
  /\ settings \in Settings
  /\ input.p.width - 20 < 31 => settings.memoryMiB < 2 ^ (input.p.width - 20)
  /\ host \in [threaded : BOOLEAN, externalSource : BOOLEAN]
  /\ debugState \in [flags : SUBSET DebugFlags,
                     recordRenderingStats : BOOLEAN, slowDown : Int]
  /\ debugWrites \in [DebugFlags -> {"none", "on", "off"}]

\* Every size, threshold and factor Initialize reads from the command line
\* with a lower bound ends up within it whatever the switch says: a value
\* GetSwitchValueAsInt or StringToDouble rejects leaves cc's default in
\* place (max untiled layer size, top controls thresholds, slow-down
\* raster scale factor).
NumericSettingsInRange ==
  created =>
    /\ settings.untiledWidth >= 1 /\ settings.untiledHeight >= 1
    /\ settings.showThreshold \in 0 .. 100
    /\ settings.hideThreshold \in 0 .. 100
    /\ settings.slowDown >= 0

\* The default tile size is a positive size whatever --default-tile-width
\* and --default-tile-height say.
TileSizePositive ==
  created => settings.tileWidth >= 1 /\ settings.tileHeight >= 1

\* Display a is at least as large as display b, and both are measured the
\* same way (physical size, or the logical size when it is not known).
DisplayDominates(a, b) ==
  IF RealSizeSupported(a) /\ RealSizeSupported(b)
  THEN Portrait(a.physical) >= Portrait(b.physical)
       /\ Landscape(a.physical) >= Landscape(b.physical)
  ELSE ~RealSizeSupported(a) /\ ~RealSizeSupported(b)
       /\ a.logical[1] * a.logical[2] >= b.logical[1] * b.logical[2]

\* The Android displays the scenarios cover.
ScenarioDisplays ==
  {<<s.p.physical, s.p.logical>> : s \in {x \in Scenarios : x.p.platform = "android"}}

\* A larger Android display never gets smaller default tiles: across the
\* HD/FHD thresholds and the 32-pixel adjustments of
\* CalculateDefaultTileSize, the tile width the settings hold when no
\* switch overrides it is monotone in the display size.
TileSizeMonotoneInDisplay ==
  created /\ input.p.platform = "android" /\ ~input.c.tileWidth.given =>
    \A d \in ScenarioDisplays :
      LET other == [input.p EXCEPT !.physical = d[1], !.logical = d[2]]
      IN  DisplayDominates(other, input.p) =>
            CalculateDefaultTileSize(other) >= settings.tileWidth

\* Each disabling switch wins over its enabling switch and over the
\* platform default, whatever the order of the blocks that set them: no
\* low-res tiling under --disable-low-res-tiling, no RGBA_4444 under
\* --disable-rgba-4444-textures, no main frame before activation under
\* its disable switch, and no external begin frame source for an OOPIF
\* widget even under --enable-begin-frame-scheduling; and no GPU
\* rasterization enabled on a low-end Android device, whatever
\* CompositorDependencies reported ("the Ganesh cache would consume too
\* much memory").
DisablingSwitchesWin ==
  created =>
    /\ input.p.platform = "android" /\ input.c.lowEnd
         => ~settings.gpuRasterizationEnabled
    /\ HasSwitch(input, "disable-low-res-tiling") => ~settings.lowResTiling
    /\ HasSwitch(input, "disable-rgba-4444-textures") => settings.format # "RGBA_4444"
    /\ HasSwitch(input, "disable-main-frame-before-activation")
         => ~settings.mainFrameBeforeActivation
    /\ input.c.oopif => ~host.externalSource

\* RGBA_4444 tiles are used only where the code says the format is
\* supported and wanted: a low-end Android device outside WebView ("disabled
\* for Android WebView as it doesn't support the format"), or at the
\* request of --enable-rgba-4444-textures.
Rgba4444OnlyWhereSupported ==
  created /\ settings.format = "RGBA_4444" =>
    \/ HasSwitch(input, "enable-rgba-4444-textures")
    \/ input.p.platform = "android" /\ input.c.lowEnd /\ ~input.p.sync

\* The reported memory sizes the scenarios cover.
ScenarioPhysicalMbs == {s.p.physicalMb : s \in Scenarios}

\* More reported memory never lowers the limit: for a fixed Dalvik heap and
\* device class, the Android limit is monotone in the reported physical
\* memory across the tier boundaries of GetGpuMemoryPolicy.
LimitMonotoneInPhysicalMemory ==
  created /\ input.p.platform = "android" /\ ~input.c.gpuMem.given =>
    \A m \in ScenarioPhysicalMbs :
      LET other == [input EXCEPT !.p.physicalMb = m]
      IN  m >= input.p.physicalMb => MemoryPolicy(other) >= settings.memoryMiB

\* "If the value was overridden on the command line, use the specified
\* value": --force-gpu-mem-available-mb gives exactly that many MiB.
SwitchValueUsed ==
  created /\ input.c.gpuMem.given => settings.memoryMiB = input.c.gpuMem.value

(* The host's debug state is what the command line asked for, changed only *)
(* where Blink's setters changed it: each flag has the value a setter last *)
(* wrote, or else its initial value from the --show-* switches, and the    *)
(* rendering-stats and slow-down settings of --enable-gpu-benchmarking and *)
(* --slow-down-raster-scale-factor survive every setter. The setters copy  *)
(* the host's state, so none may lose what Initialize or another setter   *)
(* put there.                                                              *)
DebugStateKeepsEarlierWrites ==
  created =>
    /\ \A f \in DebugFlags :
         f \in debugState.flags <=>
           IF debugWrites[f] = "none" THEN f \in settings.debugRects
           ELSE debugWrites[f] = "on"
    /\ debugState.recordRenderingStats = settings.recordRenderingStats
    /\ debugState.slowDown = settings.slowDown
=============================================================================
