# TLA+ models of chromium-content

This directory holds TLA+ specifications of the parts of this source tree
whose behaviour is concurrent, asynchronous or protocol-like. Each one is
checked with TLC. Every module is written from the code under `src/`. For the
scheduler, whose `.cc` files are not in the tree, the module is written from the
design document (`spec.md`) and the header. `PROJECT.json` maps each
definition to the source lines it models.

## 1. Inventory

| Part | Source | State | Operations | Hard behaviour |
|---|---|---|---|---|
| Renderer scheduler | `components/scheduler/base/task_queue_impl.h` (+ design) | per queue: AnyThread (immediate/delayed incoming queues, pump policy) under a lock; MainThreadOnly (immediate/delayed work queues, set_index); WorkQueueSets; the EnqueueOrder generator; the DoWork signal and delayed wake-ups | PostDelayedTask / PostNonNestableDelayedTask from any thread; DoWork (promote, select, run); SetQueuePriority; enable/disable; PumpQueue; SetPumpPolicy; UnregisterTaskQueue; SetTimeDomain | posts racing promotion and lost wake-ups; enqueue order assigned once; an incrementally maintained index; nested run loops and non-nestable tasks; delayed wake-ups |
| Input event router | `browser/renderer_host/render_widget_host_input_event_router.cc` | owner_map_ (surface namespace → view), active_touches_, current_touch_target_ | AddSurfaceIdNamespaceOwner, RemoveSurfaceIdNamespaceOwner, RouteTouchEvent (start / move / end / cancel) | a view removed during an active touch sequence |
| Render widget compositor | `renderer/gpu/render_widget_compositor.cc` | num_failed_recreate_attempts_, layout/readback callbacks, threaded or single-threaded commit | Initialize (settings, memory policy, host creation), RequestNewOutputSurface, DidInitialize/DidFailToInitializeOutputSurface, layoutAndPaintAsync, compositeAndReadbackAsync, WillCommit, DidCommit, registerSelection, clearSelection | retries with software fallback and a fatal cap; callbacks delivered on commit; switches overriding each other and device-dependent arithmetic |
| Cache storage context | `browser/cache_storage/cache_storage_context_impl.cc` | cache_manager_, is_incognito_, tasks posted to the IO thread | Init, Shutdown, CreateCacheStorageManager, ShutdownOnIO, GetAllOriginsInfo, DeleteForOrigin | UI→IO thread hops; Shutdown racing Init |
| WebContents observer sanity checker | `test/web_contents_observer_sanity_checker.cc` | live_routes_, deleted_routes_, current_hosts_, ongoing_navigations_, active_media_players_, web_contents_destroyed_ | every WebContentsObserver callback, each guarded by CHECKs | the order of frame-lifecycle and navigation callbacks |
| Headers and tests | `render_widget.h`, `canvas_capture_handler.h`, `save_types.h`, `test_navigation_observer.h`, `peripheral_content_heuristic_unittest.cc`, `webrtc_content_browsertest_base.cc` | — | — | declarations, plain data or test harness; not modelled |

## 2. Plan

1. `TaskQueueManager` (done). The scheduler core: posting, promotion,
   selection, dispatch, nested loops, the control operations and time
   domains. It has three runs: ordering and liveness; controls, retargeting,
   index consistency and refinement; and the nested-loop idle finding.
2. `InputEventRouter` (done). Touch-sequence targeting, with views added and removed
   during a touch sequence.
3. `RenderWidgetCompositor` (done). Output-surface recreation with software
   fallback and the fatal retry cap, and the layout and readback callbacks
   delivered through commit or posted synchronous tasks. `CompositorSettings`
   (done) models the settings `Initialize` builds, composed with
   `GpuMemoryPolicy`, the memory-limit arithmetic it calls.
4. `CacheStorageContext` (done). The UI-thread lifecycle composed with the tasks it
   posts to the IO thread.
5. `ObserverSanityChecker` (done). The callback protocol a WebContents must follow,
   as a state machine whose CHECKs are invariants.
6. An abstract scheduler (done): `TaskQueueAbstract` states what the queues
   promise their posters, and `TaskQueueManager` is checked to refine it by
   INSTANCE ... WITH.
7. Time domains and `SetTimeDomain` (done). Re-basing run times on a
   retarget, the open question of design note §9, is not decided by the
   model; see §3.

## 3. The scheduler model (`TaskQueueManager.tla`)

**State.** Each queue keeps the two regions of `task_queue_impl.h`:

- **AnyThread** (`incoming`, `pump`): written by posting threads under the
  lock.
- **MainThreadOnly** (`work`, `priority`, `enabled`, whose set index is
  `SetIndex`): touched only by the main thread.

`sets` is the WorkQueueSets index: one entry per non-empty work queue, keyed
by the enqueue order of its front task. `eo` and `nextSeq` are
`Task::enqueue_order_` and the manager's sequence generator. An immediate
task's enqueue order is its sequence number, assigned when it is posted (the
`Task` constructor that takes `enqueue_order`). A delayed task gets its
enqueue order when it is promoted (`set_enqueue_order`, lines 58-73).
`doWorkPosted` and `wakeups` are the pending immediate DoWork and the delayed
DoWorks; a wake-up is a pair of a time domain and a time. `domain` is each
queue's time domain and `now` each domain's clock. `stack` and `loopDepth` are the tasks running and the run loops
active on the main thread.

**Actions.**

- `PostTask` is PostDelayedTask or PostNonNestableDelayedTask, run under the
  queue lock. It wakes the main thread only if the queue is AUTO and its
  immediate incoming queue was empty (lines 217-220).
- DoWork is split into two actions:
  - `RunTask`: UpdateWorkQueues, select the most urgent tier's oldest
    candidate, pop it and run it.
  - `DidRunTask`: UpdateWorkQueues with the finished task as the previous
    task, which wakes AFTER_WAKEUP queues. A continuation DoWork is then
    posted if work is left.

  Control operations and nested run loops happen between those two steps, in
  the running task.
- The control operations are:
  - `SetQueuePriority`
  - `SetQueueEnabled`
  - `PumpQueue`
  - `SetPumpPolicy`, which pumps the backlog when the policy is switched to
    AUTO
  - `UnregisterTaskQueue`
  - `SetTimeDomain`, which moves the queue's delayed wake-ups to the new
    domain and keeps the tasks' run times (design §4.3-4.4)

  They are allowed only while a task runs on the main thread
  (`main_thread_only()` DCHECKs the thread).

- `AdvanceTime(d)` moves one domain's clock by a tick.

**Abstract specification.** `TaskQueueAbstract.tla` states the queues'
contract without work queues, enqueue orders or DoWork: a task is posted to a
registered queue; each posted task is dispatched at most once, or dropped
when its queue is unregistered; a queue's immediate tasks are dispatched in
post order. `TaskQueueManager` defines `Abstract` as an INSTANCE of it with
`open`, `owner`, `immediate`, `pending` and `dispatched` mapped from the
detailed state, and `RefinesAbstractScheduler` (`Abstract!Spec`) is checked
as a property.

**Bounds.** Each is a named constant: `MaxTasks` posts, `MaxTime` ticks of
the virtual clock, `MaxNestedLoops`, and `MaxControls`.

**Fairness.** The message loop eventually runs a pending or due DoWork, and a
running task eventually returns; an idle nested loop is eventually quit, and
the clock advances. Producers and control operations are not obliged to act.

TLC evaluates `ENABLED` of RunTask and DidRunTask very slowly, so their weak
fairness is written out as `MainThreadFairness`, using the guards they are
enabled under: `DoWorkRunnable` and `Running`. Each always has a successor
that changes the state. `MainThreadFairness` is the hypothesis of
`DueTasksEventuallyRun`.

### Runs

| Run | Bounds | Checks |
|---|---|---|
| `tq_ordering` (`MC_TaskQueueOrdering.cfg`) | 2 queues, 3 tasks, delays {0,1,2}, clock 0..2, no controls, no nesting | immediate tasks of a queue run in post order; delayed tasks in (run time, sequence) order; every due task of an enabled AUTO queue eventually runs |
| `tq_controls` (`MC_TaskQueueControls.cfg`) | 2 queues created at any of 2 priorities, a real and a virtual time domain, 2 tasks, delays {0,1}, clocks 0..1, 1 control operation, 1 nested loop | type invariant; the WorkQueueSets index equals its definition from the work queues; each dispatch is the most urgent, oldest runnable front; the top-level loop never sleeps with ready work; every due task eventually runs, also after its queue changed domains; the scheduler refines `TaskQueueAbstract` |
| `tq_nested_idle` (`MC_TaskQueueNested.cfg`, violation) | 2 queues, 2 immediate tasks, 1 nested loop | a nested loop never sleeps while nestable work is ready |

Three tasks are enough for the ordering questions: two share a queue and
a third interleaves from the other queue. Two delays, plus immediate posts,
give ties and inversions of run time against post order.

The control run allows one operation from a running task, any of them,
including a retarget to the other domain or an unregistration with work
pending. The nested loop lets the non-nestable rule take effect.

No run states that a task never runs before its delay has passed. Without
retargeting that is the promotion guard itself; with retargeting it does not
hold in the form "run time at most the queue's current clock": a delayed
task already promoted on the real clock still runs after its queue moved to
a virtual clock that is behind. The design keeps run times across
`SetTimeDomain` and lists re-basing them as an open question (§9).

### Finding

`tq_nested_idle` fails in five steps:

1. A non-nestable task and a nestable task are posted together.
2. The single DoWork promotes both and runs the first.
3. That task enters a nested run loop.
4. No DoWork is pending, so the nested loop sleeps with the nestable task
   ready.

The design says non-nestable tasks are deferred in nested loops. It does not
say when the continuation DoWork is posted. Read literally ("repeat until no
tier has ready work" after dispatch), it leaves nested loops idle. Posting the
continuation before running the task closes the gap.

## 4. The input event router (`InputEventRouter.tla`)

**State.** `ownerMap` is `owner_map_`, `activeTouches` and `currentTarget`
are `active_touches_` and `current_touch_target_`. `alive` is the set of
views not yet destroyed. `pending`, `events` and `lastDelivery` are history:
the touches each view has seen start and not end, and the last
`ProcessXxxEvent` call.

**Actions.** `RouteMouseEvent` (mouse and wheel), `TouchStart`, `TouchMove`
and `TouchEnd` (end and cancel) follow `RouteMouseEvent`,
`RouteMouseWheelEvent` and the cases of `RouteTouchEvent`.
`FindEventTarget` returns the set of views the hit test may pick: the root
when at most one namespace is registered, otherwise the owner of any
namespace, or the root when the namespace has no owner.
`AddSurfaceIdNamespaceOwner` and `RemoveSurfaceIdNamespaceOwner` edit the map.
`DestroyView` is the environment: a child view goes away once it owns no
namespace.

| Run | Bounds | Checks |
|---|---|---|
| `router_touch` (`MC_InputEventRouter.cfg`) | root and 2 children, 3 namespaces, 2 fingers, 5 events | a touch target is held exactly while touches are active; every view's starts and ends balance |
| `router_stale_target` (`MC_InputEventRouterStale.cfg`, violation) | 3 events | every routed event reaches a live view |

**Finding.** A touch sequence starts on a child view, and the child then
removes its namespace and is destroyed. `current_touch_target_` still points
at it, and the next TouchMove or TouchEnd is sent to a destroyed view.
`RemoveSurfaceIdNamespaceOwner` does not clear the target (line 118).

## 5. The compositor (`RenderWidgetCompositor.tla`)

**State.** `failedAttempts` is `num_failed_recreate_attempts_`. `layoutCb` is
`layout_and_paint_async_callback_`. `copyReq` is
`temporary_copy_output_request_`: held by the compositor, or installed on the
root layer. `main` holds the tasks posted to the main thread:
- retries of `RequestNewOutputSurface`;
- `LayoutAndUpdateLayers` and `SynchronouslyComposite`.

The `cc::LayerTreeHost` is not in this tree. Its state is an environment:
`surface` (none, binding or active), `lthWantsSurface`, `needsCommit`,
`deferred` and `rootLayer`, and `visible` and `neverVisible` for
`setVisible` and `SetNeverVisible`, and `selection`, the `cc::LayerSelection`
registered with the host. The host asks for a surface, and
commits, only while visible. `pendingLayout`, `pendingReadback` and `streak`
are history: what Blink is waiting for, and the failures since the last
surface that initialized. `webSelection` is history too: the selection Blink
last reported (a none selection after `clearSelection`).

**Actions.**
- `RequestNewOutputSurface` does nothing once the host is closing. Otherwise
  it asks for a surface, with fallback once `RetriesBeforeFallback` attempts
  have failed. A null surface runs `DidFailToInitializeOutputSurface`, which
  counts the failure, sets `fatal` at `MaxRetries` and posts a retry
  otherwise.
- `SurfaceBindResult` is the host reporting `DidInitializeOutputSurface`
  (which resets the count) or the failure.
- `layoutAndPaintAsync` and `compositeAndReadbackAsync` keep the callback.
  They post the synchronous task when `CompositeIsSynchronous()`, and call
  `SetNeedsCommit` otherwise.
- `Commit` and the posted tasks run `UpdateLayerTreeHost` and `WillCommit`.
- `Draw` delivers an installed copy request's bitmap.
- `clearRootLayer` destroys an installed request, which sends its empty
  result. `setRootLayer`, `SetNeedsCommit`, `setVisible`, `SetNeverVisible`
  and `setDeferCommits` are Blink's other calls that change what the host
  may do.
- `registerSelection` registers `ConvertWebSelection` of Blink's selection;
  `clearSelection` registers a default-constructed selection. The
  conversion is in `CompositorSelection.tla` (lines 99-133), as pure
  operators over records: a bound's layer, text direction and two edge
  points (abstracted to a two-point set, since they are copied unchanged).
  `MC_RenderWidgetCompositor.tla` gives Blink five selections: none, a
  caret, a range in each direction, and a range whose bounds differ in
  direction and layer.

**Fairness.** The main thread runs posted tasks. The host asks for the
surface it needs, hears back from the GPU process, commits when it needs to
and may, and draws. Blink, surface loss and host closing are not obliged to
happen. Visibility and deferral are Blink's to choose, so the two liveness
properties assume that the widget eventually stays visible with commits
undeferred (`CommitsAllowed`). Without that, a hidden threaded widget
rightly never answers.

| Run | Bounds | Checks |
|---|---|---|
| `compositor_surface_and_callbacks` (`MC_RenderWidgetCompositor.cfg`) | both modes; fallback after 4 failures and fatal at 5 (the constants are defined outside the tree; these values put one software attempt before the cap); 2 losses; 3 async requests; 5 selections | exactly one surface request in flight until a surface is active; fatal only after 5 consecutive failures ending in a failed software attempt; callbacks held exactly while Blink waits; once the host is closing no new surface is handed to it, whether the request is a retry posted before the close or the host's own after a loss; range handles face outward by each bound's direction, carets are centred, and layers and edges are kept; every layout request and every threaded readback request eventually answered |

The constants are small, so the whole retry ladder, with a loss in the
middle, is explored. Two losses let a failure count survive one surface
loss and be reset by the next working surface.

A surface handed over just before the host starts closing may still fail
to initialize after it, and at the fatal cap that failure kills a closing
renderer (line 933). The model reaches this path; no property forbids it,
because nothing in the tree says a closing renderer may not die there.

### Initialize's settings (`CompositorSettings.tla`, `GpuMemoryPolicy.tla`)

`Initialize` (lines 225-509) builds a `cc::LayerTreeSettings` from the
platform, the device, the widget and the command line, then creates the
LayerTreeHost. The module models it as operators and one action,
`CreateLayerTreeHost`, applied once to an input drawn from the constant
`Scenarios`.

- **Inputs.** The platform (Android, ChromeOS, Mac, other), and whether
  overlay scrollbars are on; on Android the
  physical and logical display sizes, WebView's synchronous compositor and
  the two memory queries; GPU rasterization as `CompositorDependencies`
  reports it (enabled, forced); the size_t width; low-end, OOPIF and threaded;
  the boolean switches; and each numeric switch as what
  `StringToInt`/`StringToDouble` make of it (absent, unparsable, or a
  number).
- **Operators**, one per block of the code: `GetSwitchValueAsInt`,
  `CalculateDefaultTileSize` (with `RealDisplayTileSize` and
  `EstimatedTileSize`), `TileSizeFromSwitch`, `MaxUntiledLayerSize`,
  `TopControlsThreshold`, `SlowDownRasterScaleFactor`, `VsyncSettings`,
  `DependencySettings` (GPU rasterization), `DiagnosticSettings` (property
  trees, antialiasing, the single-thread scheduler, the initial debug state
  and strict property checking), `AndroidSettings` (with `LowMemoryPolicy`;
  low-end devices lose GPU rasterization; WebView gets no scrollbar
  animator, handles root flings and does not clear the root render pass),
  `DesktopScrollbars` (thinning with overlay scrollbars, linear fade
  otherwise, Mac untouched), `SwitchOverrides` (in the code's order, with the OOPIF
  exception), `StagingBufferMB`, and `MemoryPolicy`.
- **Run-time debug setters.** After `Initialize`, `debugState` is the host's
  debug state. `SetDebugFlags` stands for `setShowFPSCounter`,
  `setShowPaintRects`, `setShowDebugBorders` and `setShowScrollBottleneckRects`
  (lines 814-838), and `SetRasterizeOnlyVisibleContent` for its setter
  (lines 530-534). Each reads the current debug state, changes its own flags
  and writes it back. `debugWrites` is a history of the last value each flag
  was set to. The setters are explored only after the inputs in the
  `RuntimeScenarios` bound (`RuntimeFamily`: one Android display with the
  debug-border and benchmarking switch sets), which keeps the run short.
- **Memory policy.** `GetGpuMemoryPolicy` (lines 1043-1121) is in
  `GpuMemoryPolicy.tla`. Byte counts are kept in MiB. A product
  `mb * 1024 * 1024` in size_t wraps modulo 2^(width-20) MiB (`WrapMiB`).
- **Left out.** Settings other than GPU rasterization copied unchanged
  from `CompositorDependencies`, and the scrollbar colours and fade
  timings, which are constants of each platform block: no property
  distinguishes them.
- **Scenarios.** `MC_CompositorSettings.tla` builds them in six families.
  Each family varies what one group of properties is about: displays, numeric
  switches, boolean switches, memory queries, or the diagnostic switches with
  every GPU rasterization report. `RuntimeFamily` is the sixth, after which
the debug setters run. Each family covers every
  platform and device class. The code handles each group in separate
  statements that write separate settings, so the families do not need to
  be crossed.

| Run | Bounds | Checks |
|---|---|---|
| `cs_initialize` (`MC_CompositorSettings.cfg`) | 11 physical and 3 logical displays around the HD/FHD thresholds and the 32-pixel widths; each numeric switch absent, unparsable, out of range or valid; all 256 sets of the boolean switches and 4 vsync values; 32/64-bit, Dalvik 0/16/256/512, physical memory in every tier up to 16 GiB, memory switch 256/4096; all 64 sets of six diagnostic switches with the 4 GPU rasterization reports | type invariant; default tile width monotone in display size; rejected numeric values leave settings in range; disabling switches and OOPIF win, and a low-end Android device never gets GPU rasterization; RGBA_4444 only on low-end non-WebView Android or on request; Android memory limit monotone in physical memory; after any sequence of debug setters each flag is what its last setter wrote, or its initial value if none wrote it, and the other debug settings are those of Initialize |
| `cs_tile_size_zero` (`MC_CompositorSettingsTileZero.cfg`, violation) | tile switches absent, unparsable, 0 or 300 | the default tile size is positive |
| `cs_gpu_switch_overflow` (`MC_CompositorSettingsGpuSwitch.cfg`, violation) | 32/64-bit, memory switch 256 and 4096 | the memory switch value is the limit |

**Findings.**
- An unparsable, 0 or negative `--default-tile-width` (or height) gives a
  default tile size of 0. `tile_width` starts at 0 and
  `GetSwitchValueAsInt` leaves it there (line 259). The max-untiled-layer
  switches of the same function start from cc's default and keep it.
- On a 32-bit build, `--force-gpu-mem-available-mb=4096` yields a limit of
  0 bytes. The product `4096 * 1024 * 1024` wraps to 0 (line 1057).
- The tier share is converted to bytes before the clamp (line 1102). On a
  32-bit build this wraps for a memory estimate of 32 GB or more. A 32-bit
  Android device does not report that much memory, so the runs stay at
  16 GiB, where the limit is monotone.

## 6. The cache storage context (`CacheStorageContext.tla`)

**State.** `manager` is `cache_manager_ != nullptr`. `io` is the IO thread's
FIFO queue of posted tasks. `ui` is the UI-side lifecycle. `handed` and
`answered` record what became of each `GetAllOriginsInfo`. `deletes` is a
history of each `DeleteForOrigin`: whether a manager had been created
before, whether `Shutdown` had been called, and whether the call reached a
live manager.

**Actions.**
- `InitContext(onIO)` creates the manager at once when the threads are
  collapsed, and posts `CreateCacheStorageManager` otherwise.
- `Shutdown` posts `ShutdownOnIO`. `RunIOTask` runs the oldest IO task.
- `ClientCall` is an IO-thread client: `GetAllOriginsInfo`,
  `DeleteForOrigin` (which is dropped without an answer when there is no
  manager), or `SetBlobParametersForCache`.

**Fairness.** The IO thread runs its posted tasks (`WF_vars(RunIOTask)`).

| Run | Bounds | Checks |
|---|---|---|
| `cache_context_lifecycle` (`CacheStorageContext.cfg`) | Init on either thread, 3 client calls | the manager is created at most once; none is left after `ShutdownOnIO`; every usage request is answered; a delete made after the manager exists and before `Shutdown` reaches it |

## 7. The observer sanity checker (`ObserverSanityChecker.tla`)

**State.** The checker's sets: `live` and `deleted` routes, `current` hosts,
`ongoing` navigations, active media `players`, and `destroyed`. `failed` is a
CHECK that fired. The history (`lastLifecycle`, `starts`, `finishes`,
`lastCall`) records what the properties speak about.

**Actions.** There is one action per `WebContentsObserver` callback, with the
checker's CHECKs as guards of a `Fail` outcome. The WebContents sending the
callbacks is arbitrary: any callback may arrive at any time.

| Run | Bounds | Checks |
|---|---|---|
| `sanity_checker_protocol` (`MC_ObserverSanityChecker.cfg`) | 2 routes, 2 navigation handles, 6 callbacks | a frame exists iff its last lifecycle callback created it; navigation start and finish alternate per handle |
| `sanity_checker_after_destroy` (`MC_ObserverSanityCheckerDestroyed.cfg`, violation) | 3 callbacks | no callback is accepted after `WebContentsDestroyed` |

**Finding.** `RenderFrameHostChanged` and the four navigation callbacks do not
check `web_contents_destroyed_`, so a callback after destruction passes the
checker (`RenderFrameHostChanged` at line 98, the navigation callbacks at
lines 134-182). The trace TLC reports goes through `RenderFrameHostChanged`.

## 8. Not modelled

- Task observers, tracing and diagnostics snapshots: they do not influence
  scheduling.
- Re-basing delayed run times when a queue changes time domain: the design
  leaves it open (§9), so no property states it.
- The header-only and test-only files listed in the inventory:
  `render_widget.h` and `canvas_capture_handler.h` declare classes whose
  bodies are not in the tree; `save_types.h` holds plain data and enums;
  `peripheral_content_heuristic_unittest.cc` tests a function whose
  implementation is not in the tree; the browser-test base formats
  JavaScript and reads files.
- Compositor: the setters that only forward to the host (viewport layers,
  animations, page scale, top controls), swap notifications, and the compositor proto channel, whose sender
  and the code that installs its receiver are outside the tree. A `didLayoutAndPaint` that
  re-enters `layoutAndPaintAsync` is not modelled, because Blink is not in
  the tree (see the hazard at line 779). Destroying the compositor, which
  drops the tasks bound to its weak pointer, is not modelled either.
- `CacheStorageManager` and the blob machinery: they are outside the tree.
