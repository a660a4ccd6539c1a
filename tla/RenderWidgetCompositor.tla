---------------------- MODULE RenderWidgetCompositor ----------------------
(***************************************************************************)
(* RenderWidgetCompositor: the renderer's LayerTreeHostClient.  Two of its *)
(* duties have state of their own:                                          *)
(*                                                                          *)
(*  - output surface (re)creation: RequestNewOutputSurface asks the widget  *)
(*    for a surface, falling back to software after                         *)
(*    RetriesBeforeFallback failures and dying (LOG(FATAL)) at MaxRetries;  *)
(*    a failure posts a retry to the main thread;                           *)
(*  - Blink's asynchronous layoutAndPaintAsync and                          *)
(*    compositeAndReadbackAsync: the callback is kept until a commit (or,   *)
(*    when compositing is synchronous, a posted LayoutAndUpdateLayers or    *)
(*    SynchronouslyComposite task) delivers it.                             *)
(*                                                                          *)
(* The cc::LayerTreeHost is the environment: it asks for a surface when it  *)
(* has none, reports whether a surface it was given initialized, loses an   *)
(* active surface, commits when a commit is needed and not deferred, and    *)
(* draws.  A commit or a synchronous frame needs an active surface.  The    *)
(* main thread runs posted tasks in order; a LOG(FATAL) ends the process.   *)
(***************************************************************************)
EXTENDS Naturals, Sequences, SequencesExt, CompositorSelection

CONSTANTS
  Modes,                 \* CompositeIsSynchronous() values to cover
  RetriesBeforeFallback, \* OUTPUT_SURFACE_RETRIES_BEFORE_FALLBACK
  MaxRetries,            \* MAX_OUTPUT_SURFACE_RETRIES
  MaxLosses,             \* bound: active surfaces lost
  MaxRequests,           \* bound: Blink's async layout/readback requests
  WebSelectionInputs     \* selections Blink may pass to registerSelection

ASSUME Modes \subseteq BOOLEAN /\ Modes # {}
ASSUME WebSelectionInputs \subseteq WebSelections
ASSUME RetriesBeforeFallback \in Nat /\ MaxRetries \in Nat \ {0}

PostedTasks == {"RequestNewOutputSurface", "LayoutAndUpdateLayers",
                "SynchronouslyComposite"}

VARIABLES
  sync,            \* CompositeIsSynchronous()
  hostClosing,     \* widget_->host_closing()
  failedAttempts,  \* num_failed_recreate_attempts_
  lastFallback,    \* the fallback argument of the last CreateOutputSurface
  surface,         \* the host's output surface: none, binding or active
  lthWantsSurface, \* the host will call RequestNewOutputSurface
  losses,          \* active surfaces lost so far
  main,            \* tasks posted to the main thread, weak_factory_-bound
  fatal,           \* LOG(FATAL) was hit
  layoutCb,        \* layout_and_paint_async_callback_ is non-null
  copyReq,         \* temporary_copy_output_request_: none, held, installed
  rootLayer,       \* layer_tree_host_->root_layer() is non-null
  needsCommit,     \* SetNeedsCommit pending on the host
  deferred,        \* setDeferCommits(true) in force
  visible,         \* layer_tree_host_->visible()
  neverVisible,    \* never_visible_
  pendingLayout,   \* Blink awaits didLayoutAndPaint
  pendingReadback, \* Blink awaits didCompositeAndReadback
  requests,        \* async requests Blink has made
  streak,          \* history: attempts failed since the last initialized one
  selection,       \* the cc::LayerSelection registered with the host
  webSelection     \* history: the selection Blink last reported

vars == <<sync, hostClosing, failedAttempts, lastFallback, surface,
          lthWantsSurface, losses, main, fatal, layoutCb, copyReq, rootLayer,
          needsCommit, deferred, visible, neverVisible, pendingLayout,
          pendingReadback, requests, streak, selection, webSelection>>
surfaceVars == <<failedAttempts, lastFallback, surface, streak, fatal>>
frameVars == <<layoutCb, copyReq, pendingLayout, pendingReadback>>
viewVars == <<visible, neverVisible>>
selectionVars == <<selection, webSelection>>

\* The selection clearSelection stands for: type none, no flags.
NoneWebSelection ==
  [type |-> "none", start |-> NoWebBound, end |-> NoWebBound,
   isEditable |-> FALSE, isEmptyTextFormControl |-> FALSE]

\* Create: the constructor (no failed attempts, no callback) and Initialize,
\* which builds a threaded host when the compositor thread exists and a
\* single-threaded one otherwise; the host starts hidden and asks for its
\* first surface once it is visible.
Init ==
  /\ sync \in Modes
  /\ hostClosing = FALSE
  /\ failedAttempts = 0
  /\ lastFallback = FALSE
  /\ surface = "none"
  /\ lthWantsSurface = TRUE
  /\ losses = 0
  /\ main = << >>
  /\ fatal = FALSE
  /\ layoutCb = FALSE
  /\ copyReq = "none"
  /\ rootLayer = TRUE
  /\ needsCommit = FALSE
  /\ deferred = FALSE
  /\ visible = FALSE
  /\ neverVisible = FALSE
  /\ pendingLayout = 0
  /\ pendingReadback = 0
  /\ requests = 0
  /\ streak = 0
  /\ selection = EmptySelection
  /\ webSelection = NoneWebSelection

\* A variant of DidFailToInitializeOutputSurface without the LOG_IF(FATAL).
DidFailToInitializeOutputSurfaceNoFatal(q) ==
  /\ failedAttempts' = failedAttempts + 1
  /\ streak' = streak + 1
  /\ main' = Append(q, "RequestNewOutputSurface") /\ UNCHANGED fatal

\* DidFailToInitializeOutputSurface, with q the main-thread queue it posts
\* to: count the failure, die at the cap, otherwise post a retry.
DidFailToInitializeOutputSurface(q) ==
  /\ failedAttempts' = failedAttempts + 1
  /\ streak' = streak + 1
  /\ IF failedAttempts + 1 >= MaxRetries
       THEN fatal' = TRUE /\ main' = q
       ELSE main' = Append(q, "RequestNewOutputSurface") /\ UNCHANGED fatal

\* A variant that falls back to software one attempt late (> for >=).
RequestNewOutputSurfaceLateFallback(q) ==
  IF hostClosing
  THEN main' = q /\ UNCHANGED surfaceVars
  ELSE /\ lastFallback' = (failedAttempts > RetriesBeforeFallback)
       /\ \/ surface' = "binding" /\ main' = q
             /\ UNCHANGED <<failedAttempts, streak, fatal>>
          \/ UNCHANGED surface /\ DidFailToInitializeOutputSurface(q)

\* A variant without the return after a null surface: the failure is
\* handled and the null surface is still handed to the host.
RequestNewOutputSurfaceNoReturn(q) ==
  IF hostClosing
  THEN main' = q /\ UNCHANGED surfaceVars
  ELSE /\ lastFallback' = (failedAttempts >= RetriesBeforeFallback)
       /\ \/ surface' = "binding" /\ main' = q
             /\ UNCHANGED <<failedAttempts, streak, fatal>>
          \/ surface' = "binding" /\ DidFailToInitializeOutputSurface(q)

RequestNewOutputSurface(q) ==
  IF hostClosing
  THEN main' = q /\ UNCHANGED surfaceVars
  ELSE /\ lastFallback' = (failedAttempts >= RetriesBeforeFallback)
       /\ \/ surface' = "binding" /\ main' = q
             /\ UNCHANGED <<failedAttempts, streak, fatal>>
          \/ UNCHANGED surface /\ DidFailToInitializeOutputSurface(q)

\* A variant of DidInitializeOutputSurface that keeps the failure count.
DidInitializeOutputSurfaceKeepingCount == UNCHANGED failedAttempts

\* DidInitializeOutputSurface: a working surface resets the failure count.
DidInitializeOutputSurface == failedAttempts' = 0

\* UpdateLayerTreeHost: install the held copy request on the root layer, or
\* answer it with an empty bitmap when the widget has no root layer.
UpdateLayerTreeHost ==
  /\ copyReq' = IF copyReq = "held"
                THEN IF rootLayer THEN "installed" ELSE "none"
                ELSE copyReq
  /\ pendingReadback' = IF copyReq = "held" /\ ~rootLayer
                        THEN 0 ELSE pendingReadback

\* A variant that runs the callback without resetting the pointer.
InvokeLayoutAndPaintCallbackKeeping ==
  /\ UNCHANGED layoutCb
  /\ pendingLayout' = IF layoutCb THEN 0 ELSE pendingLayout

\* InvokeLayoutAndPaintCallback: run and clear the callback, if any.
InvokeLayoutAndPaintCallback ==
  /\ layoutCb' = FALSE
  /\ pendingLayout' = IF layoutCb THEN 0 ELSE pendingLayout

\* A variant of WillCommit that does not deliver the layout callback.
WillCommitWithoutCallback == UNCHANGED <<layoutCb, pendingLayout>>

\* WillCommit: the layout callback is answered by the commit.
WillCommit == InvokeLayoutAndPaintCallback

\* The host asks for a surface (first use, or after losing one).
LTHRequestsSurface ==
  /\ ~fatal /\ lthWantsSurface /\ visible
  /\ lthWantsSurface' = FALSE
  /\ RequestNewOutputSurface(main)
  /\ UNCHANGED <<selectionVars, sync, hostClosing, losses, frameVars, rootLayer,
                 needsCommit, deferred, viewVars, requests>>

\* The host reports the surface it was given initialized, or failed to.
SurfaceBindResult ==
  /\ ~fatal /\ surface = "binding"
  /\ \/ /\ surface' = "active" /\ DidInitializeOutputSurface /\ streak' = 0
        /\ UNCHANGED <<main, fatal, lastFallback>>
     \/ /\ surface' = "none" /\ DidFailToInitializeOutputSurface(main)
        /\ UNCHANGED lastFallback
  /\ UNCHANGED <<selectionVars, sync, hostClosing, lthWantsSurface, losses, frameVars,
                 rootLayer, needsCommit, deferred, viewVars, requests>>

\* The host loses its active surface and will ask for a new one.
SurfaceLost ==
  /\ ~fatal /\ surface = "active" /\ losses < MaxLosses
  /\ surface' = "none" /\ lthWantsSurface' = TRUE /\ losses' = losses + 1
  /\ UNCHANGED <<selectionVars, sync, hostClosing, failedAttempts, lastFallback, main,
                 fatal, frameVars, rootLayer, needsCommit, deferred, viewVars,
                 requests, streak>>

\* The widget starts closing (host_closing_ is set).
HostClosing ==
  /\ ~fatal /\ ~hostClosing
  /\ hostClosing' = TRUE
  /\ UNCHANGED <<selectionVars, sync, failedAttempts, lastFallback, surface,
                 lthWantsSurface, losses, main, fatal, frameVars, rootLayer,
                 needsCommit, deferred, viewVars, requests, streak>>

\* Force a frame: post the synchronous task, or ask the host for a commit.
ForceFrame(task) ==
  IF sync THEN main' = Append(main, task) /\ UNCHANGED needsCommit
  ELSE needsCommit' = TRUE /\ UNCHANGED main

\* Blink makes an async request only when it awaits no other (the DCHECKs
\* of layoutAndPaintAsync and compositeAndReadbackAsync).
BlinkIdle ==
  /\ ~fatal /\ requests < MaxRequests
  /\ pendingLayout = 0 /\ pendingReadback = 0

\* layoutAndPaintAsync: keep the callback and force a frame.
layoutAndPaintAsync ==
  /\ BlinkIdle
  /\ layoutCb' = TRUE /\ pendingLayout' = 1 /\ requests' = requests + 1
  /\ ForceFrame("LayoutAndUpdateLayers")
  /\ UNCHANGED <<selectionVars, sync, hostClosing, surfaceVars, lthWantsSurface, losses,
                 copyReq, rootLayer, deferred, viewVars, pendingReadback>>

\* A variant of compositeAndReadbackAsync that forgets to force a commit.
compositeAndReadbackAsyncNoCommit ==
  /\ BlinkIdle
  /\ copyReq' = "held" /\ pendingReadback' = 1 /\ requests' = requests + 1
  /\ IF sync THEN main' = Append(main, "SynchronouslyComposite")
     ELSE UNCHANGED main
  /\ UNCHANGED <<selectionVars, sync, hostClosing, surfaceVars, lthWantsSurface, losses,
                 layoutCb, rootLayer, needsCommit, deferred, viewVars, pendingLayout>>

\* compositeAndReadbackAsync: hold a bitmap copy request, force a frame.
compositeAndReadbackAsync ==
  /\ BlinkIdle
  /\ copyReq' = "held" /\ pendingReadback' = 1 /\ requests' = requests + 1
  /\ ForceFrame("SynchronouslyComposite")
  /\ UNCHANGED <<selectionVars, sync, hostClosing, surfaceVars, lthWantsSurface, losses,
                 layoutCb, rootLayer, deferred, viewVars, pendingLayout>>

\* The host's frame with an active surface: BeginMainFrame,
\* UpdateLayerTreeHost, then WillCommit and DidCommit (whose
\* DCHECK(!temporary_copy_output_request_) UpdateLayerTreeHost ensures).
CommitFrame == UpdateLayerTreeHost /\ WillCommit

\* The main thread runs its oldest posted task.
RunPostedTask ==
  /\ ~fatal /\ main # << >>
  /\ LET task == Head(main) IN
     CASE task = "RequestNewOutputSurface" ->
            /\ RequestNewOutputSurface(Tail(main))
            /\ UNCHANGED frameVars
       [] task = "LayoutAndUpdateLayers" ->
            \* The host lays out only with a surface; the callback is
            \* invoked either way.
            /\ main' = Tail(main)
            /\ IF surface = "active" THEN UpdateLayerTreeHost
               ELSE UNCHANGED <<copyReq, pendingReadback>>
            /\ InvokeLayoutAndPaintCallback
            /\ UNCHANGED surfaceVars
       [] task = "SynchronouslyComposite" ->
            /\ main' = Tail(main)
            /\ IF surface = "active" THEN CommitFrame ELSE UNCHANGED frameVars
            /\ UNCHANGED surfaceVars
  /\ UNCHANGED <<selectionVars, sync, hostClosing, lthWantsSurface, losses, rootLayer,
                 needsCommit, deferred, viewVars, requests>>

\* The threaded host, when visible, commits when a commit is needed and not
\* deferred.
Commit ==
  /\ ~fatal /\ ~sync /\ visible /\ needsCommit /\ ~deferred
  /\ surface = "active"
  /\ needsCommit' = FALSE
  /\ CommitFrame
  /\ UNCHANGED <<selectionVars, sync, hostClosing, surfaceVars, lthWantsSurface, losses,
                 main, rootLayer, deferred, viewVars, requests>>

\* The host draws: an installed copy request gets its bitmap.
Draw ==
  /\ ~fatal /\ copyReq = "installed" /\ surface = "active"
  /\ copyReq' = "none" /\ pendingReadback' = 0
  /\ UNCHANGED <<selectionVars, sync, hostClosing, surfaceVars, lthWantsSurface, losses,
                 main, layoutCb, rootLayer, needsCommit, deferred, viewVars,
                 pendingLayout, requests>>

\* setRootLayer: Blink gives the host a root layer.
setRootLayer ==
  /\ ~fatal /\ ~rootLayer
  /\ rootLayer' = TRUE
  /\ UNCHANGED <<selectionVars, sync, hostClosing, surfaceVars, lthWantsSurface, losses,
                 main, frameVars, needsCommit, deferred, viewVars, requests>>

\* clearRootLayer: the host drops its root layer; a copy request installed
\* on it is destroyed, which sends its empty result.
clearRootLayer ==
  /\ ~fatal /\ rootLayer
  /\ rootLayer' = FALSE
  /\ copyReq' = IF copyReq = "installed" THEN "none" ELSE copyReq
  /\ pendingReadback' = IF copyReq = "installed" THEN 0 ELSE pendingReadback
  /\ UNCHANGED <<selectionVars, sync, hostClosing, surfaceVars, lthWantsSurface, losses,
                 main, layoutCb, needsCommit, deferred, viewVars, pendingLayout,
                 requests>>

\* SetNeedsCommit, SetNeedsUpdateLayers: Blink asks the host for a frame.
SetNeedsCommit ==
  /\ ~fatal
  /\ needsCommit' = TRUE
  /\ UNCHANGED <<selectionVars, sync, hostClosing, surfaceVars, lthWantsSurface, losses,
                 main, frameVars, rootLayer, deferred, viewVars, requests>>

\* SetNeverVisible: DCHECK(!layer_tree_host_->visible()), then remember it.
SetNeverVisible ==
  /\ ~fatal /\ ~visible /\ ~neverVisible
  /\ neverVisible' = TRUE
  /\ UNCHANGED <<selectionVars, sync, hostClosing, surfaceVars, lthWantsSurface, losses,
                 main, frameVars, rootLayer, needsCommit, deferred, visible,
                 requests>>

\* setVisible: ignored for a never-visible widget, forwarded otherwise.
setVisible(show) ==
  /\ ~fatal /\ ~neverVisible
  /\ visible' = show
  /\ UNCHANGED <<selectionVars, sync, hostClosing, surfaceVars, lthWantsSurface, losses,
                 main, frameVars, rootLayer, needsCommit, deferred,
                 neverVisible, requests>>

\* setDeferCommits: forwarded to the host.
setDeferCommits(defer) ==
  /\ ~fatal
  /\ deferred' = defer
  /\ UNCHANGED <<selectionVars, sync, hostClosing, surfaceVars, lthWantsSurface, losses,
                 main, frameVars, rootLayer, needsCommit, requests, viewVars>>

\* registerSelection: Blink's selection, converted, goes to the host.
registerSelection(webSel) ==
  /\ ~fatal
  /\ selection' = ConvertWebSelection(webSel)
  /\ webSelection' = webSel
  /\ UNCHANGED <<sync, hostClosing, surfaceVars, lthWantsSurface, losses,
                 main, frameVars, rootLayer, needsCommit, deferred, viewVars,
                 requests>>

\* clearSelection: the host gets a default-constructed selection.
clearSelection ==
  /\ ~fatal
  /\ selection' = EmptySelection
  /\ webSelection' = NoneWebSelection
  /\ UNCHANGED <<sync, hostClosing, surfaceVars, lthWantsSurface, losses,
                 main, frameVars, rootLayer, needsCommit, deferred, viewVars,
                 requests>>

Next ==
  \/ LTHRequestsSurface
  \/ SurfaceBindResult
  \/ SurfaceLost
  \/ HostClosing
  \/ layoutAndPaintAsync
  \/ compositeAndReadbackAsync
  \/ RunPostedTask
  \/ Commit
  \/ Draw
  \/ setRootLayer
  \/ clearRootLayer
  \/ SetNeedsCommit
  \/ SetNeverVisible
  \/ \E show \in BOOLEAN : setVisible(show)
  \/ \E defer \in BOOLEAN : setDeferCommits(defer)
  \/ \E webSel \in WebSelectionInputs : registerSelection(webSel)
  \/ clearSelection

\* The main thread's message loop runs posted tasks; the host asks for a
\* surface it needs, hears back from the GPU process, commits when it needs
\* to and may, and draws what it committed.
Fairness ==
  /\ WF_vars(RunPostedTask)
  /\ WF_vars(LTHRequestsSurface)
  /\ WF_vars(SurfaceBindResult)
  /\ WF_vars(Commit)
  /\ WF_vars(Draw)

Spec == Init /\ [][Next]_vars /\ Fairness

-----------------------------------------------------------------------------
TypeOK ==
  /\ sync \in BOOLEAN /\ hostClosing \in BOOLEAN /\ fatal \in BOOLEAN
  /\ failedAttempts \in 0 .. MaxRetries /\ streak \in 0 .. MaxRetries
  /\ lastFallback \in BOOLEAN
  /\ surface \in {"none", "binding", "active"}
  /\ lthWantsSurface \in BOOLEAN /\ losses \in 0 .. MaxLosses
  /\ main \in Seq(PostedTasks)
  /\ layoutCb \in BOOLEAN /\ copyReq \in {"none", "held", "installed"}
  /\ rootLayer \in BOOLEAN /\ needsCommit \in BOOLEAN /\ deferred \in BOOLEAN
  /\ visible \in BOOLEAN /\ neverVisible \in BOOLEAN /\ (neverVisible => ~visible)
  /\ pendingLayout \in 0 .. 1 /\ pendingReadback \in 0 .. 1
  /\ requests \in 0 .. MaxRequests
  /\ selection \in LayerSelections /\ webSelection \in WebSelections

\* Requests for a new surface outstanding: retries posted by
\* DidFailToInitializeOutputSurface, the host's own request, and a surface
\* being initialized.
SurfaceRequestsInFlight ==
  Len(SelectSeq(main, LAMBDA t : t = "RequestNewOutputSurface"))
  + (IF lthWantsSurface THEN 1 ELSE 0) + (IF surface = "binding" THEN 1 ELSE 0)

\* RequestNewOutputSurface, its early returns and the retry posted on each
\* failure keep exactly one surface request alive until a surface is active
\* (or the host closes, or the process dies), and never two: a failure does
\* not also hand a surface over, and surface loss, GPU replies and posted
\* retries interleave without duplicating or dropping the request.
OneSurfaceRequestInFlight ==
  /\ SurfaceRequestsInFlight <= 1
  /\ (~hostClosing /\ ~fatal /\ surface # "active")
        => SurfaceRequestsInFlight = 1

\* LOG_IF(FATAL) in DidFailToInitializeOutputSurface kills the renderer only
\* after the software fallback was tried: the attempt that reached
\* MAX_OUTPUT_SURFACE_RETRIES asked for a fallback surface.
FatalOnlyAfterFallbackFailed == fatal => lastFallback

\* The renderer dies only after MAX_OUTPUT_SURFACE_RETRIES consecutive
\* failures: DidInitializeOutputSurface resets the count, so failures
\* separated by a working surface (lost later) do not add up.
FatalOnlyAfterConsecutiveFailures == fatal => streak >= MaxRetries

\* The compositor holds a layout callback or a copy request exactly while
\* Blink awaits its answer: whether the frame comes from a commit, a posted
\* synchronous task, or a widget without a root layer, no answer is lost
\* and none is left behind to fire twice.
CallbacksHeldExactlyWhilePending ==
  /\ pendingLayout = IF layoutCb THEN 1 ELSE 0
  /\ pendingReadback = IF copyReq # "none" THEN 1 ELSE 0

\* Commits can go ahead for good: the widget stays visible and Blink stops
\* deferring commits.
CommitsAllowed == <>[](visible /\ ~deferred)

\* Every layoutAndPaintAsync is eventually answered, through WillCommit or
\* the posted LayoutAndUpdateLayers, once commits can go ahead for good,
\* unless the host is closing or the process died: surface failures and
\* losses, hiding and deferral in between do not lose the request.
LayoutRequestsAnswered ==
  CommitsAllowed =>
    (pendingLayout = 1 ~> (pendingLayout = 0 \/ hostClosing \/ fatal))

\* With a threaded compositor every compositeAndReadbackAsync is eventually
\* answered, with a bitmap or an empty one, under the same conditions.
ReadbackRequestsAnswered ==
  CommitsAllowed =>
    ((~sync /\ pendingReadback = 1)
        ~> (pendingReadback = 0 \/ hostClosing \/ fatal))

HandlesFaceOutward ==
  webSelection.type # "none" =>
    /\ webSelection.type = "caret" =>
         selection.start.type = "CENTER" /\ selection.end.type = "CENTER"
    /\ webSelection.type = "range" =>
         /\ selection.start.type =
              IF webSelection.start.isTextDirectionRTL THEN "RIGHT" ELSE "LEFT"
         /\ selection.end.type =
              IF webSelection.end.isTextDirectionRTL THEN "LEFT" ELSE "RIGHT"
    /\ selection.start.layerId = webSelection.start.layerId
    /\ selection.end.layerId = webSelection.end.layerId
    /\ selection.start.edgeTop = webSelection.start.edgeTopInLayer
    /\ selection.end.edgeBottom = webSelection.end.edgeBottomInLayer
=============================================================================
