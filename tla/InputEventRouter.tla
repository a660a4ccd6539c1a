------------------------- MODULE InputEventRouter -------------------------
(***************************************************************************)
(* RenderWidgetHostInputEventRouter: the browser-side router that sends    *)
(* mouse, wheel and touch events of a top-level view to the view of the    *)
(* out-of-process frame under the pointer.                                 *)
(*                                                                          *)
(* owner_map_ maps surface id namespaces to the views that own them.       *)
(* Mouse and wheel events are hit tested one by one; a touch sequence is   *)
(* hit tested on its first TouchStart, and every later event of the        *)
(* sequence goes to that current_touch_target_ until the last touch ends.  *)
(*                                                                          *)
(* The router's callers are part of the environment here.  Views register  *)
(* and unregister their namespace; a child view is destroyed only after it *)
(* has removed its namespace (the comment in FindEventTarget relies on     *)
(* this); the root view outlives the events routed through it; the         *)
(* platform sends well-formed touch sequences (the DCHECKs of              *)
(* RouteTouchEvent); and hit testing may report any namespace, including   *)
(* one whose view is gone, as a stale compositor frame can.                *)
(***************************************************************************)
EXTENDS Naturals, FiniteSets, Functions, TLC

CONSTANTS
  Views,       \* RenderWidgetHostViewBase objects
  Root,        \* the top-level view events arrive at
  Namespaces,  \* surface id namespaces
  MaxTouches,  \* bound: fingers down at once
  MaxEvents    \* bound: events routed in a behaviour

ASSUME Root \in Views

NoView == "nullptr"
EventKinds == {"mouse", "wheel", "TouchStart", "TouchMove", "TouchEnd",
               "TouchCancel"}

VARIABLES
  ownerMap,        \* owner_map_: namespace -> view
  activeTouches,   \* active_touches_
  currentTarget,   \* current_touch_target_
  alive,           \* views not yet destroyed
  events,          \* events routed so far
  pending,         \* view -> touches it received a start for and no end yet
  lastDelivery     \* the last ProcessXxxEvent call: [view, kind, hitTested]

vars == <<ownerMap, activeTouches, currentTarget, alive, events, pending,
          lastDelivery>>

\* A variant that returns iter->second without the owner_map_.end() check.
FindEventTargetNoFallback ==
  IF Cardinality(DOMAIN ownerMap) <= 1
  THEN {Root}
  ELSE {IF ns \in DOMAIN ownerMap THEN ownerMap[ns] ELSE NoView : ns \in Namespaces}

\* FindEventTarget: the set of views it may return for one event (the hit
\* test is a nondeterministic choice of namespace).
FindEventTarget ==
  IF Cardinality(DOMAIN ownerMap) <= 1
  THEN {Root}
  ELSE {IF ns \in DOMAIN ownerMap THEN ownerMap[ns] ELSE Root : ns \in Namespaces}

Init ==
  /\ ownerMap = << >>
  /\ activeTouches = 0
  /\ currentTarget = NoView
  /\ alive = Views
  /\ events = 0
  /\ pending = [v \in Views |-> 0]
  /\ lastDelivery = [view |-> NoView, kind |-> "none", hitTested |-> FALSE]

Deliver(v, kind, hit) ==
  /\ events < MaxEvents
  /\ events' = events + 1
  /\ lastDelivery' = [view |-> v, kind |-> kind, hitTested |-> hit]

\* RouteMouseEvent / RouteMouseWheelEvent: hit test, then process.
RouteMouseEvent(kind) ==
  /\ \E target \in FindEventTarget : Deliver(target, kind, TRUE)
  /\ UNCHANGED <<ownerMap, activeTouches, currentTarget, alive, pending>>

\* A variant that hit tests every TouchStart, not only a sequence's first.
StartTargetsAlwaysHitTest == FindEventTarget

\* Only the first touch of a sequence defines the target by hit test.
StartTargets ==
  IF activeTouches = 0 THEN FindEventTarget ELSE {currentTarget}

\* TouchStart: pick the target, count the touch, process the event.
TouchStart ==
  /\ activeTouches < MaxTouches
  /\ \E target \in StartTargets :
        /\ currentTarget' = target
        /\ pending' = [pending EXCEPT ![target] = @ + 1]
        /\ Deliver(target, "TouchStart", activeTouches = 0)
  /\ activeTouches' = activeTouches + 1
  /\ UNCHANGED <<ownerMap, alive>>

\* TouchMove: to the sequence's target (DCHECK(current_touch_target_)).
TouchMove ==
  /\ activeTouches > 0
  /\ Deliver(currentTarget, "TouchMove", FALSE)
  /\ UNCHANGED <<ownerMap, activeTouches, currentTarget, alive, pending>>

\* A variant that keeps current_touch_target_ after the last touch ends.
TouchEndKeepingTarget(kind) ==
  /\ activeTouches > 0
  /\ Deliver(currentTarget, kind, FALSE)
  /\ pending' = [pending EXCEPT ![currentTarget] = @ - 1]
  /\ activeTouches' = activeTouches - 1
  /\ UNCHANGED <<ownerMap, alive, currentTarget>>

\* TouchEnd / TouchCancel: process, then forget the target after the last.
TouchEnd(kind) ==
  /\ activeTouches > 0
  /\ Deliver(currentTarget, kind, FALSE)
  /\ pending' = [pending EXCEPT ![currentTarget] = @ - 1]
  /\ activeTouches' = activeTouches - 1
  /\ currentTarget' = IF activeTouches' = 0 THEN NoView ELSE currentTarget
  /\ UNCHANGED <<ownerMap, alive>>

\* AddSurfaceIdNamespaceOwner: DCHECK that the namespace is not yet owned.
AddSurfaceIdNamespaceOwner(id, owner) ==
  /\ id \notin DOMAIN ownerMap
  /\ owner \in alive
  /\ ownerMap' = (id :> owner) @@ ownerMap
  /\ UNCHANGED <<activeTouches, currentTarget, alive, events, pending,
                 lastDelivery>>

\* RemoveSurfaceIdNamespaceOwner: owner_map_.erase(id), nothing else.
RemoveSurfaceIdNamespaceOwner(id) ==
  /\ ownerMap' = Restrict(ownerMap, DOMAIN ownerMap \ {id})
  /\ UNCHANGED <<activeTouches, currentTarget, alive, events, pending,
                 lastDelivery>>

\* A child view is destroyed once it owns no namespace.
DestroyView(v) ==
  /\ v # Root
  /\ v \in alive
  /\ v \notin Range(ownerMap)
  /\ alive' = alive \ {v}
  /\ UNCHANGED <<ownerMap, activeTouches, currentTarget, events, pending,
                 lastDelivery>>

Next ==
  \/ \E k \in {"mouse", "wheel"} : RouteMouseEvent(k)
  \/ TouchStart
  \/ TouchMove
  \/ \E k \in {"TouchEnd", "TouchCancel"} : TouchEnd(k)
  \/ \E id \in Namespaces, v \in Views : AddSurfaceIdNamespaceOwner(id, v)
  \/ \E id \in Namespaces : RemoveSurfaceIdNamespaceOwner(id)
  \/ \E v \in Views : DestroyView(v)

Spec == Init /\ [][Next]_vars

-----------------------------------------------------------------------------
TypeOK ==
  /\ ownerMap \in UNION {[D -> Views] : D \in SUBSET Namespaces}
  /\ activeTouches \in 0 .. MaxTouches
  /\ currentTarget \in Views \cup {NoView}
  /\ alive \subseteq Views
  /\ events \in 0 .. MaxEvents
  /\ pending \in [Views -> 0 .. MaxTouches]
  /\ lastDelivery \in [view : Views \cup {NoView},
                       kind : EventKinds \cup {"none"}, hitTested : BOOLEAN]
  /\ events > 0 => lastDelivery.view \in Views

\* RouteTouchEvent's DCHECK(!current_touch_target_) on a first TouchStart,
\* and the reset after the last TouchEnd/TouchCancel: across any number of
\* overlapping touch sequences, a target is held exactly while touches are
\* active.
TouchTargetHeldExactlyWhileTouching ==
  (activeTouches = 0) <=> (currentTarget = NoView)

\* Every view that received a TouchStart receives the matching TouchEnd or
\* TouchCancel: all touches still open are on the sequence's one target, so
\* when the last finger lifts no renderer is left with a dangling touch,
\* however starts, moves and ends of several fingers interleave.
TouchSequencesBalancedPerView ==
  \A v \in Views : pending[v] = IF v = currentTarget THEN activeTouches ELSE 0

\* Every routed event reaches a view that is still alive, including the
\* TouchMove, TouchEnd and TouchCancel sent to current_touch_target_ after
\* the sequence started.
RoutedEventsReachLiveViews ==
  [][events' > events => lastDelivery'.view \in alive]_vars
=============================================================================
