----------------------- MODULE ObserverSanityChecker -----------------------
(***************************************************************************)
(* WebContentsObserverSanityChecker: a test observer attached to a         *)
(* WebContents that CHECKs the order of the callbacks it receives.         *)
(*                                                                          *)
(* The WebContents under test is the environment: it may deliver any       *)
(* callback at any time, and the model asks which sequences the checker    *)
(* accepts.  A failed CHECK aborts the process, so it ends the behaviour.  *)
(* A routing pair (process id, routing id) is a member of Routes; a        *)
(* NavigationHandle a member of Handles; a MediaPlayerId is the pair of a  *)
(* frame and a player number, one player per frame here.  The CHECKs on   *)
(* other objects (process connected, frame live, related site instances,   *)
(* the handle's WebContents) are taken to hold; the CHECKs on the          *)
(* checker's own state, and on a handle's outcome, are modelled.           *)
(***************************************************************************)
EXTENDS Naturals, FiniteSets, TLC

CONSTANTS
  Routes,    \* routing pairs of RenderFrameHosts
  Handles,   \* NavigationHandles
  MaxCalls   \* bound: callbacks delivered

Players == Routes    \* the MediaPlayerId of the one player of each frame
NoRoute == "nullptr"
Lifecycle == {"none", "created", "deleted"}
\* A finished navigation's HasCommitted(), IsErrorPage(), net error == OK.
Outcomes == [committed : BOOLEAN, errorPage : BOOLEAN, netOk : BOOLEAN]

VARIABLES
  live,          \* live_routes_
  deleted,       \* deleted_routes_
  current,       \* current_hosts_
  ongoing,       \* ongoing_navigations_
  players,       \* active_media_players_
  destroyed,     \* web_contents_destroyed_
  failed,        \* a CHECK failed and the process aborted
  calls,         \* callbacks delivered so far
  lastLifecycle, \* history: route -> last accepted RenderFrameCreated/Deleted
  starts,        \* history: handle -> accepted DidStartNavigation calls
  finishes,      \* history: handle -> accepted DidFinishNavigation calls
  lastCall       \* the last callback delivered

vars == <<live, deleted, current, ongoing, players, destroyed, failed, calls,
          lastLifecycle, starts, finishes, lastCall>>

checker == <<live, deleted, current, ongoing, players, destroyed>>
history == <<lastLifecycle, starts, finishes>>

Init ==
  /\ live = {} /\ deleted = {} /\ current = {} /\ ongoing = {}
  /\ players = {}
  /\ destroyed = FALSE
  /\ failed = FALSE
  /\ calls = 0
  /\ lastLifecycle = [r \in Routes |-> "none"]
  /\ starts = [h \in Handles |-> 0]
  /\ finishes = [h \in Handles |-> 0]
  /\ lastCall = "none"

\* One callback is delivered; CHECK failures abort.
Deliver(name) ==
  /\ ~failed
  /\ calls < MaxCalls
  /\ calls' = calls + 1
  /\ lastCall' = name

Fail ==
  /\ failed' = TRUE
  /\ UNCHANGED <<checker, history>>

\* AssertRenderFrameExists: RenderFrameCreated happened, RenderFrameDeleted
\* did not, and the WebContents is not destroyed.
RenderFrameExists(r) == ~destroyed /\ r \in live /\ r \notin deleted

\* A variant of RenderFrameCreated that leaves the route in deleted_routes_.
RenderFrameCreatedKeepingDeleted(r) ==
  /\ Deliver("RenderFrameCreated")
  /\ IF ~destroyed /\ r \notin live
     THEN /\ live' = live \cup {r}
          /\ lastLifecycle' = [lastLifecycle EXCEPT ![r] = "created"]
          /\ UNCHANGED <<deleted, current, ongoing, players, destroyed, failed,
                         starts, finishes>>
     ELSE Fail

\* RenderFrameCreated: CHECK not destroyed; insert into live_routes_ (CHECK
\* it was not there), erase from deleted_routes_.
RenderFrameCreated(r) ==
  /\ Deliver("RenderFrameCreated")
  /\ IF ~destroyed /\ r \notin live
     THEN /\ live' = live \cup {r}
          /\ deleted' = deleted \ {r}
          /\ lastLifecycle' = [lastLifecycle EXCEPT ![r] = "created"]
          /\ UNCHANGED <<current, ongoing, players, destroyed, failed,
                         starts, finishes>>
     ELSE Fail

\* RenderFrameDeleted: CHECK not destroyed; erase from live_routes_, insert
\* into deleted_routes_ (CHECK it was not there; deleting a frame never
\* created is allowed, its CHECK is compiled out); CHECK that no player of
\* the frame is active.
RenderFrameDeleted(r) ==
  /\ Deliver("RenderFrameDeleted")
  /\ IF ~destroyed /\ r \notin deleted /\ r \notin players
     THEN /\ live' = live \ {r}
          /\ deleted' = deleted \cup {r}
          /\ lastLifecycle' = [lastLifecycle EXCEPT ![r] = "deleted"]
          /\ UNCHANGED <<current, ongoing, players, destroyed, failed,
                         starts, finishes>>
     ELSE Fail

\* A variant of RenderFrameHostChanged that inserts old instead of erasing it.
RenderFrameHostChangedKeepingOld(old, new) ==
  /\ Deliver("RenderFrameHostChanged")
  /\ IF /\ new # old
        /\ old # NoRoute => old \in current
        /\ new \notin current
     THEN /\ current' = current \cup {old, new}
          /\ UNCHANGED <<live, deleted, ongoing, players, destroyed, failed,
                         history>>
     ELSE Fail

\* RenderFrameHostChanged(old, new): CHECK new is set and differs from old;
\* erase old from current_hosts_ (CHECK it was there); insert new (CHECK it
\* was not).
RenderFrameHostChanged(old, new) ==
  /\ Deliver("RenderFrameHostChanged")
  /\ IF /\ new # old
        /\ old # NoRoute => old \in current
        /\ new \notin current
     THEN /\ current' = (current \ {old}) \cup {new}
          /\ UNCHANGED <<live, deleted, ongoing, players, destroyed, failed,
                         history>>
     ELSE Fail

\* FrameDeleted: a frame may go before its RenderFrame was created, so only
\* CHECK(!web_contents_destroyed_).
FrameDeleted(r) ==
  /\ Deliver("FrameDeleted")
  /\ IF ~destroyed THEN UNCHANGED <<checker, failed, history>> ELSE Fail

\* Every callback that only asserts its frame exists
\* (DidStartProvisionalLoadForFrame ... DidOpenRequestedURL,
\* OnMessageReceived, and the main-frame ones for the current main frame).
FrameCallback(r) ==
  /\ Deliver("FrameCallback")
  /\ IF RenderFrameExists(r) THEN UNCHANGED <<checker, failed, history>>
     ELSE Fail

\* NavigationIsOngoing: the handle is in ongoing_navigations_.
NavigationIsOngoing(h) == h \in ongoing

\* DidStartNavigation: CHECK the handle is not ongoing (its fresh state
\* passes the other CHECKs), then record it.
DidStartNavigation(h) ==
  /\ Deliver("DidStartNavigation")
  /\ IF ~NavigationIsOngoing(h)
     THEN /\ ongoing' = ongoing \cup {h}
          /\ starts' = [starts EXCEPT ![h] = @ + 1]
          /\ UNCHANGED <<live, deleted, current, players, destroyed, failed,
                         lastLifecycle, finishes>>
     ELSE Fail

\* DidRedirectNavigation, ReadyToCommitNavigation: CHECK it is ongoing.
NavigationStep(h) ==
  /\ Deliver("NavigationStep")
  /\ IF NavigationIsOngoing(h) THEN UNCHANGED <<checker, failed, history>>
     ELSE Fail

\* DidFinishNavigation's CHECKs on the outcome.
OutcomeConsistent(o) ==
  /\ (o.committed /\ ~o.errorPage) => o.netOk
  /\ (o.committed /\ o.errorPage) => ~o.netOk

\* A variant of DidFinishNavigation that leaves the handle ongoing.
DidFinishNavigationKeepingHandle(h, o) ==
  /\ Deliver("DidFinishNavigation")
  /\ IF NavigationIsOngoing(h) /\ OutcomeConsistent(o)
     THEN /\ finishes' = [finishes EXCEPT ![h] = @ + 1]
          /\ UNCHANGED <<checker, failed, lastLifecycle, starts>>
     ELSE Fail

\* DidFinishNavigation: CHECK ongoing and a consistent outcome, then forget
\* the handle.
DidFinishNavigation(h, o) ==
  /\ Deliver("DidFinishNavigation")
  /\ IF NavigationIsOngoing(h) /\ OutcomeConsistent(o)
     THEN /\ ongoing' = ongoing \ {h}
          /\ finishes' = [finishes EXCEPT ![h] = @ + 1]
          /\ UNCHANGED <<live, deleted, current, players, destroyed, failed,
                         lastLifecycle, starts>>
     ELSE Fail

\* MediaStartedPlaying / MediaStoppedPlaying: CHECK not destroyed and the
\* player absent / present, then add / remove it.
MediaStartedPlaying(p) ==
  /\ Deliver("MediaStartedPlaying")
  /\ IF ~destroyed /\ p \notin players
     THEN players' = players \cup {p} /\ UNCHANGED <<live, deleted, current,
                                          ongoing, destroyed, failed, history>>
     ELSE Fail

MediaStoppedPlaying(p) ==
  /\ Deliver("MediaStoppedPlaying")
  /\ IF ~destroyed /\ p \in players
     THEN players' = players \ {p} /\ UNCHANGED <<live, deleted, current,
                                         ongoing, destroyed, failed, history>>
     ELSE Fail

\* WebContentsDestroyed: CHECK not yet destroyed, set the flag, CHECK no
\* navigation is ongoing and no player is active.
WebContentsDestroyed ==
  /\ Deliver("WebContentsDestroyed")
  /\ IF ~destroyed /\ ongoing = {} /\ players = {}
     THEN destroyed' = TRUE /\ UNCHANGED <<live, deleted, current, ongoing,
                                         players, failed, history>>
     ELSE Fail

Next ==
  \/ \E r \in Routes : \/ RenderFrameCreated(r) \/ RenderFrameDeleted(r)
                       \/ FrameDeleted(r) \/ FrameCallback(r)
  \/ \E old \in Routes \cup {NoRoute}, new \in Routes :
        RenderFrameHostChanged(old, new)
  \/ \E h \in Handles : DidStartNavigation(h) \/ NavigationStep(h)
  \/ \E h \in Handles, o \in Outcomes : DidFinishNavigation(h, o)
  \/ \E p \in Players : MediaStartedPlaying(p) \/ MediaStoppedPlaying(p)
  \/ WebContentsDestroyed

Spec == Init /\ [][Next]_vars

-----------------------------------------------------------------------------
TypeOK ==
  /\ live \subseteq Routes /\ deleted \subseteq Routes /\ current \subseteq Routes
  /\ ongoing \subseteq Handles /\ players \subseteq Players
  /\ destroyed \in BOOLEAN /\ failed \in BOOLEAN
  /\ calls \in 0 .. MaxCalls
  /\ lastLifecycle \in [Routes -> Lifecycle]
  /\ starts \in [Handles -> Nat] /\ finishes \in [Handles -> Nat]

\* AssertRenderFrameExists accepts a frame exactly when the last of its
\* RenderFrameCreated / RenderFrameDeleted callbacks was a creation and the
\* WebContents is alive, across deletions and re-creations of the same
\* routing pair (live_routes_ and deleted_routes_ never disagree).
FrameExistsIffLastCreated ==
  \A r \in Routes :
     RenderFrameExists(r) <=> (~destroyed /\ lastLifecycle[r] = "created")

\* For every handle, the checker accepts DidStartNavigation and
\* DidFinishNavigation only alternately, starting with a start, and treats
\* the handle as ongoing exactly between them.
NavigationCallbacksAlternate ==
  \A h \in Handles :
     /\ finishes[h] <= starts[h] /\ starts[h] <= finishes[h] + 1
     /\ (h \in ongoing) <=> (starts[h] > finishes[h])

\* After WebContentsDestroyed no callback is accepted: the checker CHECKs
\* !web_contents_destroyed_ on every callback it receives.
NothingAcceptedAfterDestroy ==
  [][(destroyed /\ calls' > calls) => failed']_vars
=============================================================================
