\* Callbacks delivered after WebContentsDestroyed.
CONSTANTS
  r1 = r1
  r2 = r2
  h1 = h1
  h2 = h2
  Routes <- MCRoutes
  Handles <- MCHandles
  MaxCalls = 3

SPECIFICATION Spec

PROPERTY NothingAcceptedAfterDestroy

CHECK_DEADLOCK FALSE
