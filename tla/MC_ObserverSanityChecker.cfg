\* Any sequence of up to six callbacks over two frames, two navigations and
\* their media players.
CONSTANTS
  r1 = r1
  r2 = r2
  h1 = h1
  h2 = h2
  Routes <- MCRoutes
  Handles <- MCHandles
  MaxCalls = 6

SPECIFICATION Spec

INVARIANT TypeOK
INVARIANT FrameExistsIffLastCreated
INVARIANT NavigationCallbacksAlternate


\* A failed CHECK aborts the process, and the callback bound ends the rest.
CHECK_DEADLOCK FALSE
