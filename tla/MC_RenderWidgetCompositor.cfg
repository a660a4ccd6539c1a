\* Both compositing modes; the retry constants, whose definitions are not
\* in the tree, as four failures before the software fallback and fatal at
\* five; two surface losses, three async requests from Blink, and five
\* selections.
CONSTANTS
  Modes = {FALSE, TRUE}
  RetriesBeforeFallback = 4
  MaxRetries = 5
  MaxLosses = 2
  MaxRequests = 3
  WebSelectionInputs <- MCWebSelections

SPECIFICATION Spec

INVARIANT TypeOK
INVARIANT OneSurfaceRequestInFlight
INVARIANT FatalOnlyAfterFallbackFailed
INVARIANT FatalOnlyAfterConsecutiveFailures
INVARIANT CallbacksHeldExactlyWhilePending
INVARIANT HandlesFaceOutward
 
PROPERTY LayoutRequestsAnswered
PROPERTY ReadbackRequestsAnswered

\* Behaviours end when the renderer dies or the bounds are spent.
CHECK_DEADLOCK FALSE
