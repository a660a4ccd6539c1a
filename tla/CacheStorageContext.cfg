\* Init on the UI thread or, with collapsed threads, on the IO thread; then
\* Shutdown; three IO-thread client calls interleaved anywhere.
CONSTANTS
  InitThreads = {FALSE, TRUE}
  MaxCalls = 3

SPECIFICATION Spec

INVARIANT TypeOK
INVARIANT NeverCreatedTwice
INVARIANT ManagerGoneAfterShutdown
INVARIANT DeletesReachLiveManager

PROPERTY EveryUsageRequestAnswered

\* Every behaviour ends after Shutdown, the client calls and the IO tasks.
CHECK_DEADLOCK FALSE
