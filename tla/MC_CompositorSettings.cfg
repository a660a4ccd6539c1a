\* Every display, every value of each numeric switch, every set of the
\* boolean switches and every memory query result, each family on every
\* platform, device class, WebView and OOPIF widget.
CONSTANTS
  Scenarios <- MCScenarios
  IntMax = 2147483647
  RuntimeScenarios <- RuntimeFamily

SPECIFICATION Spec

INVARIANT TypeOK
INVARIANT TileSizeMonotoneInDisplay
INVARIANT NumericSettingsInRange
INVARIANT DisablingSwitchesWin
INVARIANT Rgba4444OnlyWhereSupported
INVARIANT LimitMonotoneInPhysicalMemory
INVARIANT DebugStateKeepsEarlierWrites

\* A behaviour ends when Initialize returns, or goes on with debug setters.
CHECK_DEADLOCK FALSE
