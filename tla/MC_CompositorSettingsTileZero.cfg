\* --default-tile-width and --default-tile-height absent, unparsable, 0, or
\* a valid size.
CONSTANTS
  Scenarios <- TileZeroScenarios
  IntMax = 2147483647
  RuntimeScenarios = {}

SPECIFICATION Spec

INVARIANT TileSizePositive

\* A behaviour ends when Initialize returns, or goes on with debug setters.
CHECK_DEADLOCK FALSE
