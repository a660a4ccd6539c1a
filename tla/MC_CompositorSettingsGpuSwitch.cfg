\* --force-gpu-mem-available-mb absent, 256 or 4096, in 32- and 64-bit
\* builds.
CONSTANTS
  Scenarios <- GpuSwitchScenarios
  IntMax = 2147483647
  RuntimeScenarios = {}

SPECIFICATION Spec

INVARIANT SwitchValueUsed

\* A behaviour ends when Initialize returns, or goes on with debug setters.
CHECK_DEADLOCK FALSE
