\* A nested run loop entered after the outer DoWork has consumed the pending
\* signal: does it ever sleep while nestable work is ready?
CONSTANTS
  q1 = q1
  q2 = q2
  real = real
  virtual = virtual
  Domains <- MCOneDomain
  RealTimeDomain = real
  Queues <- MCQueues
  CanWake <- MCCanWake
  NumPriorities = 1
  Delays = {0}
  MaxTasks = 2
  MaxTime = 0
  MaxNestedLoops = 1
  MaxControls = 0

SPECIFICATION Spec

INVARIANT NeverIdleWithReadyWork

CHECK_DEADLOCK FALSE
