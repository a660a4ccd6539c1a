\* Two queues on the real-time domain and a virtual one they can be
\* retargeted to, each clock bounded by one tick; two priority tiers; two
\* posts, immediate or delayed; one control operation (a retarget, an
\* unregistration, a priority or pumping change, ...) from inside a running
\* task, and one nested run loop.
CONSTANTS
  q1 = q1
  q2 = q2
  real = real
  virtual = virtual
  Queues <- MCQueues
  CanWake <- MCCanWake
  Domains <- MCTwoDomains
  RealTimeDomain = real
  NumPriorities = 2
  Delays = {0, 1}
  MaxTasks = 2
  MaxTime = 1
  MaxNestedLoops = 1
  MaxControls = 1

SPECIFICATION Spec

INVARIANT TypeOK
INVARIANT WorkQueueSetsConsistent
INVARIANT TopLevelNeverIdleWithReadyWork

PROPERTY DispatchesOldestReady
PROPERTY RefinesAbstractScheduler
PROPERTY DueTasksEventuallyRun

\* The main thread sleeps for good once every task has run: the bounds on
\* posts and on the clocks end every behaviour.
CHECK_DEADLOCK FALSE
