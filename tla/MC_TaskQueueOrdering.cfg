\* Posting and dispatch without control operations or nested loops: three
\* tasks over two queues, immediate and delayed, with a clock of 0..2.
CONSTANTS
  q1 = q1
  q2 = q2
  real = real
  virtual = virtual
  Domains <- MCOneDomain
  RealTimeDomain = real
  Queues <- MCQueues
  CanWake <- MCCanWake
  NumPriorities = 1
  Delays = {0, 1, 2}
  MaxTasks = 3
  MaxTime = 2
  MaxNestedLoops = 0
  MaxControls = 0

SPECIFICATION Spec

INVARIANT ImmediateTasksRunInPostOrder
INVARIANT DelayedTasksRunInRunTimeOrder

PROPERTY DueTasksEventuallyRun

\* The main thread sleeps for good once every task has run: the bounds on
\* posts and on the clock end every behaviour.
CHECK_DEADLOCK FALSE
