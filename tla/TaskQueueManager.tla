-------------------------- MODULE TaskQueueManager --------------------------
(***************************************************************************)
(* The renderer scheduler's task queues (TaskQueueImpl), the WorkQueueSets  *)
(* index and the TaskQueueManager's DoWork loop that selects and runs one   *)
(* task at a time on the main thread.                                       *)
(*                                                                          *)
(* Per queue, the state is split as in task_queue_impl.h: the AnyThread     *)
(* part (immediate and delayed incoming queues, pump policy) is guarded by  *)
(* any_thread_lock_ and written by posting threads; the MainThreadOnly part *)
(* (immediate and delayed work queues, set_index) is touched only by the    *)
(* main thread.  A post is one atomic step because it runs entirely under   *)
(* the queue lock.  The main thread's DoWork is split into RunTask (select  *)
(* and start a task) and DidRunTask (update the work queues after it and    *)
(* post a continuation), because consumer-only control operations and       *)
(* nested run loops happen while a task runs, between those two steps.      *)
(*                                                                          *)
(* task_queue_impl.cc, task_queue_manager.cc and work_queue_sets.cc are not *)
(* part of this source tree: the bodies of the operations are modelled from *)
(* the design document, the declarations and comments of the header.        *)
(*                                                                          *)
(* A few definitions are immediately preceded by a faulty variant of        *)
(* themselves (MoveImmediateReversed, RunsBeforeBySequence, ...): each is a *)
(* plausible slip in that piece of code, kept to show that a property of    *)
(* the runs below fails when the code has it.                               *)
(***************************************************************************)
EXTENDS Integers, Sequences, FiniteSets, SequencesExt, Functions, TLC

CONSTANTS
  Queues,         \* the registered task queues
  CanWake,        \* queues whose wakeup policy is CAN_WAKE_OTHER_QUEUES
  NumPriorities,  \* priority tiers 0 (most urgent) .. NumPriorities-1
  Delays,         \* delays a post may ask for; 0 is an immediate post
  MaxTasks,       \* bound: number of posts
  Domains,        \* the time domains queues may be attached to
  RealTimeDomain, \* the manager's real-time domain, every queue's first
  MaxTime,        \* bound: the clock of each time domain
  MaxNestedLoops, \* bound: nested run loops started in a behaviour
  MaxControls     \* bound: control operations issued in a behaviour

ASSUME CanWake \subseteq Queues /\ 0 \in Delays /\ Delays \subseteq Nat
ASSUME RealTimeDomain \in Domains

Priorities == 0 .. NumPriorities - 1
DisabledSet == NumPriorities            \* set index of a disabled queue
SetIndices == Priorities \cup {DisabledSet}
PumpPolicies == {"AUTO", "AFTER_WAKEUP", "MANUAL"}
Kinds == {"imm", "del"}                 \* immediate / delayed work queue
TaskIds == 1 .. MaxTasks
NoTask == 0
NoQueue == "none"
QueueOrder == SetToSeq(Queues)          \* order UpdateWorkQueues visits them

VARIABLES
  info,          \* t -> the PendingTask fields fixed at post time
  eo,            \* t -> enqueue_order_, 0 while unset
  nextSeq,       \* the manager's EnqueueOrder generator
  posted,        \* number of tasks posted so far
  incoming,      \* q -> [imm: queue of tasks, del: set of tasks]   (AnyThread)
  work,          \* q -> [imm: Seq, del: Seq] work queues        (MainThreadOnly)
  sets,          \* WorkQueueSets: set index -> {[key, q, kind]}
  priority,      \* q -> QueuePriority
  enabled,       \* q -> IsQueueEnabled()
  pump,          \* q -> pump_policy
  registered,    \* q -> not yet unregistered
  domain,        \* q -> the TimeDomain the queue is attached to  (AnyThread)
  now,           \* d -> the time domain's Now()
  wakeups,       \* <<domain, time>>: delayed DoWorks ScheduleDelayedWorkTask set
  doWorkPosted,  \* an immediate DoWork is pending on the main runner
  stack,         \* tasks currently running, outermost first
  loopDepth,     \* run loops active on the main thread (1 = not nested)
  nestedLoops,   \* nested run loops started so far
  controls,      \* control operations issued so far
  ran,           \* history: tasks in the order they were dispatched
  dropped        \* history: tasks discarded by UnregisterTaskQueue

vars == <<info, eo, nextSeq, posted, incoming, work, sets, priority, enabled,
          pump, registered, domain, now, wakeups, doWorkPosted, stack, loopDepth,
          nestedLoops, controls, ran, dropped>>

-----------------------------------------------------------------------------
(* The main-thread view of the scheduler as one record, so that the steps  *)
(* of a DoWork can be composed as functions.                               *)
Cur == [inc |-> incoming, wk |-> work, eo |-> eo, sets |-> sets, seq |-> nextSeq]

Assign(c) ==
  /\ incoming' = c.inc
  /\ work' = c.wk
  /\ eo' = c.eo
  /\ sets' = c.sets
  /\ nextSeq' = c.seq

IsNested == loopDepth > 1

\* main_thread_only().set_index: the WorkQueueSets a queue's work queues sit in.
SetIndex(q) == IF enabled[q] THEN priority[q] ELSE DisabledSet

\* Task::set_enqueue_order: DCHECK(!enqueue_order_set_), then assign.
SetEnqueueOrder(c, t) ==
  [c EXCEPT !.eo[t] = c.seq, !.seq = @ + 1]

\* The WorkQueueSets entry of a non-empty work queue: keyed by its front's order.
Entry(c, q, k) == [key |-> c.eo[Head(c.wk[q][k])], q |-> q, kind |-> k]

\* WorkQueue::Push of a run of tasks; WorkQueueSets::OnPushQueue when the work
\* queue goes from empty to non-empty.
PushTasks(c, q, k, ts) ==
  LET c2 == [c EXCEPT !.wk[q][k] = @ \o ts]
  IN  IF c.wk[q][k] = <<>> /\ ts # <<>>
      THEN [c2 EXCEPT !.sets[SetIndex(q)] = @ \cup {Entry(c2, q, k)}]
      ELSE c2

\* TakeTaskFromWorkQueue: pop the front; WorkQueueSets::OnPopQueue re-keys it.
PopTask(c, q, k) ==
  LET i  == SetIndex(q)
      c2 == [c EXCEPT !.wk[q][k] = Tail(@),
                      !.sets[i] = @ \ {Entry(c, q, k)}]
  IN  IF c2.wk[q][k] = <<>> THEN c2
      ELSE [c2 EXCEPT !.sets[i] = @ \cup {Entry(c2, q, k)}]

\* WorkQueueSets::ChangeSetIndex: move both work queues of q to set index j.
ChangeSetIndexKeepingOld(c, q, j) ==
  [c EXCEPT !.sets[j] = @ \cup {e \in c.sets[SetIndex(q)] : e.q = q}]

ChangeSetIndex(c, q, j) ==
  LET mine == {e \in c.sets[SetIndex(q)] : e.q = q}
  IN  [c EXCEPT !.sets[SetIndex(q)] = @ \ mine,
                !.sets[j] = (@ \ mine) \cup mine]

\* MoveReadyImmediateTasksToImmediateWorkQueueLocked.
MoveImmediateReversed(c, q) ==
  PushTasks([c EXCEPT !.inc[q].imm = <<>>], q, "imm", Reverse(c.inc[q].imm))

MoveImmediate(c, q) ==
  PushTasks([c EXCEPT !.inc[q].imm = <<>>], q, "imm", c.inc[q].imm)

\* Delayed tasks leave the priority queue in (desired_run_time, sequence_num)
\* order.
RunsBeforeBySequence(a, b) == info[a].seq < info[b].seq

RunsBefore(a, b) ==
  \/ info[a].runTime < info[b].runTime
  \/ info[a].runTime = info[b].runTime /\ info[a].seq < info[b].seq

\* MoveReadyDelayedTasksToDelayedWorkQueueLocked: every delayed task whose
\* desired run time has come gets its enqueue order as it is moved.
DelayedTaskIsDue(t) == info[t].runTime <= now[domain[info[t].queue]]

MoveDelayed(c, q) ==
  LET ready == {t \in c.inc[q].del : DelayedTaskIsDue(t)}
      ts    == SetToSortSeq(ready, RunsBefore)
      c2    == FoldLeft(SetEnqueueOrder, [c EXCEPT !.inc[q].del = @ \ ready], ts)
  IN  PushTasks(c2, q, "del", ts)

\* TaskIsOlderThanQueuedTasks: false only if the previous task is newer than
\* the oldest immediate incoming task (with none queued it is vacuously
\* older; the .cc is absent, so the empty case follows the name).
TaskIsOlderThanQueuedTasks(c, q, prev) ==
  ~(c.inc[q].imm # <<>> /\ c.eo[prev] > c.eo[Head(c.inc[q].imm)])

ShouldAutoPumpQueue(c, q, wake, prev) ==
  \/ pump[q] = "AUTO"
  \/ /\ pump[q] = "AFTER_WAKEUP"
     /\ wake
     /\ prev # NoTask
     /\ ~TaskIsOlderThanQueuedTasks(c, q, prev)

\* UpdateDelayedWorkQueue and UpdateImmediateWorkQueue of one queue.
UpdateQueue(c, q, wake, prev) ==
  IF registered[q] /\ ShouldAutoPumpQueue(c, q, wake, prev)
  THEN MoveImmediate(MoveDelayed(c, q), q)
  ELSE c

\* TaskQueueManager::UpdateWorkQueues over every queue.
UpdateWorkQueues(c, wake, prev) ==
  FoldLeft(LAMBDA acc, q : UpdateQueue(acc, q, wake, prev), c, QueueOrder)

\* TaskQueueSelector over the WorkQueueSets: the work queues it may service,
\* with their tier.  In a nested run loop a work queue whose front task is
\* non-nestable is held, and selection moves on to the next candidate.
Candidates(c) ==
  {x \in UNION {{<<i, e>> : e \in c.sets[i]} : i \in Priorities} :
      ~IsNested \/ info[Head(c.wk[x[2].q][x[2].kind])].nestable}

\* The most urgent tier first, the smallest front enqueue order within it.
NotAfterByKeyOnly(x, y) == x[2].key <= y[2].key

NotAfter(x, y) == x[1] < y[1] \/ (x[1] = y[1] /\ x[2].key <= y[2].key)

SelectWorkQueueToService(cands) ==
  CHOOSE x \in cands : \A y \in cands : NotAfter(x, y)

\* !selector_.EnabledWorkQueuesEmpty()
HasMoreWorkInTopTier(c) == c.sets[0] # {}

HasMoreWork(c) == \E i \in Priorities : c.sets[i] # {}

\* The main thread is inside a task (not idle in a nested run loop), where
\* consumer-only operations run.
Running == stack # <<>> /\ Len(stack) = loopDepth

\* PushOntoImmediateIncomingQueueLocked posts a DoWork for an AUTO pumped
\* queue whose immediate incoming queue was empty.  (A variant that tests
\* the queue for being non-empty instead is used to confirm that
\* DueTasksEventuallyRun detects a lost wakeup.)
WakesMainThreadWhenNonEmpty(q) ==
  pump[q] = "AUTO" /\ incoming[q].imm # <<>>

WakesMainThread(q) == pump[q] = "AUTO" /\ incoming[q].imm = <<>>

-----------------------------------------------------------------------------
Init ==
  /\ info = [t \in TaskIds |->
               [queue |-> NoQueue, runTime |-> 0, seq |-> 0,
                delayed |-> FALSE, nestable |-> TRUE]]
  /\ eo = [t \in TaskIds |-> 0]
  /\ nextSeq = 1
  /\ posted = 0
  /\ incoming = [q \in Queues |-> [imm |-> <<>>, del |-> {}]]
  /\ work = [q \in Queues |-> [imm |-> <<>>, del |-> <<>>]]
  /\ sets = [i \in SetIndices |-> {}]
  /\ priority \in [Queues -> Priorities]     \* TaskQueue::Spec's priority
  /\ enabled = [q \in Queues |-> TRUE]
  /\ pump = [q \in Queues |-> "AUTO"]
  /\ registered = [q \in Queues |-> TRUE]
  /\ domain = [q \in Queues |-> RealTimeDomain]
  /\ now = [d \in Domains |-> 0]
  /\ wakeups = {}
  /\ doWorkPosted = FALSE
  /\ stack = <<>>
  /\ loopDepth = 1
  /\ nestedLoops = 0
  /\ controls = 0
  /\ ran = <<>>
  /\ dropped = {}

\* PostDelayedTask / PostNonNestableDelayedTask from any thread: under the
\* queue lock the task gets its sequence number; an immediate task also gets
\* it as its enqueue order and goes on the immediate incoming queue, waking
\* the main thread if the queue is AUTO pumped and that queue was empty; a
\* delayed task goes on the delayed incoming queue and a delayed DoWork is
\* scheduled for its run time.  Posting to an unregistered queue fails.
\* A Task as PostDelayedTaskImpl builds it: its desired run time on the
\* queue's time domain, sequence number and nestability; its enqueue order
\* is set later, when it reaches the immediate incoming queue.
NewTask(q, d, nestable) ==
  [queue |-> q, runTime |-> now[domain[q]] + d, seq |-> nextSeq,
   delayed |-> d # 0, nestable |-> nestable]

PostTask(q, d, nestable) ==
  /\ posted < MaxTasks
  /\ registered[q]
  /\ LET t == posted + 1 IN
     /\ posted' = t
     /\ info' = [info EXCEPT ![t] = NewTask(q, d, nestable)]
     /\ nextSeq' = nextSeq + 1
     /\ IF d = 0
        THEN /\ eo' = [eo EXCEPT ![t] = nextSeq]
             /\ incoming' = [incoming EXCEPT ![q].imm = Append(@, t)]
             /\ doWorkPosted' = (doWorkPosted \/ WakesMainThread(q))
             /\ UNCHANGED wakeups
        ELSE /\ incoming' = [incoming EXCEPT ![q].del = @ \cup {t}]
             /\ wakeups' = wakeups \cup {<<domain[q], now[domain[q]] + d>>}
             /\ UNCHANGED <<eo, doWorkPosted>>
  /\ UNCHANGED <<work, sets, priority, enabled, pump, registered, domain,
                 now, stack, loopDepth, nestedLoops, ran, dropped, controls>>

\* DoWork, up to running a task: an immediate or a due delayed DoWork runs;
\* the work queues are updated without waking AFTER_WAKEUP queues; the
\* selector picks a work queue and its front task is popped and run.
\* A DoWork is pending or due and the innermost run loop is idle.
DoWorkRunnable ==
  /\ Len(stack) = loopDepth - 1
  /\ doWorkPosted \/ \E w \in wakeups : w[2] <= now[w[1]]

RunTask ==
  /\ DoWorkRunnable
  /\ \/ /\ doWorkPosted
        /\ doWorkPosted' = FALSE
        /\ UNCHANGED wakeups
     \/ \E w \in wakeups :
          /\ w[2] <= now[w[1]]
          /\ wakeups' = wakeups \ {w}
          /\ UNCHANGED doWorkPosted
  \* (each intermediate state is bound once with \E ... \in {...})
  /\ \E c1 \in {UpdateWorkQueues(Cur, FALSE, NoTask)} :
       IF Candidates(c1) = {}
       THEN Assign(c1) /\ UNCHANGED <<stack, ran>>
       ELSE \E x \in {SelectWorkQueueToService(Candidates(c1))} :
              LET t == Head(c1.wk[x[2].q][x[2].kind])
              IN  /\ \E c2 \in {PopTask(c1, x[2].q, x[2].kind)} : Assign(c2)
                  /\ stack' = Append(stack, t)
                  /\ ran' = Append(ran, t)
  /\ UNCHANGED <<info, posted, priority, enabled, pump, registered, domain,
                 now, loopDepth, nestedLoops, dropped, controls>>

\* DoWork, after the task returns: UpdateWorkQueues with the finished task as
\* previous task (it wakes AFTER_WAKEUP queues if its queue can wake others),
\* then a continuation DoWork is posted if enabled work queues are non-empty.
DidRunTask ==
  /\ Running
  /\ LET t == Last(stack) IN
     \E c1 \in {UpdateWorkQueues(Cur, info[t].queue \in CanWake, t)} :
         /\ Assign(c1)
         /\ stack' = Front(stack)
         /\ doWorkPosted' = (doWorkPosted \/ HasMoreWork(c1))
  /\ UNCHANGED <<info, posted, priority, enabled, pump, registered, domain,
                 now, wakeups, loopDepth, nestedLoops, ran, dropped, controls>>

\* The running task starts a nested run loop (e.g. a synchronous wait).
EnterNestedLoop ==
  /\ Running
  /\ nestedLoops < MaxNestedLoops
  /\ loopDepth' = loopDepth + 1
  /\ nestedLoops' = nestedLoops + 1
  /\ UNCHANGED <<info, eo, nextSeq, posted, incoming, work, sets, priority,
                 enabled, pump, registered, domain, now, wakeups, doWorkPosted, stack,
                 ran, dropped, controls>>

ExitNestedLoopUnguarded ==
  /\ Len(stack) = loopDepth - 1
  /\ loopDepth' = loopDepth - 1
  /\ UNCHANGED <<info, eo, nextSeq, posted, incoming, work, sets, priority,
                 enabled, pump, registered, domain, now, wakeups, doWorkPosted, stack,
                 nestedLoops, ran, dropped, controls>>

\* The innermost run loop, idle between tasks, quits.
ExitNestedLoop ==
  /\ IsNested
  /\ Len(stack) = loopDepth - 1
  /\ loopDepth' = loopDepth - 1
  /\ UNCHANGED <<info, eo, nextSeq, posted, incoming, work, sets, priority,
                 enabled, pump, registered, domain, now, wakeups, doWorkPosted, stack,
                 nestedLoops, ran, dropped, controls>>

\* Consumer-only control operations run inside a task on the main thread;
\* calling one on an unregistered queue is a fatal precondition violation.
Control(q) ==
  /\ Running
  /\ registered[q]
  /\ controls < MaxControls
  /\ controls' = controls + 1

ControlUnchanged == UNCHANGED <<info, posted, now, stack, loopDepth,
                                nestedLoops, ran>>

\* SetQueuePriority: the queue's work queues move to the new tier's set.
SetQueuePriority(q, p) ==
  /\ Control(q)
  /\ p # priority[q]
  /\ Assign(IF enabled[q] THEN ChangeSetIndex(Cur, q, p) ELSE Cur)
  /\ priority' = [priority EXCEPT ![q] = p]
  /\ ControlUnchanged
  /\ UNCHANGED <<enabled, pump, registered, doWorkPosted, dropped,
                 domain, wakeups>>

\* Enable / disable: a disabled queue's work queues sit in the set the
\* selector never services; its tasks are kept.
SetQueueEnabled(q, b) ==
  /\ Control(q)
  /\ b # enabled[q]
  /\ Assign(ChangeSetIndex(Cur, q, IF b THEN priority[q] ELSE DisabledSet))
  /\ enabled' = [enabled EXCEPT ![q] = b]
  /\ ControlUnchanged
  /\ UNCHANGED <<priority, pump, registered, doWorkPosted, dropped,
                 domain, wakeups>>

\* PumpQueueLocked: move ready delayed and all immediate incoming tasks to
\* the work queues and, if allowed and there is work, post a DoWork.
PumpQueueLocked(q, mayPostDoWork) ==
  LET c1 == MoveImmediate(MoveDelayed(Cur, q), q)
  IN  /\ Assign(c1)
      /\ doWorkPosted' = (doWorkPosted \/
                          (mayPostDoWork /\ (c1.wk[q].imm # <<>> \/ c1.wk[q].del # <<>>)))

\* PumpQueue(may_post_dowork): an explicit pump.
PumpQueue(q, mayPostDoWork) ==
  /\ Control(q)
  /\ PumpQueueLocked(q, mayPostDoWork)
  /\ ControlUnchanged
  /\ UNCHANGED <<priority, enabled, pump, registered, dropped,
                 domain, wakeups>>

\* SetPumpPolicy: switching a queue to AUTO pumps its backlog first.
SetPumpPolicy(q, p) ==
  /\ Control(q)
  /\ p # pump[q]
  /\ pump' = [pump EXCEPT ![q] = p]
  /\ IF p = "AUTO" THEN PumpQueueLocked(q, TRUE)
     ELSE UNCHANGED <<incoming, work, eo, sets, nextSeq, doWorkPosted>>
  /\ ControlUnchanged
  /\ UNCHANGED <<priority, enabled, registered, dropped,
                 domain, wakeups>>

\* A variant of UnregisterTaskQueue that leaves the work queues in place.
UnregisterTaskQueueKeepingWork(q) ==
  /\ Control(q)
  /\ registered' = [registered EXCEPT ![q] = FALSE]
  /\ incoming' = [incoming EXCEPT ![q] = [imm |-> <<>>, del |-> {}]]
  /\ dropped' = dropped \cup ToSet(incoming[q].imm) \cup incoming[q].del
  /\ ControlUnchanged
  /\ UNCHANGED <<work, sets, eo, nextSeq, priority, enabled, pump,
                 doWorkPosted, domain, wakeups>>

\* UnregisterTaskQueue: the queue leaves the WorkQueueSets and its pending
\* tasks are discarded without running; later posts to it fail.
UnregisterTaskQueue(q) ==
  /\ Control(q)
  /\ registered' = [registered EXCEPT ![q] = FALSE]
  /\ incoming' = [incoming EXCEPT ![q] = [imm |-> <<>>, del |-> {}]]
  /\ work' = [work EXCEPT ![q] = [imm |-> <<>>, del |-> <<>>]]
  /\ sets' = [i \in SetIndices |-> {e \in sets[i] : e.q # q}]
  /\ dropped' = dropped \cup ToSet(incoming[q].imm) \cup incoming[q].del
                        \cup ToSet(work[q].imm) \cup ToSet(work[q].del)
  /\ ControlUnchanged
  /\ UNCHANGED <<eo, nextSeq, priority, enabled, pump, doWorkPosted,
                 domain, wakeups>>

\* SetTimeDomain: under the queue lock the queue is attached to another
\* time domain, and the wake-ups of its delayed tasks move there (the
\* design computes a queue's next wake-up through its own domain).  The
\* desired run times of the tasks already queued are not re-based.
SetTimeDomainWithoutMigration(q, d) ==
  /\ Control(q)
  /\ d # domain[q]
  /\ domain' = [domain EXCEPT ![q] = d]
  /\ ControlUnchanged
  /\ UNCHANGED <<incoming, work, eo, sets, nextSeq, priority, enabled, pump,
                 registered, doWorkPosted, dropped, wakeups>>

SetTimeDomain(q, d) ==
  /\ Control(q)
  /\ d # domain[q]
  /\ domain' = [domain EXCEPT ![q] = d]
  /\ wakeups' = wakeups \cup {<<d, info[t].runTime>> : t \in incoming[q].del}
  /\ ControlUnchanged
  /\ UNCHANGED <<incoming, work, eo, sets, nextSeq, priority, enabled, pump,
                 registered, doWorkPosted, dropped>>

\* A time domain's clock advances.
AdvanceTime(d) ==
  /\ now[d] < MaxTime
  /\ now' = [now EXCEPT ![d] = @ + 1]
  /\ UNCHANGED <<info, eo, nextSeq, posted, incoming, work, sets, priority,
                 enabled, pump, registered, domain, wakeups, doWorkPosted,
                 stack, loopDepth, nestedLoops, ran, dropped, controls>>

Next ==
  \/ \E q \in Queues, d \in Delays, n \in BOOLEAN : PostTask(q, d, n)
  \/ RunTask
  \/ DidRunTask
  \/ EnterNestedLoop
  \/ ExitNestedLoop
  \/ \E q \in Queues, p \in Priorities : SetQueuePriority(q, p)
  \/ \E q \in Queues, b \in BOOLEAN : SetQueueEnabled(q, b)
  \/ \E q \in Queues, b \in BOOLEAN : PumpQueue(q, b)
  \/ \E q \in Queues, p \in PumpPolicies : SetPumpPolicy(q, p)
  \/ \E q \in Queues : UnregisterTaskQueue(q)
  \/ \E q \in Queues, d \in Domains : SetTimeDomain(q, d)
  \/ \E d \in Domains : AdvanceTime(d)

\* The message loop runs a posted or due DoWork, a task returns, an idle
\* nested loop is eventually quit, and real time passes.  Producers and
\* control operations are not obliged to happen.  RunTask and DidRunTask are
\* enabled exactly when DoWorkRunnable and Running hold (each then has a
\* successor that changes vars), so their weak fairness is written out with
\* those guards in place of ENABLED; TLC takes it as the hypothesis of the
\* liveness properties below.
MainThreadFairness ==
  /\ []<>~DoWorkRunnable \/ []<><<RunTask>>_vars
  /\ []<>~Running \/ []<><<DidRunTask>>_vars

Fairness ==
  /\ WF_vars(ExitNestedLoop)
  /\ \A d \in Domains : WF_vars(AdvanceTime(d))

Spec == Init /\ [][Next]_vars /\ Fairness

-----------------------------------------------------------------------------
(* Properties.                                                             *)

Posted(t) == t <= posted
RanSet == Range(ran)
QueueOf(t) == info[t].queue

TypeOK ==
  /\ posted \in 0 .. MaxTasks
  /\ \A t \in TaskIds : Posted(t) =>
        info[t] \in [queue : Queues, runTime : Nat, seq : Nat,
                     delayed : BOOLEAN, nestable : BOOLEAN]
  /\ eo \in [TaskIds -> Nat]
  /\ \A q \in Queues :
        /\ incoming[q].imm \in Seq(TaskIds) /\ incoming[q].del \subseteq TaskIds
        /\ work[q].imm \in Seq(TaskIds) /\ work[q].del \in Seq(TaskIds)
  /\ sets \in [SetIndices -> SUBSET [key : Nat, q : Queues, kind : Kinds]]
  /\ priority \in [Queues -> Priorities]
  /\ enabled \in [Queues -> BOOLEAN]
  /\ pump \in [Queues -> PumpPolicies]
  /\ registered \in [Queues -> BOOLEAN]
  /\ stack \in Seq(TaskIds) /\ loopDepth \in 1 .. MaxNestedLoops + 1
  /\ domain \in [Queues -> Domains] /\ now \in [Domains -> 0 .. MaxTime]
  /\ doWorkPosted \in BOOLEAN /\ wakeups \subseteq Domains \X Nat

\* The WorkQueueSets index, maintained incrementally by pushes onto empty
\* work queues, pops, priority changes, enabling, disabling and
\* unregistering, always holds exactly one entry per non-empty work queue of
\* a registered queue, in that queue's set, keyed by the enqueue order of the
\* work queue's current front task.
WorkQueueSetsConsistent ==
  \A i \in SetIndices :
     sets[i] = {Entry(Cur, q, k) :
                  <<q, k>> \in {<<q, k>> \in Queues \X Kinds :
                                   /\ registered[q] /\ SetIndex(q) = i
                                   /\ work[q][k] # <<>>}}

\* The main thread is idle: no DoWork is pending or due, and the innermost
\* run loop has no task running.
Idle ==
  /\ Len(stack) = loopDepth - 1
  /\ ~doWorkPosted
  /\ \A w \in wakeups : w[2] > now[w[1]]

\* Work the main thread should be doing: an enabled queue's work queue whose
\* front may run in the current loop, or an AUTO queue with immediate
\* incoming tasks.
ReadyWork ==
  \/ \E q \in Queues, k \in Kinds :
        /\ registered[q] /\ enabled[q] /\ work[q][k] # <<>>
        /\ (~IsNested \/ info[Head(work[q][k])].nestable)
  \/ \E q \in Queues : registered[q] /\ pump[q] = "AUTO" /\ incoming[q].imm # <<>>

\* No lost wakeup at the top level: the main thread never sleeps outside a
\* nested loop while there is ready work (the post-if-incoming-was-empty
\* signal, the continuation DoWork and the pump on switching to AUTO are
\* enough).
TopLevelNeverIdleWithReadyWork == (Idle /\ ~IsNested) => ~ReadyWork

\* The same in a nested run loop: a nested loop never sleeps while ready,
\* nestable work waits.
NeverIdleWithReadyWork == Idle => ~ReadyWork

\* Every dispatched task was the front of the most urgent non-empty tier and,
\* within the tier, had the smallest enqueue order among the work queues that
\* may run now (judged from the work queues themselves, not the index).
DispatchesOldestReady ==
  [][Len(ran') > Len(ran) =>
       LET t  == Last(ran')
           tp == <<priority[QueueOf(t)], eo'[t]>>
       IN  /\ IsNested => info[t].nestable
           /\ \A q \in Queues, k \in Kinds :
                 (/\ registered'[q] /\ enabled'[q] /\ work'[q][k] # <<>>
                  /\ (~IsNested \/ info[Head(work'[q][k])].nestable))
                 => LET u == Head(work'[q][k])
                    IN  \/ priority'[q] > tp[1]
                        \/ priority'[q] = tp[1] /\ eo'[u] > tp[2]]_vars

\* Immediate tasks of one queue run in the order they were posted.
ImmediateTasksRunInPostOrder ==
  \A i, j \in 1 .. Len(ran) :
     (/\ i < j /\ QueueOf(ran[i]) = QueueOf(ran[j])
      /\ ~info[ran[i]].delayed /\ ~info[ran[j]].delayed)
     => info[ran[i]].seq < info[ran[j]].seq

\* Delayed tasks of one queue run in (desired run time, sequence number)
\* order, however their promotions were batched.
DelayedTasksRunInRunTimeOrder ==
  \A i, j \in 1 .. Len(ran) :
     (/\ i < j /\ QueueOf(ran[i]) = QueueOf(ran[j])
      /\ info[ran[i]].delayed /\ info[ran[j]].delayed)
     => RunsBefore(ran[i], ran[j])

\* A task posted to an enabled AUTO queue whose run time has come eventually
\* runs, unless its queue is unregistered, disabled or switched off AUTO.
DueTasksEventuallyRun ==
  MainThreadFairness =>
  \A t \in TaskIds :
     (/\ Posted(t) /\ t \notin RanSet /\ t \notin dropped
      /\ enabled[QueueOf(t)] /\ pump[QueueOf(t)] = "AUTO"
      /\ info[t].runTime <= now[domain[QueueOf(t)]])
     ~> (/\ Posted(t)
         /\ \/ t \in RanSet \/ t \in dropped \/ ~enabled[QueueOf(t)]
            \/ pump[QueueOf(t)] # "AUTO")
\* The scheduler implements the contract of TaskQueueAbstract: each post,
\* dispatch and unregistration is one of its steps, every other step leaves
\* its view unchanged.  A task is thus never dispatched twice, never after
\* its queue dropped it, and never lost on its way through the incoming
\* queues, the work queues and the WorkQueueSets; the immediate tasks of a
\* queue leave in posting order whatever pumps, priorities and nested loops
\* do in between.
Abstract == INSTANCE TaskQueueAbstract WITH
  open       <- {q \in Queues : registered[q]},
  owner      <- [t \in TaskIds |-> IF Posted(t) THEN QueueOf(t) ELSE NoQueue],
  immediate  <- {t \in TaskIds : Posted(t) /\ ~info[t].delayed},
  pending    <- {t \in TaskIds : Posted(t) /\ t \notin RanSet \cup dropped},
  dispatched <- ran

RefinesAbstractScheduler == Abstract!Spec
=============================================================================
