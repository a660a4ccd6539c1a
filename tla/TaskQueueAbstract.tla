------------------------- MODULE TaskQueueAbstract -------------------------
(***************************************************************************)
(* What the task queues promise the code that posts to them, without work  *)
(* queues, enqueue orders, pumping or DoWork: a task is posted to a queue  *)
(* that is still registered; every posted task is dispatched at most once, *)
(* or discarded when its queue is unregistered, and by nothing else; the   *)
(* immediate tasks of one queue are dispatched in the order of their      *)
(* posts.  Task ids are handed out in posting order.                       *)
(***************************************************************************)
EXTENDS Naturals, Sequences

CONSTANTS
  Queues,   \* the task queues
  TaskIds,  \* task ids, 1 .. n in posting order
  NoQueue   \* owner of a task not posted yet

VARIABLES
  open,       \* queues that accept posts: not yet unregistered
  owner,      \* t -> the queue t was posted to, NoQueue before its post
  immediate,  \* tasks posted without a delay
  pending,    \* posted tasks neither dispatched nor discarded
  dispatched  \* the tasks in the order they were dispatched

avars == <<open, owner, immediate, pending, dispatched>>

Init ==
  /\ open = Queues
  /\ owner = [t \in TaskIds |-> NoQueue]
  /\ immediate = {}
  /\ pending = {}
  /\ dispatched = << >>

\* PostTask / PostNonNestableTask: the next task id goes to an open queue.
Post(t, q, imm) ==
  /\ q \in open
  /\ owner[t] = NoQueue
  /\ \A u \in TaskIds : u < t => owner[u] # NoQueue
  /\ owner' = [owner EXCEPT ![t] = q]
  /\ pending' = pending \cup {t}
  /\ immediate' = IF imm THEN immediate \cup {t} ELSE immediate
  /\ UNCHANGED <<open, dispatched>>

\* No earlier immediate task of the same queue is still waiting.
FirstImmediateOfItsQueue(t) ==
  ~\E u \in pending \cap immediate : owner[u] = owner[t] /\ u < t

\* A pending task is dispatched: taken out and run, once.
Dispatch(t) ==
  /\ t \in pending
  /\ t \in immediate => FirstImmediateOfItsQueue(t)
  /\ pending' = pending \ {t}
  /\ dispatched' = Append(dispatched, t)
  /\ UNCHANGED <<open, owner, immediate>>

\* UnregisterTaskQueue: the queue closes and its pending tasks are dropped.
Unregister(q) ==
  /\ q \in open
  /\ open' = open \ {q}
  /\ pending' = {t \in pending : owner[t] # q}
  /\ UNCHANGED <<owner, immediate, dispatched>>

Next ==
  \/ \E t \in TaskIds, q \in Queues, imm \in BOOLEAN : Post(t, q, imm)
  \/ \E t \in TaskIds : Dispatch(t)
  \/ \E q \in Queues : Unregister(q)

Spec == Init /\ [][Next]_avars
=============================================================================
