------------------------ MODULE CacheStorageContext ------------------------
(***************************************************************************)
(* CacheStorageContextImpl: a UI-thread object whose CacheStorageManager   *)
(* lives on the IO thread.  Init and Shutdown run on the UI thread and hop *)
(* to the IO thread with BrowserThread::PostTask; the IO thread runs its   *)
(* tasks one at a time in posting order.  IO-thread clients call           *)
(* GetAllOriginsInfo and DeleteForOrigin at any time between IO tasks,     *)
(* before the manager exists, while it exists, and after it is reset.      *)
(*                                                                          *)
(* Init is called on the IO thread only where browser threads are          *)
(* collapsed (unit tests); InitThreads says which case a model covers.     *)
(* The CacheStorageManager itself is not in this tree: a request handed to *)
(* it is its responsibility from then on.                                  *)
(***************************************************************************)
EXTENDS Naturals, Sequences, TLC

CONSTANTS
  InitThreads,  \* {FALSE}: Init on the UI thread; TRUE: on the IO thread
  MaxCalls      \* bound: IO-thread client calls

ASSUME InitThreads \subseteq BOOLEAN /\ InitThreads # {}

Requests == 1 .. MaxCalls
Phases == {"constructed", "initialized", "shut_down"}
CreateTask == [op |-> "create"]
ShutdownTask == [op |-> "shutdown"]
ReplyTask(r) == [op |-> "reply", req |-> r]
Tasks == {CreateTask, ShutdownTask} \cup {ReplyTask(r) : r \in Requests}

VARIABLES
  ui,          \* where the UI thread is in the context's lifecycle
  io,          \* the IO thread's task queue
  manager,     \* cache_manager_ is non-null
  doubleCreates, \* CreateCacheStorageManager runs that found cache_manager_ set
  shutdownRan, \* ShutdownOnIO has run
  calls,       \* IO-thread client calls made
  asked,       \* the calls that were GetAllOriginsInfo
  handed,      \* GetAllOriginsInfo requests passed to the manager
  answered,    \* r -> times the context ran r's callback itself
  deletes      \* history: each DeleteForOrigin and what it found

vars == <<ui, io, manager, doubleCreates, shutdownRan, calls, asked, handed,
          answered, deletes>>

Init ==
  /\ ui = "constructed"
  /\ io = << >>
  /\ manager = FALSE
  /\ doubleCreates = 0
  /\ shutdownRan = FALSE
  /\ calls = 0
  /\ asked = {}
  /\ handed = {}
  /\ answered = [r \in Requests |-> 0]
  /\ deletes = {}

\* CreateCacheStorageManager: DCHECK(!cache_manager_), then create it.
CreateCacheStorageManager ==
  /\ doubleCreates' = IF manager THEN doubleCreates + 1 ELSE doubleCreates
  /\ manager' = TRUE

\* A variant of Init without the return after the synchronous creation.
InitContextNoReturn(onIO) ==
  /\ ui = "constructed"
  /\ ui' = "initialized"
  /\ IF onIO THEN CreateCacheStorageManager /\ io' = Append(io, CreateTask)
     ELSE io' = Append(io, CreateTask) /\ UNCHANGED <<manager, doubleCreates>>
  /\ UNCHANGED <<shutdownRan, calls, asked, handed, answered, deletes>>

\* Init (UI thread): create the manager at once if already on the IO thread,
\* otherwise post CreateCacheStorageManager to the IO thread.
InitContext(onIO) ==
  /\ ui = "constructed"
  /\ ui' = "initialized"
  /\ IF onIO THEN CreateCacheStorageManager /\ UNCHANGED io
     ELSE io' = Append(io, CreateTask) /\ UNCHANGED <<manager, doubleCreates>>
  /\ UNCHANGED <<shutdownRan, calls, asked, handed, answered, deletes>>

\* Shutdown (UI thread): post ShutdownOnIO.
Shutdown ==
  /\ ui = "initialized"
  /\ ui' = "shut_down"
  /\ io' = Append(io, ShutdownTask)
  /\ UNCHANGED <<manager, doubleCreates, shutdownRan, calls, asked, handed,
                 answered, deletes>>

\* A variant of ShutdownOnIO that forgets cache_manager_.reset().
ShutdownOnIOKeepingManager ==
  /\ shutdownRan' = TRUE
  /\ UNCHANGED manager

\* ShutdownOnIO: cache_manager_.reset().
ShutdownOnIO ==
  /\ shutdownRan' = TRUE
  /\ manager' = FALSE

\* A variant of RunIOTask that runs the front task without popping it.
RunIOTaskWithoutPop ==
  /\ io # << >>
  /\ UNCHANGED io
  /\ LET t == Head(io) IN
     CASE t = CreateTask ->
            CreateCacheStorageManager /\ UNCHANGED <<shutdownRan, answered>>
       [] t = ShutdownTask ->
            ShutdownOnIO /\ UNCHANGED <<doubleCreates, answered>>
       [] OTHER ->
            /\ answered' = [answered EXCEPT ![t.req] = @ + 1]
            /\ UNCHANGED <<manager, doubleCreates, shutdownRan>>
  /\ UNCHANGED <<ui, calls, asked, handed, deletes>>

\* The IO thread runs the task at the front of its queue.
RunIOTask ==
  /\ io # << >>
  /\ io' = Tail(io)
  /\ LET t == Head(io) IN
     CASE t = CreateTask ->
            CreateCacheStorageManager /\ UNCHANGED <<shutdownRan, answered>>
       [] t = ShutdownTask ->
            ShutdownOnIO /\ UNCHANGED <<doubleCreates, answered>>
       [] OTHER ->
            /\ answered' = [answered EXCEPT ![t.req] = @ + 1]
            /\ UNCHANGED <<manager, doubleCreates, shutdownRan>>
  /\ UNCHANGED <<ui, calls, asked, handed, deletes>>

\* A variant of GetAllOriginsInfo that returns without posting the empty
\* answer when there is no manager.
GetAllOriginsInfoDropping(r) ==
  /\ IF manager THEN handed' = handed \cup {r} /\ UNCHANGED io
     ELSE UNCHANGED <<handed, io>>

\* GetAllOriginsInfo (IO thread): without a manager, post the callback with
\* an empty list; otherwise hand it to the manager.
GetAllOriginsInfo(r) ==
  /\ IF manager THEN handed' = handed \cup {r} /\ UNCHANGED io
     ELSE io' = Append(io, ReplyTask(r)) /\ UNCHANGED handed

\* The record of a DeleteForOrigin: whether a client had already had a
\* request taken by the manager, whether Shutdown had been called on the
\* UI thread, and whether the deletion reached a manager.
DeleteRecord(r, reached) ==
  [req |-> r, seenManager |-> handed # {}, shutdownCalled |-> ui = "shut_down",
   reached |-> reached]

\* A variant of DeleteForOrigin that tests for the manager the wrong way
\* round.
DeleteForOriginInverted(r) ==
  deletes' = deletes \cup {DeleteRecord(r, ~manager)}

\* DeleteForOrigin (IO thread): passed to the manager if there is one,
\* dropped otherwise.
DeleteForOrigin(r) ==
  deletes' = deletes \cup {DeleteRecord(r, manager)}

\* An IO-thread client calls the context between two IO tasks.
ClientCall ==
  /\ calls < MaxCalls
  /\ calls' = calls + 1
  /\ \/ GetAllOriginsInfo(calls + 1) /\ asked' = asked \cup {calls + 1}
        /\ UNCHANGED deletes
     \/ DeleteForOrigin(calls + 1) /\ UNCHANGED <<io, asked, handed>>
     \* SetBlobParametersForCache: passed to the manager if there is one,
     \* dropped otherwise; the context itself is unchanged.
     \/ UNCHANGED <<io, asked, handed, deletes>>
  /\ UNCHANGED <<ui, manager, doubleCreates, shutdownRan, answered>>

Next ==
  \/ \E onIO \in InitThreads : InitContext(onIO)
  \/ Shutdown
  \/ RunIOTask
  \/ ClientCall

\* The IO thread keeps running its posted tasks.
Spec == Init /\ [][Next]_vars /\ WF_vars(RunIOTask)

-----------------------------------------------------------------------------
TypeOK ==
  /\ ui \in Phases
  /\ io \in Seq(Tasks)
  /\ manager \in BOOLEAN
  /\ doubleCreates \in Nat
  /\ shutdownRan \in BOOLEAN
  /\ calls \in 0 .. MaxCalls
  /\ asked \subseteq Requests
  /\ handed \subseteq asked
  /\ answered \in [Requests -> 0 .. 1]
  /\ deletes \subseteq [req : Requests, seenManager : BOOLEAN,
                        shutdownCalled : BOOLEAN, reached : BOOLEAN]

\* CreateCacheStorageManager's DCHECK(!cache_manager_) never fails: however
\* Init's thread check, the IO queue and client calls interleave, the
\* manager is created at most once.
NeverCreatedTwice == doubleCreates = 0

\* Once ShutdownOnIO has run on the IO thread, cache_manager_ stays null: no
\* CreateCacheStorageManager posted by Init can still be behind it in the IO
\* queue, because Init precedes Shutdown on the UI thread and the IO thread
\* runs tasks in posting order.
ManagerGoneAfterShutdown == shutdownRan => ~manager

\* DeleteForOrigin drops a deletion silently when there is no manager.
\* It never drops one in the manager's lifetime as clients see it: a
\* deletion requested after some client's request was taken by the
\* manager, and before Shutdown was called on the UI thread, reaches the
\* manager. No IO task can reset the manager between the two calls: the
\* only reset, ShutdownOnIO, is posted by Shutdown.
DeletesReachLiveManager ==
  \A d \in deletes : d.seenManager /\ ~d.shutdownCalled => d.reached

\* Every GetAllOriginsInfo is answered: its callback eventually runs on the
\* IO thread or the request was handed to a live manager.
EveryUsageRequestAnswered ==
  \A r \in Requests :
     (r \in asked) ~> (answered[r] >= 1 \/ r \in handed)
=============================================================================
